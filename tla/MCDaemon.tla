------------------------------ MODULE MCDaemon ------------------------------
(* Daemon for TLC: two clients at one address, neither of which has the    *)
(* API key, so that both have to log in; one task in each life of the      *)
(* daemon, two cassettes asked for.                                        *)
EXTENDS Daemon, TLC

CONSTANTS c1, c2, ip1, t1

OneAddress == [c \in Clients |-> ip1]

\* Clients at one address that have no key can be told apart by nothing.
Interchangeable == Permutations(Clients)
=============================================================================
