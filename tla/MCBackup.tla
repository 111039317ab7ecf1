----------------------------- MODULE MCBackup ------------------------------
(***************************************************************************)
(* Instances of Backup for TLC.                                            *)
(***************************************************************************)
EXTENDS Backup, TLC

CONSTANTS t1, t2, t3

\* Cassettes are interchangeable: only equality of cassettes matters.
Symm == Permutations(Tapes)
=============================================================================
