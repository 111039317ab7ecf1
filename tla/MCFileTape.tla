----------------------------- MODULE MCFileTape -----------------------------
(* Three sessions of up to two tar blocks on a tape that holds two short   *)
(* ones, or one long one, and on a tape without a limit; two formats, two  *)
(* failed writes and two kills.                                            *)
EXTENDS FileTape
=============================================================================
