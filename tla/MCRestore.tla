----------------------------- MODULE MCRestore ------------------------------
(***************************************************************************)
(* Instances of Restore for TLC: a directory 1, the file 2 in it and the   *)
(* file 3 beside it.                                                       *)
(***************************************************************************)
EXTENDS Restore

CONSTANTS t1, t2

MCPaths == 1..3

MCParent == << 0, 1, 0 >>

OneTape == << t1 >>

TwoTapes == << t1, t2 >>
=============================================================================
