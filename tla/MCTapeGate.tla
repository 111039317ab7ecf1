---------------------------- MODULE MCTapeGate -----------------------------
(***************************************************************************)
(* Instances of TapeGate for TLC.                                          *)
(***************************************************************************)
EXTENDS TapeGate

CONSTANTS o1, o2, p1, k1, k2, s1, d1, d2
=============================================================================
