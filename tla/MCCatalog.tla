----------------------------- MODULE MCCatalog -----------------------------
(***************************************************************************)
(* Instances of Catalog for TLC.                                           *)
(***************************************************************************)
EXTENDS Catalog, TLC

CONSTANTS c1, c2, n1, n2

\* Only equality of cassettes and of names matters.
Symm == Permutations(Names) \cup Permutations(Cassettes)
=============================================================================
