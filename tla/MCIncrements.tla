--------------------------- MODULE MCIncrements ----------------------------
(***************************************************************************)
(* Instances of Increments for TLC.                                        *)
(***************************************************************************)
EXTENDS Increments, TLC

CONSTANTS f1, f2, media, home, docs

\* Three jobs on one cassette: two with a file in common, one that has its roots
\* elsewhere.  The scan looks at each path by itself, so one file is enough.
SharedPath == [j \in Jobs |-> IF j = docs THEN {} ELSE {f1}]

\* A single job.
MediaPaths == media :> {f1, f2}
=============================================================================
