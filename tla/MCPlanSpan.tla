---------------------------- MODULE MCPlanSpan -----------------------------
(***************************************************************************)
(* Instances of PlanSpan for TLC.                                          *)
(***************************************************************************)
EXTENDS PlanSpan, TLC

\* Sizes of the five files; 0 stands for a file that is not in the session.
Sizes == [ {"x", "y", "z", "w", "k"} -> 0..2 ]

Dir(p)     == << [path |-> p, kind |-> "dir", size |-> 0] >>
File(p, n) == IF n = 0 THEN << >> ELSE << [path |-> p, kind |-> "file", size |-> n] >>
Gone(p)    == << [path |-> p, kind |-> "gone", size |-> 0] >>

\* A tree in the order of the scanner's walk, and a tombstone behind it.  The
\* files r/b/w and r/k come back to a directory the walk has left for a
\* subdirectory.
Tree(s) ==
     Dir(<<"r">>)
  \o Dir(<<"r", "a">>) \o File(<<"r", "a", "x">>, s["x"]) \o File(<<"r", "a", "y">>, s["y"])
  \o Dir(<<"r", "b">>)
  \o Dir(<<"r", "b", "c">>) \o File(<<"r", "b", "c", "z">>, s["z"])
  \o File(<<"r", "b", "w">>, s["w"])
  \o File(<<"r", "k">>, s["k"])
  \o Gone(<<"r", "a", "v">>)

\* What the scanner hands over where the directories are as in the session before.
Increment(s) == SelectSeq(Tree(s), LAMBDA e : e.kind # "dir")

Trees == { Tree(s) : s \in Sizes } \cup { Increment(s) : s \in { z \in Sizes : z["k"] = 0 } }

\* The tree from its top, and a root inside another one.
NestedRoots == { <<"r">>, <<"r", "b">> }
=============================================================================
