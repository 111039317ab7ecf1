------------------------------ MODULE PlanSpan ------------------------------
(***************************************************************************)
(* The planner that cuts a session into parts, one per cassette:           *)
(* internal/domain/span.go.                                                *)
(*                                                                         *)
(* A path is the sequence of its segments, "/" is << >>.  The loop over    *)
(* the files is a state machine, one step per file; the input is chosen in *)
(* the initial state.                                                      *)
(***************************************************************************)
EXTENDS Integers, SequencesExt

CONSTANTS
  FileLists,   \* what the scanner may hand over
  Roots,       \* the roots of the job: a set of paths
  Budgets,     \* budgets of a part, 0 = spanning is off
  Depths       \* values of span_depth

\* What the scanner tells of a path, as far as the planner looks at it.
FileMeta == [path : Seq(STRING), kind : {"dir", "goneDir", "file", "gone", "link"}, size : Nat]

ASSUME PlanSpanAssumption ==
  /\ FileLists \subseteq Seq(FileMeta)
  /\ Budgets \subseteq Nat /\ Depths \subseteq Nat

VARIABLES
  files, budget, depth,    \* the arguments
  next,                    \* index of the file the loop is at
  parts,                   \* closed parts
  cur,                     \* the part at work
  used,                    \* what cur costs
  curKey,                  \* group at the end of cur
  groupStart,              \* where in cur it began, 0 = it did not begin there
  result                   \* "planning", "planned" or "tooLarge"

input == << files, budget, depth >>
vars  == << input, next, parts, cur, used, curKey, groupStart, result >>

-----------------------------------------------------------------------------
(* Entries. *)

IsDir(e) == e.kind \in {"dir", "goneDir"}

\* spanCost: only regular files go to the tar with their contents.
SpanCost(e) == IF e.kind = "file" THEN e.size ELSE 0

SpanTotal(part) == MapThenSumSet(LAMBDA i : SpanCost(part[i]), DOMAIN part)

-----------------------------------------------------------------------------
(* Groups. *)

RootsOf(p) == { r \in Roots : IsPrefix(r, p) }

LongestRoot(p) == CHOOSE r \in RootsOf(p) : \A q \in RootsOf(p) : Len(q) <= Len(r)

\* A path under no root is a group of its own.
Outside == << "NUL" >>

\* GroupKey: the ancestor `depth` levels below the root, or the path itself where
\* the tree is not so deep.
GroupKey(p) ==
  IF RootsOf(p) = {} THEN Outside \o p
  ELSE LET len == Len(LongestRoot(p)) + depth
       IN  SubSeq(p, 1, IF Len(p) < len THEN Len(p) ELSE len)

\* entryGroup: a directory is in the group of its own path, a file in the group
\* of its directory.
EntryGroup(e) == GroupKey(IF IsDir(e) \/ e.path = << >> THEN e.path ELSE Front(e.path))

Grouped == budget > 0 /\ depth > 0

\* groupStats: what a whole group costs.
GroupOf(key)    == { i \in DOMAIN files : EntryGroup(files[i]) = key }
GroupTotal(key) == MapThenSumSet(LAMBDA i : SpanCost(files[i]), GroupOf(key))

-----------------------------------------------------------------------------
(* The loop. *)

Entry == files[next]
Key   == IF Grouped THEN EntryGroup(Entry) ELSE << >>
Cost  == SpanCost(Entry)

\* Seeded bug: a part never uses the budget up.
FitsWithRoomLeft == budget = 0 \/ Cost < budget - used

Fits == budget = 0 \/ Cost <= budget - used

Init ==
  /\ files \in FileLists /\ budget \in Budgets /\ depth \in Depths
  /\ next = 1 /\ parts = << >> /\ cur = << >> /\ used = 0
  /\ curKey = << >> /\ groupStart = 0
  /\ result = "planning"

Planning == result = "planning" /\ next <= Len(files)

TooLarge ==
  /\ Planning /\ budget > 0 /\ Cost > budget
  /\ result' = "tooLarge"
  /\ UNCHANGED << input, next, parts, cur, used, curKey, groupStart >>

\* push
Push ==
  /\ Planning /\ Fits
  /\ cur' = Append(cur, Entry) /\ used' = used + Cost
  /\ IF Grouped /\ (groupStart = 0 \/ Key # curKey)
       THEN curKey' = Key /\ groupStart' = Len(cur) + 1
       ELSE UNCHANGED << curKey, groupStart >>
  /\ next' = next + 1
  /\ UNCHANGED << input, parts, result >>

\* The group at work fits on a cassette as a whole.
CanMoveGroup == Grouped /\ groupStart > 0 /\ Key = curKey /\ GroupTotal(Key) <= budget

\* Seeded bug: the group is looked for in the part without its first entry.
RollbackGroupOffByOne ==
  /\ Planning /\ Cost <= budget /\ ~Fits /\ CanMoveGroup
  /\ parts' = Append(parts, SubSeq(cur, 1, groupStart))
  /\ cur' = Append(SubSeq(cur, groupStart + 1, Len(cur)), Entry)
  /\ used' = SpanTotal(cur')
  /\ groupStart' = 1
  /\ next' = next + 1
  /\ UNCHANGED << input, curKey, result >>

\* Seeded bug: the entry that did not fit is left out.
RollbackGroupWithoutEntry ==
  /\ Planning /\ Cost <= budget /\ ~Fits /\ CanMoveGroup
  /\ parts' = IF groupStart > 1 THEN Append(parts, SubSeq(cur, 1, groupStart - 1)) ELSE parts
  /\ cur' = SubSeq(cur, groupStart, Len(cur))
  /\ used' = SpanTotal(cur')
  /\ groupStart' = 1
  /\ next' = next + 1
  /\ UNCHANGED << input, curKey, result >>

\* rollbackGroup: the group moves to the next part, with the entry that did not
\* fit.
RollbackGroup ==
  /\ Planning /\ Cost <= budget /\ ~Fits /\ CanMoveGroup
  /\ parts' = IF groupStart > 1 THEN Append(parts, SubSeq(cur, 1, groupStart - 1)) ELSE parts
  /\ cur' = Append(SubSeq(cur, groupStart, Len(cur)), Entry)
  /\ used' = SpanTotal(cur')
  /\ groupStart' = 1
  /\ next' = next + 1
  /\ UNCHANGED << input, curKey, result >>

\* Seeded bug: the entry that starts the new part is not counted.
CutWithoutCost ==
  /\ Planning /\ Cost <= budget /\ ~Fits /\ ~CanMoveGroup
  /\ parts' = Append(parts, cur) /\ cur' = << Entry >> /\ used' = 0
  /\ curKey' = Key /\ groupStart' = IF Grouped THEN 1 ELSE 0
  /\ next' = next + 1
  /\ UNCHANGED << input, result >>

\* cut, and push into the new part.
Cut ==
  /\ Planning /\ Cost <= budget /\ ~Fits /\ ~CanMoveGroup
  /\ parts' = Append(parts, cur) /\ cur' = << Entry >> /\ used' = Cost
  /\ curKey' = Key /\ groupStart' = IF Grouped THEN 1 ELSE 0
  /\ next' = next + 1
  /\ UNCHANGED << input, result >>

Done ==
  /\ result = "planning" /\ next > Len(files)
  /\ result' = "planned" /\ parts' = Append(parts, cur)
  /\ UNCHANGED << input, next, cur, used, curKey, groupStart >>

Next == TooLarge \/ Push \/ RollbackGroup \/ Cut \/ Done

Spec == Init /\ [][Next]_vars

-----------------------------------------------------------------------------
(* Properties. *)

TypeOK ==
  /\ next \in 1..(Len(files) + 1)
  /\ used \in Nat /\ groupStart \in 0..Len(cur)
  /\ result \in {"planning", "planned", "tooLarge"}

AllParts == IF result = "planned" THEN parts ELSE Append(parts, cur)

\* The parts are the files in scanner order, none lost, twice or moved past
\* another one, also when a group is moved to the next part (span.go:157-170).
ScannerOrder == FlattenSeq(AllParts) = SubSeq(files, 1, next - 1)

\* Every part fits into the budget, and `used` is what the part at work costs
\* (span.go:108-127); a file that cannot fit anywhere ends the planning before
\* anything is written.
PartsFit ==
  /\ used = SpanTotal(cur)
  /\ budget > 0 => \A k \in DOMAIN AllParts : SpanTotal(AllParts[k]) <= budget
  /\ result = "planned" => \A i \in DOMAIN files : budget = 0 \/ SpanCost(files[i]) <= budget

\* The entries of a group follow one another in the file list.
Contiguous(key) ==
  \A i, j \in DOMAIN files :
    EntryGroup(files[i]) = key /\ EntryGroup(files[j]) = key
      => \A m \in i..j : EntryGroup(files[m]) = key

\* A group that fits on a cassette is on one cassette (span.go:89-103), if the
\* walk does not leave it and come back.
GroupsStayWhole ==
  Grouped => \A k, m \in DOMAIN AllParts : \A i \in DOMAIN AllParts[k], j \in DOMAIN AllParts[m] :
    LET key == EntryGroup(AllParts[k][i])
    IN  key = EntryGroup(AllParts[m][j]) /\ GroupTotal(key) <= budget /\ Contiguous(key)
          => k = m

\* No cassette is changed without need: what the next part begins with did not
\* fit on the one before.
NoNeedlessCut ==
  \A k \in 1..(Len(AllParts) - 1) :
    /\ AllParts[k] # << >>
    /\ SpanTotal(AllParts[k]) + SpanTotal(AllParts[k + 1]) > budget

\* A group that moves leaves something behind: rollbackGroup asks whether what is
\* before the group is empty (span.go:161), and it never is.
MoveLeavesAHead == [][RollbackGroup => groupStart > 1]_vars
=============================================================================
