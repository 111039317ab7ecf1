-------------------------------- MODULE Tape --------------------------------
(***************************************************************************)
(* What port.Tape promises to the use cases (internal/port/tape.go), in    *)
(* the form of the double they are tested against, FakeTape                *)
(* (internal/testutil/faketape.go): a sequence of data blocks and          *)
(* filemarks and a head before one of them.  The abstract specification    *)
(* that FileTape implements.                                               *)
(*                                                                         *)
(* FakeTape never fails.  A device does: a refused write changes nothing,  *)
(* one that fails half-way may cost what stood at and behind the head but  *)
(* never anything before it, and a read at the end of the data may be an   *)
(* error instead of io.EOF.                                                *)
(***************************************************************************)
EXTENDS Naturals, Sequences, FiniteSetsExt

CONSTANTS
  Blocks,   \* the data blocks that may be on a tape
  Mark      \* a filemark

VARIABLES
  items,    \* what is on the tape, in order
  pos,      \* how many items stand before the head
  out       \* what the last operation returned

vars == <<items, pos, out>>

MarkPositions == {i \in DOMAIN items : items[i] = Mark}

Init == items = <<>> /\ pos = 0 /\ out = <<"none">>

ReadBlock ==
  /\ IF pos < Len(items)
     THEN /\ pos' = pos + 1
          /\ out' = IF items[pos + 1] = Mark THEN <<"eof">> ELSE items[pos + 1]
     ELSE /\ UNCHANGED pos
          /\ out' \in {<<"eof">>, <<"error">>}
  /\ UNCHANGED items

Write(item) ==
  /\ items' = Append(SubSeq(items, 1, pos), item)
  /\ pos' = pos + 1
  /\ out' = <<"ok">>

WriteRefused ==
  /\ out' \in {<<"full">>, <<"error">>}
  /\ UNCHANGED <<items, pos>>

WriteSpoils ==
  /\ items' = SubSeq(items, 1, pos)
  /\ out' = <<"error">>
  /\ UNCHANGED pos

\* The n-th filemark at or behind the head, the n-th before it; 0 if none.
Ahead(n) ==
  LET marks == {i \in MarkPositions : i > pos}
  IN  IF Cardinality(marks) < n THEN 0
      ELSE CHOOSE i \in marks : Cardinality({j \in marks : j <= i}) = n

Behind(n) ==
  LET marks == {i \in MarkPositions : i <= pos}
  IN  IF Cardinality(marks) < n THEN 0
      ELSE CHOOSE i \in marks : Cardinality({j \in marks : j >= i}) = n

\* The head goes to just after mark i; with no such mark it stays.
SpaceTo(i) ==
  /\ pos' = IF i = 0 THEN pos ELSE i
  /\ out' = IF i = 0 THEN <<"error">> ELSE <<"ok">>
  /\ UNCHANGED items

ForwardFilemarks(n) == SpaceTo(Ahead(n))
BackwardFilemarks(n) == SpaceTo(Behind(n))

Rewind == pos' = 0 /\ out' = <<"ok">> /\ UNCHANGED items

\* At most as many marks as there are items can be asked for with success.
Next ==
  \/ ReadBlock
  \/ \E item \in Blocks \cup {Mark} : Write(item)
  \/ WriteRefused
  \/ WriteSpoils
  \/ \E n \in 1..(Len(items) + 1) : ForwardFilemarks(n) \/ BackwardFilemarks(n)
  \/ Rewind

Spec == Init /\ [][Next]_vars
=============================================================================
