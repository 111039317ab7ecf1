----------------------------- MODULE TapeLayout -----------------------------
(***************************************************************************)
(* What lies on a cassette, as the program that writes it sees it.         *)
(*                                                                         *)
(* Every write of Lentovodets starts right behind a filemark, so a tape is *)
(* the sequence of its tape files: file i is what lies between filemarks   *)
(* i-1 and i.  A tape with K sessions is (docs/FORMAT.md, section 3)       *)
(*                                                                         *)
(*    label | index 1 | tar 1 | ... | index K | tar K | empty | empty      *)
(*                                                                         *)
(* with one filemark after each of its 2K+3 files; a cassette whose chain  *)
(* goes on carries the continuation pointer in the first of the two last   *)
(* files.  MTFSF(n) from the beginning of the tape stands at file n+1, and *)
(* a write there destroys everything from file n+1 on.                     *)
(***************************************************************************)
EXTENDS Integers, Sequences

CONSTANTS
  Tapes,    \* the cassettes; a cassette stands for its UUID too
  NoTape    \* the empty back reference

ASSUME NoTapeAssumption == NoTape \notin Tapes

-----------------------------------------------------------------------------
(* The contents of one tape file. *)

Kinds == {"empty", "label", "index", "tar", "pointer", "junk"}

\* from: UUID of the previous cassette of the chain (`continues`);
\* name: the cassette's own name (label) or the next one's (pointer).
Seg == [kind : Kinds, run : Nat, part : Nat, num : Nat,
        from : Tapes \cup {NoTape}, name : Nat]

\* What names a session on a tape: a row of the catalog has these fields.
SessionId == [tape : Tapes, num : Nat, run : Nat, part : Nat]

Blocks(kind, s, from, name) ==
  [kind |-> kind, run |-> s.run, part |-> s.part, num |-> s.num,
   from |-> from, name |-> name]

NoSession == [run |-> 0, part |-> 0, num |-> 0]

Empty == Blocks("empty", NoSession, NoTape, 0)

\* Blocks that no decoder accepts: an old index continued by a new one.
Junk == Blocks("junk", NoSession, NoTape, 0)

Label(n) == Blocks("label", NoSession, NoTape, n)

Index(s, from) == Blocks("index", s, from, 0)

Tar(s) == Blocks("tar", s, NoTape, 0)

Pointer(s, next) == Blocks("pointer", s, NoTape, next)

-----------------------------------------------------------------------------
(* Positions and writes. *)

\* Filemarks to space over from BOT to write behind n sessions: MTFSF(2n+1).
WritePos(n) == 2 * n + 1

\* A write behind filemark p: the rest of the tape is gone.
Overwrite(files, p, segs) == SubSeq(files, 1, p) \o segs

\* What a session leaves on the tape, in the order it is written: index, tar,
\* then the first file of the closing pair (with the pointer in it or empty).
SessionImage(s, f, last) == << Index(s, f), Tar(s), last, Empty >>

EodPair == << Empty, Empty >>

-----------------------------------------------------------------------------
(* What a reader finds. *)

\* Session s can be read at its place, MTFSF(2K-1), with all of its tar.
Holds(files, s) ==
  /\ s.num > 0 /\ 2 * s.num + 1 <= Len(files)
  /\ \E f \in Tapes \cup {NoTape} : files[2 * s.num] = Index(s, f)
  /\ files[2 * s.num + 1] = Tar(s)

\* A reader that takes the sessions one after another, from session 1 on,
\* gets to session j: no empty file, pointer or rubbish stops it earlier.
Reaches(files, j) ==
  \A i \in 1..j : 2 * i + 1 <= Len(files) /\ files[2 * i].kind = "index"

\* The layout of docs/FORMAT.md: blank, freshly formatted, or K sessions
\* numbered 1..K with the closing pair (2K+3 filemarks).
WellFormed(files) ==
  \/ files = << >>
  \/ Len(files) = 2 /\ files[1].kind = "label" /\ files[2] = Empty
  \/ \E K \in 0..Len(files) :
       /\ Len(files) = 2 * K + 3
       /\ files[1].kind = "label"
       /\ \A j \in 1..K : /\ files[2 * j].kind = "index"
                          /\ files[2 * j].num = j
                          /\ files[2 * j + 1].kind = "tar"
                          /\ files[2 * j + 1].run = files[2 * j].run
       /\ files[2 * K + 2].kind \in {"empty", "pointer"}
       /\ files[2 * K + 3] = Empty

\* The tape has a pointer where the index of the next session would be.
EndsInPointer(files) == Len(files) > 1 /\ files[Len(files) - 1].kind = "pointer"

\* Nothing but the label and a pointer: every session moved on.
PointerOnly(files) == Len(files) = 3 /\ EndsInPointer(files)
=============================================================================
