------------------------------ MODULE FileTape ------------------------------
(***************************************************************************)
(* A tape in a file (internal/adapter/filetape) under the programs that    *)
(* write and read it: format, one part of a backup with the look back at   *)
(* the previous index, the repair of the closing pair after a failure, the *)
(* reading of a session (usecase/format, usecase/backup, tapeformat).      *)
(*                                                                         *)
(* The file is modelled record by record, with what a write that fails     *)
(* half-way leaves behind it; the descriptor has its own idea of the head, *)
(* of the size and of the capacity used.  The host may fail a write, the   *)
(* process may be killed between any two operations, the tape may be full. *)
(*                                                                         *)
(* A program is the list of tape operations it still has to make.          *)
(***************************************************************************)
EXTENDS Naturals, Sequences, SequencesExt, FiniteSetsExt

CONSTANTS
  Limits,      \* what the tape is opened with: OpenCapacity's limit, or 0
               \* for Open, which sets none
  BlockSize,   \* what a data block costs of it (a filemark costs 1)
  MaxTar,      \* bound: data blocks of a session's tar
  MaxRuns,     \* bound: sessions attempted
  MaxReads,    \* bound: sessions read
  MaxFormats,  \* bound: formats
  MaxFails,    \* bound: writes the host fails
  MaxKills     \* bound: kills of the process

ASSUME FileTapeAssumption ==
  /\ {MaxRuns, MaxReads, MaxFormats, MaxFails, MaxKills} \subseteq Nat
  /\ Limits \subseteq Nat /\ Limits # {}
  /\ {BlockSize, MaxTar} \subseteq Nat \ {0}

VARIABLES
  file,      \* the records in the file, torn ones included
  open,      \* whether a descriptor is open
  pos,       \* t.pos: records before the head
  size,      \* t.size: records the descriptor believes in
  capacity,  \* t.capacity
  used,      \* t.used
  out,       \* what the last tape operation returned
  task,      \* the program that runs: "none" or one of Tasks
  todo,      \* the operations it still has to make
  done,      \* the sessions that are on the tape for the catalog
  labelled,  \* no format has begun to write since `done` was right
  settled,   \* the last program that wrote came to its end
  count      \* how often the bounded things have happened

tapeVars == <<file, open, pos, size, capacity, used, out>>
vars == <<file, open, pos, size, capacity, used, out,
          task, todo, done, labelled, settled, count>>

-----------------------------------------------------------------------------
(* Records and programs.                                                   *)

Mark == <<"mark">>
Label == <<"data", 0, "label", 1>>
Index(s) == <<"data", s, "index", 1>>
Tar(s, k) == <<"data", s, "tar", k>>
Sessions == [id : 1..MaxRuns, tar : 1..MaxTar]
Blocks == {Label} \cup {Index(s) : s \in 1..MaxRuns} \cup {Tar(s, k) : s \in 1..MaxRuns, k \in 1..MaxTar}

\* The beginning of a record, or the rest of one after the record written
\* over its beginning: longer than a filemark's header, or not.
Short == <<"torn", "short">>
Long == <<"torn", "long">>
Torn == {Short, Long}

Cost(rec) == IF rec = Mark THEN 1 ELSE BlockSize

Rewind == [op |-> "rewind", n |-> 0, rec |-> Mark]
Forward(n) == [op |-> "forward", n |-> n, rec |-> Mark]
Backward(n) == [op |-> "backward", n |-> n, rec |-> Mark]
Write(rec) == [op |-> "write", n |-> 0, rec |-> rec]
ReadOne == [op |-> "block", n |-> 0, rec |-> Mark]       \* one ReadBlock
ReadFile == [op |-> "file", n |-> 0, rec |-> Mark]       \* ReadBlock until io.EOF

\* What WriteSession puts on the tape: the index and the tar, a mark after each.
Segments(s) == <<Index(s.id), Mark>> \o [k \in 1..s.tar |-> Tar(s.id, k)] \o <<Mark>>

WriteAll(recs) == [i \in DOMAIN recs |-> Write(recs[i])]

closeEOD == <<Write(Mark), Write(Mark)>>

\* SEEDED BUG, for a mutant only: behind the first mark of the closing pair.
seekClosingMark == <<Rewind, Forward(2 * Len(done) + 2)>>

\* MTREW and MTFSF(2K+1): behind the mark of the last session's tar.
seekWritePosition == <<Rewind, Forward(2 * Len(done) + 1)>>

\* Three marks back to the previous index, and forward over its tar's mark.
prevJobConfigHash == IF done = <<>> THEN <<>> ELSE <<Backward(3), ReadFile, Forward(1)>>

WritePart(s) == WriteAll(Segments(s)) \o closeEOD

\* SEEDED BUG: one mark instead of the pair.
restoreOneMark == seekWritePosition \o <<Write(Mark)>>

restoreEOD == seekWritePosition \o closeEOD
FormatProgram == <<Rewind, ReadOne, Rewind, Write(Label)>> \o closeEOD
ReadProgram(i) == <<Rewind, Forward(2 * i - 1), ReadFile, ReadFile>>

Tasks == {"format", "backup", "undo", "read"}

-----------------------------------------------------------------------------
(* The descriptor.                                                         *)

\* The records recordAt can make out: all before the first torn one.
Readable(n) ==
  LET torn == {i \in 1..n : file[i] \in Torn}
  IN  IF torn = {} THEN n ELSE Min(torn) - 1

\* usageUpTo; it fails at a torn record.
UsageFails(n) == Readable(n) < n
UsageUpTo(n) == MapThenSumSet(LAMBDA i : Cost(file[i]), 1..n)

\* SEEDED BUG: the tail that the write destroys still counts.
BaseWithTail == used

\* What the capacity is counted from before a write.
Base == IF capacity > 0 /\ pos < size THEN UsageUpTo(pos) ELSE used

Fits(rec) == capacity = 0 \/ Base + Cost(rec) <= capacity

\* What is in the file behind the descriptor's size.
Rest == SubSeq(file, size + 1, Len(file))

\* Truncate is only called when the head is not at the end.
Kept == IF pos < size THEN <<>> ELSE Rest

\* The file behind the head after a record written over `rest`, wholly or
\* in part; a data record is longer than anything torn.
AfterWhole(rec, rest) ==
  IF rec = Mark /\ rest = <<Long>> THEN {<<Long>>, <<Short>>} ELSE {<<>>}
AfterPart(rec, rest) ==
  {rest} \cup IF rest = <<Long>> THEN {}
              ELSE IF rec = Mark THEN {<<Short>>} ELSE {<<Short>>, <<Long>>}

\* SEEDED BUG: the tail is not cut off.
AppendedInPlace(rec) ==
  SubSeq(file, 1, pos) \o <<rec>> \o SubSeq(file, pos + 2, size)

\* The records up to the head and the one written there.
Appended(rec) == Append(SubSeq(file, 1, pos), rec)

AppendWhole(rec) ==
  /\ Fits(rec)
  /\ \E rest \in AfterWhole(rec, Kept) : file' = Appended(rec) \o rest
  /\ pos' = pos + 1
  /\ size' = Len(Appended(rec))
  /\ used' = IF capacity > 0 THEN Base + Cost(rec) ELSE used
  /\ out' = <<"ok">>
  /\ UNCHANGED capacity

AppendFull(rec) ==
  /\ ~Fits(rec)
  /\ out' = <<"full">>
  /\ UNCHANGED <<file, pos, size, capacity, used>>

\* Truncate fails, or WriteAt does after some of the bytes; `used` stays.
AppendFails(rec) ==
  /\ Fits(rec)
  /\ \/ /\ pos < size
        /\ UNCHANGED <<file, size>>
     \/ /\ \E rest \in AfterPart(rec, Kept) : file' = SubSeq(file, 1, pos) \o rest
        /\ size' = pos
  /\ out' = <<"error">>
  /\ UNCHANGED <<pos, capacity, used>>

ReadBlock ==
  /\ IF pos >= size
     THEN out' = <<"eof">> /\ UNCHANGED pos
     ELSE IF Readable(size) = pos
     THEN out' = <<"error">> /\ UNCHANGED pos
     ELSE /\ out' = IF file[pos + 1] = Mark THEN <<"eof">> ELSE file[pos + 1]
          /\ pos' = pos + 1
  /\ UNCHANGED <<file, size, capacity, used>>

\* The place just after the n-th mark from `from` on, or 0: recordAt stops
\* the search at a torn record.
NthMark(from, n) ==
  LET marks == {i \in (from + 1)..Readable(size) : file[i] = Mark}
      nth == {i \in marks : Cardinality({j \in marks : j <= i}) = n}
  IN  IF nth = {} THEN 0 ELSE Min(nth)

\* The place just after the n-th mark backwards from the head, or 0.
NthMarkBack(n) ==
  LET marks == {i \in 1..pos : file[i] = Mark}
      nth == {i \in marks : Cardinality({j \in marks : j >= i}) = n}
  IN  IF nth = {} THEN 0 ELSE Min(nth)

MoveTo(i) ==
  /\ pos' = IF i = 0 THEN pos ELSE i
  /\ out' = IF i = 0 THEN <<"error">> ELSE <<"ok">>
  /\ UNCHANGED <<file, size, capacity, used>>

ForwardFilemarks(n) == MoveTo(NthMark(pos, n))
BackwardFilemarks(n) == MoveTo(NthMarkBack(n))

RewindTape == pos' = 0 /\ out' = <<"ok">> /\ UNCHANGED <<file, size, capacity, used>>

-----------------------------------------------------------------------------
(* Opening, the programs and their steps.                                  *)

Counted(what, max) ==
  /\ count[what] < max
  /\ count' = [count EXCEPT ![what] = @ + 1]

\* Open and OpenCapacity: the head at BOT, the size from the file system,
\* the usage counted anew; a torn record makes OpenCapacity fail.
OpenTape(limit) ==
  /\ ~open
  /\ IF limit > 0 /\ UsageFails(Len(file))
     THEN out' = <<"error">> /\ UNCHANGED <<open, pos, size, capacity, used>>
     ELSE /\ open' = TRUE
          /\ pos' = 0
          /\ size' = Len(file)
          /\ capacity' = limit
          /\ used' = IF limit > 0 THEN UsageUpTo(Len(file)) ELSE 0
          /\ out' = <<"ok">>
  /\ UNCHANGED <<file, task, todo, done, labelled, settled, count>>

\* The process dies; what it had in hand is gone, the file stays.
Kill ==
  /\ open
  /\ Counted("kill", MaxKills)
  /\ open' = FALSE
  /\ task' = "none" /\ todo' = <<>>
  /\ UNCHANGED <<file, pos, size, capacity, used, out, done, labelled, settled>>

Start(t, program) ==
  /\ open /\ task = "none"
  /\ task' = t /\ todo' = program
  /\ UNCHANGED <<tapeVars, done, labelled, settled>>

StartFormat == Counted("format", MaxFormats) /\ Start("format", FormatProgram)

\* The session is identified by the number of the attempt.
StartBackup ==
  /\ labelled
  /\ Counted("run", MaxRuns)
  /\ \E tar \in 1..MaxTar :
       Start("backup", seekWritePosition \o prevJobConfigHash
                         \o WritePart([id |-> count.run + 1, tar |-> tar]))

StartRead ==
  /\ labelled
  /\ Counted("read", MaxReads)
  /\ \E i \in DOMAIN done : Start("read", ReadProgram(i))

Op == Head(todo)
Writing == Op.op = "write"

\* The operation succeeded (or, for a file, gave one more block): go on.
Advance ==
  /\ todo' = IF Op.op = "file" /\ out' # <<"eof">> THEN todo ELSE Tail(todo)
  /\ UNCHANGED <<task, done, labelled, settled, count>>

\* The session whose part the program writes, from its last tar block.
Attempt == [id |-> count.run,
            tar |-> Cardinality({k \in 1..MaxTar : Tar(count.run, k) \in ToSet(file)})]

\* The operation was the last of the program.
Finish ==
  /\ task' = "none" /\ todo' = <<>>
  /\ settled' = (settled \/ task # "read")
  /\ done' = CASE task = "format" -> <<>>
               [] task = "backup" -> Append(done, Attempt)
               [] OTHER -> done
  /\ labelled' = (labelled \/ task = "format")
  /\ UNCHANGED count

\* The operation failed.  writePart undoes a part that it failed to write;
\* every other failure but one of the look back ends the program.
GiveUp ==
  /\ IF task = "backup" /\ Writing
     THEN task' = "undo" /\ todo' = restoreEOD
     ELSE task' = "none" /\ todo' = <<>>
  /\ UNCHANGED <<done, labelled, settled, count>>

\* A write: from here on the tape is not settled, and a label is at stake
\* as soon as a format writes.
Touch ==
  /\ settled' = FALSE
  /\ labelled' = (labelled /\ task # "format")

WriteGoesOn ==
  /\ task # "none" /\ Writing
  /\ AppendWhole(Op.rec)
  /\ IF Len(todo) = 1
     THEN Finish
     ELSE Touch /\ todo' = Tail(todo) /\ UNCHANGED <<task, done, count>>
  /\ UNCHANGED open

WriteFull ==
  /\ task # "none" /\ Writing
  /\ AppendFull(Op.rec)
  /\ GiveUp
  /\ UNCHANGED open

\* The host fails the write (disk full, I/O error).
WriteFails ==
  /\ task # "none" /\ Writing
  /\ count.fail < MaxFails
  /\ AppendFails(Op.rec)
  /\ Touch
  /\ count' = [count EXCEPT !.fail = @ + 1]
  /\ IF task = "backup"
     THEN task' = "undo" /\ todo' = restoreEOD
     ELSE task' = "none" /\ todo' = <<>>
  /\ UNCHANGED <<open, done>>

TapeStep ==
  CASE Op.op = "rewind"   -> RewindTape
    [] Op.op = "forward"  -> ForwardFilemarks(Op.n)
    [] Op.op = "backward" -> BackwardFilemarks(Op.n)
    [] OTHER              -> ReadBlock

\* The backup looks back at the previous index, or has given that up and
\* seeks once more the place it is going to write at.
LooksBack ==
  /\ task = "backup" /\ done # <<>>
  /\ Op \in {Backward(3), ReadFile, Forward(1)}
SeeksAgain ==
  /\ task = "backup" /\ done # <<>>
  /\ Op = seekWritePosition[2] /\ Head(Tail(todo)).op = "write"

\* The look back is only for the size of the index: prevJobConfigHash goes
\* to its place by the long way.
LookBackEnds ==
  /\ todo' = seekWritePosition \o
               SubSeq(todo, CASE Op = Backward(3) -> 4 [] Op = ReadFile -> 3 [] OTHER -> 2, Len(todo))
  /\ UNCHANGED <<task, done, labelled, settled, count>>

\* fillSnapshot only logs an error of the look back, of the second seek too,
\* and writePart writes on from where the head then is.
MoveOrRead ==
  /\ task # "none" /\ ~Writing
  /\ TapeStep
  /\ CASE out' = <<"error">> /\ LooksBack                 -> LookBackEnds
       [] out' = <<"error">> /\ ~(LooksBack \/ SeeksAgain) -> GiveUp
       [] OTHER ->
            IF Len(todo) = 1 /\ (Op.op = "file" => out' = <<"eof">>) THEN Finish ELSE Advance
  /\ UNCHANGED open

\* The previous index does not decode or has no hash.
DedupGivesUp ==
  /\ LooksBack /\ Op = ReadFile
  /\ LookBackEnds
  /\ UNCHANGED tapeVars

Init ==
  /\ file = <<>> /\ open = FALSE
  /\ pos = 0 /\ size = 0 /\ capacity = 0 /\ used = 0 /\ out = <<"none">>
  /\ task = "none" /\ todo = <<>>
  /\ done = <<>> /\ labelled = FALSE /\ settled = FALSE
  /\ count = [run |-> 0, read |-> 0, format |-> 0, fail |-> 0, kill |-> 0]

Next ==
  \/ \E limit \in Limits : OpenTape(limit)
  \/ Kill
  \/ StartFormat
  \/ StartBackup
  \/ StartRead
  \/ WriteGoesOn
  \/ WriteFull
  \/ WriteFails
  \/ MoveOrRead
  \/ DedupGivesUp

Spec == Init /\ [][Next]_vars

-----------------------------------------------------------------------------
(* Properties.                                                             *)

\* Every variable has its type, and the head is never past the records the
\* descriptor can read.
TypeOK ==
  /\ \A i \in DOMAIN file : file[i] \in Blocks \cup {Mark} \cup Torn
  /\ open \in BOOLEAN /\ labelled \in BOOLEAN /\ settled \in BOOLEAN
  /\ size \in 0..Len(file)
  /\ pos \in 0..Readable(size)
  /\ capacity \in Limits \cup {0} /\ used \in Nat
  /\ out \in {<<"none">>, <<"ok">>, <<"eof">>, <<"full">>, <<"error">>} \cup Blocks
  /\ task \in Tasks \cup {"none"}
  /\ done \in Seq(Sessions)

\* The label, its mark and the sessions the catalog knows.
Committed == <<Label, Mark>> \o FlattenSeq([i \in DOMAIN done |-> Segments(done[i])])

\* A session that a backup reported as written stays on the tape, block for
\* block, whatever happens to the programs that come after it: a part that
\* runs out of tape, a write the host fails half-way, a kill at any point, a
\* repair of the closing pair that fails too, a look back at the previous
\* index (usecase/backup writePart, restoreEOD, prevJobConfigHash over
\* filetape appendLocked).
SessionsKept == labelled => IsPrefix(Committed, file)

\* After a format, a part or a repair that came to its end the tape is the
\* label, the sessions and a closing pair, and no remains of a failed part
\* are read as a session: behind the pair there is at most a torn record of
\* a write the host failed (FORMAT 4; closeEOD, restoreEOD).
SettledTapeIsWhole ==
  settled =>
    \E pair \in {<<Mark>>, <<Mark, Mark>>} :
      /\ IsPrefix(Committed \o pair, file)
      /\ (pair = <<Mark>>) => done = <<>>
      /\ LET rest == SubSeq(file, Len(Committed \o pair) + 1, Len(file))
         IN  rest = <<>> \/ (count.fail > 0 /\ rest \in {<<Short>>, <<Long>>})

\* A tape opened with a limit takes a write only when the records then fit
\* into it, whatever failed before; and as long as the host failed no write
\* it refuses one only when they would not, the tail that the write destroys
\* not counted (filetape appendLocked, usageUpTo, OpenCapacity).
CapacityKept ==
  [][capacity > 0 =>
       /\ WriteGoesOn => UsageUpTo(size)' <= capacity
       /\ (WriteFull /\ count.fail = 0) => UsageUpTo(pos) + Cost(Op.rec) > capacity]_vars

\* The file behaves like the tape the use cases are written against: what
\* is readable of the file is the tape, a write cuts the tail off and puts
\* one record at the head, a failed one costs nothing before the head, the
\* operations that space over marks stop where they should, a kill and a
\* new open lose nothing (filetape against port.Tape and testutil.FakeTape).
T == INSTANCE Tape WITH items <- SubSeq(file, 1, Readable(size))
ImplementsTape == T!Spec
=============================================================================
