------------------------------- MODULE Backup -------------------------------
(***************************************************************************)
(* A backup run: internal/usecase/backup (usecase.go, span.go, verify.go)  *)
(* over the SQLite catalog and the cassettes.                              *)
(*                                                                         *)
(* A run writes the parts of one session, each on its own cassette, and    *)
(* keeps two records that must agree: the catalog (rows of sessions, saved *)
(* once their file list is in) and the tapes.  Every call of the run that  *)
(* touches either is a step of its own, so that a failing call, the        *)
(* cancellation of the run's context, the death of the process and the     *)
(* catalog commands of other users can fall between any two of them.       *)
(*                                                                         *)
(* One drive, one run at a time (the daemon's gate: module TapeGate).      *)
(***************************************************************************)
EXTENDS TapeLayout, FiniteSets

CONSTANTS
  MaxRuns,     \* bound: runs that are started
  MaxParts,    \* bound: parts the planner may cut a session into
  MaxName,     \* bound: cassette names are 1..MaxName
  Spanning,    \* the config has a capacity (capacity > 0)
  HasChanger,  \* the run was given a port.TapeChanger
  Faults       \* what may go wrong, a subset of FaultKinds

FaultKinds ==
  { "full",      \* ENOSPC while a part is written
    "write",     \* another error while a part is written
    "create",    \* CreateSession or SuggestNextName fails
    "position",  \* Rewind or MTFSF before a part is written fails
    "seek",      \* reading the previous index fails, and so does seeking back
    "delete",    \* DeleteSession fails
    "restore",   \* the old EOD cannot be put back
    "abandon",   \* the pointer cannot be written on a full cassette
    "save",      \* SaveFiles fails
    "verify",    \* the part does not read back
    "swap",      \* CloseTape, RequestNext or the formatting in it fails
    "rename",    \* the operator types a name other than the suggested one
    "cancel",    \* the context is cancelled (Ctrl-C, daemon shutdown)
    "crash",     \* the process dies
    "catalog" }  \* catalog commands (delete, prune) meanwhile

ASSUME BackupAssumption ==
  /\ MaxRuns \in Nat /\ MaxParts \in Nat \ {0} /\ MaxName \in Nat
  /\ Spanning \in BOOLEAN /\ HasChanger \in BOOLEAN
  /\ Faults \subseteq FaultKinds

VARIABLES
  closed,    \* [Tapes -> Seq(Seg)]: the tape files that end in a filemark
  open,      \* [Tapes -> Seg]: what lies behind the last filemark
  regName,   \* catalog, table tapes: [Tapes -> name], 0 = not registered
  rows,      \* catalog, table sessions
  saved,     \* the rows whose file list was saved
  phase,     \* where the run is
  run,       \* number of the current or last run (job_run_id, and time)
  outcome,   \* how each run ended
  job        \* the local state of the run: tapeState, spanPlan and spanRun

vars == << closed, open, regName, rows, saved, phase, run, outcome, job >>

media   == << closed, open >>
catalog == << regName, rows, saved >>

-----------------------------------------------------------------------------
(* Types. *)

Runs == 1..MaxRuns

\* A row of table sessions.  UNIQUE (tape_uuid, session_num).
Row == [tape : Tapes, num : Nat, run : Runs, part : Nat]

Phases == { "idle", "drop", "swap", "begin", "position", "snapshot", "write",
            "undo", "restore", "abandon", "save", "rollback" }

Outcomes == { "none", "running", "ok", "failed", "tooBig", "verify", "crashed" }

Causes == { "full", "write", "create", "position", "delete", "restore",
            "abandon", "save", "swap", "drop" }

NoRow(t) == [tape |-> t, num |-> 0, run |-> 1, part |-> 0]

\* The locals of a run:
\*   tape      the cassette in the drive
\*   isFull    FULL run: session 1, the tape starts anew
\*   parts     number of planned parts, part the one at work
\*   lastNum   sessions on the cassette before the part
\*   from      UUID of the previous part's cassette
\*   atCap     the part's budget is the whole capacity
\*   moved     the previous part had to move away with atCap
\*   created   rows committed by this run
\*   sess      the row of the part at work
\*   toDrop    rows a FULL run deletes first
\*   head, mid filemarks behind the head; it stands inside a file
\*   err       the causes joined in the error
\*   dead      the context is cancelled
Job == [tape : Tapes, isFull : BOOLEAN, parts : Nat, part : Nat, lastNum : Nat,
        from : Tapes \cup {NoTape}, atCap : BOOLEAN, moved : BOOLEAN,
        created : SUBSET Row, sess : SessionId,
        toDrop : SUBSET Row, head : Nat, mid : BOOLEAN, err : SUBSET Causes,
        dead : BOOLEAN]

TypeOK ==
  /\ closed \in [Tapes -> Seq(Seg)]
  /\ open \in [Tapes -> Seg]
  /\ regName \in [Tapes -> Nat]
  /\ rows \subseteq Row
  /\ saved \subseteq rows
  /\ phase \in Phases
  /\ run \in 0..MaxRuns
  /\ outcome \in [Runs -> Outcomes]
  /\ job \in Job

-----------------------------------------------------------------------------
(* Helpers. *)

\* readLabel finds the label of a cassette.
Labelled(t) ==
  \/ closed[t] # << >> /\ closed[t][1].kind = "label"
  \/ closed[t] = << >> /\ open[t].kind = "label"

RowsOn(t) == { r \in rows : r.tape = t }

\* lastSession: the highest session number of the cassette, 0 without rows.
IsLastNum(t, n) ==
  /\ \A r \in RowsOn(t) : r.num <= n
  /\ n = 0 \/ \E r \in RowsOn(t) : r.num = n

\* A cancelled context fails every call that takes it.
Alive == ~job.dead

Fault(k) == k \in Faults

\* NextTapeName: the numeric suffix plus one.
SuggestNextName(t) == regName[t] + 1

Finish(o) ==
  /\ phase' = "idle"
  /\ outcome' = [outcome EXCEPT ![run] = o]

GoOn(p) == phase' = p /\ UNCHANGED outcome

\* The run gives up: rollbackRun deletes what it committed.
GiveUp(causes) ==
  /\ GoOn("rollback")
  /\ job' = [job EXCEPT !.err = causes]

-----------------------------------------------------------------------------
(* Start of a run: prepare, planSpanning, and the FULL restart. *)

\* Backup on the cassette t in the drive.  The scan and the planner are
\* abstracted to their result: n parts, `new` when less than min_tail is left
\* on the cassette, `cap` when the budget of part 1 equals the capacity.
StartBackup(t, full, n, new, cap) ==
  /\ phase = "idle" /\ run < MaxRuns
  /\ Labelled(t) /\ regName[t] # 0
  /\ n > 1 => Spanning /\ HasChanger
  /\ \E last \in 0..MaxRuns :
       LET isFull == full \/ last = 0
       IN  /\ IsLastNum(t, last)
           /\ new => Spanning /\ ~isFull
           /\ isFull \/ new \/ ~Spanning => cap
           /\ run' = run + 1
           /\ outcome' = [outcome EXCEPT ![run + 1] = "running"]
           /\ job' = [tape |-> t, isFull |-> isFull, parts |-> n, part |-> 1,
                      lastNum |-> IF isFull THEN 0 ELSE last,
                      from |-> NoTape, atCap |-> cap, moved |-> FALSE,
                      created |-> {}, sess |-> NoRow(t),
                      toDrop |-> IF isFull THEN RowsOn(t) ELSE {},
                      head |-> 0, mid |-> FALSE, err |-> {}, dead |-> FALSE]
           /\ phase' = IF isFull THEN "drop"
                       ELSE IF new /\ HasChanger THEN "swap" ELSE "begin"
  /\ UNCHANGED << media, catalog >>

\* Seeded bug: deleting a session leaves its file list behind.
DropSessionWithoutCascade(r) ==
  /\ phase = "drop" /\ Alive
  /\ r \in job.toDrop /\ \A q \in job.toDrop : r.num <= q.num
  /\ r \in rows
  /\ rows' = rows \ {r}
  /\ job' = [job EXCEPT !.toDrop = @ \ {r}]
  /\ UNCHANGED << media, regName, saved, phase, run, outcome >>

\* dropSessions: the rows of the cassette go one by one, lowest number first.
DropSession(r) ==
  /\ phase = "drop" /\ Alive
  /\ r \in job.toDrop /\ \A q \in job.toDrop : r.num <= q.num
  /\ r \in rows
  /\ rows' = rows \ {r} /\ saved' = saved \ {r}
  /\ job' = [job EXCEPT !.toDrop = @ \ {r}]
  /\ UNCHANGED << media, regName, phase, run, outcome >>

\* A row that cannot be deleted (or is gone) ends the run; nothing is undone.
DropFails ==
  /\ phase = "drop" /\ job.toDrop # {}
  /\ Fault("delete") \/ job.dead \/ ~(job.toDrop \subseteq rows)
  /\ Finish("failed")
  /\ job' = [job EXCEPT !.err = {"drop"}]
  /\ UNCHANGED << media, catalog, run >>

DropDone ==
  /\ phase = "drop" /\ job.toDrop = {}
  /\ GoOn("begin")
  /\ UNCHANGED << media, catalog, run, job >>

-----------------------------------------------------------------------------
(* One part: beginPart, writePart, commit. *)

PartRow ==
  [tape |-> job.tape, run |-> run, part |-> job.part,
   num |-> IF job.isFull \/ job.lastNum = 0 THEN 1 ELSE job.lastNum + 1]

NumTaken == \E r \in rows : r.tape = job.tape /\ r.num = PartRow.num

\* beginPart: the row of the part enters the catalog before anything is
\* written to the tape.
BeginPart ==
  /\ phase = "begin" /\ Alive /\ ~NumTaken
  /\ rows' = rows \cup {PartRow}
  /\ job' = [job EXCEPT !.sess = PartRow]
  /\ GoOn("position")
  /\ UNCHANGED << media, regName, saved, run >>

BeginPartFails ==
  /\ phase = "begin"
  /\ Fault("create") \/ job.dead \/ NumTaken
  /\ GiveUp({"create"})
  /\ UNCHANGED << media, catalog, run >>

\* Seeded bug: the head goes to the last session instead of behind it.
PositionAtLastSession ==
  /\ phase = "position" /\ Alive
  /\ WritePos(job.lastNum) <= Len(closed[job.tape])
  /\ job' = [job EXCEPT !.head = IF job.lastNum > 0 THEN WritePos(job.lastNum - 1) ELSE 1,
                        !.mid = FALSE]
  /\ GoOn(IF job.lastNum > 0 THEN "snapshot" ELSE "write")
  /\ UNCHANGED << media, catalog, run >>

\* writePart, first stage: Rewind and MTFSF(2*lastNum+1).
PositionPart ==
  /\ phase = "position" /\ Alive
  /\ WritePos(job.lastNum) <= Len(closed[job.tape])
  /\ job' = [job EXCEPT !.head = WritePos(job.lastNum), !.mid = FALSE]
  /\ GoOn(IF job.lastNum > 0 THEN "snapshot" ELSE "write")
  /\ UNCHANGED << media, catalog, run >>

\* writePart returns at once; its row is not among the committed ones, so
\* rollbackRun does not see it.
PositionFails ==
  /\ phase = "position"
  /\ \/ Fault("position") \/ job.dead
     \/ WritePos(job.lastNum) > Len(closed[job.tape])
  /\ GiveUp({"position"})
  /\ UNCHANGED << media, catalog, run >>

\* fillSnapshot: three filemarks back, the previous index, one forward; when
\* any of this fails, seekWritePosition.  Either way the head is back where
\* it was.
FillSnapshot ==
  /\ phase = "snapshot"
  /\ GoOn("write")
  /\ UNCHANGED << media, catalog, run, job >>

\* ... unless the way back fails too: at BOT, or at (or inside) the previous
\* index, or behind it.  The failure is logged and the part is written.
SnapshotLosesPosition ==
  /\ phase = "snapshot" /\ Fault("seek") /\ job.head > 2
  /\ \E h \in {0, job.head - 3, job.head - 2}, m \in BOOLEAN :
       /\ m => h = job.head - 3
       /\ job' = [job EXCEPT !.head = h, !.mid = m]
  /\ GoOn("write")
  /\ UNCHANGED << media, catalog, run >>

\* What the part leaves on the tape: a part with a successor ends in the
\* pointer to it.
PartImage ==
  LET last == IF job.part < job.parts
                THEN Pointer(job.sess, SuggestNextName(job.tape)) ELSE Empty
      img  == SessionImage(job.sess, job.from, last)
  IN  IF job.mid THEN [img EXCEPT ![1] = Junk] ELSE img

\* WriteSession, WriteContinuation and closeEOD succeed.
WritePart ==
  /\ phase = "write" /\ Alive
  /\ closed' = [closed EXCEPT ![job.tape] = Overwrite(@, job.head, PartImage)]
  /\ open' = [open EXCEPT ![job.tape] = Empty]
  /\ GoOn("save")
  /\ UNCHANGED << catalog, run, job >>

\* A write fails after c files of the image: in the middle of the next one, or
\* before the tape was touched at all.
WritePartFails(cause, c, o) ==
  /\ phase = "write"
  /\ \/ cause = "full" /\ Fault("full")
     \/ cause = "write" /\ (Fault("write") \/ job.dead)
  /\ \/ UNCHANGED media
     \/ /\ c < Len(PartImage) /\ o \in {Empty, PartImage[c + 1]}
        /\ closed' = [closed EXCEPT ![job.tape] =
                        Overwrite(@, job.head, SubSeq(PartImage, 1, c))]
        /\ open' = [open EXCEPT ![job.tape] = o]
  /\ job' = [job EXCEPT !.err = {cause}]
  /\ GoOn("undo")
  /\ UNCHANGED << catalog, run >>

\* Seeded bug: the row of the failed part stays.
UndoPartKeepsRow ==
  /\ phase = "undo"
  /\ GoOn("restore")
  /\ UNCHANGED << media, catalog, run, job >>

\* After a failed write: DeleteSession of the part's row, in the run's own
\* context.
UndoPart ==
  /\ phase = "undo"
  /\ \/ /\ Alive /\ job.sess \in rows
        /\ rows' = rows \ {job.sess} /\ saved' = saved \ {job.sess}
        /\ UNCHANGED job
     \/ /\ job.dead \/ Fault("delete") \/ job.sess \notin rows
        /\ job' = [job EXCEPT !.err = @ \cup {"delete"}]
        /\ UNCHANGED << rows, saved >>
  /\ GoOn("restore")
  /\ UNCHANGED << media, regName, run >>

\* mapTapeFull returns the TapeFullError alone, whatever was joined to it.
MapTapeFull(causes) == IF "full" \in causes THEN {"full"} ELSE causes

\* canMoveAfterFull
CanMove(causes) == "full" \in causes /\ HasChanger /\ Spanning

\* Seeded bug: the loop does not remember that the last part had to move too.
AfterFailedWriteForgetsMoves(causes) ==
  IF CanMove(causes)
    THEN GoOn("abandon") /\ job' = [job EXCEPT !.err = MapTapeFull(causes)]
    ELSE GiveUp(MapTapeFull(causes))

\* Seeded bug: the part is tried again on the cassette it did not fit on.
AfterFailedWriteRetriesHere(causes) ==
  IF CanMove(causes)
    THEN GoOn("begin") /\ job' = [job EXCEPT !.err = MapTapeFull(causes)]
    ELSE GiveUp(MapTapeFull(causes))

\* What the loop does with the error of writePart: move the part to another
\* cassette (moveAfterENOSPC), or give the run up.
AfterFailedWrite(causes) ==
  IF CanMove(causes)
    THEN IF job.atCap /\ job.moved
           THEN /\ Finish("tooBig")
                /\ job' = [job EXCEPT !.err = MapTapeFull(causes)]
           ELSE /\ GoOn("abandon")
                /\ job' = [job EXCEPT !.err = MapTapeFull(causes), !.moved = job.atCap]
    ELSE GiveUp(MapTapeFull(causes))

\* Seeded bug: a part that failed half-way stays on the cassette.
RestoreEODWritesNothing ==
  /\ phase = "restore" /\ Alive
  /\ AfterFailedWrite(job.err)
  /\ UNCHANGED << media, catalog, run >>

\* restoreEOD: the closing pair again, where it was before the part.
RestoreEOD ==
  /\ phase = "restore" /\ Alive
  /\ WritePos(job.lastNum) <= Len(closed[job.tape])
  /\ closed' = [closed EXCEPT ![job.tape] = Overwrite(@, WritePos(job.lastNum), EodPair)]
  /\ open' = [open EXCEPT ![job.tape] = Empty]
  /\ AfterFailedWrite(job.err)
  /\ UNCHANGED << catalog, run >>

RestoreEODFails ==
  /\ phase = "restore"
  /\ \/ Fault("restore") \/ job.dead
     \/ WritePos(job.lastNum) > Len(closed[job.tape])
  /\ \/ UNCHANGED media
     \/ /\ WritePos(job.lastNum) <= Len(closed[job.tape]) /\ Fault("restore")
        /\ closed' = [closed EXCEPT ![job.tape] =
                        Overwrite(@, WritePos(job.lastNum), << Empty >>)]
        /\ open' = [open EXCEPT ![job.tape] = Empty]
  /\ AfterFailedWrite(job.err \cup {"restore"})
  /\ UNCHANGED << catalog, run >>

\* An empty list, which only the single part of a run may have, is never sent to
\* the database: nobody notices that the row is gone or the context cancelled.
SaveFiles ==
  /\ (Alive /\ job.sess \in rows) \/ job.parts = 1
  /\ saved' = saved \cup (rows \cap {job.sess})

\* Seeded bug: the run does not note the session for its rollback.
CommitPartUnrecorded ==
  /\ phase = "save" /\ SaveFiles
  /\ job' = [job EXCEPT !.lastNum = job.sess.num, !.moved = FALSE,
                        !.part = IF job.part < job.parts THEN @ + 1 ELSE @]
  /\ IF job.part < job.parts THEN GoOn("swap") ELSE Finish("ok")
  /\ UNCHANGED << media, regName, rows, run >>

\* commit: SaveFiles, then the bookkeeping; a part with a successor asks for
\* the next cassette.
CommitPart ==
  /\ phase = "save" /\ SaveFiles
  /\ job' = [job EXCEPT !.created = @ \cup {job.sess}, !.lastNum = job.sess.num,
                        !.moved = FALSE,
                        !.part = IF job.part < job.parts THEN @ + 1 ELSE @]
  /\ IF job.part < job.parts THEN GoOn("swap") ELSE Finish("ok")
  /\ UNCHANGED << media, regName, rows, run >>

\* verifyPart: the part does not read back, or the reading is cancelled.  The
\* session stays.
VerifyFails ==
  /\ phase = "save" /\ SaveFiles
  /\ Fault("verify") \/ Fault("cancel")
  /\ job' = [job EXCEPT !.created = @ \cup {job.sess}]
  /\ Finish("verify")
  /\ UNCHANGED << media, regName, rows, run >>

SaveFails ==
  /\ phase = "save"
  /\ Fault("save") \/ job.dead \/ job.sess \notin rows
  /\ GoOn("rollback")
  /\ job' = [job EXCEPT !.created = @ \cup {job.sess}, !.err = {"save"}]
  /\ UNCHANGED << media, catalog, run >>

-----------------------------------------------------------------------------
(* Change of cassette: rotate, moveAfterENOSPC, swap. *)

\* abandonTape: the full cassette is closed with a pointer to the next one.
MovePointer == Pointer(job.sess, SuggestNextName(job.tape))

AbandonTape ==
  /\ phase = "abandon" /\ Alive
  /\ WritePos(job.lastNum) <= Len(closed[job.tape])
  /\ closed' = [closed EXCEPT ![job.tape] =
                  Overwrite(@, WritePos(job.lastNum), << MovePointer, Empty >>)]
  /\ open' = [open EXCEPT ![job.tape] = Empty]
  /\ GoOn("swap")
  /\ UNCHANGED << catalog, run, job >>

AbandonFails(c) ==
  /\ phase = "abandon"
  /\ \/ Fault("abandon") \/ job.dead
     \/ WritePos(job.lastNum) > Len(closed[job.tape])
  /\ \/ UNCHANGED media
     \/ /\ WritePos(job.lastNum) <= Len(closed[job.tape]) /\ Fault("abandon")
        /\ closed' = [closed EXCEPT ![job.tape] =
                        Overwrite(@, WritePos(job.lastNum), SubSeq(<< MovePointer >>, 1, c))]
        /\ open' = [open EXCEPT ![job.tape] = IF c = 0 THEN MovePointer ELSE Empty]
  /\ GiveUp(job.err \cup {"abandon"})
  /\ UNCHANGED << catalog, run >>

\* RegisterTape: the name is unique in the catalog.
NameTaken(n) == \E t \in Tapes : regName[t] = n

\* The operator accepts the suggested name or, with "rename", types another.
AcceptedName(n) == n = SuggestNextName(job.tape) \/ Fault("rename")

\* Seeded bug: the new cassette does not name the one before it.
SwapWithoutBackReference(t, n) ==
  /\ phase = "swap" /\ Alive
  /\ ~Labelled(t) /\ AcceptedName(n) /\ ~NameTaken(n)
  /\ closed' = [closed EXCEPT ![t] = << Label(n), Empty >>]
  /\ open' = [open EXCEPT ![t] = Empty]
  /\ regName' = [regName EXCEPT ![t] = n]
  /\ job' = [job EXCEPT !.tape = t, !.lastNum = 0, !.atCap = TRUE]
  /\ GoOn("begin")
  /\ UNCHANGED << rows, saved, run >>

\* swap: CloseTape, then RequestNext, which formats the inserted blank
\* cassette t under the name n and registers it.
Swap(t, n) ==
  /\ phase = "swap" /\ Alive
  /\ ~Labelled(t) /\ AcceptedName(n) /\ ~NameTaken(n)
  /\ closed' = [closed EXCEPT ![t] = << Label(n), Empty >>]
  /\ open' = [open EXCEPT ![t] = Empty]
  /\ regName' = [regName EXCEPT ![t] = n]
  /\ job' = [job EXCEPT !.tape = t, !.from = job.tape, !.lastNum = 0, !.atCap = TRUE]
  /\ GoOn("begin")
  /\ UNCHANGED << rows, saved, run >>

\* The formatting stops half-way, or the label is on the cassette with its
\* closing pair (c = 2) and the registration fails.
SwapUnregistered(t, n, c) ==
  /\ phase = "swap"
  /\ ~Labelled(t) /\ AcceptedName(n)
  /\ Fault("swap") \/ job.dead \/ (c = 2 /\ NameTaken(n))
  /\ closed' = [closed EXCEPT ![t] = SubSeq(<< Label(n), Empty >>, 1, c)]
  /\ open' = [open EXCEPT ![t] = IF c = 0 THEN Label(n) ELSE Empty]
  /\ GiveUp(job.err \cup {"swap"})
  /\ UNCHANGED << catalog, run >>

\* The change fails with the cassettes as they were: the context is cancelled
\* while the run waits, or the operator inserts a cassette that has a label
\* (AlreadyFormattedError) - the one just taken out will do.
SwapFails ==
  /\ phase = "swap"
  /\ GiveUp(job.err \cup {"swap"})
  /\ UNCHANGED << media, catalog, run >>

\* rollbackRun, in a context that cannot be cancelled, row by row.
RollbackSession(r) ==
  /\ phase = "rollback"
  /\ r \in job.created /\ \A q \in job.created : r.part <= q.part
  /\ \/ rows' = rows \ {r} /\ saved' = saved \ {r}
     \/ Fault("delete") /\ UNCHANGED << rows, saved >>
  /\ job' = [job EXCEPT !.created = @ \ {r}]
  /\ UNCHANGED << media, regName, phase, run, outcome >>

RollbackDone ==
  /\ phase = "rollback" /\ job.created = {}
  /\ Finish("failed")
  /\ UNCHANGED << media, catalog, run, job >>

-----------------------------------------------------------------------------
(* The surroundings of a run. *)

Cancel ==
  /\ phase # "idle" /\ Fault("cancel") /\ Alive
  /\ job' = [job EXCEPT !.dead = TRUE]
  /\ UNCHANGED << media, catalog, phase, run, outcome >>

Crash ==
  /\ phase # "idle" /\ Fault("crash")
  /\ Finish("crashed")
  /\ UNCHANGED << media, catalog, run, job >>

\* catalog delete: one session of the catalog, while a run may be at work.
DeleteSession(r) ==
  /\ Fault("catalog") /\ r \in rows
  /\ rows' = rows \ {r} /\ saved' = saved \ {r}
  /\ UNCHANGED << media, regName, phase, run, outcome, job >>

\* catalog prune: every session older than a date; a run stands for its time.
Prune(before) ==
  /\ Fault("catalog")
  /\ LET old == { r \in rows : r.run < before }
     IN  /\ old # {}
         /\ rows' = rows \ old /\ saved' = saved \ old
  /\ UNCHANGED << media, regName, phase, run, outcome, job >>

-----------------------------------------------------------------------------
(* The specification. *)

\* One cassette is formatted and registered, the others are blank.
Init ==
  /\ \E t \in Tapes :
       /\ closed = [u \in Tapes |-> IF u = t THEN << Label(1), Empty >> ELSE << >>]
       /\ regName = [u \in Tapes |-> IF u = t THEN 1 ELSE 0]
       /\ job = [tape |-> t, isFull |-> FALSE, parts |-> 0, part |-> 0, lastNum |-> 0,
                 from |-> NoTape, atCap |-> FALSE, moved |-> FALSE, created |-> {},
                 sess |-> NoRow(t), toDrop |-> {}, head |-> 0, mid |-> FALSE,
                 err |-> {}, dead |-> FALSE]
  /\ open = [u \in Tapes |-> Empty]
  /\ rows = {} /\ saved = {}
  /\ phase = "idle" /\ run = 0
  /\ outcome = [q \in Runs |-> "none"]

\* The steps of the run itself.
Step ==
  \/ \E r \in job.toDrop : DropSession(r)
  \/ DropFails \/ DropDone
  \/ BeginPart \/ BeginPartFails
  \/ PositionPart \/ PositionFails
  \/ FillSnapshot \/ SnapshotLosesPosition
  \/ WritePart
  \/ \E cause \in {"full", "write"}, c \in 0..3 :
       \E o \in {Empty, PartImage[c + 1]} : WritePartFails(cause, c, o)
  \/ UndoPart
  \/ RestoreEOD \/ RestoreEODFails
  \/ CommitPart \/ VerifyFails \/ SaveFails
  \/ AbandonTape
  \/ \E c \in 0..1 : AbandonFails(c)
  \/ \E t \in Tapes, n \in 1..MaxName :
       Swap(t, n) \/ \E c \in 0..2 : SwapUnregistered(t, n, c)
  \/ SwapFails
  \/ \E r \in job.created : RollbackSession(r)
  \/ RollbackDone

Next ==
  \/ \E t \in Tapes, full, new, cap \in BOOLEAN, n \in 1..MaxParts :
       StartBackup(t, full, n, new, cap)
  \/ Step
  \/ Cancel \/ Crash
  \/ \E r \in rows : DeleteSession(r)
  \/ \E before \in Runs : Prune(before)

Spec == Init /\ [][Next]_vars

\* The goroutine of a run goes on as long as it can.
FairSpec == Spec /\ WF_vars(Step)

-----------------------------------------------------------------------------
(* Properties. *)

\* Whatever happens to a run, a session whose files the catalog lists is on
\* its cassette, at the place the restore will look for it (usecase.go:388-394,
\* span.go:85-92: the write position of a part and the FULL restart).
Backed == \A r \in saved : Holds(closed[r.tape], r)

\* Between runs, a reader that goes through a cassette session by session (full
\* restore, readtest, catalog rebuild) gets to every session that the catalog
\* lists: no row without data makes a later session land behind the closing
\* pair (usecase.go:405-412, the undoing of a failed part).
ReachableInSequence ==
  phase = "idle" => \A r \in saved : Reaches(closed[r.tape], r.num)

\* A run that failed leaves no session in the catalog (span.go:311-325), and
\* between runs no session is without its files.  VerifyError keeps the
\* session; the capacity error is the subject of TooBigRollsBack.
FailedRunsLeaveNothing ==
  phase = "idle" =>
    /\ rows = saved
    /\ \A r \in rows : outcome[r.run] \in {"ok", "verify", "tooBig"}

\* Between runs every registered cassette has the layout of docs/FORMAT.md
\* section 3, with its closing pair, also after parts that failed half-way
\* (usecase.go:515-540).
TapesWellFormed ==
  phase = "idle" =>
    \A t \in Tapes : regName[t] # 0 => WellFormed(closed[t]) /\ open[t] = Empty

\* From the end of cassette a a pointer leads to cassette b ...
Leads(a, b) ==
  /\ EndsInPointer(closed[a]) /\ Labelled(b) /\ b # a
  /\ closed[a][Len(closed[a]) - 1].name = closed[b][1].name

\* ... and session 1 of b names a.
NamesBack(a, b) == Len(closed[b]) > 1 /\ closed[b][2].from = a

CarriesPart(t, k) ==
  \E j \in 1..Len(closed[t]) : closed[t][j].kind = "tar"
                               /\ closed[t][j].run = run /\ closed[t][j].part = k

\* After a successful run the parts are linked in both directions, from one
\* cassette to the next or over cassettes that carry nothing but a pointer
\* (span.go:185-196, 331-353 write the pointers, 269 the back reference).
ChainLinked ==
  phase = "idle" /\ run > 0 /\ outcome[run] = "ok" =>
    \A k \in 1..(job.parts - 1) :
      \E a, b \in Tapes :
        /\ CarriesPart(a, k) /\ CarriesPart(b, k + 1)
        /\ \/ Leads(a, b) /\ NamesBack(a, b)
           \/ \E m \in Tapes : /\ PointerOnly(closed[m])
                               /\ Leads(a, m) /\ Leads(m, b) /\ NamesBack(m, b)

\* Two moves in a row at full capacity end the run (span.go:289-295): no run
\* leaves two cassettes behind that carry nothing but its pointer, the first one
\* pointing to the second.
NoWastedCassettes ==
  \A a, b \in Tapes :
    /\ PointerOnly(closed[a]) /\ PointerOnly(closed[b])
    /\ closed[a][2].run = closed[b][2].run
    => ~Leads(a, b)

-----------------------------------------------------------------------------
(* What the comments say and the code does not do: each is refuted by a run. *)

\* moveAfterENOSPC rolls the run back when the move fails (span.go:158, 288).
TooBigRollsBack ==
  \A q \in Runs : outcome[q] = "tooBig" => \A r \in rows : r.run # q

\* writePart takes its session out of the catalog again when any stage of it
\* fails (usecase.go:375-377): the positioning, and a stage that fails because
\* the context was cancelled, included.
WriteFailureRollsBack ==
  phase = "idle" /\ job.err \cap {"position", "write"} # {} => job.sess \notin rows

\* Reading the previous index for the deduplication "does not affect the write"
\* (usecase.go:428-429, 466-470): after a run that reports success every session
\* that the catalog lists on its cassette is there.
DedupLeavesWriteAlone ==
  phase = "idle" /\ run > 0 /\ outcome[run] = "ok" =>
    \A r \in saved : r.tape = job.tape => Holds(closed[r.tape], r)

-----------------------------------------------------------------------------
(* Liveness. *)

\* A started run comes to its end: the part that is tried again after ENOSPC
\* (span.go:160) is not tried for ever.
RunEnds == phase # "idle" ~> phase = "idle"
=============================================================================
