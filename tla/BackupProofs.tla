---------------------------- MODULE BackupProofs ----------------------------
(***************************************************************************)
(* Theorems about a backup run, for every number of cassettes, runs, parts *)
(* and names, and for every set of faults unless a theorem says otherwise. *)
(***************************************************************************)
EXTENDS Backup, SequenceTheorems, TLAPS

-----------------------------------------------------------------------------
(* Tape files, and writing over them. *)

\* Everything the program writes is a tape file.
LEMMA SegTypes ==
  ASSUME NEW s \in SessionId, NEW from \in Tapes \cup {NoTape}, NEW n \in Nat
  PROVE  /\ Label(n) \in Seg
         /\ Index(s, from) \in Seg /\ Tar(s) \in Seg /\ Pointer(s, n) \in Seg
BY DEF SessionId, Empty, Junk, Label, Index, Tar, Pointer, Blocks, NoSession, Seg, Kinds

LEMMA BlankSegTypes == Empty \in Seg /\ Junk \in Seg
BY DEF Empty, Junk, Blocks, NoSession, Seg, Kinds

LEMMA KindsOfSegs ==
  ASSUME NEW s, NEW from, NEW n
  PROVE  /\ Empty.kind = "empty" /\ Junk.kind = "junk" /\ Label(n).kind = "label"
         /\ Index(s, from).kind = "index" /\ Tar(s).kind = "tar"
         /\ Pointer(s, n).kind = "pointer"
BY DEF Empty, Junk, Label, Index, Tar, Pointer, Blocks

\* A prefix of a sequence of tape files.
LEMMA PrefixFacts ==
  ASSUME NEW segs \in Seq(Seg), NEW c \in 0..Len(segs)
  PROVE  /\ SubSeq(segs, 1, c) \in Seq(Seg)
         /\ Len(SubSeq(segs, 1, c)) = c
         /\ \A i \in 1..c : SubSeq(segs, 1, c)[i] = segs[i]
<1>1. Len(segs) \in Nat /\ c \in Int
  BY LenProperties
<1>2. \A i \in 1..c : segs[i] \in Seg
  BY <1>1, ElementOfSeq
<1> QED
  BY <1>1, <1>2, SubSeqProperties

\* A write behind filemark p keeps the first p files, and what was written
\* follows them.
LEMMA OverwriteFacts ==
  ASSUME NEW files \in Seq(Seg), NEW p \in 0..Len(files), NEW segs \in Seq(Seg)
  PROVE  /\ Overwrite(files, p, segs) \in Seq(Seg)
         /\ Len(Overwrite(files, p, segs)) = p + Len(segs)
         /\ \A i \in 1..p : Overwrite(files, p, segs)[i] = files[i]
         /\ \A i \in 1..Len(segs) : Overwrite(files, p, segs)[p + i] = segs[i]
<1> DEFINE kept == SubSeq(files, 1, p)
<1>1. /\ kept \in Seq(Seg) /\ Len(kept) = p
      /\ \A i \in 1..p : kept[i] = files[i]
  BY PrefixFacts
<1>2. Len(segs) \in Nat /\ p \in Nat /\ Len(files) \in Nat
  BY LenProperties
<1>3. /\ kept \o segs \in Seq(Seg)
      /\ Len(kept \o segs) = Len(kept) + Len(segs)
      /\ \A i \in 1..(Len(kept) + Len(segs)) :
           (kept \o segs)[i] = IF i <= Len(kept) THEN kept[i] ELSE segs[i - Len(kept)]
  BY <1>1, ConcatProperties
<1> HIDE DEF kept
<1>4. Overwrite(files, p, segs) = kept \o segs
  BY DEF Overwrite, kept
<1> QED
  BY <1>1, <1>2, <1>3, <1>4, SMTT(40)

\* A session whose files lie before the place of a write stays readable.
LEMMA OverwriteKeepsSessions ==
  ASSUME NEW files \in Seq(Seg), NEW segs \in Seq(Seg),
         NEW s \in SessionId, NEW n \in Nat,
         s.num <= n, WritePos(n) <= Len(files), Holds(files, s)
  PROVE  Holds(Overwrite(files, WritePos(n), segs), s)
<1> DEFINE p == WritePos(n)
<1>1. p \in 0..Len(files) /\ s.num \in Nat /\ 2 * s.num + 1 <= p
  BY LenProperties DEF WritePos, SessionId
<1>2. /\ Len(Overwrite(files, p, segs)) = p + Len(segs) /\ Len(segs) \in Nat
      /\ \A i \in 1..p : Overwrite(files, p, segs)[i] = files[i]
  BY <1>1, OverwriteFacts, LenProperties
<1> DEFINE new == Overwrite(files, p, segs)
<1>3. s.num > 0 /\ 2 * s.num \in 1..p /\ 2 * s.num + 1 \in 1..p
  BY <1>1 DEF Holds
<1>4. /\ new[2 * s.num] = files[2 * s.num]
      /\ new[2 * s.num + 1] = files[2 * s.num + 1]
      /\ 2 * s.num + 1 <= Len(new)
  BY <1>1, <1>2, <1>3, SMTT(40)
<1> HIDE DEF new
<1>5. Holds(new, s)
  BY <1>3, <1>4 DEF Holds
<1> QED
  BY <1>5 DEF new

\* A session written behind n sessions can be read as number n + 1.
LEMMA OverwriteHoldsNew ==
  ASSUME NEW files \in Seq(Seg), NEW n \in Nat, WritePos(n) <= Len(files),
         NEW segs \in Seq(Seg), Len(segs) >= 2,
         NEW s, s.num = n + 1, NEW f \in Tapes \cup {NoTape},
         segs[1] = Index(s, f), segs[2] = Tar(s)
  PROVE  Holds(Overwrite(files, WritePos(n), segs), s)
<1> DEFINE p == WritePos(n)
           new == Overwrite(files, p, segs)
<1>1. p \in 0..Len(files) /\ p = 2 * n + 1 /\ Len(segs) \in Nat
  BY LenProperties DEF WritePos
<1>2. /\ Len(new) = p + Len(segs)
      /\ \A i \in 1..Len(segs) : new[p + i] = segs[i]
  BY <1>1, OverwriteFacts
<1> HIDE DEF new, p
<1>3. 1 \in 1..Len(segs) /\ 2 \in 1..Len(segs)
  BY <1>1
<1>4. new[p + 1] = Index(s, f) /\ new[p + 2] = Tar(s)
  BY <1>2, <1>3
<1>5. /\ s.num > 0 /\ 2 * s.num = p + 1 /\ 2 * s.num + 1 = p + 2
      /\ 2 * s.num + 1 <= Len(new)
  BY <1>1, <1>2
<1>6. Holds(new, s)
  BY <1>4, <1>5 DEF Holds
<1> QED
  BY <1>6 DEF new, p

-----------------------------------------------------------------------------
(* Type correctness. *)

\* The run has a number, the row at work is a row, and the head is behind a
\* filemark the cassette has.
RunNumbered == phase # "idle" => run \in Runs

SessIsRow ==
  phase \in {"position", "snapshot", "write", "undo", "restore", "abandon", "save"}
    => job.sess \in Row

HeadOnTape == phase \in {"snapshot", "write"} => job.head <= Len(closed[job.tape])

TInv == TypeOK /\ RunNumbered /\ SessIsRow /\ HeadOnTape

LEMMA RowIsSessionId == Row \subseteq SessionId
BY BackupAssumption DEF Row, SessionId, Runs

\* What writePart puts on the cassette.
LEMMA PartImageFacts ==
  ASSUME TypeOK
  PROVE  /\ PartImage \in Seq(Seg) /\ Len(PartImage) = 4
         /\ ~job.mid => /\ PartImage[1] = Index(job.sess, job.from)
                        /\ PartImage[2] = Tar(job.sess)
<1> DEFINE last == IF job.part < job.parts
                     THEN Pointer(job.sess, SuggestNextName(job.tape)) ELSE Empty
           img  == SessionImage(job.sess, job.from, last)
<1>1. /\ job.sess \in SessionId /\ job.from \in Tapes \cup {NoTape}
      /\ SuggestNextName(job.tape) \in Nat
  BY DEF TypeOK, Job, SuggestNextName
<1>2. /\ Index(job.sess, job.from) \in Seg /\ Tar(job.sess) \in Seg
      /\ last \in Seg /\ Empty \in Seg /\ Junk \in Seg
  BY <1>1, SegTypes, BlankSegTypes
<1> HIDE DEF last
<1>3. /\ img \in Seq(Seg) /\ Len(img) = 4
      /\ img[1] = Index(job.sess, job.from) /\ img[2] = Tar(job.sess)
  BY <1>2 DEF SessionImage
<1> HIDE DEF img
<1>4. [img EXCEPT ![1] = Junk] \in Seq(Seg) /\ Len([img EXCEPT ![1] = Junk]) = 4
  BY <1>2, <1>3, ExceptSeq
<1>5. PartImage = IF job.mid THEN [img EXCEPT ![1] = Junk] ELSE img
  BY DEF PartImage, img, last
<1> QED
  BY <1>3, <1>4, <1>5

\* A write on one cassette keeps the types.
LEMMA MediaTypes ==
  ASSUME TypeOK, NEW t \in Tapes, NEW files \in Seq(Seg), NEW o \in Seg,
         closed' = [closed EXCEPT ![t] = files], open' = [open EXCEPT ![t] = o]
  PROVE  closed' \in [Tapes -> Seq(Seg)] /\ open' \in [Tapes -> Seg]
BY DEF TypeOK

LEMMA WritePosType == ASSUME TypeOK PROVE WritePos(job.lastNum) \in Nat
BY DEF TypeOK, Job, WritePos

LEMMA TypeInit == ASSUME Init PROVE TInv
<1> PICK t \in Tapes :
      /\ closed = [u \in Tapes |-> IF u = t THEN << Label(1), Empty >> ELSE << >>]
      /\ regName = [u \in Tapes |-> IF u = t THEN 1 ELSE 0]
      /\ job = [tape |-> t, isFull |-> FALSE, parts |-> 0, part |-> 0, lastNum |-> 0,
                from |-> NoTape, atCap |-> FALSE, moved |-> FALSE, created |-> {},
                sess |-> NoRow(t), toDrop |-> {}, head |-> 0, mid |-> FALSE,
                err |-> {}, dead |-> FALSE]
  BY DEF Init
<1>1. NoRow(t) \in SessionId
  BY DEF NoRow, SessionId
<1>2. Label(1) \in Seg /\ Empty \in Seg
  BY <1>1, SegTypes, BlankSegTypes
<1>3. << Label(1), Empty >> \in Seq(Seg) /\ << >> \in Seq(Seg)
  BY <1>2
<1>4. closed \in [Tapes -> Seq(Seg)] /\ open \in [Tapes -> Seg]
  BY <1>2, <1>3 DEF Init
<1>5. regName \in [Tapes -> Nat]
  OBVIOUS
<1>6. job \in Job
  BY <1>1 DEF Job
<1> QED
  BY <1>4, <1>5, <1>6, BackupAssumption
  DEF Init, TInv, TypeOK, RunNumbered, SessIsRow, HeadOnTape, Phases, Outcomes, Runs

\* Where the run goes after a failed write: the three ways AfterFailedWrite takes.
LEMMA AfterFailedWriteTypes ==
  ASSUME TypeOK, RunNumbered, job.sess \in Row, phase = "restore",
         NEW causes \in SUBSET Causes, AfterFailedWrite(causes),
         closed' \in [Tapes -> Seq(Seg)], open' \in [Tapes -> Seg],
         UNCHANGED << catalog, run >>
  PROVE  TInv'
<1>1. MapTapeFull(causes) \in SUBSET Causes
  BY DEF MapTapeFull
<1>2. /\ job' \in Job /\ job'.sess = job.sess
      /\ \/ phase' \in {"abandon", "rollback"} /\ UNCHANGED outcome
         \/ phase' = "idle" /\ outcome' = [outcome EXCEPT ![run] = "tooBig"]
  BY <1>1, ZenonT(60) DEF AfterFailedWrite, GiveUp, GoOn, Finish, TypeOK, Job
<1> QED
  BY <1>2 DEF TInv, TypeOK, RunNumbered, SessIsRow, HeadOnTape, catalog, Phases, Outcomes

\* Every step keeps the types.
LEMMA TypeStep ==
  ASSUME TInv, [Next]_vars
  PROVE  TInv'
<1> USE DEF TInv
<1>a. /\ job \in Job /\ job.tape \in Tapes /\ job.lastNum \in Nat /\ job.part \in Nat
      /\ job.head \in Nat /\ job.sess \in SessionId /\ rows \subseteq Row
      /\ saved \subseteq rows /\ run \in 0..MaxRuns /\ regName \in [Tapes -> Nat]
      /\ closed \in [Tapes -> Seq(Seg)] /\ open \in [Tapes -> Seg]
      /\ outcome \in [Runs -> Outcomes] /\ phase \in Phases
      /\ WritePos(job.lastNum) \in Nat
  BY WritePosType DEF TypeOK, Job
<1>b. Empty \in Seg /\ << Empty >> \in Seq(Seg) /\ EodPair \in Seq(Seg)
  BY BlankSegTypes DEF EodPair
<1>e. ASSUME WritePos(job.lastNum) <= Len(closed[job.tape])
      PROVE  /\ closed[job.tape] \in Seq(Seg)
             /\ WritePos(job.lastNum) \in 0..Len(closed[job.tape])
  BY <1>e, <1>a, LenProperties
<1>c. MaxRuns \in Nat /\ Row \subseteq SessionId
  BY BackupAssumption, RowIsSessionId
<1>1. ASSUME NEW t \in Tapes, NEW full \in BOOLEAN, NEW n \in 1..MaxParts,
             NEW new \in BOOLEAN, NEW cap \in BOOLEAN, StartBackup(t, full, n, new, cap)
      PROVE  TInv'
  <2> PICK last \in 0..MaxRuns :
        LET isFull == full \/ last = 0
        IN  /\ run' = run + 1
            /\ outcome' = [outcome EXCEPT ![run + 1] = "running"]
            /\ job' = [tape |-> t, isFull |-> isFull, parts |-> n, part |-> 1,
                       lastNum |-> IF isFull THEN 0 ELSE last,
                       from |-> NoTape, atCap |-> cap, moved |-> FALSE,
                       created |-> {}, sess |-> NoRow(t),
                       toDrop |-> IF isFull THEN RowsOn(t) ELSE {},
                       head |-> 0, mid |-> FALSE, err |-> {}, dead |-> FALSE]
            /\ phase' = IF isFull THEN "drop"
                        ELSE IF new /\ HasChanger THEN "swap" ELSE "begin"
    BY <1>1 DEF StartBackup
  <2>1. NoRow(t) \in SessionId /\ RowsOn(t) \subseteq Row
    BY <1>a DEF NoRow, SessionId, RowsOn
  <2>2. job' \in Job
    BY <2>1, <1>c, BackupAssumption DEF Job
  <2>3. run < MaxRuns /\ UNCHANGED << media, catalog >>
    BY <1>1 DEF StartBackup
  <2>4. run' \in Runs /\ phase' \in {"drop", "swap", "begin"}
    BY <2>3, <1>a, <1>c DEF Runs
  <2> QED
    BY <2>2, <2>3, <2>4, <1>a, SMTT(60)
    DEF TypeOK, RunNumbered, SessIsRow, HeadOnTape, media, catalog, Phases, Outcomes, Runs
<1>2. ASSUME NEW r \in job.toDrop, DropSession(r) PROVE TInv'
  BY <1>2, <1>a
  DEF DropSession, Job, TypeOK, RunNumbered, SessIsRow, HeadOnTape, media
<1>3. CASE DropFails
  BY <1>3, <1>a
  DEF DropFails, Finish, Job, Causes, TypeOK, RunNumbered, SessIsRow, HeadOnTape, media,
      catalog, Phases, Outcomes
<1>4. CASE DropDone
  BY <1>4, <1>a
  DEF DropDone, GoOn, TypeOK, RunNumbered, SessIsRow, HeadOnTape, media, catalog, Phases
<1>5. CASE BeginPart
  <2>1. run \in Runs
    BY <1>5 DEF BeginPart, RunNumbered
  <2>2. PartRow \in Row
    BY <2>1, <1>a DEF PartRow, Row
  <2>3. job' \in Job
    BY <2>2, <1>5, <1>a, <1>c DEF BeginPart, Job
  <2> QED
    BY <2>1, <2>2, <2>3, <1>5, <1>a
    DEF BeginPart, GoOn, TypeOK, RunNumbered, SessIsRow, HeadOnTape, media, Phases
<1>6. CASE BeginPartFails
  BY <1>6, <1>a
  DEF BeginPartFails, GiveUp, GoOn, Job, Causes, TypeOK, RunNumbered, SessIsRow,
      HeadOnTape, media, catalog, Phases
<1>7. CASE PositionPart
  <2>1. job' \in Job
    BY <1>7, <1>a DEF PositionPart, Job
  <2> QED
    BY <2>1, <1>7, <1>a
    DEF PositionPart, GoOn, TypeOK, RunNumbered, SessIsRow, HeadOnTape, media,
        catalog, Phases, Job
<1>8. CASE PositionFails
  BY <1>8, <1>a
  DEF PositionFails, GiveUp, GoOn, Job, Causes, TypeOK, RunNumbered, SessIsRow,
      HeadOnTape, media, catalog, Phases
<1>9. CASE FillSnapshot
  BY <1>9, <1>a
  DEF FillSnapshot, GoOn, TypeOK, RunNumbered, SessIsRow, HeadOnTape, media, catalog, Phases
<1>10. CASE SnapshotLosesPosition
  <2> PICK h \in {0, job.head - 3, job.head - 2}, m \in BOOLEAN :
        job' = [job EXCEPT !.head = h, !.mid = m]
    BY <1>10 DEF SnapshotLosesPosition
  <2>1. job.head <= Len(closed[job.tape]) /\ job.head > 2 /\ Len(closed[job.tape]) \in Nat
    BY <1>10, <1>a, LenProperties DEF SnapshotLosesPosition, HeadOnTape
  <2>2. h \in Nat /\ h <= Len(closed[job.tape])
    BY <2>1, <1>a, SMTT(60)
  <2>3. job' \in Job /\ job'.tape = job.tape /\ job'.head = h /\ job'.sess = job.sess
    BY <2>2, <1>a DEF Job
  <2> QED
    BY <2>2, <2>3, <1>10, <1>a
    DEF SnapshotLosesPosition, GoOn, TypeOK, RunNumbered, SessIsRow, HeadOnTape, media,
        catalog, Phases
<1>11. CASE WritePart
  <2>1. job.head \in 0..Len(closed[job.tape])
    BY <1>11, <1>a, LenProperties DEF WritePart, HeadOnTape
  <2>2. Overwrite(closed[job.tape], job.head, PartImage) \in Seq(Seg)
    BY <2>1, <1>a, PartImageFacts, OverwriteFacts
  <2>3. closed' \in [Tapes -> Seq(Seg)] /\ open' \in [Tapes -> Seg]
    BY <2>2, <1>11, <1>a, <1>b, MediaTypes DEF WritePart
  <2> QED
    BY <2>3, <1>11, <1>a
    DEF WritePart, GoOn, TypeOK, RunNumbered, SessIsRow, HeadOnTape, catalog, Phases
<1>12. ASSUME NEW cause \in {"full", "write"}, NEW c \in 0..3,
              NEW o \in {Empty, PartImage[c + 1]}, WritePartFails(cause, c, o)
       PROVE  TInv'
  <2>1. job.head \in 0..Len(closed[job.tape])
    BY <1>12, <1>a, LenProperties DEF WritePartFails, HeadOnTape
  <2>2. /\ PartImage \in Seq(Seg) /\ c \in 0..Len(PartImage) /\ o \in Seg
    <3>1. PartImage \in Seq(Seg) /\ Len(PartImage) = 4
      BY PartImageFacts
    <3>2. PartImage[c + 1] \in Seg
      <4>1. c + 1 \in 1..Len(PartImage)
        BY <3>1
      <4> QED
        BY <3>1, <4>1, ElementOfSeq
    <3>3. c \in 0..Len(PartImage)
      BY <3>1
    <3> QED
      BY <3>1, <3>2, <3>3, <1>b
  <2>3. Overwrite(closed[job.tape], job.head, SubSeq(PartImage, 1, c)) \in Seq(Seg)
    BY <2>1, <2>2, <1>a, PrefixFacts, OverwriteFacts
  <2>4. closed' \in [Tapes -> Seq(Seg)] /\ open' \in [Tapes -> Seg]
    <3>1. CASE UNCHANGED media
      BY <3>1, <1>a DEF media
    <3>2. CASE /\ closed' = [closed EXCEPT ![job.tape] =
                               Overwrite(@, job.head, SubSeq(PartImage, 1, c))]
               /\ open' = [open EXCEPT ![job.tape] = o]
      BY <3>2, <2>2, <2>3, <1>a, <1>b, MediaTypes
    <3> QED
      BY <3>1, <3>2, <1>12 DEF WritePartFails
  <2>5. job' \in Job /\ job'.sess = job.sess
    BY <1>12, <1>a DEF WritePartFails, Job, Causes
  <2> QED
    BY <2>4, <2>5, <1>12, <1>a
    DEF WritePartFails, GoOn, TypeOK, RunNumbered, SessIsRow, HeadOnTape, catalog, Phases
<1>13. CASE UndoPart
  <2>1. job' \in Job /\ job'.sess = job.sess
    BY <1>13, <1>a DEF UndoPart, Job, Causes
  <2>2. rows' \subseteq Row /\ saved' \subseteq rows'
    BY <1>13, <1>a DEF UndoPart
  <2> QED
    BY <2>1, <2>2, <1>13, <1>a
    DEF UndoPart, GoOn, TypeOK, RunNumbered, SessIsRow, HeadOnTape, media, Phases
<1>14. CASE RestoreEOD
  <2>1. Overwrite(closed[job.tape], WritePos(job.lastNum), EodPair) \in Seq(Seg)
    BY <1>14, <1>e, <1>b, OverwriteFacts DEF RestoreEOD
  <2>2. closed' \in [Tapes -> Seq(Seg)] /\ open' \in [Tapes -> Seg]
    BY <2>1, <1>14, <1>a, <1>b, MediaTypes DEF RestoreEOD
  <2>3. /\ job.sess \in Row /\ phase = "restore" /\ job.err \in SUBSET Causes
        /\ AfterFailedWrite(job.err) /\ UNCHANGED << catalog, run >>
    BY <1>14, <1>a DEF RestoreEOD, SessIsRow, Job
  <2> QED
    BY <2>2, <2>3, AfterFailedWriteTypes
<1>15. CASE RestoreEODFails
  <2>1. closed' \in [Tapes -> Seq(Seg)] /\ open' \in [Tapes -> Seg]
    <3>1. CASE UNCHANGED media
      BY <3>1, <1>a DEF media
    <3>2. CASE /\ WritePos(job.lastNum) <= Len(closed[job.tape])
               /\ closed' = [closed EXCEPT ![job.tape] =
                               Overwrite(@, WritePos(job.lastNum), << Empty >>)]
               /\ open' = [open EXCEPT ![job.tape] = Empty]
      <4>1. Overwrite(closed[job.tape], WritePos(job.lastNum), << Empty >>) \in Seq(Seg)
        BY <3>2, <1>e, <1>b, OverwriteFacts
      <4> QED
        BY <4>1, <3>2, <1>a, <1>b, MediaTypes
    <3> QED
      BY <3>1, <3>2, <1>15 DEF RestoreEODFails
  <2>2. /\ job.sess \in Row /\ phase = "restore" /\ UNCHANGED << catalog, run >>
        /\ job.err \cup {"restore"} \in SUBSET Causes
        /\ AfterFailedWrite(job.err \cup {"restore"})
    BY <1>15, <1>a DEF RestoreEODFails, SessIsRow, Job, Causes
  <2> QED
    BY <2>1, <2>2, AfterFailedWriteTypes
<1>16. CASE CommitPart
  <2>1. job' \in Job
    <3> DEFINE created == job.created \cup {job.sess}
               part == IF job.part < job.parts THEN job.part + 1 ELSE job.part
    <3>1. created \in SUBSET Row /\ part \in Nat /\ job.sess.num \in Nat
      BY <1>16, <1>a, SMTT(40) DEF CommitPart, SessIsRow, Job, SessionId
    <3>2. job' = [job EXCEPT !.created = created, !.lastNum = job.sess.num, !.moved = FALSE,
                             !.part = part]
      BY <1>16 DEF CommitPart
    <3> HIDE DEF created, part
    <3> QED
      BY <3>1, <3>2, <1>a DEF Job
  <2> QED
    BY <2>1, <1>16, <1>a
    DEF CommitPart, SaveFiles, GoOn, Finish, TypeOK, RunNumbered, SessIsRow, HeadOnTape, media,
        Phases, Outcomes
<1>17. CASE VerifyFails
  <2>1. job' \in Job
    BY <1>17, <1>a DEF VerifyFails, Job, SessIsRow
  <2> QED
    BY <2>1, <1>17, <1>a
    DEF VerifyFails, SaveFiles, Finish, TypeOK, RunNumbered, SessIsRow, HeadOnTape, media,
        Phases, Outcomes
<1>18. CASE SaveFails
  <2>1. job' \in Job
    BY <1>18, <1>a DEF SaveFails, Job, SessIsRow, Causes
  <2> QED
    BY <2>1, <1>18, <1>a
    DEF SaveFails, GoOn, TypeOK, RunNumbered, SessIsRow, HeadOnTape, media, catalog, Phases
<1>d. MovePointer \in Seg /\ << MovePointer >> \in Seq(Seg) /\ << MovePointer, Empty >> \in Seq(Seg)
  <2>1. SuggestNextName(job.tape) \in Nat
    BY <1>a DEF SuggestNextName
  <2>2. MovePointer \in Seg
    BY <2>1, <1>a, SegTypes DEF MovePointer
  <2> QED
    BY <2>2, <1>b
<1>19. CASE AbandonTape
  <2>1. Overwrite(closed[job.tape], WritePos(job.lastNum), << MovePointer, Empty >>) \in Seq(Seg)
    BY <1>19, <1>e, <1>d, OverwriteFacts DEF AbandonTape
  <2>2. closed' \in [Tapes -> Seq(Seg)] /\ open' \in [Tapes -> Seg]
    BY <2>1, <1>19, <1>a, <1>b, MediaTypes DEF AbandonTape
  <2> QED
    BY <2>2, <1>19, <1>a
    DEF AbandonTape, GoOn, TypeOK, RunNumbered, SessIsRow, HeadOnTape, catalog, Phases
<1>20. ASSUME NEW c \in 0..1, AbandonFails(c) PROVE TInv'
  <2> DEFINE part == SubSeq(<< MovePointer >>, 1, c)
  <2>1. part \in Seq(Seg)
    BY <1>d, PrefixFacts
  <2> HIDE DEF part
  <2>2. closed' \in [Tapes -> Seq(Seg)] /\ open' \in [Tapes -> Seg]
    <3>1. CASE UNCHANGED media
      BY <3>1, <1>a DEF media
    <3>2. CASE /\ WritePos(job.lastNum) <= Len(closed[job.tape])
               /\ closed' = [closed EXCEPT ![job.tape] =
                               Overwrite(@, WritePos(job.lastNum), part)]
               /\ open' = [open EXCEPT ![job.tape] = IF c = 0 THEN MovePointer ELSE Empty]
      <4>1. Overwrite(closed[job.tape], WritePos(job.lastNum), part) \in Seq(Seg)
        BY <3>2, <2>1, <1>e, OverwriteFacts
      <4>2. (IF c = 0 THEN MovePointer ELSE Empty) \in Seg
        BY <1>b, <1>d
      <4> QED
        BY <4>1, <4>2, <3>2, <1>a, MediaTypes
    <3> QED
      BY <3>1, <3>2, <1>20 DEF AbandonFails, part
  <2>3. job' \in Job
    BY <1>20, <1>a DEF AbandonFails, GiveUp, Job, Causes
  <2> QED
    BY <2>2, <2>3, <1>20, <1>a
    DEF AbandonFails, GiveUp, GoOn, TypeOK, RunNumbered, SessIsRow, HeadOnTape, catalog, Phases
<1>21. ASSUME NEW t \in Tapes, NEW n \in 1..MaxName, Swap(t, n) PROVE TInv'
  <2>1. Label(n) \in Seg
    BY <1>a, SegTypes
  <2>2. << Label(n), Empty >> \in Seq(Seg)
    BY <2>1, <1>b
  <2>3. closed' \in [Tapes -> Seq(Seg)] /\ open' \in [Tapes -> Seg]
    BY <2>2, <1>21, <1>b, MediaTypes DEF Swap
  <2>4. job' \in Job
    BY <1>21, <1>a DEF Swap, Job
  <2> QED
    BY <2>3, <2>4, <1>21, <1>a, SMTT(60)
    DEF Swap, GoOn, TypeOK, RunNumbered, SessIsRow, HeadOnTape, Phases
<1>22. ASSUME NEW t \in Tapes, NEW n \in 1..MaxName, NEW c \in 0..2, SwapUnregistered(t, n, c)
       PROVE  TInv'
  <2> DEFINE part == SubSeq(<< Label(n), Empty >>, 1, c)
  <2>1. Label(n) \in Seg
    BY <1>a, SegTypes
  <2>2. << Label(n), Empty >> \in Seq(Seg) /\ c \in 0..Len(<< Label(n), Empty >>)
    BY <2>1, <1>b
  <2>3. part \in Seq(Seg)
    BY <2>2, PrefixFacts
  <2>4. (IF c = 0 THEN Label(n) ELSE Empty) \in Seg
    BY <2>1, <1>b
  <2> HIDE DEF part
  <2>5. /\ closed' = [closed EXCEPT ![t] = part]
        /\ open' = [open EXCEPT ![t] = IF c = 0 THEN Label(n) ELSE Empty]
    BY <1>22 DEF SwapUnregistered, part
  <2>6. closed' \in [Tapes -> Seq(Seg)] /\ open' \in [Tapes -> Seg]
    BY <2>3, <2>4, <2>5, MediaTypes
  <2>7. job' \in Job
    BY <1>22, <1>a DEF SwapUnregistered, GiveUp, Job, Causes
  <2> QED
    BY <2>6, <2>7, <1>22, <1>a
    DEF SwapUnregistered, GiveUp, GoOn, TypeOK, RunNumbered, SessIsRow, HeadOnTape, catalog,
        Phases
<1>23. CASE SwapFails
  BY <1>23, <1>a
  DEF SwapFails, GiveUp, GoOn, Job, Causes, TypeOK, RunNumbered, SessIsRow, HeadOnTape,
      media, catalog, Phases
<1>24. ASSUME NEW r \in job.created, RollbackSession(r) PROVE TInv'
  BY <1>24, <1>a
  DEF RollbackSession, Job, TypeOK, RunNumbered, SessIsRow, HeadOnTape, media
<1>25. CASE RollbackDone
  BY <1>25, <1>a
  DEF RollbackDone, Finish, TypeOK, RunNumbered, SessIsRow, HeadOnTape, media, catalog,
      Phases, Outcomes
<1>26. CASE Cancel
  BY <1>26, <1>a
  DEF Cancel, Job, TypeOK, RunNumbered, SessIsRow, HeadOnTape, media, catalog
<1>27. CASE Crash
  BY <1>27, <1>a
  DEF Crash, Finish, TypeOK, RunNumbered, SessIsRow, HeadOnTape, media, catalog,
      Phases, Outcomes
<1>28. ASSUME NEW r \in rows, DeleteSession(r) PROVE TInv'
  BY <1>28, <1>a
  DEF DeleteSession, TypeOK, RunNumbered, SessIsRow, HeadOnTape, media
<1>29. ASSUME NEW before \in Runs, Prune(before) PROVE TInv'
  BY <1>29, <1>a
  DEF Prune, TypeOK, RunNumbered, SessIsRow, HeadOnTape, media
<1>30. CASE UNCHANGED vars
  BY <1>30 DEF vars, TypeOK, RunNumbered, SessIsRow, HeadOnTape
<1> QED
  BY <1>1, <1>2, <1>3, <1>4, <1>5, <1>6, <1>7, <1>8, <1>9, <1>10, <1>11, <1>12, <1>13,
     <1>14, <1>15, <1>16, <1>17, <1>18, <1>19, <1>20, <1>21, <1>22, <1>23, <1>24, <1>25,
     <1>26, <1>27, <1>28, <1>29, <1>30
  DEF Next, Step

\* Every variable keeps its type in every run of the program.
THEOREM TypeCorrect == Spec => []TypeOK
<1>1. Init => TInv
  BY TypeInit
<1>2. TInv /\ [Next]_vars => TInv'
  BY TypeStep
<1>3. TInv => TypeOK
  BY DEF TInv
<1> QED
  BY <1>1, <1>2, <1>3, PTL DEF Spec

-----------------------------------------------------------------------------
(***************************************************************************)
(* Backed, for every instance: a session whose files the catalog lists is  *)
(* on its cassette, where the restore looks for it.                        *)
(*                                                                         *)
(* Backed is not inductive: whether a write spares the sessions depends on *)
(* where the head is, on what the run believes about the cassette, and on  *)
(* what the catalog lists for it.  Lasting is what holds at any time, Work *)
(* what the run at work relies on in its phases.                           *)
(***************************************************************************)

\* A cassette of the catalog begins with a label.
Registered ==
  \A t \in Tapes : regName[t] # 0 => closed[t] # << >> /\ closed[t][1].kind = "label"

\* The rows are rows of cassettes of the catalog (the foreign key of sessions).
RowsRegistered == \A r \in rows : regName[r.tape] # 0

Lasting == Registered /\ RowsRegistered /\ Backed

Writing == {"begin", "position", "snapshot", "write", "undo", "restore", "abandon"}

RunRegistered == phase # "idle" => regName[job.tape] # 0

\* While a FULL run drops the old sessions, all that is left of them is in its list.
DropCovers ==
  phase = "drop" =>
    /\ job.lastNum = 0
    /\ \A r \in saved : r.tape = job.tape => r \in job.toDrop

FullStartsOver == phase \in Writing /\ job.isFull => job.lastNum = 0

\* No listed session lies behind the place where the run writes.
NothingBehind ==
  phase \in Writing => \A r \in saved : r.tape = job.tape => r.num <= job.lastNum

RowAtWork ==
  phase \in {"position", "snapshot", "write", "save"} =>
    job.sess.tape = job.tape /\ job.sess.num = job.lastNum + 1

HeadPlaced ==
  phase \in {"snapshot", "write"} => job.head = WritePos(job.lastNum) /\ ~job.mid

Written == phase = "save" => Holds(closed[job.sess.tape], job.sess)

Work == /\ RunRegistered /\ DropCovers /\ FullStartsOver /\ NothingBehind
        /\ RowAtWork /\ HeadPlaced /\ Written

BInv == TInv /\ Lasting /\ Work

-----------------------------------------------------------------------------
(* Lasting. *)

\* Steps that touch no cassette and add no files to the catalog.
LEMMA QuietSteps ==
  ASSUME BInv, closed' = closed, regName' = regName, rows' \subseteq rows,
         saved' \subseteq saved
  PROVE  Lasting'
BY DEF BInv, Lasting, Registered, RowsRegistered, Backed

\* A write of the run at the place behind its last session.
LEMMA WritingSteps ==
  ASSUME BInv, phase \in Writing, NEW segs \in Seq(Seg),
         WritePos(job.lastNum) <= Len(closed[job.tape]),
         closed' = [closed EXCEPT ![job.tape] = Overwrite(@, WritePos(job.lastNum), segs)],
         regName' = regName, rows' \subseteq rows, saved' \subseteq saved
  PROVE  Lasting'
<1> DEFINE t == job.tape
           p == WritePos(job.lastNum)
           new == Overwrite(closed[t], p, segs)
<1>1. /\ t \in Tapes /\ job.lastNum \in Nat /\ closed \in [Tapes -> Seq(Seg)]
      /\ saved \subseteq rows /\ rows \subseteq Row /\ Row \subseteq SessionId
  BY RowIsSessionId DEF BInv, TInv, TypeOK, Job
<1>2. p \in 0..Len(closed[t]) /\ p >= 1
  BY <1>1, LenProperties DEF WritePos
<1>3. /\ new \in Seq(Seg) /\ Len(new) = p + Len(segs) /\ Len(segs) \in Nat
      /\ \A i \in 1..p : new[i] = closed[t][i]
  BY <1>1, <1>2, OverwriteFacts, LenProperties
<1>4. /\ closed' = [closed EXCEPT ![t] = new]
      /\ closed'[t] = new /\ \A u \in Tapes \ {t} : closed'[u] = closed[u]
  BY <1>1
<1>5. Registered'
  <2>1. new # << >> /\ new[1] = closed[t][1]
    BY <1>2, <1>3, EmptySeq
  <2> HIDE DEF new
  <2> QED
    BY <2>1, <1>4, <1>1 DEF BInv, Lasting, Registered
<1>6. RowsRegistered'
  BY DEF BInv, Lasting, RowsRegistered
<1>7. Backed'
  <2> SUFFICES ASSUME NEW r \in saved' PROVE Holds(closed'[r.tape], r)
    BY DEF Backed
  <2>1. r \in saved /\ r \in SessionId /\ r.tape \in Tapes /\ Holds(closed[r.tape], r)
    BY <1>1 DEF BInv, Lasting, Backed, SessionId
  <2>2. CASE r.tape = t
    <3>1. r.num <= job.lastNum
      BY <2>1, <2>2 DEF BInv, Work, NothingBehind
    <3>2. Holds(new, r)
      BY <3>1, <2>1, <2>2, <1>1, OverwriteKeepsSessions
    <3> QED
      BY <3>2, <2>2, <1>4
  <2>3. CASE r.tape # t
    BY <2>1, <2>3, <1>4
  <2> QED
    BY <2>2, <2>3
<1> QED
  BY <1>5, <1>6, <1>7 DEF Lasting

\* The formatting of a cassette that has no label: it is none of the catalog's.
LEMMA FormattingSteps ==
  ASSUME BInv, NEW t \in Tapes, ~Labelled(t), NEW files,
         closed' = [closed EXCEPT ![t] = files],
         \/ regName' = regName
         \/ /\ \E n : regName' = [regName EXCEPT ![t] = n]
            /\ files # << >> /\ files[1].kind = "label",
         rows' = rows, saved' = saved
  PROVE  Lasting' /\ \A r \in saved : r.tape # t
<1>1. /\ closed \in [Tapes -> Seq(Seg)] /\ regName \in [Tapes -> Nat]
      /\ saved \subseteq rows /\ rows \subseteq Row
  BY DEF BInv, TInv, TypeOK
<1>2. regName[t] = 0
  BY DEF Labelled, BInv, Lasting, Registered
<1>3. \A r \in rows : r.tape \in Tapes /\ r.tape # t
  BY <1>1, <1>2 DEF BInv, Lasting, RowsRegistered, Row
<1>4. Registered'
  BY <1>1, <1>2 DEF BInv, Lasting, Registered
<1>5. RowsRegistered'
  BY <1>1, <1>3 DEF BInv, Lasting, RowsRegistered
<1>6. Backed'
  BY <1>1, <1>3 DEF BInv, Lasting, Backed
<1> QED
  BY <1>1, <1>3, <1>4, <1>5, <1>6 DEF Lasting

-----------------------------------------------------------------------------
(* Every step. *)

LEMMA BackedInit == ASSUME Init PROVE Lasting /\ Work
<1> PICK t \in Tapes :
      /\ closed = [u \in Tapes |-> IF u = t THEN << Label(1), Empty >> ELSE << >>]
      /\ regName = [u \in Tapes |-> IF u = t THEN 1 ELSE 0]
  BY DEF Init
<1>1. Registered
  BY KindsOfSegs DEF Registered
<1> QED
  BY <1>1
  DEF Init, Lasting, RowsRegistered, Backed, Work, RunRegistered, DropCovers, FullStartsOver,
      NothingBehind, RowAtWork, HeadPlaced, Written, Writing

\* After a failed write: the run abandons the cassette, gives up or ends.
LEMMA AfterFailedWriteWork ==
  ASSUME BInv, Lasting', phase = "restore", NEW causes, AfterFailedWrite(causes),
         UNCHANGED << catalog, run >>
  PROVE  Lasting' /\ Work'
<1>1. /\ job'.tape = job.tape /\ job'.lastNum = job.lastNum /\ job'.isFull = job.isFull
      /\ phase' \in {"abandon", "rollback", "idle"}
  BY DEF AfterFailedWrite, GiveUp, GoOn, Finish, BInv, TInv, TypeOK, Job
<1> QED
  BY <1>1
  DEF catalog, BInv, Work, RunRegistered, DropCovers, FullStartsOver, NothingBehind,
      RowAtWork, HeadPlaced, Written, Writing

LEMMA BackedStep ==
  ASSUME "seek" \notin Faults, BInv, [Next]_vars
  PROVE  Lasting' /\ Work'
<1>a. /\ job \in Job /\ job.tape \in Tapes /\ job.lastNum \in Nat
      /\ job.sess \in SessionId /\ rows \subseteq Row /\ saved \subseteq rows
      /\ regName \in [Tapes -> Nat] /\ closed \in [Tapes -> Seq(Seg)]
      /\ Lasting /\ Work /\ TInv
  BY DEF BInv, TInv, TypeOK, Job
<1>b. Empty \in Seg /\ << Empty >> \in Seq(Seg) /\ EodPair \in Seq(Seg)
  BY BlankSegTypes DEF EodPair
<1>1. ASSUME NEW t \in Tapes, NEW full \in BOOLEAN, NEW n \in 1..MaxParts,
             NEW new \in BOOLEAN, NEW cap \in BOOLEAN, StartBackup(t, full, n, new, cap)
      PROVE  Lasting' /\ Work'
  <2>1. Lasting'
    BY <1>1, QuietSteps DEF StartBackup, media, catalog
  <2> PICK last \in 0..MaxRuns :
        LET isFull == full \/ last = 0
        IN  /\ IsLastNum(t, last)
            /\ job' = [tape |-> t, isFull |-> isFull, parts |-> n, part |-> 1,
                       lastNum |-> IF isFull THEN 0 ELSE last,
                       from |-> NoTape, atCap |-> cap, moved |-> FALSE,
                       created |-> {}, sess |-> NoRow(t),
                       toDrop |-> IF isFull THEN RowsOn(t) ELSE {},
                       head |-> 0, mid |-> FALSE, err |-> {}, dead |-> FALSE]
            /\ phase' = IF isFull THEN "drop"
                        ELSE IF new /\ HasChanger THEN "swap" ELSE "begin"
    BY <1>1 DEF StartBackup
  <2>2. regName[t] # 0 /\ UNCHANGED << media, catalog >>
    BY <1>1 DEF StartBackup
  <2>3. \A r \in saved : r.tape = t => r \in RowsOn(t) /\ r.num <= last
    BY <1>a DEF IsLastNum, RowsOn
  <2> QED
    BY <2>1, <2>2, <2>3
    DEF media, catalog, Work, RunRegistered, DropCovers, FullStartsOver, NothingBehind,
        RowAtWork, HeadPlaced, Written, Writing
<1>2. ASSUME NEW r \in job.toDrop, DropSession(r) PROVE Lasting' /\ Work'
  <2>1. Lasting'
    BY <1>2, <1>a, QuietSteps DEF DropSession, media
  <2> QED
    BY <2>1, <1>2, <1>a
    DEF DropSession, media, Work, RunRegistered, DropCovers, FullStartsOver, NothingBehind, RowAtWork,
        HeadPlaced, Written, Writing, Job
<1>3. CASE DropFails
  <2>1. Lasting'
    BY <1>3, <1>a, QuietSteps DEF DropFails, Finish, media, catalog
  <2> QED
    BY <2>1, <1>3, <1>a
    DEF DropFails, Finish, media, catalog, Work, RunRegistered, DropCovers, FullStartsOver, NothingBehind, RowAtWork,
        HeadPlaced, Written, Writing
<1>4. CASE DropDone
  <2>1. Lasting'
    BY <1>4, <1>a, QuietSteps DEF DropDone, GoOn, media, catalog
  <2> QED
    BY <2>1, <1>4, <1>a
    DEF DropDone, GoOn, media, catalog, Work, RunRegistered, DropCovers, FullStartsOver, NothingBehind, RowAtWork,
        HeadPlaced, Written, Writing
<1>5. CASE BeginPart
  <2>1. Registered' /\ Backed'
    BY <1>5, <1>a DEF BeginPart, media, Lasting, Registered, Backed
  <2>2. PartRow.tape = job.tape /\ PartRow.num = job.lastNum + 1
    BY <1>5, <1>a DEF BeginPart, PartRow, Work, FullStartsOver, Writing
  <2>3. RowsRegistered'
    BY <1>5, <1>a, <2>2 DEF BeginPart, media, Lasting, RowsRegistered, Work, RunRegistered
  <2>4. /\ job'.tape = job.tape /\ job'.lastNum = job.lastNum
        /\ job'.isFull = job.isFull /\ job'.sess = PartRow
    BY <1>5, <1>a DEF BeginPart, Job
  <2> QED
    BY <2>1, <2>2, <2>3, <2>4, <1>5, <1>a
    DEF BeginPart, GoOn, media, Lasting, Work, RunRegistered, DropCovers, FullStartsOver,
        NothingBehind, RowAtWork, HeadPlaced, Written, Writing
<1>6. CASE BeginPartFails
  <2>1. Lasting'
    BY <1>6, <1>a, QuietSteps DEF BeginPartFails, GiveUp, GoOn, media, catalog
  <2> QED
    BY <2>1, <1>6, <1>a
    DEF BeginPartFails, GiveUp, GoOn, media, catalog, Work, RunRegistered, DropCovers, FullStartsOver, NothingBehind, RowAtWork,
        HeadPlaced, Written, Writing, Job
<1>7. CASE PositionPart
  <2>1. Lasting'
    BY <1>7, <1>a, QuietSteps DEF PositionPart, GoOn, media, catalog
  <2> QED
    BY <2>1, <1>7, <1>a
    DEF PositionPart, GoOn, media, catalog, Work, RunRegistered, DropCovers, FullStartsOver, NothingBehind, RowAtWork,
        HeadPlaced, Written, Writing, Job
<1>8. CASE PositionFails
  <2>1. Lasting'
    BY <1>8, <1>a, QuietSteps DEF PositionFails, GiveUp, GoOn, media, catalog
  <2> QED
    BY <2>1, <1>8, <1>a
    DEF PositionFails, GiveUp, GoOn, media, catalog, Work, RunRegistered, DropCovers, FullStartsOver, NothingBehind, RowAtWork,
        HeadPlaced, Written, Writing, Job
<1>9. CASE FillSnapshot
  <2>1. Lasting'
    BY <1>9, <1>a, QuietSteps DEF FillSnapshot, GoOn, media, catalog
  <2> QED
    BY <2>1, <1>9, <1>a
    DEF FillSnapshot, GoOn, media, catalog, Work, RunRegistered, DropCovers, FullStartsOver, NothingBehind, RowAtWork,
        HeadPlaced, Written, Writing
<1>10. CASE SnapshotLosesPosition
  BY <1>10 DEF SnapshotLosesPosition, Fault
<1>11. CASE WritePart
  <2>1. /\ job.head = WritePos(job.lastNum) /\ ~job.mid /\ phase \in Writing
        /\ job.sess.tape = job.tape /\ job.sess.num = job.lastNum + 1
    BY <1>11, <1>a DEF WritePart, Work, HeadPlaced, RowAtWork, Writing
  <2>2. WritePos(job.lastNum) <= Len(closed[job.tape])
    BY <1>11, <1>a, <2>1 DEF WritePart, TInv, HeadOnTape
  <2>3. /\ PartImage \in Seq(Seg) /\ Len(PartImage) = 4
        /\ PartImage[1] = Index(job.sess, job.from) /\ PartImage[2] = Tar(job.sess)
    BY <2>1, <1>a, PartImageFacts DEF TInv
  <2>4. Lasting'
    BY <1>11, <2>1, <2>2, <2>3, WritingSteps DEF WritePart, catalog
  <2> DEFINE new == Overwrite(closed[job.tape], WritePos(job.lastNum), PartImage)
  <2>5. Holds(new, job.sess)
    <3>1. job.from \in Tapes \cup {NoTape}
      BY <1>a DEF Job
    <3>2. closed[job.tape] \in Seq(Seg) /\ job.lastNum \in Nat /\ Len(PartImage) >= 2
      BY <1>a, <2>3
    <3>3. job.sess.num = job.lastNum + 1
      BY <2>1
    <3>4. Holds(Overwrite(closed[job.tape], WritePos(job.lastNum), PartImage), job.sess)
      BY <3>1, <3>2, <3>3, <2>2, <2>3, OverwriteHoldsNew
    <3> QED
      BY <3>4
  <2>6. closed'[job.tape] = new
    BY <1>11, <1>a, <2>1 DEF WritePart
  <2> HIDE DEF new
  <2> QED
    BY <2>1, <2>4, <2>5, <2>6, <1>11, <1>a
    DEF WritePart, GoOn, catalog, Work, RunRegistered, DropCovers, FullStartsOver,
        NothingBehind, RowAtWork, HeadPlaced, Written, Writing
<1>12. ASSUME NEW cause \in {"full", "write"}, NEW c \in 0..3,
              NEW o \in {Empty, PartImage[c + 1]}, WritePartFails(cause, c, o)
       PROVE  Lasting' /\ Work'
  <2>1. job.head = WritePos(job.lastNum) /\ phase \in Writing
    BY <1>12, <1>a DEF WritePartFails, Work, HeadPlaced, Writing
  <2>2. Lasting'
    <3>1. CASE UNCHANGED media
      BY <3>1, <1>12, QuietSteps DEF WritePartFails, media, catalog
    <3>2. CASE closed' = [closed EXCEPT ![job.tape] =
                            Overwrite(@, job.head, SubSeq(PartImage, 1, c))]
      <4>1. WritePos(job.lastNum) <= Len(closed[job.tape])
        BY <1>12, <1>a, <2>1 DEF WritePartFails, TInv, HeadOnTape
      <4>2. PartImage \in Seq(Seg) /\ Len(PartImage) = 4
        BY <1>a, PartImageFacts DEF TInv
      <4>3. c \in 0..Len(PartImage)
        BY <4>2
      <4>4. SubSeq(PartImage, 1, c) \in Seq(Seg)
        BY <4>2, <4>3, PrefixFacts
      <4> QED
        BY <4>1, <4>4, <3>2, <2>1, <1>12, WritingSteps DEF WritePartFails, catalog
    <3> QED
      BY <3>1, <3>2, <1>12 DEF WritePartFails
  <2> QED
    BY <2>2, <1>12, <1>a
    DEF WritePartFails, GoOn, catalog, Job, Work, RunRegistered, DropCovers, FullStartsOver,
        NothingBehind, RowAtWork, HeadPlaced, Written, Writing
<1>13. CASE UndoPart
  <2>1. Lasting'
    BY <1>13, <1>a, QuietSteps DEF UndoPart, media
  <2>2. /\ job'.tape = job.tape /\ job'.lastNum = job.lastNum /\ job'.isFull = job.isFull
        /\ saved' \subseteq saved /\ phase' = "restore" /\ UNCHANGED << media, regName >>
    BY <1>13, <1>a DEF UndoPart, GoOn, Job
  <2> QED
    BY <2>1, <2>2, <1>13, <1>a
    DEF UndoPart, media, Work, RunRegistered, DropCovers, FullStartsOver, NothingBehind,
        RowAtWork, HeadPlaced, Written, Writing
<1>14. CASE RestoreEOD
  <2>1. Lasting'
    BY <1>14, <1>b, WritingSteps DEF RestoreEOD, catalog, Writing
  <2> QED
    BY <2>1, <1>14, AfterFailedWriteWork DEF RestoreEOD
<1>15. CASE RestoreEODFails
  <2>1. Lasting'
    <3>1. CASE UNCHANGED media
      BY <3>1, <1>15, QuietSteps DEF RestoreEODFails, media, catalog
    <3>2. CASE /\ WritePos(job.lastNum) <= Len(closed[job.tape])
               /\ closed' = [closed EXCEPT ![job.tape] =
                               Overwrite(@, WritePos(job.lastNum), << Empty >>)]
      BY <3>2, <1>15, <1>b, WritingSteps DEF RestoreEODFails, catalog, Writing
    <3> QED
      BY <3>1, <3>2, <1>15 DEF RestoreEODFails
  <2> QED
    BY <2>1, <1>15, AfterFailedWriteWork DEF RestoreEODFails
<1>f. ASSUME phase = "save", saved' \subseteq saved \cup {job.sess},
             UNCHANGED << media, regName, rows >>
      PROVE  Lasting'
  BY <1>f, <1>a
  DEF media, Lasting, Registered, RowsRegistered, Backed, Work, Written
<1>16. CASE CommitPart
  <2>1. Lasting'
    BY <1>16, <1>f DEF CommitPart, SaveFiles
  <2>2. job'.tape = job.tape /\ phase' \in {"swap", "idle"}
    BY <1>16, <1>a DEF CommitPart, GoOn, Finish, Job
  <2> QED
    BY <2>1, <2>2, <1>16, <1>a
    DEF CommitPart, Work, RunRegistered, DropCovers, FullStartsOver, NothingBehind, RowAtWork,
        HeadPlaced, Written, Writing
<1>17. CASE VerifyFails
  <2>1. Lasting'
    BY <1>17, <1>f DEF VerifyFails, SaveFiles
  <2> QED
    BY <2>1, <1>17
    DEF VerifyFails, Finish, Work, RunRegistered, DropCovers, FullStartsOver, NothingBehind,
        RowAtWork, HeadPlaced, Written, Writing
<1>18. CASE SaveFails
  <2>1. Lasting'
    BY <1>18, <1>a, QuietSteps DEF SaveFails, GoOn, media, catalog
  <2> QED
    BY <2>1, <1>18, <1>a
    DEF SaveFails, GoOn, media, catalog, Work, RunRegistered, DropCovers, FullStartsOver, NothingBehind, RowAtWork,
        HeadPlaced, Written, Writing, Job
<1>d. MovePointer \in Seg /\ << MovePointer >> \in Seq(Seg) /\ << MovePointer, Empty >> \in Seq(Seg)
  <2>1. SuggestNextName(job.tape) \in Nat
    BY <1>a DEF SuggestNextName
  <2>2. MovePointer \in Seg
    BY <2>1, <1>a, SegTypes DEF MovePointer
  <2> QED
    BY <2>2, <1>b
<1>19. CASE AbandonTape
  <2>1. Lasting'
    BY <1>19, <1>d, WritingSteps DEF AbandonTape, catalog, Writing
  <2> QED
    BY <2>1, <1>19, <1>a
    DEF AbandonTape, GoOn, catalog, Work, RunRegistered, DropCovers, FullStartsOver,
        NothingBehind, RowAtWork, HeadPlaced, Written, Writing
<1>20. ASSUME NEW c \in 0..1, AbandonFails(c) PROVE Lasting' /\ Work'
  <2> DEFINE part == SubSeq(<< MovePointer >>, 1, c)
  <2>1. part \in Seq(Seg)
    BY <1>d, PrefixFacts
  <2> HIDE DEF part
  <2>2. Lasting'
    <3>1. CASE UNCHANGED media
      BY <3>1, <1>20, QuietSteps DEF AbandonFails, media, catalog
    <3>2. CASE /\ WritePos(job.lastNum) <= Len(closed[job.tape])
               /\ closed' = [closed EXCEPT ![job.tape] =
                               Overwrite(@, WritePos(job.lastNum), part)]
      BY <3>2, <2>1, <1>20, WritingSteps DEF AbandonFails, catalog, Writing
    <3> QED
      BY <3>1, <3>2, <1>20 DEF AbandonFails, part
  <2> QED
    BY <2>2, <1>20, <1>a
    DEF AbandonFails, GiveUp, GoOn, catalog, Job, Work, RunRegistered, DropCovers,
        FullStartsOver, NothingBehind, RowAtWork, HeadPlaced, Written, Writing
<1>21. ASSUME NEW t \in Tapes, NEW n \in 1..MaxName, Swap(t, n) PROVE Lasting' /\ Work'
  <2>1. << Label(n), Empty >> # << >> /\ << Label(n), Empty >>[1].kind = "label"
    BY KindsOfSegs
  <2>2. Lasting' /\ \A r \in saved : r.tape # t
    BY <2>1, <1>21, FormattingSteps DEF Swap
  <2>3. job'.tape = t /\ job'.lastNum = 0 /\ regName'[t] # 0
    BY <1>21, <1>a DEF Swap, Job
  <2> QED
    BY <2>2, <2>3, <1>21
    DEF Swap, GoOn, Work, RunRegistered, DropCovers, FullStartsOver, NothingBehind, RowAtWork,
        HeadPlaced, Written, Writing
<1>22. ASSUME NEW t \in Tapes, NEW n \in 1..MaxName, NEW c \in 0..2, SwapUnregistered(t, n, c)
       PROVE  Lasting' /\ Work'
  <2> DEFINE part == SubSeq(<< Label(n), Empty >>, 1, c)
  <2>1. closed' = [closed EXCEPT ![t] = part]
    BY <1>22 DEF SwapUnregistered
  <2> HIDE DEF part
  <2>2. Lasting'
    BY <2>1, <1>22, FormattingSteps DEF SwapUnregistered, catalog
  <2> QED
    BY <2>2, <1>22, <1>a
    DEF SwapUnregistered, GiveUp, GoOn, catalog, Job, Work, RunRegistered, DropCovers,
        FullStartsOver, NothingBehind, RowAtWork, HeadPlaced, Written, Writing
<1>23. CASE SwapFails
  <2>1. Lasting'
    BY <1>23, <1>a, QuietSteps DEF SwapFails, GiveUp, GoOn, media, catalog
  <2> QED
    BY <2>1, <1>23, <1>a
    DEF SwapFails, GiveUp, GoOn, media, catalog, Work, RunRegistered, DropCovers, FullStartsOver, NothingBehind, RowAtWork,
        HeadPlaced, Written, Writing, Job
<1>24. ASSUME NEW r \in job.created, RollbackSession(r) PROVE Lasting' /\ Work'
  <2>1. Lasting'
    BY <1>24, <1>a, QuietSteps DEF RollbackSession, media
  <2> QED
    BY <2>1, <1>24, <1>a
    DEF RollbackSession, media, Work, RunRegistered, DropCovers, FullStartsOver, NothingBehind, RowAtWork,
        HeadPlaced, Written, Writing, Job
<1>25. CASE RollbackDone
  <2>1. Lasting'
    BY <1>25, <1>a, QuietSteps DEF RollbackDone, Finish, media, catalog
  <2> QED
    BY <2>1, <1>25, <1>a
    DEF RollbackDone, Finish, media, catalog, Work, RunRegistered, DropCovers, FullStartsOver, NothingBehind, RowAtWork,
        HeadPlaced, Written, Writing
<1>26. CASE Cancel
  <2>1. Lasting'
    BY <1>26, <1>a, QuietSteps DEF Cancel, media, catalog
  <2> QED
    BY <2>1, <1>26, <1>a
    DEF Cancel, media, catalog, Work, RunRegistered, DropCovers, FullStartsOver, NothingBehind, RowAtWork,
        HeadPlaced, Written, Writing, Job
<1>27. CASE Crash
  <2>1. Lasting'
    BY <1>27, <1>a, QuietSteps DEF Crash, Finish, media, catalog
  <2> QED
    BY <2>1, <1>27, <1>a
    DEF Crash, Finish, media, catalog, Work, RunRegistered, DropCovers, FullStartsOver, NothingBehind, RowAtWork,
        HeadPlaced, Written, Writing
<1>28. ASSUME NEW r \in rows, DeleteSession(r) PROVE Lasting' /\ Work'
  <2>1. Lasting'
    BY <1>28, <1>a, QuietSteps DEF DeleteSession, media
  <2> QED
    BY <2>1, <1>28, <1>a
    DEF DeleteSession, media, Work, RunRegistered, DropCovers, FullStartsOver, NothingBehind, RowAtWork,
        HeadPlaced, Written, Writing
<1>29. ASSUME NEW before \in Runs, Prune(before) PROVE Lasting' /\ Work'
  <2>1. Lasting'
    BY <1>29, <1>a, QuietSteps DEF Prune, media
  <2> QED
    BY <2>1, <1>29, <1>a
    DEF Prune, media, Work, RunRegistered, DropCovers, FullStartsOver, NothingBehind, RowAtWork,
        HeadPlaced, Written, Writing
<1>30. CASE UNCHANGED vars
  BY <1>30, <1>a
  DEF vars, Lasting, Registered, RowsRegistered, Backed, Work, RunRegistered, DropCovers,
      FullStartsOver, NothingBehind, RowAtWork, HeadPlaced, Written
<1> QED
  BY <1>1, <1>2, <1>3, <1>4, <1>5, <1>6, <1>7, <1>8, <1>9, <1>10, <1>11, <1>12, <1>13,
     <1>14, <1>15, <1>16, <1>17, <1>18, <1>19, <1>20, <1>21, <1>22, <1>23, <1>24, <1>25,
     <1>26, <1>27, <1>28, <1>29, <1>30
  DEF BInv, Next, Step

\* Whatever fails in a run, in whatever order, and whatever the catalog commands
\* delete meanwhile, every session whose files the catalog lists stays on its
\* cassette, where MTFSF(2K-1) finds it; as long as the head never stays lost
\* behind the reading of the previous index.
THEOREM SavedSessionsAreOnTape ==
  ASSUME "seek" \notin Faults
  PROVE  Spec => []Backed
<1>1. Init => BInv
  BY TypeInit, BackedInit DEF BInv
<1>2. BInv /\ [Next]_vars => BInv'
  BY TypeStep, BackedStep DEF BInv
<1>3. BInv => Backed
  BY DEF BInv, Lasting
<1> QED
  BY <1>1, <1>2, <1>3, PTL DEF Spec

-----------------------------------------------------------------------------
(***************************************************************************)
(* What a run leaves behind, for every instance: a run that failed leaves  *)
(* no session in the catalog, every cassette has the documented layout,    *)
(* and a reader gets to every session; as long as it is the cassettes, the *)
(* catalog's answers and the operator that fail, and not the undoing.      *)
(*                                                                         *)
(* Ledger is what the run keeps account of in the catalog, Layout what the *)
(* cassettes look like between its writes.  Both rest on Backed: that the  *)
(* tape has the last listed session is why the run can go behind it.       *)
(***************************************************************************)

\* What may not fail for the account to come out right: the way back of the
\* head, the deletion of rows, the process and the context of the run; and
\* nobody else deletes.
Accountable ==
  Faults \cap {"seek", "position", "delete", "cancel", "crash", "catalog"} = {}

\* ... and for the cassettes: the closing pair and the pointer of a move.
Tidy == Accountable /\ Faults \cap {"restore", "abandon"} = {}

-----------------------------------------------------------------------------
(* The invariants. *)

Good == {"ok", "verify", "tooBig"}

\* The row of the part at work is in the catalog.
PartAtWork == phase \in {"position", "snapshot", "write", "undo", "save"}

\* A row that is not yet a session of a run that ended well.
Pending(r) ==
  /\ phase # "idle" /\ r.run = run
  /\ r \in job.created \/ (PartAtWork /\ r = job.sess)

Unsaved(r) ==
  \/ PartAtWork /\ r = job.sess
  \/ phase = "rollback" /\ r \in job.created

\* A run at work is not cancelled and has not ended.
Live == ~job.dead /\ (phase # "idle" => outcome[run] = "running")

Accounted ==
  \A r \in rows : /\ r.run <= run
                  /\ outcome[r.run] \in Good \/ Pending(r)
                  /\ r \in saved \/ Unsaved(r)

RowListed ==
  /\ PartAtWork => job.sess \in rows /\ job.sess.run = run
  /\ phase = "drop" => job.toDrop \subseteq rows

\* The run goes behind its last session.
AtTape == phase \in {"drop"} \cup Writing

HasRoom == AtTape => WritePos(job.lastNum) <= Len(closed[job.tape])

Ledger == Live /\ Accounted /\ RowListed /\ HasRoom

\* A tape that begins with a label and n whole sessions.
Packed(files, n) ==
  /\ WritePos(n) <= Len(files) /\ files[1].kind = "label"
  /\ \A j \in 1..n : /\ files[2 * j].kind = "index" /\ files[2 * j].num = j
                     /\ files[2 * j + 1].kind = "tar"
                     /\ files[2 * j + 1].run = files[2 * j].run

\* The cassette the run is at work on, a part of which may have failed.
Torn(t) == t = job.tape /\ phase \in {"undo", "restore"}

Settled(t) == WellFormed(closed[t]) /\ open[t] = Empty

Layout ==
  /\ \A t \in Tapes : regName[t] # 0 => Torn(t) \/ Settled(t)
  /\ AtTape => Packed(closed[job.tape], job.lastNum)

SInv == BInv /\ Ledger

LInv == SInv /\ Layout

-----------------------------------------------------------------------------
(* Whole sessions on a tape. *)

\* A write behind n whole sessions keeps them.
LEMMA OverwriteKeepsPacked ==
  ASSUME NEW files \in Seq(Seg), NEW n \in Nat, NEW segs \in Seq(Seg), Packed(files, n)
  PROVE  Packed(Overwrite(files, WritePos(n), segs), n)
<1> DEFINE p == WritePos(n)
           new == Overwrite(files, p, segs)
<1>1. p \in 0..Len(files) /\ p = 2 * n + 1 /\ Len(segs) \in Nat
  BY LenProperties DEF WritePos, Packed
<1>2. Len(new) = p + Len(segs) /\ \A i \in 1..p : new[i] = files[i]
  BY <1>1, OverwriteFacts
<1> HIDE DEF new, p
<1>3. WritePos(n) <= Len(new) /\ new[1].kind = "label"
  BY <1>1, <1>2 DEF Packed, WritePos
<1>4. ASSUME NEW j \in 1..n
      PROVE  /\ new[2 * j].kind = "index" /\ new[2 * j].num = j
             /\ new[2 * j + 1].kind = "tar" /\ new[2 * j + 1].run = new[2 * j].run
  <2>1. 2 * j \in 1..p /\ 2 * j + 1 \in 1..p
    BY <1>1
  <2>2. new[2 * j] = files[2 * j] /\ new[2 * j + 1] = files[2 * j + 1]
    BY <2>1, <1>2
  <2> QED
    BY <2>2, ZenonT(60) DEF Packed
<1>5. Packed(new, n)
  BY <1>3, <1>4 DEF Packed
<1> QED
  BY <1>5 DEF new, p

\* Behind n whole sessions: a closing pair, or a pointer and an empty file.
LEMMA PackedAndClosed ==
  ASSUME NEW files \in Seq(Seg), NEW n \in Nat, NEW segs \in Seq(Seg), Packed(files, n),
         Len(segs) = 2, segs[1].kind \in {"empty", "pointer"}, segs[2] = Empty
  PROVE  WellFormed(Overwrite(files, WritePos(n), segs))
<1> DEFINE p == WritePos(n)
           new == Overwrite(files, p, segs)
<1>1. p \in 0..Len(files) /\ p = 2 * n + 1
  BY LenProperties DEF WritePos, Packed
<1>2. Len(new) = p + Len(segs) /\ \A i \in 1..Len(segs) : new[p + i] = segs[i]
  BY <1>1, OverwriteFacts
<1>3. Packed(new, n)
  BY OverwriteKeepsPacked
<1> HIDE DEF new, p
<1>4. new[p + 1] = segs[1] /\ new[p + 2] = segs[2]
  BY <1>2
<1>5. /\ n \in 0..Len(new) /\ Len(new) = 2 * n + 3
      /\ new[2 * n + 2].kind \in {"empty", "pointer"} /\ new[2 * n + 3] = Empty
  <2>1. p + 1 = 2 * n + 2 /\ p + 2 = 2 * n + 3
    BY <1>1
  <2> QED
    BY <2>1, <1>1, <1>2, <1>4
<1>6. WellFormed(new)
  BY <1>3, <1>5 DEF Packed, WellFormed
<1> QED
  BY <1>6 DEF new, p

\* Behind n whole sessions: one more, with its closing pair.
LEMMA PackedAndOneMore ==
  ASSUME NEW files \in Seq(Seg), NEW n \in Nat, NEW segs \in Seq(Seg), Packed(files, n),
         NEW s \in SessionId, s.num = n + 1, NEW f \in Tapes \cup {NoTape},
         Len(segs) = 4, segs[1] = Index(s, f), segs[2] = Tar(s),
         segs[3].kind \in {"empty", "pointer"}, segs[4] = Empty
  PROVE  WellFormed(Overwrite(files, WritePos(n), segs))
<1> DEFINE p == WritePos(n)
           new == Overwrite(files, p, segs)
           K == n + 1
<1>1. p \in 0..Len(files) /\ p = 2 * n + 1
  BY LenProperties DEF WritePos, Packed
<1>2. Len(new) = p + Len(segs) /\ \A i \in 1..Len(segs) : new[p + i] = segs[i]
  BY <1>1, OverwriteFacts, ZenonT(60)
<1>3. Packed(new, n)
  BY OverwriteKeepsPacked
<1> HIDE DEF new, p
<1>4. /\ new[p + 1] = segs[1] /\ new[p + 2] = segs[2]
      /\ new[p + 3] = segs[3] /\ new[p + 4] = segs[4]
  BY <1>2
<1>5. p + 1 = 2 * K /\ p + 2 = 2 * K + 1 /\ p + 3 = 2 * K + 2 /\ p + 4 = 2 * K + 3
  BY <1>1
<1>6. /\ segs[1].kind = "index" /\ segs[1].num = K
      /\ segs[2].kind = "tar" /\ segs[2].run = segs[1].run
  BY DEF Index, Tar, Blocks
<1>7. /\ new[2 * K].kind = "index" /\ new[2 * K].num = K
      /\ new[2 * K + 1].kind = "tar" /\ new[2 * K + 1].run = new[2 * K].run
      /\ new[2 * K + 2].kind \in {"empty", "pointer"} /\ new[2 * K + 3] = Empty
      /\ Len(new) = 2 * K + 3
  BY <1>2, <1>4, <1>5, <1>6
<1> HIDE DEF K
<1>8. \A j \in 1..K : /\ new[2 * j].kind = "index" /\ new[2 * j].num = j
                      /\ new[2 * j + 1].kind = "tar"
                      /\ new[2 * j + 1].run = new[2 * j].run
  <2> TAKE j \in 1..K
  <2>1. CASE j = K
    BY <2>1, <1>7
  <2>2. CASE j # K
    <3>1. j \in 1..n
      BY <2>2 DEF K
    <3> QED
      BY <3>1, <1>3 DEF Packed
  <2> QED
    BY <2>1, <2>2
<1>9. K \in 0..Len(new) /\ new[1].kind = "label"
  BY <1>3, <1>7 DEF K, Packed
<1>10. WellFormed(new)
  BY <1>7, <1>8, <1>9 DEF WellFormed
<1> QED
  BY <1>10 DEF new, p

\* Up to a session that can be read, a well-formed cassette has whole sessions.
LEMMA SessionsBefore ==
  ASSUME NEW files \in Seq(Seg), WellFormed(files), NEW s \in SessionId, Holds(files, s)
  PROVE  Packed(files, s.num)
<1>1. /\ s.num \in Nat /\ Len(files) \in Nat /\ s.num > 0
      /\ 2 * s.num + 1 <= Len(files) /\ files[2 * s.num].kind = "index"
  BY LenProperties, KindsOfSegs DEF SessionId, Holds, Index, Blocks
<1>2. PICK K \in 0..Len(files) :
        /\ Len(files) = 2 * K + 3
        /\ files[1].kind = "label"
        /\ \A j \in 1..K : /\ files[2 * j].kind = "index"
                           /\ files[2 * j].num = j
                           /\ files[2 * j + 1].kind = "tar"
                           /\ files[2 * j + 1].run = files[2 * j].run
        /\ files[2 * K + 2].kind \in {"empty", "pointer"}
  <2>1. Len(files) >= 3
    BY <1>1
  <2>2. files # << >> /\ Len(files) # 2
    BY <2>1, EmptySeq
  <2> QED
    BY <2>2 DEF WellFormed
<1>3. s.num # K + 1
  <2>1. s.num = K + 1 => 2 * s.num = 2 * K + 2
    OBVIOUS
  <2> QED
    BY <2>1, <1>1, <1>2
<1>4. s.num <= K
  BY <1>1, <1>2, <1>3
<1>5. ASSUME NEW j \in 1..s.num
      PROVE  /\ files[2 * j].kind = "index" /\ files[2 * j].num = j
             /\ files[2 * j + 1].kind = "tar" /\ files[2 * j + 1].run = files[2 * j].run
  <2>1. j \in 1..K
    BY <1>1, <1>4
  <2> QED
    BY <2>1, <1>2
<1> QED
  BY <1>1, <1>2, <1>5 DEF Packed, WritePos

LEMMA LabelBefore ==
  ASSUME NEW files \in Seq(Seg), WellFormed(files), files # << >>
  PROVE  Packed(files, 0)
<1>1. Len(files) \in Nat /\ Len(files) # 0
  BY LenProperties, EmptySeq
<1>2. files[1].kind = "label"
  BY DEF WellFormed
<1> QED
  BY <1>1, <1>2 DEF Packed, WritePos

\* A reader that goes from session to session gets to the last whole one.
LEMMA PackedReaches ==
  ASSUME NEW files \in Seq(Seg), NEW n \in Nat, Packed(files, n)
  PROVE  Reaches(files, n)
<1> SUFFICES ASSUME NEW i \in 1..n
             PROVE  2 * i + 1 <= Len(files) /\ files[2 * i].kind = "index"
  BY DEF Reaches
<1>1. Len(files) \in Nat /\ 2 * n + 1 <= Len(files)
  BY LenProperties DEF Packed, WritePos
<1>2. 2 * i + 1 <= Len(files)
  BY <1>1
<1>3. files[2 * i].kind = "index"
  BY DEF Packed
<1> QED
  BY <1>2, <1>3

\* The end of what writePart puts on the cassette.
LEMMA PartImageEnd ==
  ASSUME TypeOK, ~job.mid
  PROVE  PartImage[3].kind \in {"empty", "pointer"} /\ PartImage[4] = Empty
<1> DEFINE last == IF job.part < job.parts
                     THEN Pointer(job.sess, SuggestNextName(job.tape)) ELSE Empty
<1>1. last.kind \in {"empty", "pointer"}
  BY KindsOfSegs
<1> HIDE DEF last
<1>2. PartImage = SessionImage(job.sess, job.from, last)
  BY DEF PartImage, last
<1> QED
  BY <1>1, <1>2 DEF SessionImage

-----------------------------------------------------------------------------
(* Ledger. *)

LEMMA NoSuchFault ==
  ASSUME Accountable
  PROVE  /\ "seek" \notin Faults
         /\ \A k \in {"position", "delete", "cancel", "crash", "catalog"} : ~Fault(k)
BY DEF Accountable, Fault

LEMMA LedgerInit == ASSUME Init PROVE Ledger
BY DEF Init, Ledger, Live, Accounted, RowListed, HasRoom, AtTape, Writing, PartAtWork

\* The place behind the last session is on the cassette when a run starts.
LEMMA StartHasRoom ==
  ASSUME SInv, NEW t \in Tapes, regName[t] # 0, phase = "idle",
         NEW last \in Nat, last = 0 \/ \E r \in RowsOn(t) : r.num = last
  PROVE  WritePos(last) <= Len(closed[t])
<1>1. closed[t] \in Seq(Seg) /\ rows \subseteq Row /\ closed[t] # << >>
  BY DEF SInv, BInv, TInv, TypeOK, Lasting, Registered
<1>2. Len(closed[t]) \in Nat /\ Len(closed[t]) # 0
  BY <1>1, LenProperties, EmptySeq
<1>3. CASE last = 0
  BY <1>2, <1>3 DEF WritePos
<1>4. ASSUME NEW r \in RowsOn(t), r.num = last PROVE WritePos(last) <= Len(closed[t])
  <2>1. r \in saved /\ r.tape = t
    BY <1>4 DEF SInv, Ledger, Accounted, Unsaved, PartAtWork, RowsOn
  <2>2. Holds(closed[t], r)
    BY <2>1 DEF SInv, BInv, Lasting, Backed
  <2> QED
    BY <2>2, <1>4 DEF Holds, WritePos
<1> QED
  BY <1>3, <1>4

\* A write of the run leaves the place behind its last session on the cassette.
LEMMA WritesKeepRoom ==
  ASSUME TInv, NEW segs \in Seq(Seg), WritePos(job.lastNum) <= Len(closed[job.tape]),
         closed' = [closed EXCEPT ![job.tape] = Overwrite(@, WritePos(job.lastNum), segs)]
  PROVE  WritePos(job.lastNum) <= Len(closed'[job.tape])
<1> DEFINE p == WritePos(job.lastNum)
<1>1. job.tape \in Tapes /\ closed \in [Tapes -> Seq(Seg)] /\ p \in Nat
  BY WritePosType DEF TInv, TypeOK, Job
<1>2. p \in 0..Len(closed[job.tape]) /\ Len(segs) \in Nat
  BY <1>1, LenProperties
<1>3. Len(Overwrite(closed[job.tape], p, segs)) = p + Len(segs)
  BY <1>1, <1>2, OverwriteFacts
<1> HIDE DEF p
<1>4. closed'[job.tape] = Overwrite(closed[job.tape], p, segs)
  BY <1>1 DEF p
<1>5. p <= Len(closed'[job.tape])
  BY <1>1, <1>2, <1>3, <1>4
<1> QED
  BY <1>5 DEF p

\* A step of the run that adds no row, after which it goes on.
LEMMA RunGoesOn ==
  ASSUME SInv, phase # "idle", phase' # "idle", run' = run, outcome' = outcome,
         ~job'.dead, rows' \subseteq rows,
         \A r \in rows' : /\ r \in saved => r \in saved'
                          /\ Unsaved(r) => r \in saved' \/ Unsaved(r)'
                          /\ Pending(r) => Pending(r)'
  PROVE  Live' /\ Accounted'
BY DEF SInv, Ledger, Live, Accounted

\* A step that ends the run well.
LEMMA RunEndsWell ==
  ASSUME SInv, phase # "idle", phase' = "idle", run' = run, ~job'.dead,
         NEW o \in Good, outcome' = [outcome EXCEPT ![run] = o],
         rows' = rows, rows \subseteq saved'
  PROVE  Ledger'
<1>1. /\ run \in Runs /\ outcome \in [Runs -> Outcomes]
      /\ \A r \in rows : r.run \in Runs
  BY DEF SInv, BInv, TInv, TypeOK, RunNumbered, Row
<1>2. \A r \in rows : r.run <= run /\ (outcome[r.run] \in Good \/ r.run = run)
  BY DEF SInv, Ledger, Accounted, Pending
<1>3. \A r \in rows : outcome'[r.run] \in Good
  BY <1>1, <1>2
<1> QED
  BY <1>2, <1>3
  DEF Ledger, Live, Accounted, RowListed, HasRoom, AtTape, Writing, PartAtWork

\* After a failed write.
LEMMA AfterFailedWriteLedger ==
  ASSUME SInv, phase = "restore", NEW causes, AfterFailedWrite(causes),
         UNCHANGED << catalog, run >>,
         WritePos(job.lastNum) <= Len(closed'[job.tape])
  PROVE  Ledger'
<1>1. /\ job'.tape = job.tape /\ job'.lastNum = job.lastNum /\ job'.created = job.created
      /\ ~job'.dead
      /\ \/ phase' \in {"abandon", "rollback"} /\ outcome' = outcome
         \/ phase' = "idle" /\ outcome' = [outcome EXCEPT ![run] = "tooBig"]
  BY DEF AfterFailedWrite, GiveUp, GoOn, Finish, SInv, BInv, TInv, TypeOK, Job, Ledger, Live
<1>2. rows' = rows /\ saved' = saved /\ run' = run /\ rows \subseteq saved
  BY DEF catalog, SInv, Ledger, Accounted, Unsaved, PartAtWork
<1>3. CASE phase' = "idle"
  <2>1. outcome' = [outcome EXCEPT ![run] = "tooBig"] /\ "tooBig" \in Good
    BY <1>1, <1>3 DEF Good
  <2> QED
    BY <2>1, <1>1, <1>2, <1>3, RunEndsWell
<1>4. CASE phase' \in {"abandon", "rollback"} /\ outcome' = outcome
  <2>1. Live' /\ Accounted'
    BY <1>1, <1>2, <1>4, RunGoesOn DEF Unsaved, Pending, PartAtWork
  <2> QED
    BY <2>1, <1>1, <1>4 DEF Ledger, RowListed, HasRoom, AtTape, PartAtWork
<1> QED
  BY <1>1, <1>3, <1>4

LEMMA LedgerStep ==
  ASSUME Accountable, SInv, TInv', [Next]_vars
  PROVE  Ledger'
<1>a. /\ job \in Job /\ job.tape \in Tapes /\ job.lastNum \in Nat /\ run \in 0..MaxRuns
      /\ job.created \subseteq Row /\ rows \subseteq Row /\ saved \subseteq rows
      /\ outcome \in [Runs -> Outcomes] /\ closed \in [Tapes -> Seq(Seg)]
      /\ MaxRuns \in Nat /\ TInv /\ Work /\ Lasting /\ Ledger
  BY BackupAssumption DEF SInv, BInv, TInv, TypeOK, Job
<1>n. /\ "seek" \notin Faults
      /\ \A k \in {"position", "delete", "cancel", "crash", "catalog"} : ~Fault(k)
  BY NoSuchFault
<1>l. Live /\ Accounted /\ RowListed /\ HasRoom
  BY <1>a DEF Ledger
\* Steps after which nothing but the phase and the error of the run is new.
<1>q. ASSUME UNCHANGED << media, catalog, run, outcome >>, phase # "idle", phase' # "idle",
             job'.tape = job.tape, job'.lastNum = job.lastNum, job'.created = job.created,
             job'.sess = job.sess, job'.toDrop = job.toDrop, ~job'.dead,
             phase \notin {"rollback"}, PartAtWork <=> PartAtWork', AtTape' => AtTape,
             phase' = "drop" => phase = "drop"
      PROVE  Ledger'
  <2>1. Live' /\ Accounted'
    BY <1>q, RunGoesOn DEF catalog, Unsaved, Pending
  <2>2. RowListed' /\ HasRoom'
    BY <1>q, <1>l DEF media, catalog, RowListed, HasRoom
  <2> QED
    BY <2>1, <2>2 DEF Ledger
<1>1. ASSUME NEW t \in Tapes, NEW full \in BOOLEAN, NEW n \in 1..MaxParts,
             NEW new \in BOOLEAN, NEW cap \in BOOLEAN, StartBackup(t, full, n, new, cap)
      PROVE  Ledger'
  <2> PICK last \in 0..MaxRuns :
        LET isFull == full \/ last = 0
        IN  /\ IsLastNum(t, last)
            /\ run' = run + 1
            /\ outcome' = [outcome EXCEPT ![run + 1] = "running"]
            /\ job' = [tape |-> t, isFull |-> isFull, parts |-> n, part |-> 1,
                       lastNum |-> IF isFull THEN 0 ELSE last,
                       from |-> NoTape, atCap |-> cap, moved |-> FALSE,
                       created |-> {}, sess |-> NoRow(t),
                       toDrop |-> IF isFull THEN RowsOn(t) ELSE {},
                       head |-> 0, mid |-> FALSE, err |-> {}, dead |-> FALSE]
            /\ phase' = IF isFull THEN "drop"
                        ELSE IF new /\ HasChanger THEN "swap" ELSE "begin"
    BY <1>1 DEF StartBackup
  <2>1. /\ phase = "idle" /\ run + 1 \in Runs /\ regName[t] # 0
        /\ UNCHANGED << media, catalog >>
    BY <1>1, <1>a DEF StartBackup, Runs
  <2>2. Live'
    BY <2>1, <1>a DEF Live
  <2>3. Accounted'
    <3>1. \A r \in rows : r.run <= run /\ outcome[r.run] \in Good /\ r \in saved /\ r.run \in Runs
      BY <2>1, <1>l, <1>a DEF Accounted, Pending, Unsaved, PartAtWork, Row
    <3>2. \A r \in rows : r.run <= run + 1 /\ outcome'[r.run] = outcome[r.run]
      BY <3>1, <2>1, <1>a DEF Runs
    <3> QED
      BY <3>1, <3>2, <2>1 DEF catalog, Accounted
  <2>4. RowListed'
    BY <2>1 DEF catalog, RowListed, RowsOn, PartAtWork
  <2>5. HasRoom'
    <3>1. WritePos(last) <= Len(closed[t]) /\ WritePos(0) <= Len(closed[t])
      BY <2>1, StartHasRoom DEF IsLastNum
    <3> QED
      BY <3>1, <2>1 DEF media, HasRoom
  <2> QED
    BY <2>2, <2>3, <2>4, <2>5 DEF Ledger
<1>2. ASSUME NEW r \in job.toDrop, DropSession(r) PROVE Ledger'
  <2>1. /\ phase = "drop" /\ phase' = "drop" /\ UNCHANGED << media, run, outcome >>
        /\ rows' = rows \ {r} /\ saved' = saved \ {r}
        /\ job'.tape = job.tape /\ job'.lastNum = job.lastNum /\ job'.created = job.created
        /\ job'.toDrop = job.toDrop \ {r} /\ ~job'.dead
    BY <1>2, <1>a DEF DropSession, Alive, Job
  <2>2. Live' /\ Accounted'
    BY <2>1, RunGoesOn DEF Pending, Unsaved, PartAtWork
  <2>3. RowListed' /\ HasRoom'
    BY <2>1, <1>l DEF media, RowListed, HasRoom, AtTape, PartAtWork
  <2> QED
    BY <2>2, <2>3 DEF Ledger
<1>3. CASE DropFails
  BY <1>3, <1>n, <1>l DEF DropFails, Live, RowListed
<1>4. CASE DropDone
  BY <1>4, <1>q, <1>l DEF DropDone, GoOn, PartAtWork, AtTape, Live
<1>5. CASE BeginPart
  <2>1. /\ phase = "begin" /\ phase' = "position" /\ UNCHANGED << media, saved, run, outcome >>
        /\ rows' = rows \cup {PartRow} /\ PartRow.run = run
        /\ job'.tape = job.tape /\ job'.lastNum = job.lastNum /\ job'.created = job.created
        /\ job'.sess = PartRow /\ ~job'.dead
    BY <1>5, <1>a DEF BeginPart, GoOn, Alive, Job, PartRow
  <2>2. Live'
    BY <2>1, <1>l DEF Live
  <2>3. Accounted'
    <3>1. \A r \in rows : /\ r.run <= run /\ r \in saved
                          /\ outcome[r.run] \in Good \/ (r.run = run /\ r \in job.created)
      BY <2>1, <1>l DEF Accounted, Pending, Unsaved, PartAtWork
    <3> QED
      BY <3>1, <2>1, <1>a DEF Accounted, Pending, Unsaved, PartAtWork
  <2>4. RowListed' /\ HasRoom'
    BY <2>1, <1>l DEF media, RowListed, HasRoom, AtTape, Writing
  <2> QED
    BY <2>2, <2>3, <2>4 DEF Ledger
\* Nothing of the part at work is left when the run gives up.
<1>r. ASSUME UNCHANGED << media, catalog, run >>, NEW causes, GiveUp(causes),
             phase \in {"begin", "abandon", "swap"}
      PROVE  Ledger'
  <2>1. /\ phase' = "rollback" /\ UNCHANGED outcome /\ job'.created = job.created
        /\ ~job'.dead
    BY <1>r, <1>a, <1>l DEF GiveUp, GoOn, Live, Job
  <2>2. Live' /\ Accounted'
    BY <2>1, <1>r, RunGoesOn DEF catalog, Pending, Unsaved, PartAtWork
  <2> QED
    BY <2>1, <2>2 DEF Ledger, RowListed, HasRoom, AtTape, Writing, PartAtWork
<1>6. CASE BeginPartFails
  BY <1>6, <1>r DEF BeginPartFails
<1>7. CASE PositionPart
  <2>1. /\ job'.tape = job.tape /\ job'.lastNum = job.lastNum /\ job'.created = job.created
        /\ job'.sess = job.sess /\ job'.toDrop = job.toDrop /\ ~job'.dead
    BY <1>7, <1>a DEF PositionPart, Alive, Job
  <2> QED
    BY <2>1, <1>7, <1>q DEF PositionPart, GoOn, PartAtWork, AtTape, Writing
<1>8. CASE PositionFails
  <2>1. WritePos(job.lastNum) \in Nat /\ Len(closed[job.tape]) \in Nat
    BY <1>a, WritePosType, LenProperties DEF TInv
  <2>2. ~(WritePos(job.lastNum) > Len(closed[job.tape]))
    BY <2>1, <1>8, <1>l DEF PositionFails, HasRoom, AtTape, Writing
  <2> QED
    BY <2>2, <1>8, <1>n, <1>l DEF PositionFails, Live
<1>9. CASE FillSnapshot
  BY <1>9, <1>q, <1>l DEF FillSnapshot, GoOn, PartAtWork, AtTape, Writing, Live
<1>10. CASE SnapshotLosesPosition
  BY <1>10, <1>n DEF SnapshotLosesPosition, Fault
<1>11. CASE WritePart
  <2>1. /\ phase = "write" /\ phase' = "save" /\ UNCHANGED << catalog, run, outcome, job >>
    BY <1>11 DEF WritePart, GoOn
  <2>2. Live' /\ Accounted'
    BY <2>1, <1>l, RunGoesOn DEF catalog, Live, Pending, Unsaved, PartAtWork
  <2> QED
    BY <2>1, <2>2, <1>l DEF catalog, Ledger, RowListed, HasRoom, AtTape, Writing, PartAtWork
<1>12. ASSUME NEW cause \in {"full", "write"}, NEW c \in 0..3,
              NEW o \in {Empty, PartImage[c + 1]}, WritePartFails(cause, c, o)
       PROVE  Ledger'
  <2>1. /\ phase = "write" /\ phase' = "undo" /\ UNCHANGED << catalog, run, outcome >>
        /\ job'.tape = job.tape /\ job'.lastNum = job.lastNum /\ job'.created = job.created
        /\ job'.sess = job.sess /\ ~job'.dead
    BY <1>12, <1>a, <1>l DEF WritePartFails, GoOn, Live, Job
  <2>2. Live' /\ Accounted'
    BY <2>1, RunGoesOn DEF catalog, Pending, Unsaved, PartAtWork
  <2>3. RowListed'
    BY <2>1, <1>l DEF catalog, RowListed, PartAtWork
  <2>4. job.head = WritePos(job.lastNum) /\ WritePos(job.lastNum) <= Len(closed[job.tape])
    BY <2>1, <1>a, <1>l DEF Work, HeadPlaced, HasRoom, AtTape, Writing
  <2>5. WritePos(job.lastNum) <= Len(closed'[job.tape])
    <3>1. CASE UNCHANGED media
      BY <3>1, <2>1, <2>4 DEF media
    <3>2. CASE closed' = [closed EXCEPT ![job.tape] =
                            Overwrite(@, job.head, SubSeq(PartImage, 1, c))]
      <4>1. PartImage \in Seq(Seg) /\ Len(PartImage) = 4
        BY <1>a, PartImageFacts DEF TInv
      <4>2. c \in 0..Len(PartImage)
        BY <4>1
      <4>3. SubSeq(PartImage, 1, c) \in Seq(Seg)
        BY <4>1, <4>2, PrefixFacts
      <4> QED
        BY <4>3, <3>2, <2>4, <1>a, WritesKeepRoom
    <3> QED
      BY <3>1, <3>2, <1>12 DEF WritePartFails
  <2> QED
    BY <2>1, <2>2, <2>3, <2>5 DEF Ledger, HasRoom
<1>13. CASE UndoPart
  <2>1. /\ phase = "undo" /\ phase' = "restore" /\ UNCHANGED << media, run, outcome, job >>
        /\ rows' = rows \ {job.sess} /\ saved' = saved \ {job.sess}
    BY <1>13, <1>n, <1>l DEF UndoPart, GoOn, Live, RowListed, PartAtWork
  <2>2. Live' /\ Accounted'
    BY <2>1, <1>l, RunGoesOn DEF Live, Pending, Unsaved, PartAtWork
  <2> QED
    BY <2>1, <2>2, <1>l DEF media, Ledger, RowListed, HasRoom, AtTape, Writing, PartAtWork
<1>b. EodPair \in Seq(Seg) /\ << Empty >> \in Seq(Seg)
  BY BlankSegTypes DEF EodPair
<1>14. CASE RestoreEOD
  <2>1. WritePos(job.lastNum) <= Len(closed'[job.tape])
    BY <1>14, <1>a, <1>b, WritesKeepRoom DEF RestoreEOD
  <2> QED
    BY <2>1, <1>14, AfterFailedWriteLedger DEF RestoreEOD
<1>15. CASE RestoreEODFails
  <2>1. WritePos(job.lastNum) <= Len(closed'[job.tape])
    <3>1. WritePos(job.lastNum) <= Len(closed[job.tape])
      BY <1>15, <1>l DEF RestoreEODFails, HasRoom, AtTape, Writing
    <3>2. CASE UNCHANGED media
      BY <3>1, <3>2 DEF media
    <3>3. CASE closed' = [closed EXCEPT ![job.tape] =
                            Overwrite(@, WritePos(job.lastNum), << Empty >>)]
      BY <3>1, <3>3, <1>a, <1>b, WritesKeepRoom
    <3> QED
      BY <3>2, <3>3, <1>15 DEF RestoreEODFails
  <2> QED
    BY <2>1, <1>15, AfterFailedWriteLedger DEF RestoreEODFails
<1>16. CASE CommitPart
  <2>1. /\ phase = "save" /\ UNCHANGED << media, rows, run >>
        /\ saved' = saved \cup (rows \cap {job.sess})
        /\ job'.created = job.created \cup {job.sess} /\ ~job'.dead
        /\ \/ phase' = "swap" /\ UNCHANGED outcome
           \/ phase' = "idle" /\ outcome' = [outcome EXCEPT ![run] = "ok"]
    BY <1>16, <1>a, <1>l DEF CommitPart, SaveFiles, GoOn, Finish, Live, Job
  <2>2. rows \subseteq saved'
    BY <2>1, <1>l DEF Accounted, Unsaved
  <2>3. CASE phase' = "swap" /\ UNCHANGED outcome
    <3>1. Live' /\ Accounted'
      BY <2>1, <2>2, <2>3, RunGoesOn DEF Pending
    <3> QED
      BY <3>1, <2>3 DEF Ledger, RowListed, HasRoom, AtTape, Writing, PartAtWork
  <2>4. CASE phase' = "idle" /\ outcome' = [outcome EXCEPT ![run] = "ok"]
    <3>1. "ok" \in Good
      BY DEF Good
    <3> QED
      BY <3>1, <2>1, <2>2, <2>4, RunEndsWell
  <2> QED
    BY <2>1, <2>3, <2>4
<1>17. CASE VerifyFails
  <2>1. /\ phase = "save" /\ UNCHANGED << media, rows, run >> /\ phase' = "idle"
        /\ saved' = saved \cup (rows \cap {job.sess}) /\ ~job'.dead
        /\ outcome' = [outcome EXCEPT ![run] = "verify"]
    BY <1>17, <1>a, <1>l DEF VerifyFails, SaveFiles, Finish, Live, Job
  <2>2. rows \subseteq saved' /\ "verify" \in Good
    BY <2>1, <1>l DEF Accounted, Unsaved, Good
  <2> QED
    BY <2>1, <2>2, RunEndsWell
<1>18. CASE SaveFails
  <2>1. /\ phase = "save" /\ UNCHANGED << catalog, run, outcome >> /\ phase' = "rollback"
        /\ job'.created = job.created \cup {job.sess} /\ ~job'.dead
    BY <1>18, <1>a, <1>l DEF SaveFails, GoOn, Live, Job
  <2>2. Live' /\ Accounted'
    BY <2>1, RunGoesOn DEF catalog, Pending, Unsaved, PartAtWork
  <2> QED
    BY <2>1, <2>2 DEF Ledger, RowListed, HasRoom, AtTape, Writing, PartAtWork
<1>19. CASE AbandonTape
  <2>1. /\ phase = "abandon" /\ phase' = "swap" /\ UNCHANGED << catalog, run, outcome, job >>
    BY <1>19 DEF AbandonTape, GoOn
  <2>2. Live' /\ Accounted'
    BY <2>1, <1>l, RunGoesOn DEF catalog, Live, Pending, Unsaved, PartAtWork
  <2> QED
    BY <2>1, <2>2 DEF Ledger, RowListed, HasRoom, AtTape, Writing, PartAtWork
<1>20. ASSUME NEW c \in 0..1, AbandonFails(c) PROVE Ledger'
  <2>1. /\ phase = "abandon" /\ phase' = "rollback" /\ UNCHANGED << catalog, run, outcome >>
        /\ job'.created = job.created /\ ~job'.dead
    BY <1>20, <1>a, <1>l DEF AbandonFails, GiveUp, GoOn, Live, Job
  <2>2. Live' /\ Accounted'
    BY <2>1, RunGoesOn DEF catalog, Pending, Unsaved, PartAtWork
  <2> QED
    BY <2>1, <2>2 DEF Ledger, RowListed, HasRoom, AtTape, Writing, PartAtWork
<1>21. ASSUME NEW t \in Tapes, NEW n \in 1..MaxName, Swap(t, n) PROVE Ledger'
  <2>1. /\ phase = "swap" /\ phase' = "begin" /\ UNCHANGED << rows, saved, run, outcome >>
        /\ closed'[t] = << Label(n), Empty >>
        /\ job'.tape = t /\ job'.lastNum = 0 /\ job'.created = job.created /\ ~job'.dead
    BY <1>21, <1>a DEF Swap, GoOn, Alive, Job
  <2>2. Live' /\ Accounted'
    BY <2>1, RunGoesOn DEF Pending, Unsaved, PartAtWork
  <2>3. HasRoom'
    <3>1. Len(closed'[job'.tape]) = 2
      BY <2>1
    <3>2. WritePos(job'.lastNum) = 1
      BY <2>1 DEF WritePos
    <3>3. WritePos(job'.lastNum) <= Len(closed'[job'.tape])
      BY <3>1, <3>2
    <3> QED
      BY <3>3 DEF HasRoom
  <2> QED
    BY <2>1, <2>2, <2>3 DEF Ledger, RowListed, PartAtWork
<1>22. ASSUME NEW t \in Tapes, NEW n \in 1..MaxName, NEW c \in 0..2, SwapUnregistered(t, n, c)
       PROVE  Ledger'
  <2>1. /\ phase = "swap" /\ phase' = "rollback" /\ UNCHANGED << catalog, run, outcome >>
        /\ job'.created = job.created /\ ~job'.dead
    BY <1>22, <1>a, <1>l DEF SwapUnregistered, GiveUp, GoOn, Live, Job
  <2>2. Live' /\ Accounted'
    BY <2>1, RunGoesOn DEF catalog, Pending, Unsaved, PartAtWork
  <2> QED
    BY <2>1, <2>2 DEF Ledger, RowListed, HasRoom, AtTape, Writing, PartAtWork
<1>23. CASE SwapFails
  BY <1>23, <1>r DEF SwapFails
<1>24. ASSUME NEW r \in job.created, RollbackSession(r) PROVE Ledger'
  <2>1. /\ phase = "rollback" /\ phase' = "rollback" /\ UNCHANGED << media, run, outcome >>
        /\ rows' = rows \ {r} /\ saved' = saved \ {r}
        /\ job'.created = job.created \ {r} /\ ~job'.dead
    BY <1>24, <1>a, <1>l, <1>n DEF RollbackSession, Live, Job
  <2>2. Live' /\ Accounted'
    BY <2>1, RunGoesOn DEF Pending, Unsaved, PartAtWork
  <2> QED
    BY <2>1, <2>2 DEF Ledger, RowListed, HasRoom, AtTape, Writing, PartAtWork
<1>25. CASE RollbackDone
  <2>1. /\ phase = "rollback" /\ job.created = {} /\ phase' = "idle"
        /\ outcome' = [outcome EXCEPT ![run] = "failed"]
        /\ UNCHANGED << media, catalog, run, job >>
    BY <1>25 DEF RollbackDone, Finish
  <2>2. \A r \in rows : r.run <= run /\ outcome[r.run] \in Good /\ r \in saved /\ r.run \in Runs
    BY <2>1, <1>l, <1>a DEF Accounted, Pending, Unsaved, PartAtWork, Row
  <2>3. run \in Runs /\ outcome[run] \notin Good
    BY <2>1, <1>l, <1>a DEF Live, Good, TInv, RunNumbered
  <2>4. \A r \in rows : outcome'[r.run] \in Good
    BY <2>1, <2>2, <2>3, <1>a
  <2> QED
    BY <2>1, <2>2, <2>4, <1>l
    DEF catalog, Ledger, Live, Accounted, RowListed, HasRoom, AtTape, Writing, PartAtWork
<1>26. CASE Cancel
  BY <1>26, <1>n DEF Cancel
<1>27. CASE Crash
  BY <1>27, <1>n DEF Crash
<1>28. ASSUME NEW r \in rows, DeleteSession(r) PROVE Ledger'
  BY <1>28, <1>n DEF DeleteSession
<1>29. ASSUME NEW before \in Runs, Prune(before) PROVE Ledger'
  BY <1>29, <1>n DEF Prune
<1>30. CASE UNCHANGED vars
  BY <1>30, <1>l
  DEF vars, Ledger, Live, Accounted, RowListed, HasRoom, AtTape, PartAtWork, Pending, Unsaved
<1> QED
  BY <1>1, <1>2, <1>3, <1>4, <1>5, <1>6, <1>7, <1>8, <1>9, <1>10, <1>11, <1>12, <1>13,
     <1>14, <1>15, <1>16, <1>17, <1>18, <1>19, <1>20, <1>21, <1>22, <1>23, <1>24, <1>25,
     <1>26, <1>27, <1>28, <1>29, <1>30
  DEF Next, Step

-----------------------------------------------------------------------------
(* Layout. *)

LEMMA LayoutInit == ASSUME Init PROVE Layout
<1> PICK t \in Tapes :
      /\ closed = [u \in Tapes |-> IF u = t THEN << Label(1), Empty >> ELSE << >>]
      /\ regName = [u \in Tapes |-> IF u = t THEN 1 ELSE 0]
  BY DEF Init
<1>1. WellFormed(<< Label(1), Empty >>)
  BY KindsOfSegs DEF WellFormed
<1> QED
  BY <1>1 DEF Init, Layout, Settled, AtTape, Writing

\* Behind its last session a run finds whole sessions when it starts.
LEMMA StartPacked ==
  ASSUME LInv, NEW t \in Tapes, regName[t] # 0, phase = "idle",
         NEW last \in Nat, last = 0 \/ \E r \in RowsOn(t) : r.num = last
  PROVE  Packed(closed[t], last)
<1>1. /\ closed[t] \in Seq(Seg) /\ rows \subseteq Row /\ Row \subseteq SessionId
      /\ closed[t] # << >>
  BY RowIsSessionId DEF LInv, SInv, BInv, TInv, TypeOK, Lasting, Registered
<1>2. WellFormed(closed[t])
  BY DEF LInv, Layout, Torn, Settled
<1>3. CASE last = 0
  BY <1>1, <1>2, <1>3, LabelBefore
<1>4. ASSUME NEW r \in RowsOn(t), r.num = last PROVE Packed(closed[t], last)
  <2>1. r \in saved /\ r.tape = t /\ r \in SessionId
    BY <1>1, <1>4 DEF LInv, SInv, Ledger, Accounted, Unsaved, PartAtWork, RowsOn
  <2>2. Holds(closed[t], r)
    BY <2>1 DEF LInv, SInv, BInv, Lasting, Backed
  <2>3. Packed(closed[t], r.num)
    BY <2>1, <2>2, <1>1, <1>2, SessionsBefore
  <2> QED
    BY <2>3, <1>4
<1> QED
  BY <1>3, <1>4

\* A step that leaves the cassettes and the place of the run alone.
LEMMA MediaUntouched ==
  ASSUME LInv, UNCHANGED << media, regName >>, \A t \in Tapes : Torn(t) => Torn(t)',
         AtTape' => AtTape /\ job'.tape = job.tape /\ job'.lastNum = job.lastNum
  PROVE  Layout'
BY DEF LInv, Layout, Settled, media

\* A write of the run after which its cassette is in order again.
LEMMA TapeInOrder ==
  ASSUME LInv, NEW segs \in Seq(Seg), Packed(closed[job.tape], job.lastNum),
         WellFormed(Overwrite(closed[job.tape], WritePos(job.lastNum), segs)),
         closed' = [closed EXCEPT ![job.tape] = Overwrite(@, WritePos(job.lastNum), segs)],
         open' = [open EXCEPT ![job.tape] = Empty], regName' = regName,
         AtTape' => job'.tape = job.tape /\ job'.lastNum = job.lastNum
  PROVE  Layout'
<1> DEFINE new == Overwrite(closed[job.tape], WritePos(job.lastNum), segs)
<1>1. /\ job.tape \in Tapes /\ job.lastNum \in Nat /\ closed[job.tape] \in Seq(Seg)
      /\ closed \in [Tapes -> Seq(Seg)] /\ open \in [Tapes -> Seg]
  BY DEF LInv, SInv, BInv, TInv, TypeOK, Job
<1>2. Packed(new, job.lastNum)
  BY <1>1, OverwriteKeepsPacked
<1> HIDE DEF new
<1>3. /\ closed'[job.tape] = new /\ open'[job.tape] = Empty
      /\ \A t \in Tapes : t # job.tape => closed'[t] = closed[t] /\ open'[t] = open[t]
  BY <1>1 DEF new
<1>4. WellFormed(new)
  BY DEF new
<1>5. ASSUME NEW t \in Tapes, regName'[t] # 0 PROVE Settled(t)'
  <2>1. CASE t = job.tape
    BY <2>1, <1>3, <1>4 DEF Settled
  <2>2. CASE t # job.tape
    BY <2>2, <1>3, <1>5 DEF LInv, Layout, Torn, Settled
  <2> QED
    BY <2>1, <2>2
<1>6. ASSUME AtTape' PROVE Packed(closed'[job'.tape], job'.lastNum)
  BY <1>2, <1>3, <1>6
<1> QED
  BY <1>5, <1>6 DEF Layout

\* The formatting of a cassette that the catalog does not have.
LEMMA LayoutOfFormatted ==
  ASSUME LInv, ~PartAtWork, phase # "restore", NEW t \in Tapes, ~Labelled(t), NEW files, NEW o,
         closed' = [closed EXCEPT ![t] = files], open' = [open EXCEPT ![t] = o],
         \/ regName' = regName
         \/ /\ \E n : regName' = [regName EXCEPT ![t] = n]
            /\ WellFormed(files) /\ o = Empty
  PROVE  \A u \in Tapes : regName'[u] # 0 => Settled(u)'
<1>1. /\ closed \in [Tapes -> Seq(Seg)] /\ open \in [Tapes -> Seg]
      /\ regName \in [Tapes -> Nat]
  BY DEF LInv, SInv, BInv, TInv, TypeOK
<1>2. regName[t] = 0
  BY DEF Labelled, LInv, SInv, BInv, Lasting, Registered
<1> SUFFICES ASSUME NEW u \in Tapes, regName'[u] # 0 PROVE Settled(u)'
  OBVIOUS
<1>3. CASE u = t
  BY <1>1, <1>2, <1>3 DEF Settled
<1>4. CASE u # t
  <2>1. regName[u] # 0 /\ closed'[u] = closed[u] /\ open'[u] = open[u]
    BY <1>1, <1>4
  <2> QED
    BY <2>1 DEF LInv, Layout, Torn, Settled, PartAtWork
<1> QED
  BY <1>3, <1>4

LEMMA LayoutStep ==
  ASSUME Tidy, LInv, TInv', [Next]_vars
  PROVE  Layout'
<1>a. /\ job \in Job /\ job.tape \in Tapes /\ job.lastNum \in Nat /\ job.sess \in SessionId
      /\ closed \in [Tapes -> Seq(Seg)] /\ open \in [Tapes -> Seg]
      /\ TInv /\ Work /\ Live /\ RowListed /\ HasRoom /\ Layout
  BY DEF LInv, SInv, BInv, TInv, TypeOK, Job, Ledger
<1>n. /\ Accountable /\ "seek" \notin Faults
      /\ \A k \in {"position", "delete", "cancel", "crash", "catalog"} : ~Fault(k)
      /\ ~Fault("restore") /\ ~Fault("abandon")
  BY NoSuchFault DEF Tidy, Fault
<1>p. ASSUME phase \in Writing
      PROVE  /\ Packed(closed[job.tape], job.lastNum)
             /\ WritePos(job.lastNum) <= Len(closed[job.tape])
  BY <1>p, <1>a DEF Layout, HasRoom, AtTape
<1>1. ASSUME NEW t \in Tapes, NEW full \in BOOLEAN, NEW n \in 1..MaxParts,
             NEW new \in BOOLEAN, NEW cap \in BOOLEAN, StartBackup(t, full, n, new, cap)
      PROVE  Layout'
  <2> PICK last \in 0..MaxRuns :
        LET isFull == full \/ last = 0
        IN  /\ IsLastNum(t, last)
            /\ job' = [tape |-> t, isFull |-> isFull, parts |-> n, part |-> 1,
                       lastNum |-> IF isFull THEN 0 ELSE last,
                       from |-> NoTape, atCap |-> cap, moved |-> FALSE,
                       created |-> {}, sess |-> NoRow(t),
                       toDrop |-> IF isFull THEN RowsOn(t) ELSE {},
                       head |-> 0, mid |-> FALSE, err |-> {}, dead |-> FALSE]
    BY <1>1 DEF StartBackup
  <2>1. phase = "idle" /\ regName[t] # 0 /\ UNCHANGED << media, catalog >>
    BY <1>1 DEF StartBackup
  <2>2. Packed(closed[t], last) /\ Packed(closed[t], 0)
    BY <2>1, StartPacked DEF IsLastNum
  <2>3. job'.tape = t /\ job'.lastNum \in {0, last}
    OBVIOUS
  <2>4. \A u \in Tapes : regName'[u] # 0 => Settled(u)'
    BY <2>1, <1>a DEF media, catalog, Layout, Torn, Settled
  <2>5. Packed(closed'[job'.tape], job'.lastNum)
    BY <2>1, <2>2, <2>3 DEF media
  <2> QED
    BY <2>4, <2>5 DEF Layout
<1>2. ASSUME NEW r \in job.toDrop, DropSession(r) PROVE Layout'
  <2>1. /\ phase' = "drop" /\ phase = "drop" /\ UNCHANGED << media, regName >>
        /\ job'.tape = job.tape /\ job'.lastNum = job.lastNum
    BY <1>2, <1>a DEF DropSession, Job
  <2> QED
    BY <2>1, MediaUntouched DEF Torn, AtTape
<1>3. CASE DropFails
  BY <1>3, <1>n, <1>a DEF DropFails, Live, RowListed
<1>4. CASE DropDone
  BY <1>4, MediaUntouched DEF DropDone, GoOn, catalog, Torn, AtTape
<1>5. CASE BeginPart
  <2>1. job'.tape = job.tape /\ job'.lastNum = job.lastNum
    BY <1>5, <1>a DEF BeginPart, Job
  <2> QED
    BY <2>1, <1>5, MediaUntouched DEF BeginPart, GoOn, Torn, AtTape, Writing
<1>6. CASE BeginPartFails
  BY <1>6, MediaUntouched DEF BeginPartFails, GiveUp, GoOn, catalog, Torn, AtTape, Writing
<1>7. CASE PositionPart
  <2>1. job'.tape = job.tape /\ job'.lastNum = job.lastNum
    BY <1>7, <1>a DEF PositionPart, Job
  <2> QED
    BY <2>1, <1>7, MediaUntouched DEF PositionPart, GoOn, catalog, Torn, AtTape, Writing
<1>8. CASE PositionFails
  BY <1>8, MediaUntouched DEF PositionFails, GiveUp, GoOn, catalog, Torn, AtTape, Writing
<1>9. CASE FillSnapshot
  BY <1>9, MediaUntouched DEF FillSnapshot, GoOn, catalog, Torn, AtTape, Writing
<1>10. CASE SnapshotLosesPosition
  BY <1>10, <1>n DEF SnapshotLosesPosition, Fault
<1>11. CASE WritePart
  <2>1. /\ job.head = WritePos(job.lastNum) /\ ~job.mid /\ phase \in Writing
        /\ job.sess.num = job.lastNum + 1
    BY <1>11, <1>a DEF WritePart, Work, HeadPlaced, RowAtWork, Writing
  <2>2. /\ PartImage \in Seq(Seg) /\ Len(PartImage) = 4
        /\ PartImage[1] = Index(job.sess, job.from) /\ PartImage[2] = Tar(job.sess)
        /\ PartImage[3].kind \in {"empty", "pointer"} /\ PartImage[4] = Empty
    BY <2>1, <1>a, PartImageFacts, PartImageEnd DEF TInv
  <2>3. WellFormed(Overwrite(closed[job.tape], WritePos(job.lastNum), PartImage))
    <3>1. Packed(closed[job.tape], job.lastNum) /\ closed[job.tape] \in Seq(Seg)
      BY <2>1, <1>a, <1>p
    <3>2. job.from \in Tapes \cup {NoTape}
      BY <1>a DEF Job
    <3> QED
      BY <3>1, <3>2, <2>1, <2>2, <1>a, PackedAndOneMore
  <2> QED
    BY <2>1, <2>2, <2>3, <1>11, <1>p, TapeInOrder
    DEF WritePart, GoOn, catalog, AtTape, Writing
<1>12. ASSUME NEW cause \in {"full", "write"}, NEW c \in 0..3,
              NEW o \in {Empty, PartImage[c + 1]}, WritePartFails(cause, c, o)
       PROVE  Layout'
  <2>1. /\ phase = "write" /\ phase' = "undo" /\ regName' = regName
        /\ job'.tape = job.tape /\ job'.lastNum = job.lastNum
    BY <1>12, <1>a DEF WritePartFails, GoOn, catalog, Job
  <2>2. job.head = WritePos(job.lastNum) /\ Packed(closed[job.tape], job.lastNum)
    BY <2>1, <1>a, <1>p DEF Work, HeadPlaced, Writing
  <2>3. CASE UNCHANGED media
    BY <2>1, <2>3, MediaUntouched DEF Torn, AtTape, Writing
  <2>4. CASE /\ closed' = [closed EXCEPT ![job.tape] =
                             Overwrite(@, job.head, SubSeq(PartImage, 1, c))]
             /\ open' = [open EXCEPT ![job.tape] = o]
    <3> DEFINE segs == SubSeq(PartImage, 1, c)
    <3>1. segs \in Seq(Seg)
      <4>1. PartImage \in Seq(Seg) /\ Len(PartImage) = 4
        BY <1>a, PartImageFacts DEF TInv
      <4>2. c \in 0..Len(PartImage)
        BY <4>1
      <4> QED
        BY <4>1, <4>2, PrefixFacts
    <3>2. closed' = [closed EXCEPT ![job.tape] = Overwrite(@, WritePos(job.lastNum), segs)]
      BY <2>2, <2>4
    <3> HIDE DEF segs
    <3>3. Packed(Overwrite(closed[job.tape], WritePos(job.lastNum), segs), job.lastNum)
      BY <3>1, <2>2, <1>a, OverwriteKeepsPacked
    <3>4. Packed(closed'[job'.tape], job'.lastNum)
      BY <3>2, <3>3, <2>1, <1>a
    <3>5. ASSUME NEW t \in Tapes, regName'[t] # 0 PROVE Torn(t)' \/ Settled(t)'
      <4>1. CASE t = job.tape
        BY <4>1, <2>1 DEF Torn
      <4>2. CASE t # job.tape
        <5>1. closed'[t] = closed[t] /\ open'[t] = open[t]
          BY <4>2, <3>2, <2>4, <1>a
        <5> QED
          BY <5>1, <4>2, <3>5, <2>1, <1>a DEF Layout, Torn, Settled
      <4> QED
        BY <4>1, <4>2
    <3> QED
      BY <3>4, <3>5 DEF Layout
  <2> QED
    BY <2>3, <2>4, <1>12 DEF WritePartFails
<1>13. CASE UndoPart
  <2>1. /\ phase = "undo" /\ phase' = "restore" /\ UNCHANGED << media, regName >>
        /\ job'.tape = job.tape /\ job'.lastNum = job.lastNum
    BY <1>13, <1>a DEF UndoPart, GoOn, Job
  <2> QED
    BY <2>1, MediaUntouched DEF Torn, AtTape, Writing
<1>b. /\ EodPair \in Seq(Seg) /\ Len(EodPair) = 2
      /\ EodPair[1].kind = "empty" /\ EodPair[2] = Empty
  BY BlankSegTypes, KindsOfSegs DEF EodPair
<1>14. CASE RestoreEOD
  <2>1. /\ regName' = regName /\ job'.tape = job.tape /\ job'.lastNum = job.lastNum
        /\ phase \in Writing
    BY <1>14, <1>a
    DEF RestoreEOD, AfterFailedWrite, GiveUp, GoOn, Finish, catalog, Job, Writing
  <2>2. WellFormed(Overwrite(closed[job.tape], WritePos(job.lastNum), EodPair))
    BY <2>1, <1>a, <1>b, <1>p, PackedAndClosed
  <2> QED
    BY <2>1, <2>2, <1>14, <1>b, <1>p, TapeInOrder DEF RestoreEOD
<1>15. CASE RestoreEODFails
  <2>1. WritePos(job.lastNum) \in Nat /\ Len(closed[job.tape]) \in Nat
    BY <1>a, WritePosType, LenProperties DEF TInv
  <2>2. ~(WritePos(job.lastNum) > Len(closed[job.tape]))
    BY <2>1, <1>15, <1>p DEF RestoreEODFails, Writing
  <2> QED
    BY <2>2, <1>15, <1>n, <1>a DEF RestoreEODFails, Live
<1>16. CASE CommitPart
  BY <1>16, MediaUntouched DEF CommitPart, GoOn, Finish, Torn, AtTape, Writing
<1>17. CASE VerifyFails
  BY <1>17, MediaUntouched DEF VerifyFails, Finish, Torn, AtTape, Writing
<1>18. CASE SaveFails
  BY <1>18, MediaUntouched DEF SaveFails, GoOn, catalog, Torn, AtTape, Writing
<1>19. CASE AbandonTape
  <2> DEFINE segs == << MovePointer, Empty >>
  <2>1. segs \in Seq(Seg) /\ Len(segs) = 2 /\ segs[1].kind = "pointer" /\ segs[2] = Empty
    <3>1. SuggestNextName(job.tape) \in Nat
      BY <1>a DEF SuggestNextName, TInv, TypeOK
    <3>2. MovePointer \in Seg /\ Empty \in Seg /\ MovePointer.kind = "pointer"
      BY <3>1, <1>a, SegTypes, BlankSegTypes, KindsOfSegs DEF MovePointer
    <3> QED
      BY <3>2
  <2> HIDE DEF segs
  <2>2. phase \in Writing
    BY <1>19 DEF AbandonTape, Writing
  <2>3. WellFormed(Overwrite(closed[job.tape], WritePos(job.lastNum), segs))
    BY <2>1, <2>2, <1>a, <1>p, PackedAndClosed
  <2>4. closed' = [closed EXCEPT ![job.tape] = Overwrite(@, WritePos(job.lastNum), segs)]
    BY <1>19 DEF AbandonTape, segs
  <2> QED
    BY <2>1, <2>2, <2>3, <2>4, <1>19, <1>p, TapeInOrder
    DEF AbandonTape, GoOn, catalog, AtTape, Writing
<1>20. ASSUME NEW c \in 0..1, AbandonFails(c) PROVE Layout'
  <2>1. WritePos(job.lastNum) \in Nat /\ Len(closed[job.tape]) \in Nat
    BY <1>a, WritePosType, LenProperties DEF TInv
  <2>2. ~(WritePos(job.lastNum) > Len(closed[job.tape]))
    BY <2>1, <1>20, <1>p DEF AbandonFails, Writing
  <2> QED
    BY <2>2, <1>20, <1>n, <1>a DEF AbandonFails, Live
<1>21. ASSUME NEW t \in Tapes, NEW n \in 1..MaxName, Swap(t, n) PROVE Layout'
  <2> DEFINE files == << Label(n), Empty >>
  <2>1. Len(files) = 2 /\ files[1].kind = "label" /\ files[2] = Empty
    BY KindsOfSegs
  <2>2. /\ phase = "swap" /\ ~Labelled(t) /\ job'.tape = t /\ job'.lastNum = 0
        /\ closed' = [closed EXCEPT ![t] = files] /\ open' = [open EXCEPT ![t] = Empty]
        /\ regName' = [regName EXCEPT ![t] = n]
    BY <1>21, <1>a DEF Swap, Job
  <2> HIDE DEF files
  <2>3. WellFormed(files) /\ Packed(files, 0)
    BY <2>1 DEF WellFormed, Packed, WritePos
  <2>4. \A u \in Tapes : regName'[u] # 0 => Settled(u)'
    BY <2>2, <2>3, LayoutOfFormatted DEF PartAtWork
  <2>5. Packed(closed'[job'.tape], job'.lastNum)
    BY <2>2, <2>3, <1>a
  <2> QED
    BY <2>4, <2>5 DEF Layout
<1>22. ASSUME NEW t \in Tapes, NEW n \in 1..MaxName, NEW c \in 0..2, SwapUnregistered(t, n, c)
       PROVE  Layout'
  <2> DEFINE part == SubSeq(<< Label(n), Empty >>, 1, c)
             rest == IF c = 0 THEN Label(n) ELSE Empty
  <2>1. /\ phase = "swap" /\ ~Labelled(t) /\ regName' = regName /\ phase' = "rollback"
        /\ closed' = [closed EXCEPT ![t] = part] /\ open' = [open EXCEPT ![t] = rest]
    BY <1>22 DEF SwapUnregistered, GiveUp, GoOn, catalog
  <2> HIDE DEF part, rest
  <2>2. \A u \in Tapes : regName'[u] # 0 => Settled(u)'
    BY <2>1, LayoutOfFormatted DEF PartAtWork
  <2> QED
    BY <2>1, <2>2 DEF Layout, AtTape, Writing
<1>23. CASE SwapFails
  BY <1>23, MediaUntouched DEF SwapFails, GiveUp, GoOn, catalog, Torn, AtTape, Writing
<1>24. ASSUME NEW r \in job.created, RollbackSession(r) PROVE Layout'
  BY <1>24, MediaUntouched DEF RollbackSession, Torn, AtTape, Writing
<1>25. CASE RollbackDone
  BY <1>25, MediaUntouched DEF RollbackDone, Finish, catalog, Torn, AtTape, Writing
<1>26. CASE Cancel
  BY <1>26, <1>n DEF Cancel
<1>27. CASE Crash
  BY <1>27, <1>n DEF Crash
<1>28. ASSUME NEW r \in rows, DeleteSession(r) PROVE Layout'
  BY <1>28, <1>n DEF DeleteSession
<1>29. ASSUME NEW before \in Runs, Prune(before) PROVE Layout'
  BY <1>29, <1>n DEF Prune
<1>30. CASE UNCHANGED vars
  BY <1>30, <1>a DEF vars, Layout, Torn, Settled, AtTape
<1> QED
  BY <1>1, <1>2, <1>3, <1>4, <1>5, <1>6, <1>7, <1>8, <1>9, <1>10, <1>11, <1>12, <1>13,
     <1>14, <1>15, <1>16, <1>17, <1>18, <1>19, <1>20, <1>21, <1>22, <1>23, <1>24, <1>25,
     <1>26, <1>27, <1>28, <1>29, <1>30
  DEF Next, Step

-----------------------------------------------------------------------------
(* The theorems. *)

LEMMA LedgerInvariant ==
  ASSUME Accountable
  PROVE  (Init => SInv) /\ (SInv /\ [Next]_vars => SInv')
<1>1. "seek" \notin Faults
  BY NoSuchFault
<1>2. Init => SInv
  BY TypeInit, BackedInit, LedgerInit DEF SInv, BInv
<1>3. SInv /\ [Next]_vars => SInv'
  BY <1>1, TypeStep, BackedStep, LedgerStep DEF SInv, BInv
<1> QED
  BY <1>2, <1>3

\* When a run has come to its end, every session of the catalog has its files
\* and belongs to a run that reported success, or only failed to read its part
\* back, or gave up after two moves: a failed run took all of its rows out again
\* (rollbackRun and the undoing of a failed part).  Whatever write, save, change
\* of cassette or verification fails; as long as the deletions and the
\* positioning succeed and nobody ends or disturbs the run.
THEOREM FailedRunsAreUndone ==
  ASSUME Accountable
  PROVE  Spec => []FailedRunsLeaveNothing
<1>1. (Init => SInv) /\ (SInv /\ [Next]_vars => SInv')
  BY LedgerInvariant
<1>2. SInv => FailedRunsLeaveNothing
  <2> SUFFICES ASSUME SInv, phase = "idle"
               PROVE  rows = saved /\ \A r \in rows : outcome[r.run] \in {"ok", "verify", "tooBig"}
    BY DEF FailedRunsLeaveNothing
  <2>1. saved \subseteq rows /\ Accounted
    BY DEF SInv, BInv, TInv, TypeOK, Ledger
  <2> QED
    BY <2>1 DEF Accounted, Unsaved, Pending, PartAtWork, Good
<1> QED
  BY <1>1, <1>2, PTL DEF Spec

LEMMA LayoutInvariant ==
  ASSUME Tidy
  PROVE  (Init => LInv) /\ (LInv /\ [Next]_vars => LInv')
<1>1. Accountable
  BY DEF Tidy
<1>2. (Init => SInv) /\ (SInv /\ [Next]_vars => SInv')
  BY <1>1, LedgerInvariant
<1>3. Init => LInv
  BY <1>2, LayoutInit DEF LInv
<1>4. LInv /\ [Next]_vars => LInv'
  <2> SUFFICES ASSUME LInv, [Next]_vars PROVE LInv'
    OBVIOUS
  <2>1. SInv'
    BY <1>2 DEF LInv
  <2>2. TInv'
    BY <2>1 DEF SInv, BInv
  <2> QED
    BY <2>1, <2>2, LayoutStep DEF LInv
<1> QED
  BY <1>3, <1>4

\* When a run has come to its end, every cassette of the catalog has the layout
\* of docs/FORMAT.md with its closing pair, also the one on which a part failed
\* half-way (restoreEOD) and the one that was left behind full (abandonTape).
THEOREM CassettesKeepTheirLayout ==
  ASSUME Tidy
  PROVE  Spec => []TapesWellFormed
<1>1. (Init => LInv) /\ (LInv /\ [Next]_vars => LInv')
  BY LayoutInvariant
<1>2. LInv => TapesWellFormed
  BY DEF LInv, Layout, Torn, Settled, TapesWellFormed
<1> QED
  BY <1>1, <1>2, PTL DEF Spec

\* ... and a reader that goes from one session to the next gets to every session
\* that the catalog lists: none lies behind an end of data.
THEOREM SessionsAreReachable ==
  ASSUME Tidy
  PROVE  Spec => []ReachableInSequence
<1>1. (Init => LInv) /\ (LInv /\ [Next]_vars => LInv')
  BY LayoutInvariant
<1>2. LInv => ReachableInSequence
  <2> SUFFICES ASSUME LInv, phase = "idle", NEW r \in saved
               PROVE  Reaches(closed[r.tape], r.num)
    BY DEF ReachableInSequence
  <2>1. /\ r \in SessionId /\ r.tape \in Tapes /\ r.num \in Nat
        /\ closed[r.tape] \in Seq(Seg) /\ regName[r.tape] # 0
    BY RowIsSessionId
    DEF LInv, SInv, BInv, TInv, TypeOK, Lasting, RowsRegistered, SessionId
  <2>2. WellFormed(closed[r.tape]) /\ Holds(closed[r.tape], r)
    BY <2>1 DEF LInv, SInv, BInv, Lasting, Backed, Layout, Torn, Settled
  <2>3. Packed(closed[r.tape], r.num)
    BY <2>1, <2>2, SessionsBefore
  <2> QED
    BY <2>1, <2>3, PackedReaches
<1> QED
  BY <1>1, <1>2, PTL DEF Spec

-----------------------------------------------------------------------------
(***************************************************************************)
(* The pointers between cassettes.  A cassette that a run leaves without a *)
(* session of its own has a pointer where its first session would be; what *)
(* keeps such cassettes apart, and the parts linked, is the order of the   *)
(* names: a run gives every new cassette the name after the last one's.    *)
(***************************************************************************)

\* A cassette of the catalog has its name on its label, and no other has it.
Names ==
  /\ \A t \in Tapes : regName[t] # 0 => closed[t][1].name = regName[t]
  /\ \A t, u \in Tapes : regName[t] # 0 /\ regName[t] = regName[u] => t = u

\* Nothing but a pointer was ever written behind the label.
MovedOn(t) == Len(closed[t]) >= 2 /\ closed[t][2].kind = "pointer"

MovedNow(t) == MovedOn(t) /\ closed[t][2].run = run

Pointers ==
  /\ \A t \in Tapes : MovedOn(t) => /\ regName[t] # 0 /\ closed[t][2].run <= run
                                    /\ closed[t][2].name = regName[t] + 1
  /\ \A t, u \in Tapes :
       MovedOn(t) /\ MovedOn(u) /\ closed[t][2].run = closed[u][2].run
         => regName[u] # regName[t] + 1

\* The run at work goes on from one name to the next; on the cassette after
\* one it has moved away from it remembers that it has.
PartPhases == {"position", "snapshot", "write", "undo", "restore", "abandon", "save"}

Moves ==
  /\ phase = "drop" => job.atCap /\ \A t \in Tapes : ~MovedNow(t)
  /\ phase \in Writing /\ job.lastNum = 0 => job.atCap
  /\ phase = "abandon" => job.moved = job.atCap
  /\ phase \in PartPhases => job.sess.run = run
  /\ phase # "idle" =>
       /\ \A t \in Tapes : MovedNow(t) => regName[t] <= regName[job.tape]
       /\ MovedNow(job.tape) => phase = "rollback" \/ (phase = "swap" /\ job.moved)
  /\ phase \in Writing =>
       \A t \in Tapes : MovedNow(t) /\ regName[job.tape] = regName[t] + 1
                          => job.moved /\ job.atCap /\ phase # "abandon"

NInv == BInv /\ Names /\ Pointers /\ Moves

-----------------------------------------------------------------------------
(* The links between the parts. *)

\* The cassette ends in a pointer to the name n.
PointsTo(t, n) == EndsInPointer(closed[t]) /\ closed[t][Len(closed[t]) - 1].name = n

\* A cassette of the catalog that the run does not write on any more.
Kept(t) == regName[t] # 0 /\ (phase \in Writing => t # job.tape)

\* Part k and the next one, over at most one cassette that carries neither.
Linked(k) ==
  \E a, b \in Tapes :
    /\ Kept(a) /\ Kept(b) /\ CarriesPart(a, k) /\ CarriesPart(b, k + 1)
    /\ \/ Leads(a, b) /\ NamesBack(a, b)
       \/ \E m \in Tapes : /\ Kept(m) /\ PointerOnly(closed[m])
                           /\ Leads(a, m) /\ Leads(m, b) /\ NamesBack(m, b)

\* The cassette of the part at work is the one the last part points to.
OnNext ==
  /\ job.from \in Tapes /\ job.from # job.tape /\ regName[job.from] # 0
  /\ Leads(job.from, job.tape)
  /\ \/ CarriesPart(job.from, job.part - 1)
     \/ /\ PointerOnly(closed[job.from])
        /\ phase # "save" => job.moved /\ job.atCap /\ phase # "abandon"
        /\ \E a \in Tapes : /\ a # job.tape /\ regName[a] # 0 /\ Leads(a, job.from)
                            /\ CarriesPart(a, job.part - 1)

\* The cassette in the drive points to the one the run asks for.
Asks ==
  /\ PointsTo(job.tape, regName[job.tape] + 1)
  /\ \/ CarriesPart(job.tape, job.part - 1)
     \/ /\ PointerOnly(closed[job.tape]) /\ job.moved
        /\ \E a \in Tapes : /\ a # job.tape /\ regName[a] # 0 /\ Leads(a, job.tape)
                            /\ CarriesPart(a, job.part - 1)

\* The part at work is on its cassette.
IsWritten ==
  /\ CarriesPart(job.tape, job.part)
  /\ job.part < job.parts => PointsTo(job.tape, regName[job.tape] + 1)
  /\ job.part > 1 => NamesBack(job.from, job.tape)

Chain ==
  /\ phase # "idle" =>
       /\ job.part \in 1..job.parts
       /\ \A k \in 1..(job.part - 2) : Linked(k)
  /\ phase \in Writing /\ job.part > 1 => job.lastNum = 0
  /\ phase = "drop" => job.part = 1
  /\ phase \in PartPhases => job.sess.part = job.part
  /\ phase \in Writing \cup {"save"} /\ job.part > 1 => OnNext
  /\ phase = "save" => IsWritten
  /\ phase = "swap" /\ job.part > 1 => Asks
  /\ ChainLinked

CInv == NInv /\ Chain

-----------------------------------------------------------------------------
(* What the steps leave as it was. *)

SameJob ==
  /\ job'.tape = job.tape /\ job'.lastNum = job.lastNum /\ job'.from = job.from
  /\ job'.atCap = job.atCap /\ job'.moved = job.moved
  /\ job'.part = job.part /\ job'.parts = job.parts

\* The run ends, gives up, stays where it is or gets on with the part.
GoesOn ==
  \/ phase' = "idle"
  \/ phase' = "rollback" /\ phase # "idle"
  \/ phase' = phase
  \/ phase \in Writing \cup {"drop"} /\ phase' \in (Writing \ {"abandon"}) \cup {"save"}

LEMMA NTypes ==
  ASSUME NInv
  PROVE  /\ closed \in [Tapes -> Seq(Seg)] /\ regName \in [Tapes -> Nat] /\ run \in Nat
         /\ job \in Job /\ job.tape \in Tapes /\ job.lastNum \in Nat /\ TypeOK
         /\ \A t \in Tapes : /\ closed[t] \in Seq(Seg) /\ Len(closed[t]) \in Nat
                             /\ regName[t] \in Nat
                             /\ \A i \in 1..Len(closed[t]) : closed[t][i] \in Seg
BY BackupAssumption DEF NInv, BInv, TInv, TypeOK, Job

\* No pointer is put behind a label.
LEMMA NoNewPointer ==
  ASSUME NInv, run' = run, regName' = regName, SameJob, GoesOn,
         \A t \in Tapes : MovedOn(t)' => MovedOn(t) /\ closed'[t][2] = closed[t][2],
         phase' \in PartPhases => job'.sess.run = run
  PROVE  Pointers' /\ Moves'
<1>1. \A t \in Tapes : MovedNow(t)' => MovedNow(t)
  BY DEF MovedNow
<1>2. Pointers'
  BY DEF NInv, Pointers
<1>3. Moves
  BY DEF NInv
<1>4. job'.tape = job.tape /\ job'.lastNum = job.lastNum /\ job'.atCap = job.atCap /\ job'.moved = job.moved
      /\ job.tape \in Tapes
  BY NTypes DEF SameJob
<1>5. CASE phase' = "idle"
  BY <1>2, <1>5 DEF Moves, Writing, PartPhases
<1>6. CASE phase' = "rollback" /\ phase # "idle"
  BY <1>1, <1>2, <1>3, <1>4, <1>6 DEF Moves, Writing, PartPhases
<1>7. CASE phase' = phase
  BY <1>1, <1>2, <1>3, <1>4, <1>7 DEF Moves
<1>8. CASE phase \in Writing \cup {"drop"} /\ phase' \in (Writing \ {"abandon"}) \cup {"save"}
  <2>1. phase' # "drop" /\ phase' # "idle" /\ phase # "idle" /\ phase' # "abandon"
    BY <1>8 DEF Writing
  <2>2. job.lastNum = 0 => job.atCap
    BY <1>3, <1>8 DEF Moves
  <2>3. \A t \in Tapes : MovedNow(t) => regName[t] <= regName[job.tape]
    BY <1>3, <2>1 DEF Moves
  <2>4. ~MovedNow(job.tape)
    BY <1>3, <1>4, <1>8, <2>1 DEF Moves, Writing
  <2>5. \A t \in Tapes : MovedNow(t) /\ regName[job.tape] = regName[t] + 1 => job.moved /\ job.atCap
    BY <1>3, <1>8 DEF Moves
  <2>6. Moves'
    BY <1>1, <1>4, <2>1, <2>2, <2>3, <2>4, <2>5 DEF Moves
  <2> QED
    BY <1>2, <2>6
<1> QED
  BY <1>5, <1>6, <1>7, <1>8 DEF GoesOn

\* A write behind the last session leaves everything before it.
LEMMA FrontKept ==
  ASSUME NInv, phase \in Writing, NEW segs \in Seq(Seg),
         WritePos(job.lastNum) <= Len(closed[job.tape]), regName' = regName,
         closed' = [closed EXCEPT ![job.tape] = Overwrite(@, WritePos(job.lastNum), segs)]
  PROVE  /\ Names'
         /\ \A t \in Tapes : t # job.tape => closed'[t] = closed[t]
         /\ closed'[job.tape] \in Seq(Seg) /\ closed'[job.tape][1] = closed[job.tape][1]
         /\ Len(closed'[job.tape]) = 2 * job.lastNum + 1 + Len(segs) /\ Len(segs) \in Nat
         /\ \A i \in 1..Len(segs) : closed'[job.tape][2 * job.lastNum + 1 + i] = segs[i]
         /\ job.lastNum > 0 => closed'[job.tape][2] = closed[job.tape][2] /\ Len(closed[job.tape]) >= 2
<1> DEFINE t == job.tape
           p == WritePos(job.lastNum)
           new == Overwrite(closed[t], p, segs)
<1>1. /\ closed \in [Tapes -> Seq(Seg)] /\ t \in Tapes /\ closed[t] \in Seq(Seg)
      /\ Len(closed[t]) \in Nat /\ job.lastNum \in Nat /\ p = 2 * job.lastNum + 1
  BY NTypes DEF WritePos
<1>2. p \in 0..Len(closed[t])
  BY <1>1
<1>3. /\ new \in Seq(Seg) /\ Len(new) = p + Len(segs) /\ Len(segs) \in Nat
      /\ \A i \in 1..p : new[i] = closed[t][i]
      /\ \A i \in 1..Len(segs) : new[p + i] = segs[i]
  BY <1>1, <1>2, OverwriteFacts, LenProperties, ZenonT(60)
<1>4. closed'[t] = new /\ \A u \in Tapes : u # t => closed'[u] = closed[u]
  BY <1>1
<1> HIDE DEF new
<1>5. 1 \in 1..p /\ (job.lastNum > 0 => 2 \in 1..p)
  BY <1>1
<1>6. closed'[t][1] = closed[t][1]
  BY <1>3, <1>4, <1>5
<1>7. Names'
  BY <1>4, <1>6 DEF NInv, Names
<1>8. job.lastNum > 0 => closed'[t][2] = closed[t][2]
  BY <1>3, <1>4, <1>5
<1>9. job.lastNum > 0 => Len(closed[t]) >= 2
  BY <1>1, <1>2
<1> HIDE DEF p
<1> QED
  BY <1>1, <1>3, <1>4, <1>6, <1>7, <1>8, <1>9

\* ... and puts no pointer behind the label unless it begins with one.
LEMMA FrontHasNoPointer ==
  ASSUME NInv, phase \in Writing, NEW segs \in Seq(Seg),
         WritePos(job.lastNum) <= Len(closed[job.tape]), regName' = regName,
         closed' = [closed EXCEPT ![job.tape] = Overwrite(@, WritePos(job.lastNum), segs)],
         job.lastNum > 0 \/ segs = << >> \/ segs[1].kind # "pointer"
  PROVE  \A t \in Tapes : MovedOn(t)' => MovedOn(t) /\ closed'[t][2] = closed[t][2]
<1>1. /\ \A t \in Tapes : t # job.tape => closed'[t] = closed[t]
      /\ Len(closed'[job.tape]) = 2 * job.lastNum + 1 + Len(segs) /\ Len(segs) \in Nat
      /\ \A i \in 1..Len(segs) : closed'[job.tape][2 * job.lastNum + 1 + i] = segs[i]
      /\ job.lastNum > 0 => closed'[job.tape][2] = closed[job.tape][2] /\ Len(closed[job.tape]) >= 2
  BY FrontKept
<1>2. job.lastNum \in Nat
  BY NTypes
<1>3. CASE job.lastNum > 0
  BY <1>1, <1>3 DEF MovedOn
<1>4. CASE job.lastNum = 0
  <2> DEFINE new == closed'[job.tape]
  <2>1. Len(new) = 1 + Len(segs) /\ \A i \in 1..Len(segs) : new[1 + i] = segs[i]
    BY <1>1, <1>4
  <2>2. ~(Len(new) >= 2 /\ new[2].kind = "pointer")
    <3>1. CASE segs = << >>
      <4>1. Len(segs) = 0
        BY <3>1
      <4> QED
        BY <2>1, <4>1
    <3>2. CASE segs # << >> /\ segs[1].kind # "pointer"
      <4>1. 1 \in 1..Len(segs)
        BY <1>1, <3>2, EmptySeq
      <4>2. new[1 + 1] = segs[1]
        BY <2>1, <4>1
      <4> QED
        BY <3>2, <4>2
    <3> QED
      BY <1>4, <3>1, <3>2
  <2> HIDE DEF new
  <2>3. ASSUME NEW t \in Tapes, Len(closed'[t]) >= 2, closed'[t][2].kind = "pointer"
        PROVE  closed'[t] = closed[t]
    <3>1. t # job.tape
      BY <2>2, <2>3 DEF new
    <3> QED
      BY <1>1, <3>1
  <2> QED
    BY <2>3 DEF MovedOn
<1> QED
  BY <1>2, <1>3, <1>4

\* A pointer to the next name is put behind the label of the cassette.
LEMMA NewPointer ==
  ASSUME NInv, phase = "abandon", job.lastNum = 0, run' = run, regName' = regName,
         job'.tape = job.tape, job'.moved = job.moved, job'.atCap = job.atCap, job'.sess = job.sess,
         phase' \in {"swap", "rollback"},
         \A t \in Tapes : t # job.tape => closed'[t] = closed[t],
         Len(closed'[job.tape]) >= 2, closed'[job.tape][2] = MovePointer
  PROVE  Pointers' /\ Moves'
<1>1. Moves /\ job.atCap /\ job.moved = job.atCap /\ job.sess.run = run
  BY DEF NInv, Moves, Writing, PartPhases
<1>2. /\ job.tape \in Tapes /\ run \in Nat /\ \A t \in Tapes : regName[t] \in Nat
  BY NTypes
<1>3. /\ MovePointer.kind = "pointer" /\ MovePointer.run = run
      /\ MovePointer.name = regName[job.tape] + 1
  BY <1>1 DEF MovePointer, Pointer, Blocks, SuggestNextName
<1>4. regName[job.tape] # 0
  BY DEF NInv, BInv, Work, RunRegistered
<1>5. \A t \in Tapes : t # job.tape => (MovedOn(t)' <=> MovedOn(t)) /\ (MovedNow(t)' <=> MovedNow(t))
  BY DEF MovedOn, MovedNow
<1>6. /\ \A t \in Tapes : MovedNow(t) => regName[t] <= regName[job.tape]
      /\ \A t \in Tapes : MovedNow(t) => regName[job.tape] # regName[t] + 1
  BY <1>1 DEF Moves, Writing
<1>7. ASSUME NEW t \in Tapes, MovedOn(t)'
      PROVE  /\ regName[t] # 0 /\ closed'[t][2].run <= run
             /\ closed'[t][2].name = regName[t] + 1
  <2>1. CASE t = job.tape
    BY <1>2, <1>3, <1>4, <2>1
  <2>2. CASE t # job.tape
    BY <1>5, <1>7, <2>2 DEF NInv, Pointers
  <2> QED
    BY <2>1, <2>2
<1>8. ASSUME NEW t \in Tapes, NEW u \in Tapes, MovedOn(t)', MovedOn(u)',
             closed'[t][2].run = closed'[u][2].run
      PROVE  regName[u] # regName[t] + 1
  <2>1. CASE t = job.tape /\ u = job.tape
    BY <1>2, <2>1
  <2>2. CASE t = job.tape /\ u # job.tape
    <3>1. MovedNow(u)
      BY <1>3, <1>5, <1>8, <2>2 DEF MovedNow
    <3> QED
      BY <1>2, <1>6, <2>2, <3>1
  <2>3. CASE t # job.tape /\ u = job.tape
    <3>1. MovedNow(t)
      BY <1>3, <1>5, <1>8, <2>3 DEF MovedNow
    <3> QED
      BY <1>6, <2>3, <3>1
  <2>4. CASE t # job.tape /\ u # job.tape
    BY <1>5, <1>8, <2>4 DEF NInv, Pointers
  <2> QED
    BY <2>1, <2>2, <2>3, <2>4
<1>9. Pointers'
  BY <1>7, <1>8 DEF Pointers
<1>10. \A t \in Tapes : MovedNow(t)' => regName[t] <= regName[job.tape]
  BY <1>2, <1>5, <1>6
<1>11. Moves'
  BY <1>1, <1>10 DEF Moves, Writing, PartPhases
<1> QED
  BY <1>9, <1>11

\* Steps that touch no cassette.
LEMMA NothingMoves ==
  ASSUME NInv, closed' = closed, regName' = regName, run' = run, SameJob, GoesOn,
         phase' \in PartPhases => job'.sess.run = run
  PROVE  Names' /\ Pointers' /\ Moves'
<1>1. Names'
  BY DEF NInv, Names
<1>2. \A t \in Tapes : MovedOn(t)' => MovedOn(t) /\ closed'[t][2] = closed[t][2]
  BY DEF MovedOn
<1> QED
  BY <1>1, <1>2, NoNewPointer

\* Writes behind the last session that begin with no pointer.
LEMMA SessionsMove ==
  ASSUME NInv, phase \in Writing, NEW segs \in Seq(Seg),
         WritePos(job.lastNum) <= Len(closed[job.tape]), regName' = regName, run' = run,
         closed' = [closed EXCEPT ![job.tape] = Overwrite(@, WritePos(job.lastNum), segs)],
         job.lastNum > 0 \/ segs = << >> \/ segs[1].kind # "pointer", SameJob, GoesOn,
         phase' \in PartPhases => job'.sess.run = run
  PROVE  Names' /\ Pointers' /\ Moves'
<1>1. Names'
  BY FrontKept
<1>2. \A t \in Tapes : MovedOn(t)' => MovedOn(t) /\ closed'[t][2] = closed[t][2]
  BY FrontHasNoPointer
<1> QED
  BY <1>1, <1>2, NoNewPointer

\* After a failed write: the part moves to another cassette, or it gets no
\* second chance.
LEMMA MovesAfterFailedWrite ==
  ASSUME NInv, phase = "restore", run' = run, regName' = regName, NEW causes,
         AfterFailedWrite(causes),
         \A t \in Tapes : MovedOn(t)' => MovedOn(t) /\ closed'[t][2] = closed[t][2]
  PROVE  Pointers' /\ Moves'
<1>0. job \in Job /\ job.tape \in Tapes /\ Moves
  BY NTypes DEF NInv
<1>1. /\ job'.tape = job.tape /\ job'.lastNum = job.lastNum /\ job'.from = job.from
      /\ job'.atCap = job.atCap /\ job'.part = job.part /\ job'.parts = job.parts
      /\ job'.sess = job.sess
      /\ \/ phase' = "abandon" /\ job'.moved = job.atCap /\ ~(job.atCap /\ job.moved)
         \/ phase' \in {"rollback", "idle"} /\ job'.moved = job.moved
  BY <1>0, ZenonT(60) DEF AfterFailedWrite, GiveUp, GoOn, Finish, Job
<1>2. CASE phase' \in {"rollback", "idle"} /\ job'.moved = job.moved
  <2>1. SameJob /\ GoesOn /\ phase' \notin PartPhases
    BY <1>1, <1>2 DEF SameJob, GoesOn, PartPhases
  <2> QED
    BY <2>1, NoNewPointer
<1>3. CASE phase' = "abandon" /\ job'.moved = job.atCap /\ ~(job.atCap /\ job.moved)
  <2>1. \A t \in Tapes : MovedNow(t)' => MovedNow(t)
    BY DEF MovedNow
  <2>2. Pointers'
    BY DEF NInv, Pointers
  <2>3. /\ job.lastNum = 0 => job.atCap
        /\ job.sess.run = run
        /\ \A t \in Tapes : MovedNow(t) => regName[t] <= regName[job.tape]
        /\ ~MovedNow(job.tape)
        /\ \A t \in Tapes : MovedNow(t) => regName[job.tape] # regName[t] + 1
    BY <1>0, <1>3 DEF Moves, Writing, PartPhases
  <2>4. Moves'
    BY <1>0, <1>1, <1>3, <2>1, <2>3 DEF Moves
  <2> QED
    BY <2>2, <2>4
<1> QED
  BY <1>1, <1>2, <1>3

\* The new cassette has the name after the last one's, and no pointer.
LEMMA SwapMoves ==
  ASSUME NInv, "rename" \notin Faults, NEW t \in Tapes, NEW n \in 1..MaxName, Swap(t, n)
  PROVE  Names' /\ Pointers' /\ Moves'
<1>1. /\ job \in Job /\ job.tape \in Tapes /\ regName \in [Tapes -> Nat]
      /\ closed \in [Tapes -> Seq(Seg)] /\ run \in Nat /\ \A u \in Tapes : regName[u] \in Nat
  BY NTypes
<1>2. /\ n = regName[job.tape] + 1 /\ n # 0
      /\ \A u \in Tapes : regName[u] # n
      /\ phase = "swap" /\ phase' = "begin" /\ run' = run /\ ~Labelled(t)
  BY <1>1 DEF Swap, AcceptedName, SuggestNextName, Fault, NameTaken, GoOn
<1>3. /\ closed'[t] = << Label(n), Empty >> /\ \A u \in Tapes : u # t => closed'[u] = closed[u]
      /\ regName'[t] = n /\ \A u \in Tapes : u # t => regName'[u] = regName[u]
      /\ \A u \in Tapes : regName'[u] \in Nat
  BY <1>1 DEF Swap
<1>4. /\ job'.tape = t /\ job'.lastNum = 0 /\ job'.atCap = TRUE /\ job'.moved = job.moved
  BY <1>1 DEF Swap, Job
<1>5. closed'[t][1] = Label(n) /\ closed'[t][2] = Empty
  BY <1>3
<1>6. Label(n).name = n /\ Empty.kind # "pointer"
  BY DEF Label, Empty, Blocks
<1>7. Names'
  <2>1. \A u \in Tapes : regName'[u] # 0 => closed'[u][1].name = regName'[u]
    BY <1>3, <1>5, <1>6 DEF NInv, Names
  <2>2. \A u, v \in Tapes : regName'[u] # 0 /\ regName'[u] = regName'[v] => u = v
    BY <1>2, <1>3 DEF NInv, Names
  <2> QED
    BY <2>1, <2>2 DEF Names
<1>8. /\ ~(closed'[t][2].kind = "pointer")
      /\ \A u \in Tapes : Len(closed'[u]) >= 2 /\ closed'[u][2].kind = "pointer"
           => u # t /\ MovedOn(u) /\ closed'[u] = closed[u]
  BY <1>3, <1>5, <1>6 DEF MovedOn
<1>9. \A u \in Tapes : MovedOn(u)' => u # t /\ MovedOn(u) /\ closed'[u] = closed[u]
  BY <1>8 DEF MovedOn
<1>10. Pointers'
  <2>1. ASSUME NEW u \in Tapes, MovedOn(u)'
        PROVE  /\ regName'[u] # 0 /\ closed'[u][2].run <= run
               /\ closed'[u][2].name = regName'[u] + 1
    BY <1>3, <1>9, <2>1 DEF NInv, Pointers
  <2>2. ASSUME NEW u \in Tapes, NEW v \in Tapes, MovedOn(u)', MovedOn(v)',
               closed'[u][2].run = closed'[v][2].run
        PROVE  regName'[v] # regName'[u] + 1
    BY <1>3, <1>9, <2>2 DEF NInv, Pointers
  <2> QED
    BY <1>2, <2>1, <2>2 DEF Pointers
<1>11. \A u \in Tapes : MovedNow(u)' => u # t /\ MovedNow(u)
  BY <1>2, <1>9 DEF MovedNow
<1>12. \A u \in Tapes : MovedNow(u) => regName[u] <= regName[job.tape] /\ regName[u] # 0
  BY <1>2 DEF NInv, Moves, Pointers, MovedNow
<1>13. \A u \in Tapes : MovedNow(u)' => regName'[u] <= regName'[job'.tape]
  BY <1>1, <1>2, <1>3, <1>4, <1>11, <1>12
<1>14. ~MovedNow(job.tape) \/ job.moved
  BY <1>1, <1>2 DEF NInv, Moves
<1>15. \A u \in Tapes : MovedNow(u)' /\ regName'[job'.tape] = regName'[u] + 1 => job.moved
  <2> SUFFICES ASSUME NEW u \in Tapes, MovedNow(u)', regName'[job'.tape] = regName'[u] + 1
               PROVE  job.moved
    OBVIOUS
  <2>1. regName[u] = regName[job.tape] /\ regName[u] # 0
    BY <1>1, <1>2, <1>3, <1>4, <1>11, <1>12
  <2>2. u = job.tape
    BY <2>1, <1>1 DEF NInv, Names
  <2> QED
    BY <1>11, <1>14, <2>2
<1>16. ~MovedNow(job.tape)'
  BY <1>4, <1>9 DEF MovedNow
<1>17. Moves'
  BY <1>2, <1>4, <1>13, <1>15, <1>16 DEF Moves, PartPhases
<1> QED
  BY <1>7, <1>10, <1>17

\* A cassette that is formatted in vain is not in the catalog.
LEMMA SwapUnregisteredMoves ==
  ASSUME NInv, NEW t \in Tapes, NEW n \in 1..MaxName, NEW c \in 0..2,
         SwapUnregistered(t, n, c)
  PROVE  Names' /\ Pointers' /\ Moves'
<1> DEFINE part == SubSeq(<< Label(n), Empty >>, 1, c)
<1>1. job \in Job /\ closed \in [Tapes -> Seq(Seg)] /\ regName[t] = 0
  <2>1. ~Labelled(t)
    BY DEF SwapUnregistered
  <2> QED
    BY <2>1, NTypes DEF Labelled, NInv, BInv, Lasting, Registered
<1>2. ~(Len(part) >= 2 /\ part[2].kind = "pointer")
  <2>1. Label(n) \in Seg /\ Empty \in Seg
    <3>1. job.sess \in SessionId /\ n \in Nat
      BY <1>1 DEF Job
    <3> QED
      BY <3>1, SegTypes, BlankSegTypes
  <2>2. << Label(n), Empty >> \in Seq(Seg) /\ c \in 0..Len(<< Label(n), Empty >>)
    BY <2>1
  <2>3. Len(part) = c /\ \A i \in 1..c : part[i] = << Label(n), Empty >>[i]
    BY <2>2, PrefixFacts
  <2> HIDE DEF part
  <2>4. Len(part) >= 2 => part[2] = Empty
    BY <2>3
  <2> QED
    BY <2>4, KindsOfSegs
<1> HIDE DEF part
<1>3. /\ closed'[t] = part /\ \A u \in Tapes : u # t => closed'[u] = closed[u]
      /\ regName' = regName /\ run' = run /\ phase' = "rollback" /\ phase = "swap"
  BY <1>1 DEF SwapUnregistered, part, GiveUp, GoOn, catalog
<1>4. SameJob /\ GoesOn
  BY <1>1, <1>3 DEF SwapUnregistered, GiveUp, GoOn, Job, SameJob, GoesOn
<1>5. Names'
  BY <1>1, <1>3 DEF NInv, Names
<1>6. \A u \in Tapes : MovedOn(u)' => MovedOn(u) /\ closed'[u][2] = closed[u][2]
  <2>1. \A u \in Tapes : Len(closed'[u]) >= 2 /\ closed'[u][2].kind = "pointer" => u # t
    BY <1>2, <1>3
  <2> QED
    BY <1>3, <2>1 DEF MovedOn
<1>7. phase' \notin PartPhases
  BY <1>3 DEF PartPhases
<1> QED
  BY <1>3, <1>4, <1>5, <1>6, <1>7, NoNewPointer

\* A new run finds no pointer of its own.
LEMMA StartMoves ==
  ASSUME NInv, NEW t \in Tapes, NEW full \in BOOLEAN, NEW n \in 1..MaxParts,
         NEW new \in BOOLEAN, NEW cap \in BOOLEAN, StartBackup(t, full, n, new, cap)
  PROVE  Names' /\ Pointers' /\ Moves'
<1>1. PICK last \in 0..MaxRuns :
        /\ full \/ last = 0 => cap
        /\ job'.tape = t /\ job'.lastNum = (IF full \/ last = 0 THEN 0 ELSE last)
        /\ job'.atCap = cap
        /\ phase' = IF full \/ last = 0 THEN "drop"
                    ELSE IF new /\ HasChanger THEN "swap" ELSE "begin"
  BY DEF StartBackup
<1>2. run' = run + 1 /\ closed' = closed /\ regName' = regName /\ run \in Nat
  BY NTypes DEF StartBackup, media, catalog
<1>3. Names'
  BY <1>2 DEF NInv, Names
<1>4. \A u \in Tapes : MovedOn(u)' <=> MovedOn(u)
  BY <1>2 DEF MovedOn
<1>5. \A u \in Tapes : MovedOn(u) => closed[u][2].run <= run /\ closed[u][2].run \in Nat
  <2> SUFFICES ASSUME NEW u \in Tapes, MovedOn(u)
               PROVE  closed[u][2].run <= run /\ closed[u][2].run \in Nat
    OBVIOUS
  <2>1. 2 \in 1..Len(closed[u]) /\ \A i \in 1..Len(closed[u]) : closed[u][i] \in Seg
    BY NTypes DEF MovedOn
  <2> QED
    BY <2>1 DEF NInv, Pointers, Seg
<1>6. Pointers'
  BY <1>2, <1>4, <1>5 DEF NInv, Pointers
<1>7. \A u \in Tapes : ~MovedNow(u)'
  BY <1>2, <1>4, <1>5 DEF MovedNow
<1>8. /\ phase' \in {"drop", "swap", "begin"} /\ job'.tape \in Tapes
      /\ phase' = "drop" => job'.atCap
      /\ phase' = "begin" => job'.lastNum # 0
  BY <1>1, BackupAssumption
<1>9. Moves'
  BY <1>7, <1>8 DEF Moves, Writing, PartPhases
<1> QED
  BY <1>3, <1>6, <1>9

\* A part is done: the next one may move again.
LEMMA CommitMoves ==
  ASSUME NInv, CommitPart
  PROVE  Names' /\ Pointers' /\ Moves'
<1>1. /\ job \in Job /\ job.tape \in Tapes
      /\ phase = "save" /\ closed' = closed /\ regName' = regName /\ run' = run
  BY NTypes DEF CommitPart, media
<1>2. job'.tape = job.tape /\ phase' \in {"swap", "idle"}
  BY <1>1 DEF CommitPart, GoOn, Finish, Job
<1>3. Names' /\ Pointers'
  BY <1>1 DEF NInv, Names, Pointers, MovedOn
<1>4. \A t \in Tapes : MovedNow(t)' <=> MovedNow(t)
  BY <1>1 DEF MovedNow, MovedOn
<1>5. /\ \A t \in Tapes : MovedNow(t) => regName[t] <= regName[job.tape]
      /\ ~MovedNow(job.tape)
  BY <1>1 DEF NInv, Moves
<1>6. Moves'
  BY <1>1, <1>2, <1>4, <1>5 DEF Moves, Writing, PartPhases
<1> QED
  BY <1>3, <1>6

\* What the write of a part finds, and what it writes first.
LEMMA PartToWrite ==
  ASSUME BInv, phase = "write"
  PROVE  /\ job.head = WritePos(job.lastNum) /\ WritePos(job.lastNum) <= Len(closed[job.tape])
         /\ ~job.mid /\ PartImage \in Seq(Seg) /\ Len(PartImage) = 4
         /\ PartImage[1] = Index(job.sess, job.from) /\ PartImage[1].kind # "pointer"
<1>1. job.head = WritePos(job.lastNum) /\ ~job.mid /\ TypeOK
  BY DEF BInv, TInv, Work, HeadPlaced
<1>2. WritePos(job.lastNum) <= Len(closed[job.tape])
  BY <1>1 DEF BInv, TInv, HeadOnTape
<1>3. /\ PartImage \in Seq(Seg) /\ Len(PartImage) = 4
      /\ PartImage[1] = Index(job.sess, job.from)
  BY <1>1, PartImageFacts
<1>4. PartImage[1].kind = "index"
  BY <1>3, KindsOfSegs
<1> QED
  BY <1>1, <1>2, <1>3, <1>4

\* Every step.
LEMMA MovesStep ==
  ASSUME Faults \cap {"seek", "rename"} = {}, NInv, [Next]_vars
  PROVE  Names' /\ Pointers' /\ Moves'
<1>a. /\ job \in Job /\ job.tape \in Tapes /\ job.lastNum \in Nat
      /\ closed \in [Tapes -> Seq(Seg)] /\ Moves /\ BInv
  BY NTypes DEF NInv
<1>b. phase \in PartPhases => job.sess.run = run
  BY <1>a DEF Moves
<1>c. /\ << >> \in Seq(Seg) /\ << Empty >> \in Seq(Seg) /\ EodPair \in Seq(Seg)
      /\ << Empty >>[1].kind # "pointer" /\ EodPair[1].kind # "pointer"
  BY BlankSegTypes, KindsOfSegs DEF EodPair
<1>e. ASSUME closed' = closed
      PROVE  \A t \in Tapes : MovedOn(t)' => MovedOn(t) /\ closed'[t][2] = closed[t][2]
  BY <1>e DEF MovedOn
<1>1. ASSUME NEW t \in Tapes, NEW full \in BOOLEAN, NEW n \in 1..MaxParts,
             NEW new \in BOOLEAN, NEW cap \in BOOLEAN, StartBackup(t, full, n, new, cap)
      PROVE  Names' /\ Pointers' /\ Moves'
  BY <1>1, StartMoves
<1>2. ASSUME NEW r \in job.toDrop, DropSession(r) PROVE Names' /\ Pointers' /\ Moves'
  <2>1. /\ closed' = closed /\ regName' = regName /\ run' = run /\ SameJob /\ GoesOn
        /\ phase' \in PartPhases => job'.sess.run = run
    BY <1>2, <1>a, <1>b DEF DropSession, media, Job, SameJob, GoesOn, Writing, PartPhases
  <2> QED
    BY <2>1, NothingMoves
<1>3. CASE DropFails
  <2>1. /\ closed' = closed /\ regName' = regName /\ run' = run /\ SameJob /\ GoesOn
        /\ phase' \in PartPhases => job'.sess.run = run
    BY <1>3, <1>a, <1>b DEF DropFails, Finish, media, catalog, Job, SameJob, GoesOn, Writing, PartPhases
  <2> QED
    BY <2>1, NothingMoves
<1>4. CASE DropDone
  <2>1. /\ closed' = closed /\ regName' = regName /\ run' = run /\ SameJob /\ GoesOn
        /\ phase' \in PartPhases => job'.sess.run = run
    BY <1>4, <1>a, <1>b DEF DropDone, GoOn, media, catalog, Job, SameJob, GoesOn, Writing, PartPhases
  <2> QED
    BY <2>1, NothingMoves
<1>5. CASE BeginPart
  <2>1. /\ closed' = closed /\ regName' = regName /\ run' = run /\ SameJob /\ GoesOn
        /\ phase' \in PartPhases => job'.sess.run = run
    BY <1>5, <1>a, <1>b DEF BeginPart, GoOn, media, PartRow, Job, SameJob, GoesOn, Writing, PartPhases
  <2> QED
    BY <2>1, NothingMoves
<1>6. CASE BeginPartFails
  <2>1. /\ closed' = closed /\ regName' = regName /\ run' = run /\ SameJob /\ GoesOn
        /\ phase' \in PartPhases => job'.sess.run = run
    BY <1>6, <1>a, <1>b DEF BeginPartFails, GiveUp, GoOn, media, catalog, Job, SameJob, GoesOn, Writing, PartPhases
  <2> QED
    BY <2>1, NothingMoves
<1>7. CASE PositionPart
  <2>1. /\ closed' = closed /\ regName' = regName /\ run' = run /\ SameJob /\ GoesOn
        /\ phase' \in PartPhases => job'.sess.run = run
    BY <1>7, <1>a, <1>b DEF PositionPart, GoOn, media, catalog, Job, SameJob, GoesOn, Writing, PartPhases
  <2> QED
    BY <2>1, NothingMoves
<1>8. CASE PositionFails
  <2>1. /\ closed' = closed /\ regName' = regName /\ run' = run /\ SameJob /\ GoesOn
        /\ phase' \in PartPhases => job'.sess.run = run
    BY <1>8, <1>a, <1>b DEF PositionFails, GiveUp, GoOn, media, catalog, Job, SameJob, GoesOn, Writing, PartPhases
  <2> QED
    BY <2>1, NothingMoves
<1>9. CASE FillSnapshot
  <2>1. /\ closed' = closed /\ regName' = regName /\ run' = run /\ SameJob /\ GoesOn
        /\ phase' \in PartPhases => job'.sess.run = run
    BY <1>9, <1>a, <1>b DEF FillSnapshot, GoOn, media, catalog, Job, SameJob, GoesOn, Writing, PartPhases
  <2> QED
    BY <2>1, NothingMoves
<1>10. CASE SnapshotLosesPosition
  BY <1>10 DEF SnapshotLosesPosition, Fault
<1>11. CASE WritePart
  <2>1. /\ phase = "write" /\ regName' = regName /\ run' = run /\ SameJob /\ GoesOn
        /\ phase' \in PartPhases => job'.sess.run = run
        /\ phase \in Writing
    <3>1. /\ phase = "write" /\ phase' = "save" /\ regName' = regName /\ run' = run /\ job' = job
      BY <1>11 DEF WritePart, GoOn, catalog
    <3> QED
      BY <1>b, <3>1 DEF SameJob, GoesOn, Writing, PartPhases
  <2>2. /\ PartImage \in Seq(Seg) /\ PartImage[1].kind # "pointer"
        /\ job.head = WritePos(job.lastNum) /\ WritePos(job.lastNum) <= Len(closed[job.tape])
    BY <1>a, <2>1, PartToWrite
  <2>3. closed' = [closed EXCEPT ![job.tape] = Overwrite(@, WritePos(job.lastNum), PartImage)]
    BY <1>11, <2>2 DEF WritePart
  <2> QED
    BY <2>1, <2>2, <2>3, SessionsMove
<1>12. ASSUME NEW cause \in {"full", "write"}, NEW c \in 0..3,
              NEW o \in {Empty, PartImage[c + 1]}, WritePartFails(cause, c, o)
       PROVE  Names' /\ Pointers' /\ Moves'
  <2>1. /\ phase = "write" /\ regName' = regName /\ run' = run /\ SameJob /\ GoesOn
        /\ phase' \in PartPhases => job'.sess.run = run
        /\ phase \in Writing
    BY <1>12, <1>a, <1>b DEF WritePartFails, GoOn, catalog, Job, SameJob, GoesOn, Writing, PartPhases
  <2>2. CASE UNCHANGED media
    BY <2>1, <2>2, NothingMoves DEF media
  <2>3. CASE closed' = [closed EXCEPT ![job.tape] =
                          Overwrite(@, job.head, SubSeq(PartImage, 1, c))]
    <3> DEFINE segs == SubSeq(PartImage, 1, c)
    <3>1. /\ PartImage \in Seq(Seg) /\ Len(PartImage) = 4 /\ PartImage[1].kind # "pointer"
          /\ job.head = WritePos(job.lastNum) /\ WritePos(job.lastNum) <= Len(closed[job.tape])
      BY <1>a, <2>1, PartToWrite
    <3>2. c \in 0..Len(PartImage)
      BY <3>1
    <3>3. segs \in Seq(Seg) /\ Len(segs) = c /\ \A i \in 1..c : segs[i] = PartImage[i]
      BY <3>1, <3>2, PrefixFacts
    <3>4. closed' = [closed EXCEPT ![job.tape] = Overwrite(@, WritePos(job.lastNum), segs)]
      BY <2>3, <3>1
    <3> HIDE DEF segs
    <3>5. segs = << >> \/ segs[1].kind # "pointer"
      BY <3>1, <3>3, EmptySeq
    <3> QED
      BY <2>1, <3>1, <3>3, <3>4, <3>5, SessionsMove
  <2> QED
    BY <2>2, <2>3, <1>12 DEF WritePartFails
<1>13. CASE UndoPart
  <2>1. /\ closed' = closed /\ regName' = regName /\ run' = run /\ SameJob /\ GoesOn
        /\ phase' \in PartPhases => job'.sess.run = run
    BY <1>13, <1>a, <1>b DEF UndoPart, GoOn, media, Job, SameJob, GoesOn, Writing, PartPhases
  <2> QED
    BY <2>1, NothingMoves
<1>14. CASE RestoreEOD
  <2>1. /\ phase = "restore" /\ phase \in Writing /\ regName' = regName /\ run' = run
        /\ WritePos(job.lastNum) <= Len(closed[job.tape]) /\ AfterFailedWrite(job.err)
        /\ closed' = [closed EXCEPT ![job.tape] = Overwrite(@, WritePos(job.lastNum), EodPair)]
    BY <1>14 DEF RestoreEOD, catalog, Writing
  <2>2. Names'
    BY <2>1, <1>c, FrontKept
  <2>3. \A t \in Tapes : MovedOn(t)' => MovedOn(t) /\ closed'[t][2] = closed[t][2]
    BY <2>1, <1>c, FrontHasNoPointer
  <2> QED
    BY <2>1, <2>2, <2>3, MovesAfterFailedWrite
<1>15. CASE RestoreEODFails
  <2>1. /\ phase = "restore" /\ phase \in Writing /\ regName' = regName /\ run' = run
        /\ AfterFailedWrite(job.err \cup {"restore"})
    BY <1>15 DEF RestoreEODFails, catalog, Writing
  <2>2. Names' /\ \A t \in Tapes : MovedOn(t)' => MovedOn(t) /\ closed'[t][2] = closed[t][2]
    <3>1. CASE UNCHANGED media
      <4>1. closed' = closed
        BY <3>1 DEF media
      <4>2. Names'
        BY <2>1, <4>1 DEF NInv, Names
      <4> QED
        BY <1>e, <4>1, <4>2
    <3>2. CASE /\ WritePos(job.lastNum) <= Len(closed[job.tape])
               /\ closed' = [closed EXCEPT ![job.tape] =
                               Overwrite(@, WritePos(job.lastNum), << Empty >>)]
      <4>1. Names'
        BY <2>1, <3>2, <1>c, FrontKept
      <4>2. \A t \in Tapes : MovedOn(t)' => MovedOn(t) /\ closed'[t][2] = closed[t][2]
        BY <2>1, <3>2, <1>c, FrontHasNoPointer
      <4> QED
        BY <4>1, <4>2
    <3> QED
      BY <3>1, <3>2, <1>15 DEF RestoreEODFails
  <2> QED
    BY <2>1, <2>2, MovesAfterFailedWrite
<1>16. CASE CommitPart
  BY <1>16, CommitMoves
<1>17. CASE VerifyFails
  <2>1. /\ closed' = closed /\ regName' = regName /\ run' = run /\ SameJob /\ GoesOn
        /\ phase' \in PartPhases => job'.sess.run = run
    BY <1>17, <1>a, <1>b DEF VerifyFails, Finish, media, Job, SameJob, GoesOn, Writing, PartPhases
  <2> QED
    BY <2>1, NothingMoves
<1>18. CASE SaveFails
  <2>1. /\ closed' = closed /\ regName' = regName /\ run' = run /\ SameJob /\ GoesOn
        /\ phase' \in PartPhases => job'.sess.run = run
    BY <1>18, <1>a, <1>b DEF SaveFails, GoOn, media, catalog, Job, SameJob, GoesOn, Writing, PartPhases
  <2> QED
    BY <2>1, NothingMoves
<1>d. MovePointer \in Seg /\ << MovePointer >> \in Seq(Seg) /\ << MovePointer, Empty >> \in Seq(Seg)
  <2>1. SuggestNextName(job.tape) \in Nat /\ job.sess \in SessionId
    BY <1>a, NTypes DEF SuggestNextName, Job
  <2>2. MovePointer \in Seg
    BY <2>1, SegTypes DEF MovePointer
  <2> QED
    BY <2>2, BlankSegTypes
<1>f. ASSUME phase = "abandon", WritePos(job.lastNum) <= Len(closed[job.tape]),
             regName' = regName, run' = run, SameJob, job'.sess = job.sess,
             phase' \in {"swap", "rollback"}, NEW segs \in Seq(Seg),
             closed' = [closed EXCEPT ![job.tape] = Overwrite(@, WritePos(job.lastNum), segs)],
             segs = << >> \/ segs[1] = MovePointer
      PROVE  Names' /\ Pointers' /\ Moves'
  <2>1. /\ phase \in Writing /\ phase' \notin PartPhases
    BY <1>f DEF Writing, PartPhases
  <2>2. /\ Names'
        /\ \A t \in Tapes : t # job.tape => closed'[t] = closed[t]
        /\ Len(closed'[job.tape]) = 2 * job.lastNum + 1 + Len(segs) /\ Len(segs) \in Nat
        /\ \A i \in 1..Len(segs) : closed'[job.tape][2 * job.lastNum + 1 + i] = segs[i]
    BY <1>f, <2>1, FrontKept
  <2>3. CASE job.lastNum = 0 /\ segs # << >>
    <3>1. 1 \in 1..Len(segs)
      BY <2>2, <2>3, EmptySeq, <1>f
    <3>2. closed'[job.tape][2 * 0 + 1 + 1] = segs[1]
      BY <2>2, <2>3, <3>1
    <3>3. closed'[job.tape][2] = MovePointer /\ Len(closed'[job.tape]) >= 2
      BY <1>f, <2>2, <2>3, <3>1, <3>2
    <3>4. Pointers' /\ Moves'
      BY <1>f, <2>2, <2>3, <3>3, NewPointer DEF SameJob
    <3> QED
      BY <2>2, <3>4
  <2>4. CASE job.lastNum > 0 \/ segs = << >>
    <3>1. \A t \in Tapes : MovedOn(t)' => MovedOn(t) /\ closed'[t][2] = closed[t][2]
      BY <1>f, <2>1, <2>4, FrontHasNoPointer
    <3>2. CASE phase' = "rollback"
      <4>1. GoesOn
        BY <1>f, <3>2 DEF GoesOn
      <4>2. Pointers' /\ Moves'
        BY <1>f, <2>1, <3>1, <4>1, NoNewPointer
      <4> QED
        BY <2>2, <4>2
    <3>3. CASE phase' = "swap"
      <4>1. \A t \in Tapes : MovedNow(t)' => MovedNow(t)
        BY <1>f, <3>1 DEF MovedNow
      <4>2. Pointers'
        BY <1>f, <3>1 DEF NInv, Pointers
      <4>3. /\ \A t \in Tapes : MovedNow(t) => regName[t] <= regName[job.tape]
            /\ ~MovedNow(job.tape)
        BY <1>a, <1>f DEF Moves
      <4>4. Moves'
        BY <1>a, <1>f, <2>1, <3>3, <4>1, <4>3 DEF Moves, SameJob, Writing
      <4> QED
        BY <2>2, <4>2, <4>4
    <3> QED
      BY <1>f, <3>2, <3>3
  <2> QED
    BY <1>a, <2>3, <2>4
<1>19. CASE AbandonTape
  <2>1. /\ phase = "abandon" /\ phase' = "swap" /\ regName' = regName /\ run' = run
        /\ SameJob /\ job'.sess = job.sess
        /\ WritePos(job.lastNum) <= Len(closed[job.tape])
        /\ closed' = [closed EXCEPT ![job.tape] =
                        Overwrite(@, WritePos(job.lastNum), << MovePointer, Empty >>)]
    BY <1>19 DEF AbandonTape, GoOn, catalog, SameJob
  <2>2. << MovePointer, Empty >>[1] = MovePointer
    OBVIOUS
  <2> QED
    BY <2>1, <2>2, <1>d, <1>f
<1>20. ASSUME NEW c \in 0..1, AbandonFails(c) PROVE Names' /\ Pointers' /\ Moves'
  <2> DEFINE part == SubSeq(<< MovePointer >>, 1, c)
  <2>1. part \in Seq(Seg) /\ (part = << >> \/ part[1] = MovePointer)
    <3>1. c \in 0..Len(<< MovePointer >>)
      OBVIOUS
    <3>2. part \in Seq(Seg) /\ Len(part) = c /\ \A i \in 1..c : part[i] = << MovePointer >>[i]
      BY <1>d, <3>1, PrefixFacts
    <3> HIDE DEF part
    <3> QED
      BY <3>2, EmptySeq
  <2> HIDE DEF part
  <2>2. /\ phase = "abandon" /\ phase' = "rollback" /\ regName' = regName /\ run' = run
        /\ SameJob /\ job'.sess = job.sess
    BY <1>20, <1>a DEF AbandonFails, GiveUp, GoOn, catalog, SameJob, Job
  <2>3. CASE UNCHANGED media
    <3>1. GoesOn /\ phase' \notin PartPhases /\ closed' = closed
      BY <2>2, <2>3 DEF GoesOn, PartPhases, media
    <3> QED
      BY <2>2, <3>1, NothingMoves
  <2>4. CASE /\ WritePos(job.lastNum) <= Len(closed[job.tape])
             /\ closed' = [closed EXCEPT ![job.tape] =
                             Overwrite(@, WritePos(job.lastNum), part)]
    BY <2>1, <2>2, <2>4, <1>f
  <2> QED
    BY <2>3, <2>4, <1>20 DEF AbandonFails, part
<1>21. ASSUME NEW t \in Tapes, NEW n \in 1..MaxName, Swap(t, n)
       PROVE  Names' /\ Pointers' /\ Moves'
  BY <1>21, SwapMoves
<1>22. ASSUME NEW t \in Tapes, NEW n \in 1..MaxName, NEW c \in 0..2, SwapUnregistered(t, n, c)
       PROVE  Names' /\ Pointers' /\ Moves'
  BY <1>22, SwapUnregisteredMoves
<1>23. CASE SwapFails
  <2>1. /\ closed' = closed /\ regName' = regName /\ run' = run /\ SameJob /\ GoesOn
        /\ phase' \in PartPhases => job'.sess.run = run
    BY <1>23, <1>a, <1>b DEF SwapFails, GiveUp, GoOn, media, catalog, Job, SameJob, GoesOn, Writing, PartPhases
  <2> QED
    BY <2>1, NothingMoves
<1>24. ASSUME NEW r \in job.created, RollbackSession(r) PROVE Names' /\ Pointers' /\ Moves'
  <2>1. /\ closed' = closed /\ regName' = regName /\ run' = run /\ SameJob /\ GoesOn
        /\ phase' \in PartPhases => job'.sess.run = run
    BY <1>24, <1>a, <1>b DEF RollbackSession, media, Job, SameJob, GoesOn, Writing, PartPhases
  <2> QED
    BY <2>1, NothingMoves
<1>25. CASE RollbackDone
  <2>1. /\ closed' = closed /\ regName' = regName /\ run' = run /\ SameJob /\ GoesOn
        /\ phase' \in PartPhases => job'.sess.run = run
    BY <1>25, <1>a, <1>b DEF RollbackDone, Finish, media, catalog, Job, SameJob, GoesOn, Writing, PartPhases
  <2> QED
    BY <2>1, NothingMoves
<1>26. CASE Cancel
  <2>1. /\ closed' = closed /\ regName' = regName /\ run' = run /\ SameJob /\ GoesOn
        /\ phase' \in PartPhases => job'.sess.run = run
    BY <1>26, <1>a, <1>b DEF Cancel, media, catalog, Job, SameJob, GoesOn, Writing, PartPhases
  <2> QED
    BY <2>1, NothingMoves
<1>27. CASE Crash
  <2>1. /\ closed' = closed /\ regName' = regName /\ run' = run /\ SameJob /\ GoesOn
        /\ phase' \in PartPhases => job'.sess.run = run
    BY <1>27, <1>a, <1>b DEF Crash, Finish, media, catalog, Job, SameJob, GoesOn, Writing, PartPhases
  <2> QED
    BY <2>1, NothingMoves
<1>28. ASSUME NEW r \in rows, DeleteSession(r) PROVE Names' /\ Pointers' /\ Moves'
  <2>1. /\ closed' = closed /\ regName' = regName /\ run' = run /\ SameJob /\ GoesOn
        /\ phase' \in PartPhases => job'.sess.run = run
    BY <1>28, <1>a, <1>b DEF DeleteSession, media, Job, SameJob, GoesOn, Writing, PartPhases
  <2> QED
    BY <2>1, NothingMoves
<1>29. ASSUME NEW before \in Runs, Prune(before) PROVE Names' /\ Pointers' /\ Moves'
  <2>1. /\ closed' = closed /\ regName' = regName /\ run' = run /\ SameJob /\ GoesOn
        /\ phase' \in PartPhases => job'.sess.run = run
    BY <1>29, <1>a, <1>b DEF Prune, media, Job, SameJob, GoesOn, Writing, PartPhases
  <2> QED
    BY <2>1, NothingMoves
<1>30. CASE UNCHANGED vars
  <2>1. /\ closed' = closed /\ regName' = regName /\ run' = run /\ SameJob /\ GoesOn
        /\ phase' \in PartPhases => job'.sess.run = run
    BY <1>30, <1>a, <1>b DEF vars, Job, SameJob, GoesOn, Writing, PartPhases
  <2> QED
    BY <2>1, NothingMoves
<1> QED
  BY <1>1, <1>2, <1>3, <1>4, <1>5, <1>6, <1>7, <1>8, <1>9, <1>10, <1>11, <1>12, <1>13,
     <1>14, <1>15, <1>16, <1>17, <1>18, <1>19, <1>20, <1>21, <1>22, <1>23, <1>24, <1>25,
     <1>26, <1>27, <1>28, <1>29, <1>30
  DEF Next, Step

LEMMA MovesInit == ASSUME Init PROVE Names /\ Pointers /\ Moves
<1> PICK t \in Tapes :
      /\ closed = [u \in Tapes |-> IF u = t THEN << Label(1), Empty >> ELSE << >>]
      /\ regName = [u \in Tapes |-> IF u = t THEN 1 ELSE 0]
  BY DEF Init
<1>1. closed[t][1] = Label(1) /\ closed[t][2] = Empty /\ \A u \in Tapes : u # t => Len(closed[u]) = 0
  OBVIOUS
<1>2. Label(1).name = 1 /\ Empty.kind # "pointer"
  BY DEF Label, Empty, Blocks
<1>3. Names
  BY <1>1, <1>2 DEF Names
<1>4. \A u \in Tapes : ~MovedOn(u)
  <2> SUFFICES ASSUME NEW u \in Tapes, MovedOn(u) PROVE FALSE
    OBVIOUS
  <2>1. u = t
    BY <1>1 DEF MovedOn
  <2> QED
    BY <1>1, <1>2, <2>1 DEF MovedOn
<1>5. phase = "idle"
  BY DEF Init
<1> QED
  BY <1>3, <1>4, <1>5 DEF Pointers, Moves, MovedNow, Writing, PartPhases

\* No run leaves two cassettes behind that carry nothing but its pointer, the
\* first one pointing to the second: two moves in a row at full capacity end the
\* run (span.go:289-295), and whatever fails, is cancelled, crashes or is deleted
\* between the two, the run that goes on has not forgotten the first move; as long
\* as the operator takes the names the run suggests and the head never stays lost.
THEOREM MovesAreNotWasted ==
  ASSUME Faults \cap {"seek", "rename"} = {}
  PROVE  Spec => []NoWastedCassettes
<1>1. Init => NInv
  BY TypeInit, BackedInit, MovesInit DEF NInv, BInv
<1>2. NInv /\ [Next]_vars => NInv'
  <2> SUFFICES ASSUME NInv, [Next]_vars PROVE NInv'
    OBVIOUS
  <2>1. BInv'
    BY TypeStep, BackedStep DEF NInv, BInv
  <2> QED
    BY <2>1, MovesStep DEF NInv
<1>3. NInv => NoWastedCassettes
  <2> SUFFICES ASSUME NInv, NEW a \in Tapes, NEW b \in Tapes,
                      PointerOnly(closed[a]), PointerOnly(closed[b]),
                      closed[a][2].run = closed[b][2].run, Leads(a, b)
               PROVE  FALSE
    BY DEF NoWastedCassettes
  <2>1. MovedOn(a) /\ MovedOn(b) /\ closed[a][2].name = closed[b][1].name
    BY DEF PointerOnly, EndsInPointer, MovedOn, Leads
  <2>2. /\ regName[b] # 0 /\ closed[b][1].name = regName[b]
        /\ closed[a][2].name = regName[a] + 1
    BY <2>1 DEF NInv, Pointers, Names
  <2> QED
    BY <2>1, <2>2 DEF NInv, Pointers
<1> QED
  BY <1>1, <1>2, <1>3, PTL DEF Spec

-----------------------------------------------------------------------------
(* The links between the parts stay. *)

LEMMA CarriesStays ==
  ASSUME NEW t \in Tapes, NEW k, run' = run, closed'[t] = closed[t], CarriesPart(t, k)
  PROVE  CarriesPart(t, k)'
BY DEF CarriesPart

LEMMA LeadsStays ==
  ASSUME NEW a \in Tapes, NEW b \in Tapes, Registered', regName'[b] # 0,
         closed'[a] = closed[a], closed'[b][1] = closed[b][1], Leads(a, b)
  PROVE  Leads(a, b)'
<1>1. Labelled(b)'
  BY DEF Registered, Labelled
<1> QED
  BY <1>1 DEF Leads

LEMMA NamesBackStays ==
  ASSUME NEW a \in Tapes, NEW b \in Tapes, closed'[b] = closed[b], NamesBack(a, b)
  PROVE  NamesBack(a, b)'
BY DEF NamesBack

LEMMA LinkedStays ==
  ASSUME Registered', run' = run, NEW k, Linked(k),
         \A t \in Tapes : Kept(t) => closed'[t] = closed[t] /\ regName'[t] # 0
                                     /\ (phase' \in Writing => t # job'.tape)
  PROVE  Linked(k)'
<1>1. PICK a \in Tapes, b \in Tapes :
        /\ Kept(a) /\ Kept(b) /\ CarriesPart(a, k) /\ CarriesPart(b, k + 1)
        /\ \/ Leads(a, b) /\ NamesBack(a, b)
           \/ \E m \in Tapes : /\ Kept(m) /\ PointerOnly(closed[m])
                               /\ Leads(a, m) /\ Leads(m, b) /\ NamesBack(m, b)
  BY DEF Linked
<1>2. \A t \in Tapes : Kept(t) => Kept(t)'
  BY DEF Kept
<1>3. CarriesPart(a, k)' /\ CarriesPart(b, k + 1)'
  BY <1>1, CarriesStays
<1>4. CASE Leads(a, b) /\ NamesBack(a, b)
  <2>1. Leads(a, b)'
    BY <1>1, <1>4, LeadsStays
  <2>2. NamesBack(a, b)'
    BY <1>1, <1>4, NamesBackStays
  <2> QED
    BY <1>1, <1>2, <1>3, <2>1, <2>2 DEF Linked
<1>5. ASSUME NEW m \in Tapes, Kept(m), PointerOnly(closed[m]),
             Leads(a, m), Leads(m, b), NamesBack(m, b)
      PROVE  Linked(k)'
  <2>1. Leads(a, m)'
    BY <1>1, <1>5, LeadsStays
  <2>2. Leads(m, b)'
    BY <1>1, <1>5, LeadsStays
  <2>3. NamesBack(m, b)'
    BY <1>1, <1>5, NamesBackStays
  <2>4. PointerOnly(closed'[m])
    BY <1>5
  <2> QED
    BY <1>1, <1>2, <1>3, <1>5, <2>1, <2>2, <2>3, <2>4 DEF Linked
<1> QED
  BY <1>1, <1>4, <1>5

\* The run stays with the part: it goes on, moves it away, gives up or ends.
Onward ==
  \/ phase # "idle" /\ phase' = phase /\ job'.moved = job.moved
  \/ phase # "idle" /\ phase' = "rollback"
  \/ phase # "idle" /\ phase' = "idle" /\ outcome'[run] # "ok"
  \/ phase \in Writing \cup {"drop"} /\ phase' \in Writing \ {"abandon"} /\ job'.moved = job.moved
  \/ phase = "restore" /\ phase' = "abandon" /\ ~(job.atCap /\ job.moved)

SamePlan ==
  /\ job'.tape = job.tape /\ job'.lastNum = job.lastNum /\ job'.from = job.from
  /\ job'.atCap = job.atCap /\ job'.part = job.part /\ job'.parts = job.parts

\* The place of the part in the chain stays.
LEMMA OnNextStays ==
  ASSUME CInv, Registered', regName' = regName, run' = run, SamePlan, OnNext,
         phase \in Writing \cup {"save"}, phase' \in Writing \cup {"save"},
         \A t \in Tapes : t # job.tape /\ regName[t] # 0 => closed'[t] = closed[t],
         closed'[job.tape][1] = closed[job.tape][1],
         \/ phase' = "save"
         \/ phase' = phase /\ job'.moved = job.moved
         \/ phase \in Writing /\ phase' # "abandon" /\ job'.moved = job.moved
         \/ phase = "restore" /\ ~(job.atCap /\ job.moved)
  PROVE  OnNext'
<1>1. /\ job.from \in Tapes /\ job.from # job.tape /\ regName[job.from] # 0
      /\ Leads(job.from, job.tape) /\ job.tape \in Tapes
      /\ closed'[job.from] = closed[job.from] /\ job'.from = job.from /\ job'.tape = job.tape
      /\ job'.part = job.part /\ job'.atCap = job.atCap /\ regName[job.tape] # 0
  BY NTypes DEF CInv, NInv, BInv, Work, RunRegistered, Writing, OnNext, SamePlan
<1> DEFINE f == job.from
           t == job.tape
           p == job.part - 1
<1>2. Leads(f, t) /\ f \in Tapes /\ t \in Tapes /\ closed'[f] = closed[f]
      /\ closed'[t][1] = closed[t][1] /\ regName'[t] # 0
  BY <1>1
<1>3. ASSUME NEW x \in Tapes, NEW y \in Tapes, x = f, y = t PROVE Leads(x, y)'
  <2>1. /\ closed'[x] = closed[x] /\ closed'[y][1] = closed[y][1] /\ regName'[y] # 0
        /\ Leads(x, y)
    BY <1>2, <1>3
  <2> QED
    BY <2>1, LeadsStays
<1>4. Leads(job.from, job.tape)'
  BY <1>1, <1>3
<1>5. CASE CarriesPart(job.from, job.part - 1)
  <2>1. ASSUME NEW x \in Tapes, x = f PROVE CarriesPart(x, p)'
    <3>1. closed'[x] = closed[x] /\ CarriesPart(x, p)
      BY <1>2, <1>5, <2>1
    <3> QED
      BY <1>1, <3>1 DEF CarriesPart
  <2>2. CarriesPart(job.from, job.part - 1)'
    BY <1>1, <2>1
  <2> QED
    BY <1>1, <1>4, <2>2 DEF OnNext
<1>6. CASE /\ PointerOnly(closed[job.from])
           /\ phase # "save" => job.moved /\ job.atCap /\ phase # "abandon"
           /\ \E a \in Tapes : /\ a # job.tape /\ regName[a] # 0 /\ Leads(a, job.from)
                               /\ CarriesPart(a, job.part - 1)
  <2>1. PointerOnly(closed[job.from])'
    BY <1>1, <1>6
  <2>2. phase' # "save" => job'.moved /\ job'.atCap /\ phase' # "abandon"
    <3>1. ASSUME phase' # "save" PROVE phase # "save"
      BY <3>1 DEF Writing
    <3> QED
      BY <1>1, <1>6, <3>1
  <2>3. PICK a \in Tapes : /\ a # job.tape /\ regName[a] # 0 /\ Leads(a, job.from)
                          /\ CarriesPart(a, job.part - 1)
    BY <1>6
  <2>4. ASSUME NEW x \in Tapes, x = f PROVE Leads(a, x)' /\ CarriesPart(a, p)'
    <3>1. closed'[x] = closed[x] /\ closed'[a] = closed[a] /\ Leads(a, x) /\ regName'[x] # 0
      BY <1>1, <2>3, <2>4
    <3>2. Leads(a, x)'
      BY <3>1, LeadsStays
    <3>3. CarriesPart(a, p)'
      BY <1>1, <2>3, <3>1 DEF CarriesPart
    <3> QED
      BY <3>2, <3>3
  <2>5. Leads(a, job.from)' /\ CarriesPart(a, job.part - 1)'
    BY <1>1, <2>4
  <2>6. \E b \in Tapes : /\ b # job'.tape /\ regName'[b] # 0 /\ Leads(b, job.from)'
                        /\ CarriesPart(b, job.part - 1)'
    BY <1>1, <2>3, <2>5
  <2> QED
    BY <1>1, <1>4, <2>1, <2>2, <2>6 DEF OnNext
<1> QED
  BY <1>5, <1>6 DEF OnNext

\* The pointer the cassette in the drive ends in stays.
LEMMA AsksStays ==
  ASSUME CInv, Registered', regName' = regName, run' = run, SamePlan, Asks,
         phase = "swap", job'.moved = job.moved,
         \A t \in Tapes : regName[t] # 0 => closed'[t] = closed[t]
  PROVE  Asks'
<1>1. /\ job.tape \in Tapes /\ regName[job.tape] # 0 /\ closed'[job.tape] = closed[job.tape]
      /\ job'.tape = job.tape /\ job'.part = job.part
  BY NTypes DEF CInv, NInv, BInv, Work, RunRegistered, SamePlan
<1> DEFINE f == job.tape
           p == job.part - 1
<1>2. PointsTo(job.tape, regName[job.tape] + 1)'
  BY <1>1 DEF Asks, PointsTo, EndsInPointer
<1>3. CASE CarriesPart(job.tape, job.part - 1)
  <2>1. ASSUME NEW x \in Tapes, x = f PROVE CarriesPart(x, p)'
    <3>1. closed'[x] = closed[x] /\ CarriesPart(x, p)
      BY <1>1, <1>3, <2>1
    <3> QED
      BY <1>1, <3>1 DEF CarriesPart
  <2>2. CarriesPart(job.tape, job.part - 1)'
    BY <1>1, <2>1
  <2> QED
    BY <1>2, <2>2 DEF Asks
<1>4. CASE /\ PointerOnly(closed[job.tape]) /\ job.moved
           /\ \E a \in Tapes : /\ a # job.tape /\ regName[a] # 0 /\ Leads(a, job.tape)
                               /\ CarriesPart(a, job.part - 1)
  <2>1. PointerOnly(closed[job.tape])' /\ job'.moved
    BY <1>1, <1>4
  <2>2. PICK a \in Tapes : /\ a # job.tape /\ regName[a] # 0 /\ Leads(a, job.tape)
                          /\ CarriesPart(a, job.part - 1)
    BY <1>4
  <2>3. ASSUME NEW x \in Tapes, x = f PROVE Leads(a, x)' /\ CarriesPart(a, p)'
    <3>1. closed'[x] = closed[x] /\ closed'[a] = closed[a] /\ Leads(a, x) /\ regName'[x] # 0
      BY <1>1, <2>2, <2>3
    <3>2. Leads(a, x)'
      BY <3>1, LeadsStays
    <3>3. CarriesPart(a, p)'
      BY <1>1, <2>2, <3>1 DEF CarriesPart
    <3> QED
      BY <3>2, <3>3
  <2>4. Leads(a, job.tape)' /\ CarriesPart(a, job.part - 1)'
    BY <1>1, <2>3
  <2>5. \E b \in Tapes : /\ b # job'.tape /\ regName'[b] # 0 /\ Leads(b, job.tape)'
                        /\ CarriesPart(b, job.part - 1)'
    BY <1>1, <2>2, <2>4
  <2> QED
    BY <1>2, <2>1, <2>5 DEF Asks
<1> QED
  BY <1>3, <1>4 DEF Asks

\* What was written of the part stays.
LEMMA IsWrittenStays ==
  ASSUME CInv, regName' = regName, run' = run, SamePlan, IsWritten, phase = "save",
         \A t \in Tapes : regName[t] # 0 => closed'[t] = closed[t]
  PROVE  IsWritten'
<1>1. /\ job.tape \in Tapes /\ regName[job.tape] # 0 /\ closed'[job.tape] = closed[job.tape]
      /\ job'.tape = job.tape /\ job'.part = job.part /\ job'.parts = job.parts
      /\ job'.from = job.from
  BY NTypes DEF CInv, NInv, BInv, Work, RunRegistered, SamePlan
<1>2. CarriesPart(job.tape, job.part)'
  <2>1. ASSUME NEW x \in Tapes, x = job.tape, NEW p, p = job.part PROVE CarriesPart(x, p)'
    <3>1. closed'[x] = closed[x] /\ CarriesPart(x, p)
      BY <1>1, <2>1 DEF IsWritten
    <3> QED
      BY <3>1 DEF CarriesPart
  <2> QED
    BY <1>1, <2>1
<1>3. job'.part < job'.parts => PointsTo(job.tape, regName[job.tape] + 1)'
  BY <1>1 DEF IsWritten, PointsTo, EndsInPointer
<1>4. job'.part > 1 => NamesBack(job.from, job.tape)'
  BY <1>1 DEF IsWritten, NamesBack
<1> QED
  BY <1>2, <1>3, <1>4 DEF IsWritten

\* The chain of a run that stays with its part.
LEMMA ChainOnward ==
  ASSUME CInv, Registered', regName' = regName, run' = run, SamePlan, Onward,
         \A t \in Tapes : Kept(t) => closed'[t] = closed[t],
         closed'[job.tape][1] = closed[job.tape][1],
         phase' \in PartPhases => job'.sess.part = job.part
  PROVE  Chain'
<1>1. /\ Chain /\ job.tape \in Tapes /\ phase # "idle" /\ regName[job.tape] # 0
      /\ job'.tape = job.tape /\ job'.part = job.part /\ job'.parts = job.parts
      /\ job'.lastNum = job.lastNum
  BY NTypes DEF CInv, NInv, BInv, Work, RunRegistered, SamePlan, Onward, Writing
<1>2. CASE phase' = "idle"
  BY <1>1, <1>2 DEF Onward, Chain, ChainLinked, Writing, PartPhases
<1>3. ASSUME phase' # "idle" PROVE Chain'
  <2>1. job.part \in 1..job.parts /\ \A k \in 1..(job.part - 2) : Linked(k)
    BY <1>1 DEF Chain
  <2>2. /\ phase' \in Writing => phase \in Writing \/ (phase = "drop" /\ job.part = 1)
        /\ phase' = "drop" => phase = "drop"
        /\ phase' \in {"save", "swap"} => phase' = phase /\ job'.moved = job.moved
    BY <1>1, <1>3 DEF Onward, Chain, Writing
  <2>3. ASSUME NEW k \in 1..(job.part - 2) PROVE Linked(k)'
    <3>1. phase' \in Writing => phase \in Writing
      BY <2>1, <2>2, <2>3
    <3>2. \A t \in Tapes : Kept(t) => closed'[t] = closed[t] /\ regName'[t] # 0
                                     /\ (phase' \in Writing => t # job'.tape)
      BY <1>1, <3>1 DEF Kept
    <3>3. Linked(k)
      BY <2>1, <2>3
    <3> QED
      BY <3>2, <3>3, LinkedStays
  <2>4. ASSUME phase' \in Writing \cup {"save"}, job.part > 1 PROVE OnNext'
    <3>1. phase \in Writing \cup {"save"} /\ OnNext
      BY <1>1, <2>2, <2>4 DEF Chain
    <3>2. \A t \in Tapes : t # job.tape /\ regName[t] # 0 => closed'[t] = closed[t]
      BY DEF Kept
    <3>3. \/ phase' = "save"
          \/ phase' = phase /\ job'.moved = job.moved
          \/ phase \in Writing /\ phase' # "abandon" /\ job'.moved = job.moved
          \/ phase = "restore" /\ ~(job.atCap /\ job.moved)
      BY <1>3, <2>4, <3>1 DEF Onward, Writing
    <3> QED
      BY <2>4, <3>1, <3>2, <3>3, OnNextStays
  <2>5. ASSUME phase' \in {"save", "swap"}
        PROVE  \A t \in Tapes : regName[t] # 0 => closed'[t] = closed[t]
    BY <2>2, <2>5 DEF Kept, Writing
  <2>6. phase' = "save" => IsWritten'
    BY <1>1, <2>2, <2>5, IsWrittenStays DEF Chain
  <2>7. phase' = "swap" /\ job.part > 1 => Asks'
    BY <1>1, <2>2, <2>5, AsksStays DEF Chain
  <2>8. phase' = "drop" => job.part = 1
    BY <1>1, <2>2 DEF Chain
  <2>9. phase' \in Writing /\ job.part > 1 => job.lastNum = 0
    BY <1>1, <2>2 DEF Chain
  <2>10. ChainLinked'
    BY <1>3 DEF ChainLinked
  <2>11. \A k \in 1..(job'.part - 2) : Linked(k)'
    BY <1>1, <2>3
  <2> QED
    BY <1>1, <2>1, <2>4, <2>6, <2>7, <2>8, <2>9, <2>10, <2>11 DEF Chain
<1> QED
  BY <1>2, <1>3

\* The part is written: it is on the cassette, with the pointer to the next one
\* when it has a successor, and names the cassette before it.
LEMMA WriteLinks ==
  ASSUME CInv, WritePart, Registered'
  PROVE  Chain'
<1>1. /\ Chain /\ NInv /\ BInv /\ job \in Job /\ job.tape \in Tapes /\ job.lastNum \in Nat
      /\ phase = "write" /\ phase' = "save" /\ regName' = regName /\ run' = run
      /\ job' = job /\ phase \in Writing /\ phase \in PartPhases
      /\ regName[job.tape] # 0 /\ TypeOK
  BY NTypes
  DEF CInv, NInv, BInv, Work, RunRegistered, WritePart, GoOn, catalog, Writing, PartPhases
<1>2. /\ job.head = WritePos(job.lastNum) /\ WritePos(job.lastNum) <= Len(closed[job.tape])
      /\ ~job.mid /\ PartImage \in Seq(Seg) /\ Len(PartImage) = 4
      /\ PartImage[1] = Index(job.sess, job.from) /\ PartImage[2] = Tar(job.sess)
      /\ job.part < job.parts => PartImage[3] = Pointer(job.sess, SuggestNextName(job.tape))
  <2>1. /\ job.head = WritePos(job.lastNum) /\ WritePos(job.lastNum) <= Len(closed[job.tape])
        /\ ~job.mid
    BY <1>1, PartToWrite
  <2>2. /\ PartImage \in Seq(Seg) /\ Len(PartImage) = 4
        /\ PartImage[1] = Index(job.sess, job.from) /\ PartImage[2] = Tar(job.sess)
    BY <1>1, <2>1, PartImageFacts
  <2>3. ASSUME job.part < job.parts
        PROVE  PartImage[3] = Pointer(job.sess, SuggestNextName(job.tape))
    BY <2>1, <2>3 DEF PartImage, SessionImage
  <2> QED
    BY <2>1, <2>2, <2>3
<1>3. closed' = [closed EXCEPT ![job.tape] = Overwrite(@, WritePos(job.lastNum), PartImage)]
  BY <1>2 DEF WritePart
<1> DEFINE img == PartImage
<1>4. img \in Seq(Seg) /\ Len(img) = 4 /\ img[1] = Index(job.sess, job.from) /\ img[2] = Tar(job.sess)
      /\ (job.part < job.parts => img[3] = Pointer(job.sess, SuggestNextName(job.tape)))
      /\ closed' = [closed EXCEPT ![job.tape] = Overwrite(@, WritePos(job.lastNum), img)]
  BY <1>2, <1>3
<1> HIDE DEF img
<1>5. /\ \A t \in Tapes : t # job.tape => closed'[t] = closed[t]
      /\ closed'[job.tape][1] = closed[job.tape][1]
      /\ Len(closed'[job.tape]) = 2 * job.lastNum + 1 + Len(img)
      /\ \A i \in 1..Len(img) : closed'[job.tape][2 * job.lastNum + 1 + i] = img[i]
  BY <1>1, <1>2, <1>4, FrontKept
<1> DEFINE new == closed'[job.tape]
           p == 2 * job.lastNum + 1
<1>6. Len(new) = p + 4 /\ p \in Nat /\ p >= 1 /\ new[p + 1] = img[1] /\ new[p + 2] = img[2] /\ new[p + 3] = img[3]
  <2>1. p \in Nat /\ p >= 1
    BY <1>1
  <2>2. Len(img) = 4 /\ Len(new) = p + Len(img) /\ \A i \in 1..Len(img) : new[p + i] = img[i]
    BY <1>4, <1>5
  <2> HIDE DEF new, p
  <2> QED
    BY <2>1, <2>2
<1>7. job.sess.run = run /\ job.sess.part = job.part
  BY <1>1 DEF NInv, Moves, Chain
<1>8. Tar(job.sess).kind = "tar" /\ Tar(job.sess).run = run /\ Tar(job.sess).part = job.part
  BY <1>7 DEF Tar, Blocks
<1>9. /\ Pointer(job.sess, SuggestNextName(job.tape)).kind = "pointer"
      /\ Pointer(job.sess, SuggestNextName(job.tape)).name = regName[job.tape] + 1
      /\ Index(job.sess, job.from).from = job.from
  BY DEF Pointer, Index, Blocks, SuggestNextName
<1> HIDE DEF p
<1>10. CarriesPart(job.tape, job.part)'
  <2>1. p + 2 \in 1..Len(new)
    BY <1>6
  <2>2. new[p + 2].kind = "tar" /\ new[p + 2].run = run /\ new[p + 2].part = job.part
    BY <1>4, <1>6, <1>8
  <2>3. \E j \in 1..Len(new) : new[j].kind = "tar" /\ new[j].run = run /\ new[j].part = job.part
    BY <2>1, <2>2
  <2> QED
    BY <1>1, <2>3 DEF CarriesPart
<1>11. ASSUME job.part < job.parts PROVE PointsTo(job.tape, regName[job.tape] + 1)'
  <2>1. Len(new) - 1 = p + 3 /\ Len(new) > 1
    BY <1>6
  <2>2. new[Len(new) - 1].kind = "pointer" /\ new[Len(new) - 1].name = regName[job.tape] + 1
    BY <1>4, <1>6, <1>9, <1>11, <2>1
  <2> QED
    BY <1>1, <2>1, <2>2 DEF PointsTo, EndsInPointer
<1>12. ASSUME job.part > 1 PROVE NamesBack(job.from, job.tape)'
  <2>1. p = 1
    BY <1>1, <1>12 DEF Chain, p
  <2>2. Len(new) > 1 /\ new[2].from = job.from
    BY <1>4, <1>6, <1>9, <2>1
  <2> QED
    BY <1>1, <2>2 DEF NamesBack
<1>13. IsWritten'
  BY <1>1, <1>10, <1>11, <1>12 DEF IsWritten
<1>14. ASSUME job.part > 1 PROVE OnNext'
  <2>1. OnNext /\ SamePlan
    BY <1>1, <1>14 DEF Chain, SamePlan
  <2> QED
    BY <1>1, <1>5, <2>1, OnNextStays
<1>15. job.part \in 1..job.parts /\ \A k \in 1..(job.part - 2) : Linked(k)'
  <2>1. job.part \in 1..job.parts /\ \A k \in 1..(job.part - 2) : Linked(k)
    BY <1>1 DEF Chain
  <2>2. \A t \in Tapes : Kept(t) => closed'[t] = closed[t] /\ regName'[t] # 0
                                   /\ (phase' \in Writing => t # job'.tape)
    BY <1>1, <1>5 DEF Kept, Writing
  <2> QED
    BY <1>1, <2>1, <2>2, LinkedStays
<1> QED
  BY <1>1, <1>7, <1>13, <1>14, <1>15 DEF Chain, ChainLinked, Writing

\* What is written of a part, and where, links it to the part before.
LEMMA PartIsLinked ==
  ASSUME CInv, phase = "save", job.part > 1
  PROVE  Linked(job.part - 1)
<1>1. /\ OnNext /\ IsWritten /\ job.tape \in Tapes /\ regName[job.tape] # 0 /\ job.part \in Nat
  BY NTypes DEF CInv, NInv, BInv, Work, RunRegistered, Chain, Job
<1>2. \A t \in Tapes : regName[t] # 0 => Kept(t)
  BY DEF Kept, Writing
<1> DEFINE k == job.part - 1
<1>3. /\ CarriesPart(job.tape, k + 1) /\ NamesBack(job.from, job.tape)
      /\ Leads(job.from, job.tape) /\ job.from \in Tapes /\ Kept(job.from) /\ Kept(job.tape)
  <2>1. k + 1 = job.part
    BY <1>1
  <2> QED
    BY <1>1, <1>2, <2>1 DEF IsWritten, OnNext
<1>4. CASE CarriesPart(job.from, k)
  BY <1>1, <1>3, <1>4 DEF Linked
<1>5. ASSUME PointerOnly(closed[job.from]),
             NEW a \in Tapes, regName[a] # 0, Leads(a, job.from), CarriesPart(a, k)
      PROVE  Linked(k)
  BY <1>1, <1>2, <1>3, <1>5 DEF Linked
<1> QED
  BY <1>1, <1>4, <1>5 DEF OnNext

\* A part is done: the next one asks for the cassette this one points to.
LEMMA CommitLinks ==
  ASSUME CInv, CommitPart, Registered'
  PROVE  Chain'
<1>1. /\ Chain /\ job \in Job /\ job.tape \in Tapes /\ phase = "save" /\ closed' = closed
      /\ regName' = regName /\ run' = run /\ IsWritten /\ job.part \in 1..job.parts
      /\ job.part \in Nat /\ job.parts \in Nat /\ regName[job.tape] # 0
  BY NTypes
  DEF CInv, NInv, BInv, Work, RunRegistered, CommitPart, media, Chain, Job
<1>2. /\ job'.tape = job.tape /\ job'.parts = job.parts
      /\ \/ job.part < job.parts /\ job'.part = job.part + 1 /\ phase' = "swap"
         \/ job.part = job.parts /\ job'.part = job.part /\ phase' = "idle"
  BY <1>1 DEF CommitPart, GoOn, Finish, Job
<1>3. \A k \in 1..(job.part - 1) : Linked(k)
  <2> SUFFICES ASSUME NEW k \in 1..(job.part - 1) PROVE Linked(k)
    OBVIOUS
  <2>1. CASE k = job.part - 1
    BY <1>1, <2>1, PartIsLinked
  <2>2. CASE k # job.part - 1
    <3>1. k \in 1..(job.part - 2)
      BY <1>1, <2>2
    <3> QED
      BY <1>1, <3>1 DEF Chain
  <2> QED
    BY <2>1, <2>2
<1>4. \A k \in 1..(job.part - 1) : Linked(k)'
  <2>1. \A t \in Tapes : Kept(t) => closed'[t] = closed[t] /\ regName'[t] # 0
                                   /\ (phase' \in Writing => t # job'.tape)
    BY <1>1, <1>2 DEF Kept, Writing
  <2> QED
    BY <1>1, <1>3, <2>1, LinkedStays
<1>5. CASE job.part < job.parts /\ job'.part = job.part + 1 /\ phase' = "swap"
  <2>1. PointsTo(job.tape, regName[job.tape] + 1)'
    BY <1>1, <1>2, <1>5 DEF IsWritten, PointsTo, EndsInPointer
  <2>2. CarriesPart(job.tape, job.part - 1)'
    <3>1. job'.part - 1 = job.part
      BY <1>1, <1>5
    <3> QED
      BY <1>1, <1>2, <3>1 DEF IsWritten, CarriesPart
  <2>3. Asks'
    BY <2>1, <2>2 DEF Asks
  <2>4. \A k \in 1..(job'.part - 2) : Linked(k)'
    <3>1. job'.part - 2 = job.part - 1
      BY <1>1, <1>5
    <3> QED
      BY <1>4, <3>1
  <2>5. job'.part \in 1..job'.parts
    BY <1>1, <1>2, <1>5
  <2> QED
    BY <1>5, <2>3, <2>4, <2>5 DEF Chain, ChainLinked, Writing, PartPhases
<1>6. CASE job.part = job.parts /\ job'.part = job.part /\ phase' = "idle"
  <2>1. ASSUME NEW k \in 1..(job'.parts - 1)
        PROVE  (\E a, b \in Tapes :
                  /\ CarriesPart(a, k) /\ CarriesPart(b, k + 1)
                  /\ \/ Leads(a, b) /\ NamesBack(a, b)
                     \/ \E m \in Tapes : /\ PointerOnly(closed[m])
                                         /\ Leads(a, m) /\ Leads(m, b) /\ NamesBack(m, b))'
    <3>1. Linked(k)'
      BY <1>2, <1>4, <1>6, <2>1
    <3> QED
      BY <3>1 DEF Linked
  <2>2. ChainLinked'
    BY <2>1 DEF ChainLinked
  <2> QED
    BY <1>6, <2>2 DEF Chain, Writing, PartPhases
<1> QED
  BY <1>2, <1>5, <1>6

\* A full cassette is left: it carries a pointer and nothing else, and the run
\* remembers that it has moved.
LEMMA AbandonLinks ==
  ASSUME CInv, AbandonTape, Registered'
  PROVE  Chain'
<1>1. /\ Chain /\ Moves /\ NInv /\ job \in Job /\ job.tape \in Tapes /\ job.lastNum \in Nat
      /\ phase = "abandon" /\ phase' = "swap" /\ regName' = regName /\ run' = run
      /\ job' = job /\ phase \in Writing /\ phase \in PartPhases
      /\ regName[job.tape] # 0 /\ WritePos(job.lastNum) <= Len(closed[job.tape])
  BY NTypes
  DEF CInv, NInv, BInv, Work, RunRegistered, AbandonTape, GoOn, catalog, Writing, PartPhases
<1> DEFINE segs == << MovePointer, Empty >>
<1>2. segs \in Seq(Seg) /\ Len(segs) = 2 /\ segs[1] = MovePointer
  <2>1. SuggestNextName(job.tape) \in Nat /\ job.sess \in SessionId
    BY <1>1, NTypes DEF SuggestNextName, Job
  <2>2. MovePointer \in Seg
    BY <2>1, SegTypes DEF MovePointer
  <2> QED
    BY <2>2, BlankSegTypes
<1>3. closed' = [closed EXCEPT ![job.tape] = Overwrite(@, WritePos(job.lastNum), segs)]
  BY DEF AbandonTape
<1> HIDE DEF segs
<1> DEFINE new == closed'[job.tape]
<1>4. /\ \A t \in Tapes : t # job.tape => closed'[t] = closed[t]
      /\ new[1] = closed[job.tape][1] /\ Len(new) = 2 * job.lastNum + 1 + Len(segs)
      /\ \A i \in 1..Len(segs) : new[2 * job.lastNum + 1 + i] = segs[i]
  BY <1>1, <1>2, <1>3, FrontKept
<1>5. MovePointer.kind = "pointer" /\ MovePointer.name = regName[job.tape] + 1
  BY DEF MovePointer, Pointer, Blocks, SuggestNextName
<1>6. ASSUME job.part > 1 PROVE Asks'
  <2>1. job.lastNum = 0 /\ job.atCap /\ job.moved /\ OnNext
    BY <1>1, <1>6 DEF Chain, Moves
  <2>2. Len(new) = 3 /\ new[2] = MovePointer
    <3>1. Len(new) = 1 + Len(segs) /\ \A i \in 1..Len(segs) : new[1 + i] = segs[i]
      BY <1>4, <2>1
    <3> HIDE DEF new
    <3> QED
      BY <1>2, <3>1
  <2>3. /\ Len(new) > 1 /\ new[Len(new) - 1].kind = "pointer"
        /\ new[Len(new) - 1].name = regName[job.tape] + 1
    BY <1>5, <2>2
  <2>4. PointsTo(job.tape, regName[job.tape] + 1)' /\ PointerOnly(closed[job.tape])'
    BY <1>1, <2>2, <2>3 DEF PointsTo, PointerOnly, EndsInPointer
  <2>5. /\ CarriesPart(job.from, job.part - 1) /\ job.from \in Tapes /\ job.from # job.tape
        /\ regName[job.from] # 0 /\ Leads(job.from, job.tape)
    BY <1>1, <2>1 DEF OnNext
  <2>6. \E a \in Tapes : /\ a # job'.tape /\ regName'[a] # 0 /\ Leads(a, job.tape)'
                        /\ CarriesPart(a, job.part - 1)'
    <3> DEFINE f == job.from
               p == job.part - 1
    <3>1. ASSUME NEW x \in Tapes, NEW y \in Tapes, x = f, y = job.tape
          PROVE  Leads(x, y)' /\ CarriesPart(x, p)'
      <4>1. /\ closed'[x] = closed[x] /\ closed'[y][1] = closed[y][1] /\ regName'[y] # 0
            /\ Leads(x, y) /\ CarriesPart(x, p)
        BY <1>1, <1>4, <2>5, <3>1
      <4>2. Leads(x, y)'
        BY <4>1, LeadsStays
      <4>3. CarriesPart(x, p)'
        BY <1>1, <4>1 DEF CarriesPart
      <4> QED
        BY <4>2, <4>3
    <3>2. Leads(f, job.tape)' /\ CarriesPart(f, job.part - 1)'
      BY <1>1, <2>5, <3>1
    <3>3. job' = job /\ regName' = regName
      BY <1>1
    <3> QED
      BY <2>5, <3>2, <3>3
  <2>7. job'.moved
    BY <1>1, <2>1
  <2> QED
    BY <2>4, <2>6, <2>7 DEF Asks
<1>7. job.part \in 1..job.parts /\ \A k \in 1..(job.part - 2) : Linked(k)'
  <2>1. job.part \in 1..job.parts /\ \A k \in 1..(job.part - 2) : Linked(k)
    BY <1>1 DEF Chain
  <2>2. \A t \in Tapes : Kept(t) => closed'[t] = closed[t] /\ regName'[t] # 0
                                   /\ (phase' \in Writing => t # job'.tape)
    BY <1>1, <1>4 DEF Kept, Writing
  <2> QED
    BY <1>1, <2>1, <2>2, LinkedStays
<1> QED
  BY <1>1, <1>6, <1>7 DEF Chain, ChainLinked, Writing, PartPhases

\* The new cassette is the one the last one points to.
LEMMA SwapLinks ==
  ASSUME CInv, "rename" \notin Faults, NEW t \in Tapes, NEW n \in 1..MaxName, Swap(t, n),
         Registered'
  PROVE  Chain'
<1>1. /\ Chain /\ NInv /\ job \in Job /\ job.tape \in Tapes /\ regName \in [Tapes -> Nat]
      /\ closed \in [Tapes -> Seq(Seg)] /\ regName[job.tape] # 0
      /\ phase = "swap" /\ phase' = "begin" /\ run' = run
      /\ n = regName[job.tape] + 1 /\ n # 0 /\ regName[t] = 0
  <2>1. ~Labelled(t)
    BY DEF Swap
  <2>2. regName[t] = 0
    BY <2>1 DEF Labelled, CInv, NInv, BInv, Lasting, Registered
  <2>3. n = regName[job.tape] + 1 /\ n # 0
    BY NTypes DEF CInv, Swap, AcceptedName, SuggestNextName, Fault
  <2>4. /\ Chain /\ NInv /\ phase = "swap" /\ phase' = "begin" /\ run' = run
    BY DEF CInv, Swap, GoOn
  <2>5. /\ job \in Job /\ job.tape \in Tapes /\ regName \in [Tapes -> Nat]
        /\ closed \in [Tapes -> Seq(Seg)] /\ regName[job.tape] # 0
    BY <2>4, NTypes DEF NInv, BInv, Work, RunRegistered
  <2> QED
    BY <2>2, <2>3, <2>4, <2>5
<1>2. /\ closed'[t] = << Label(n), Empty >> /\ \A u \in Tapes : u # t => closed'[u] = closed[u]
      /\ regName'[t] = n /\ \A u \in Tapes : u # t => regName'[u] = regName[u]
  BY <1>1 DEF Swap
<1>3. /\ job'.tape = t /\ job'.from = job.tape /\ job'.lastNum = 0 /\ job'.atCap = TRUE
      /\ job'.moved = job.moved /\ job'.part = job.part /\ job'.parts = job.parts
  BY <1>1 DEF Swap, Job
<1>4. closed'[t][1].name = n
  BY <1>2 DEF Label, Blocks
<1>5. \A u \in Tapes : regName[u] # 0 => u # t /\ closed'[u] = closed[u] /\ regName'[u] # 0
  BY <1>1, <1>2
<1>6. job.part \in 1..job.parts /\ \A k \in 1..(job.part - 2) : Linked(k)'
  <2>1. job.part \in 1..job.parts /\ \A k \in 1..(job.part - 2) : Linked(k)
    BY <1>1 DEF Chain
  <2>2. \A u \in Tapes : Kept(u) => closed'[u] = closed[u] /\ regName'[u] # 0
                                   /\ (phase' \in Writing => u # job'.tape)
    BY <1>3, <1>5 DEF Kept
  <2> QED
    BY <1>1, <2>1, <2>2, LinkedStays
<1>7. ASSUME job.part > 1 PROVE OnNext'
  <2>1. Asks
    BY <1>1, <1>7 DEF Chain
  <2> DEFINE f == job.tape
             p == job.part - 1
  <2>2. ASSUME NEW x \in Tapes, x = f PROVE Leads(x, t)'
    <3>1. /\ EndsInPointer(closed'[x]) /\ closed'[x][Len(closed'[x]) - 1].name = n /\ t # x
      BY <1>1, <1>5, <2>1, <2>2 DEF Asks, PointsTo
    <3>2. Labelled(t)'
      BY <1>1, <1>2 DEF Registered, Labelled
    <3> QED
      BY <1>4, <3>1, <3>2 DEF Leads
  <2>3. job'.from \in Tapes /\ job'.from # job'.tape /\ regName'[job'.from] # 0
    BY <1>1, <1>3, <1>5
  <2>4. Leads(job.from, job.tape)'
    BY <1>1, <1>3, <2>2
  <2>5. ASSUME NEW x \in Tapes, regName[x] # 0, CarriesPart(x, p) PROVE CarriesPart(x, p)'
    BY <1>1, <1>3, <1>5, <2>5 DEF CarriesPart
  <2>6. CASE CarriesPart(job.tape, job.part - 1)
    <3>1. ASSUME NEW x \in Tapes, x = f PROVE CarriesPart(x, p)'
      BY <1>1, <2>5, <2>6, <3>1
    <3>2. CarriesPart(job.from, job.part - 1)'
      BY <1>1, <1>3, <3>1
    <3> QED
      BY <2>3, <2>4, <3>2 DEF OnNext
  <2>7. ASSUME PointerOnly(closed[job.tape]), job.moved,
               NEW a \in Tapes, a # job.tape, regName[a] # 0, Leads(a, job.tape),
               CarriesPart(a, job.part - 1)
        PROVE  OnNext'
    <3>1. ASSUME NEW x \in Tapes, x = f PROVE Leads(a, x)' /\ CarriesPart(a, p)'
      <4>1. /\ closed'[x] = closed[x] /\ closed'[a] = closed[a] /\ Leads(a, x)
            /\ regName'[x] # 0
        BY <1>1, <1>5, <2>7, <3>1
      <4>2. Leads(a, x)'
        BY <4>1, LeadsStays
      <4> QED
        BY <2>5, <2>7, <4>2
    <3>2. Leads(a, job.from)' /\ CarriesPart(a, job.part - 1)'
      BY <1>1, <1>3, <3>1
    <3>3. a # job'.tape /\ regName'[a] # 0
      BY <1>3, <1>5, <2>7
    <3>4. PointerOnly(closed[job.from])' /\ job'.moved /\ job'.atCap /\ phase' # "abandon"
      BY <1>1, <1>3, <1>5, <2>7
    <3> QED
      BY <2>3, <2>4, <3>2, <3>3, <3>4 DEF OnNext
  <2> QED
    BY <2>1, <2>6, <2>7 DEF Asks
<1> QED
  BY <1>1, <1>3, <1>6, <1>7 DEF Chain, ChainLinked, Writing, PartPhases

\* A new run begins with part 1.
LEMMA StartLinks ==
  ASSUME CInv, NEW t \in Tapes, NEW full \in BOOLEAN, NEW n \in 1..MaxParts,
         NEW new \in BOOLEAN, NEW cap \in BOOLEAN, StartBackup(t, full, n, new, cap)
  PROVE  Chain'
<1>1. job'.part = 1 /\ job'.parts = n /\ phase' \in {"drop", "swap", "begin"}
  BY DEF StartBackup
<1>2. job'.part \in 1..job'.parts /\ 1..(job'.part - 2) = {}
  BY <1>1, BackupAssumption
<1> QED
  BY <1>1, <1>2 DEF Chain, ChainLinked, Writing, PartPhases

\* Between runs the chain of the last one stays.
LEMMA ChainAtRest ==
  ASSUME CInv, phase = "idle", phase' = "idle", UNCHANGED << media, run, outcome, job >>
  PROVE  Chain'
<1>1. ChainLinked'
  BY DEF CInv, Chain, ChainLinked, CarriesPart, Leads, NamesBack, Labelled, media
<1> QED
  BY <1>1 DEF Chain, Writing, PartPhases

LEMMA ChainStep ==
  ASSUME Faults \cap {"seek", "rename"} = {}, CInv, Registered', [Next]_vars
  PROVE  Chain'
<1>a. /\ job \in Job /\ job.tape \in Tapes /\ job.lastNum \in Nat
      /\ closed \in [Tapes -> Seq(Seg)] /\ Chain /\ NInv /\ BInv /\ run \in Nat
      /\ outcome \in [Runs -> Outcomes] /\ (phase # "idle" => run \in Runs)
  BY NTypes DEF CInv, NInv, BInv, TInv, TypeOK, RunNumbered
<1>b. phase \in PartPhases => job.sess.part = job.part
  BY <1>a DEF Chain
<1>c. << >> \in Seq(Seg) /\ << Empty >> \in Seq(Seg) /\ EodPair \in Seq(Seg)
  BY BlankSegTypes DEF EodPair
<1>d. MovePointer \in Seg /\ << MovePointer >> \in Seq(Seg)
  <2>1. SuggestNextName(job.tape) \in Nat /\ job.sess \in SessionId
    BY <1>a, NTypes DEF SuggestNextName, Job
  <2>2. MovePointer \in Seg
    BY <2>1, SegTypes DEF MovePointer
  <2> QED
    BY <2>2
<1>q. ASSUME closed' = closed, regName' = regName, run' = run, SamePlan, Onward,
             phase' \in PartPhases => job'.sess.part = job.part
      PROVE  Chain'
  BY <1>q, ChainOnward DEF CInv
<1>w. ASSUME phase \in Writing, WritePos(job.lastNum) <= Len(closed[job.tape]),
             NEW segs \in Seq(Seg), regName' = regName, run' = run, SamePlan, Onward,
             closed' = [closed EXCEPT ![job.tape] = Overwrite(@, WritePos(job.lastNum), segs)],
             phase' \in PartPhases => job'.sess.part = job.part
      PROVE  Chain'
  <2>1. /\ \A t \in Tapes : t # job.tape => closed'[t] = closed[t]
        /\ closed'[job.tape][1] = closed[job.tape][1]
    BY <1>a, <1>w, FrontKept
  <2>2. \A t \in Tapes : Kept(t) => closed'[t] = closed[t]
    BY <1>w, <2>1 DEF Kept
  <2> QED
    BY <1>w, <2>1, <2>2, ChainOnward
<1>r. ASSUME phase = "restore", NEW causes, AfterFailedWrite(causes)
      PROVE  SamePlan /\ Onward /\ job'.sess = job.sess
  <2>1. /\ job'.tape = job.tape /\ job'.lastNum = job.lastNum /\ job'.from = job.from
        /\ job'.atCap = job.atCap /\ job'.part = job.part /\ job'.parts = job.parts
        /\ job'.sess = job.sess
        /\ \/ phase' = "abandon" /\ ~(job.atCap /\ job.moved)
           \/ phase' = "rollback"
           \/ phase' = "idle" /\ outcome' = [outcome EXCEPT ![run] = "tooBig"]
    BY <1>a, <1>r, ZenonT(60) DEF AfterFailedWrite, GiveUp, GoOn, Finish, Job
  <2> QED
    BY <1>a, <1>r, <2>1 DEF SamePlan, Onward
<1>1. ASSUME NEW t \in Tapes, NEW full \in BOOLEAN, NEW n \in 1..MaxParts,
             NEW new \in BOOLEAN, NEW cap \in BOOLEAN, StartBackup(t, full, n, new, cap)
      PROVE  Chain'
  BY <1>1, StartLinks
<1>2. ASSUME NEW r \in job.toDrop, DropSession(r) PROVE Chain'
  <2>1. /\ closed' = closed /\ regName' = regName /\ run' = run /\ SamePlan /\ Onward
        /\ phase' \in PartPhases => job'.sess.part = job.part
    BY <1>2, <1>a, <1>b DEF DropSession, media, Job, SamePlan, Onward, Writing, PartPhases
  <2> QED
    BY <2>1, <1>q
<1>3. CASE DropFails
  <2>1. /\ closed' = closed /\ regName' = regName /\ run' = run /\ SamePlan /\ Onward
        /\ phase' \in PartPhases => job'.sess.part = job.part
    BY <1>3, <1>a, <1>b DEF DropFails, Finish, media, catalog, Job, SamePlan, Onward, Writing, PartPhases
  <2> QED
    BY <2>1, <1>q
<1>4. CASE DropDone
  <2>1. /\ closed' = closed /\ regName' = regName /\ run' = run /\ SamePlan /\ Onward
        /\ phase' \in PartPhases => job'.sess.part = job.part
    BY <1>4, <1>a, <1>b DEF DropDone, GoOn, media, catalog, Job, SamePlan, Onward, Writing, PartPhases
  <2> QED
    BY <2>1, <1>q
<1>5. CASE BeginPart
  <2>1. /\ closed' = closed /\ regName' = regName /\ run' = run /\ SamePlan /\ Onward
        /\ phase' \in PartPhases => job'.sess.part = job.part
    BY <1>5, <1>a, <1>b DEF BeginPart, GoOn, media, PartRow, Job, SamePlan, Onward, Writing, PartPhases
  <2> QED
    BY <2>1, <1>q
<1>6. CASE BeginPartFails
  <2>1. /\ closed' = closed /\ regName' = regName /\ run' = run /\ SamePlan /\ Onward
        /\ phase' \in PartPhases => job'.sess.part = job.part
    BY <1>6, <1>a, <1>b DEF BeginPartFails, GiveUp, GoOn, media, catalog, Job, SamePlan, Onward, Writing, PartPhases
  <2> QED
    BY <2>1, <1>q
<1>7. CASE PositionPart
  <2>1. /\ closed' = closed /\ regName' = regName /\ run' = run /\ SamePlan /\ Onward
        /\ phase' \in PartPhases => job'.sess.part = job.part
    BY <1>7, <1>a, <1>b DEF PositionPart, GoOn, media, catalog, Job, SamePlan, Onward, Writing, PartPhases
  <2> QED
    BY <2>1, <1>q
<1>8. CASE PositionFails
  <2>1. /\ closed' = closed /\ regName' = regName /\ run' = run /\ SamePlan /\ Onward
        /\ phase' \in PartPhases => job'.sess.part = job.part
    BY <1>8, <1>a, <1>b DEF PositionFails, GiveUp, GoOn, media, catalog, Job, SamePlan, Onward, Writing, PartPhases
  <2> QED
    BY <2>1, <1>q
<1>9. CASE FillSnapshot
  <2>1. /\ closed' = closed /\ regName' = regName /\ run' = run /\ SamePlan /\ Onward
        /\ phase' \in PartPhases => job'.sess.part = job.part
    BY <1>9, <1>a, <1>b DEF FillSnapshot, GoOn, media, catalog, Job, SamePlan, Onward, Writing, PartPhases
  <2> QED
    BY <2>1, <1>q
<1>10. CASE SnapshotLosesPosition
  BY <1>10 DEF SnapshotLosesPosition, Fault
<1>11. CASE WritePart
  BY <1>11, WriteLinks
<1>12. ASSUME NEW cause \in {"full", "write"}, NEW c \in 0..3,
              NEW o \in {Empty, PartImage[c + 1]}, WritePartFails(cause, c, o)
       PROVE  Chain'
  <2>1. /\ phase = "write" /\ regName' = regName /\ run' = run /\ SamePlan /\ Onward
        /\ phase' \in PartPhases => job'.sess.part = job.part
        /\ phase \in Writing
    BY <1>12, <1>a, <1>b
    DEF WritePartFails, GoOn, catalog, Job, SamePlan, Onward, Writing, PartPhases
  <2>2. CASE UNCHANGED media
    BY <2>1, <2>2, <1>q DEF media
  <2>3. CASE closed' = [closed EXCEPT ![job.tape] =
                          Overwrite(@, job.head, SubSeq(PartImage, 1, c))]
    <3> DEFINE segs == SubSeq(PartImage, 1, c)
    <3>1. /\ PartImage \in Seq(Seg) /\ Len(PartImage) = 4
          /\ job.head = WritePos(job.lastNum) /\ WritePos(job.lastNum) <= Len(closed[job.tape])
      BY <1>a, <2>1, PartToWrite
    <3>2. c \in 0..Len(PartImage)
      BY <3>1
    <3>3. segs \in Seq(Seg)
      BY <3>1, <3>2, PrefixFacts
    <3>4. closed' = [closed EXCEPT ![job.tape] = Overwrite(@, WritePos(job.lastNum), segs)]
      BY <2>3, <3>1
    <3> HIDE DEF segs
    <3> QED
      BY <2>1, <3>1, <3>3, <3>4, <1>w
  <2> QED
    BY <2>2, <2>3, <1>12 DEF WritePartFails
<1>13. CASE UndoPart
  <2>1. /\ closed' = closed /\ regName' = regName /\ run' = run /\ SamePlan /\ Onward
        /\ phase' \in PartPhases => job'.sess.part = job.part
    BY <1>13, <1>a, <1>b DEF UndoPart, GoOn, media, Job, SamePlan, Onward, Writing, PartPhases
  <2> QED
    BY <2>1, <1>q
<1>14. CASE RestoreEOD
  <2>1. /\ phase = "restore" /\ phase \in Writing /\ regName' = regName /\ run' = run
        /\ WritePos(job.lastNum) <= Len(closed[job.tape]) /\ AfterFailedWrite(job.err)
        /\ closed' = [closed EXCEPT ![job.tape] = Overwrite(@, WritePos(job.lastNum), EodPair)]
        /\ job.sess.part = job.part
    BY <1>14, <1>b DEF RestoreEOD, catalog, Writing, PartPhases
  <2>2. SamePlan /\ Onward /\ job'.sess = job.sess
    BY <2>1, <1>r
  <2> QED
    BY <2>1, <2>2, <1>c, <1>w
<1>15. CASE RestoreEODFails
  <2>1. /\ phase = "restore" /\ phase \in Writing /\ regName' = regName /\ run' = run
        /\ AfterFailedWrite(job.err \cup {"restore"}) /\ job.sess.part = job.part
    BY <1>15, <1>b DEF RestoreEODFails, catalog, Writing, PartPhases
  <2>2. SamePlan /\ Onward /\ job'.sess = job.sess
    BY <2>1, <1>r
  <2>3. CASE UNCHANGED media
    BY <2>1, <2>2, <2>3, <1>q DEF media
  <2>4. CASE /\ WritePos(job.lastNum) <= Len(closed[job.tape])
             /\ closed' = [closed EXCEPT ![job.tape] =
                             Overwrite(@, WritePos(job.lastNum), << Empty >>)]
    BY <2>1, <2>2, <2>4, <1>c, <1>w
  <2> QED
    BY <2>3, <2>4, <1>15 DEF RestoreEODFails
<1>16. CASE CommitPart
  BY <1>16, CommitLinks
<1>17. CASE VerifyFails
  <2>1. /\ closed' = closed /\ regName' = regName /\ run' = run /\ SamePlan /\ Onward
        /\ phase' \in PartPhases => job'.sess.part = job.part
    BY <1>17, <1>a, <1>b DEF VerifyFails, Finish, media, Job, SamePlan, Onward, Writing, PartPhases
  <2> QED
    BY <2>1, <1>q
<1>18. CASE SaveFails
  <2>1. /\ closed' = closed /\ regName' = regName /\ run' = run /\ SamePlan /\ Onward
        /\ phase' \in PartPhases => job'.sess.part = job.part
    BY <1>18, <1>a, <1>b DEF SaveFails, GoOn, media, catalog, Job, SamePlan, Onward, Writing, PartPhases
  <2> QED
    BY <2>1, <1>q
<1>19. CASE AbandonTape
  BY <1>19, AbandonLinks
<1>20. ASSUME NEW c \in 0..1, AbandonFails(c) PROVE Chain'
  <2> DEFINE part == SubSeq(<< MovePointer >>, 1, c)
  <2>1. part \in Seq(Seg)
    BY <1>d, PrefixFacts
  <2> HIDE DEF part
  <2>2. /\ phase = "abandon" /\ phase \in Writing /\ regName' = regName /\ run' = run
        /\ SamePlan /\ Onward /\ phase' \notin PartPhases
    BY <1>20, <1>a
    DEF AbandonFails, GiveUp, GoOn, catalog, Job, SamePlan, Onward, Writing, PartPhases
  <2>3. CASE UNCHANGED media
    BY <2>2, <2>3, <1>q DEF media
  <2>4. CASE /\ WritePos(job.lastNum) <= Len(closed[job.tape])
             /\ closed' = [closed EXCEPT ![job.tape] =
                             Overwrite(@, WritePos(job.lastNum), part)]
    BY <2>1, <2>2, <2>4, <1>w
  <2> QED
    BY <2>3, <2>4, <1>20 DEF AbandonFails, part
<1>21. ASSUME NEW t \in Tapes, NEW n \in 1..MaxName, Swap(t, n) PROVE Chain'
  BY <1>21, SwapLinks
<1>22. ASSUME NEW t \in Tapes, NEW n \in 1..MaxName, NEW c \in 0..2, SwapUnregistered(t, n, c)
       PROVE  Chain'
  <2>1. /\ ~Labelled(t) /\ phase = "swap" /\ phase' = "rollback" /\ regName' = regName
        /\ run' = run /\ SamePlan
    BY <1>22, <1>a DEF SwapUnregistered, GiveUp, GoOn, catalog, Job, SamePlan
  <2>2. regName[t] = 0 /\ regName[job.tape] # 0
    BY <2>1, <1>a DEF Labelled, BInv, Lasting, Registered, Work, RunRegistered
  <2>3. \A u \in Tapes : u # t => closed'[u] = closed[u]
    BY <1>22, <1>a DEF SwapUnregistered
  <2>4. /\ \A u \in Tapes : Kept(u) => closed'[u] = closed[u]
        /\ closed'[job.tape][1] = closed[job.tape][1]
    BY <1>a, <2>2, <2>3 DEF Kept
  <2>5. Onward /\ phase' \notin PartPhases
    BY <2>1 DEF Onward, PartPhases
  <2> QED
    BY <2>1, <2>4, <2>5, ChainOnward
<1>23. CASE SwapFails
  <2>1. /\ closed' = closed /\ regName' = regName /\ run' = run /\ SamePlan /\ Onward
        /\ phase' \in PartPhases => job'.sess.part = job.part
    BY <1>23, <1>a, <1>b DEF SwapFails, GiveUp, GoOn, media, catalog, Job, SamePlan, Onward, Writing, PartPhases
  <2> QED
    BY <2>1, <1>q
<1>24. ASSUME NEW r \in job.created, RollbackSession(r) PROVE Chain'
  <2>1. /\ closed' = closed /\ regName' = regName /\ run' = run /\ SamePlan /\ Onward
        /\ phase' \in PartPhases => job'.sess.part = job.part
    BY <1>24, <1>a, <1>b DEF RollbackSession, media, Job, SamePlan, Onward, Writing, PartPhases
  <2> QED
    BY <2>1, <1>q
<1>25. CASE RollbackDone
  <2>1. /\ closed' = closed /\ regName' = regName /\ run' = run /\ SamePlan /\ Onward
        /\ phase' \in PartPhases => job'.sess.part = job.part
    BY <1>25, <1>a, <1>b DEF RollbackDone, Finish, media, catalog, Job, SamePlan, Onward, Writing, PartPhases
  <2> QED
    BY <2>1, <1>q
<1>26. CASE Cancel
  <2>1. /\ closed' = closed /\ regName' = regName /\ run' = run /\ SamePlan /\ Onward
        /\ phase' \in PartPhases => job'.sess.part = job.part
    BY <1>26, <1>a, <1>b DEF Cancel, media, catalog, Job, SamePlan, Onward, Writing, PartPhases
  <2> QED
    BY <2>1, <1>q
<1>27. CASE Crash
  <2>1. /\ closed' = closed /\ regName' = regName /\ run' = run /\ SamePlan /\ Onward
        /\ phase' \in PartPhases => job'.sess.part = job.part
    BY <1>27, <1>a, <1>b DEF Crash, Finish, media, catalog, Job, SamePlan, Onward, Writing, PartPhases
  <2> QED
    BY <2>1, <1>q
<1>28. ASSUME NEW r \in rows, DeleteSession(r) PROVE Chain'
  <2>1. UNCHANGED << media, regName, phase, run, outcome, job >>
    BY <1>28 DEF DeleteSession, media
  <2>2. CASE phase = "idle"
    BY <2>1, <2>2, ChainAtRest
  <2>3. CASE phase # "idle"
    <3>1. /\ closed' = closed /\ regName' = regName /\ run' = run /\ SamePlan /\ Onward
          /\ phase' \in PartPhases => job'.sess.part = job.part
      BY <1>b, <2>1, <2>3 DEF media, SamePlan, Onward
    <3> QED
      BY <3>1, <1>q
  <2> QED
    BY <2>2, <2>3
<1>29. ASSUME NEW before \in Runs, Prune(before) PROVE Chain'
  <2>1. UNCHANGED << media, regName, phase, run, outcome, job >>
    BY <1>29 DEF Prune, media
  <2>2. CASE phase = "idle"
    BY <2>1, <2>2, ChainAtRest
  <2>3. CASE phase # "idle"
    <3>1. /\ closed' = closed /\ regName' = regName /\ run' = run /\ SamePlan /\ Onward
          /\ phase' \in PartPhases => job'.sess.part = job.part
      BY <1>b, <2>1, <2>3 DEF media, SamePlan, Onward
    <3> QED
      BY <3>1, <1>q
  <2> QED
    BY <2>2, <2>3
<1>30. CASE UNCHANGED vars
  <2>1. UNCHANGED << media, regName, phase, run, outcome, job >>
    BY <1>30 DEF vars, media
  <2>2. CASE phase = "idle"
    BY <2>1, <2>2, ChainAtRest
  <2>3. CASE phase # "idle"
    <3>1. /\ closed' = closed /\ regName' = regName /\ run' = run /\ SamePlan /\ Onward
          /\ phase' \in PartPhases => job'.sess.part = job.part
      BY <1>b, <2>1, <2>3 DEF media, SamePlan, Onward
    <3> QED
      BY <3>1, <1>q
  <2> QED
    BY <2>2, <2>3
<1> QED
  BY <1>1, <1>2, <1>3, <1>4, <1>5, <1>6, <1>7, <1>8, <1>9, <1>10, <1>11, <1>12, <1>13,
     <1>14, <1>15, <1>16, <1>17, <1>18, <1>19, <1>20, <1>21, <1>22, <1>23, <1>24, <1>25,
     <1>26, <1>27, <1>28, <1>29, <1>30
  DEF Next, Step

LEMMA ChainInit == ASSUME Init PROVE Chain
BY DEF Init, Chain, ChainLinked, Writing, PartPhases

\* After a successful run the parts are linked in both directions, from one
\* cassette to the next or over one that carries nothing but a pointer
\* (span.go:185-196, 331-353 write the pointers, 269 the back reference): for every
\* number of parts, through every move after ENOSPC, whatever failed on the way;
\* as long as the operator takes the names the run suggests and the head never
\* stays lost.
THEOREM PartsAreLinked ==
  ASSUME Faults \cap {"seek", "rename"} = {}
  PROVE  Spec => []ChainLinked
<1>1. Init => CInv
  BY TypeInit, BackedInit, MovesInit, ChainInit DEF CInv, NInv, BInv
<1>2. CInv /\ [Next]_vars => CInv'
  <2> SUFFICES ASSUME CInv, [Next]_vars PROVE CInv'
    OBVIOUS
  <2>1. BInv'
    BY TypeStep, BackedStep DEF CInv, NInv, BInv
  <2>2. NInv'
    BY <2>1, MovesStep DEF CInv, NInv
  <2>3. Registered'
    BY <2>1 DEF BInv, Lasting
  <2> QED
    BY <2>2, <2>3, ChainStep DEF CInv
<1>3. CInv => ChainLinked
  BY DEF CInv, Chain
<1> QED
  BY <1>1, <1>2, <1>3, PTL DEF Spec

=============================================================================
