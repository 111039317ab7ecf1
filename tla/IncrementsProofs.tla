-------------------------- MODULE IncrementsProofs --------------------------
(***************************************************************************)
(* Theorems about the sessions of a cassette, for every set of files, jobs *)
(* and roots and any number of sessions.                                   *)
(***************************************************************************)
EXTENDS Increments, TLAPS

-----------------------------------------------------------------------------
(* Sequences: a prefix, and a new last element. *)

LEMMA Prefix ==
  ASSUME NEW S, NEW q \in Seq(S), NEW n \in 0..Len(q)
  PROVE  LET p == SubSeq(q, 1, n)
         IN  p \in Seq(S) /\ Len(p) = n /\ \A k \in 1..n : p[k] = q[k]
OBVIOUS

LEMMA Appended ==
  ASSUME NEW S, NEW q \in Seq(S), NEW e \in S
  PROVE  LET r == Append(q, e)
         IN  /\ r \in Seq(S) /\ Len(r) = Len(q) + 1 /\ r[Len(q) + 1] = e
             /\ \A k \in 1..Len(q) : r[k] = q[k]
OBVIOUS

LEMMA OneMore ==
  ASSUME NEW n \in Nat, NEW S, S \subseteq 1..n
  PROVE  S \cup {n + 1} \subseteq 1..(n + 1)
<1>1. \A k \in S : k \in 1..n
  OBVIOUS
<1>2. \A k \in 1..n : k \in 1..(n + 1)
  OBVIOUS
<1>3. n + 1 \in 1..(n + 1)
  OBVIOUS
<1> QED
  BY <1>1, <1>2, <1>3, Zenon

-----------------------------------------------------------------------------
(* Type correctness. *)

LEMMA NoFilesType == NoFiles \in FileList /\ DOMAIN NoFiles = {}
<1>1. NoFiles \in [{} -> 0..MaxStamp] /\ {} \in SUBSET Files
  BY DEF NoFiles
<1> QED
  BY <1>1 DEF FileList

LEMMA FileListDomain ==
  ASSUME NEW l \in FileList
  PROVE  DOMAIN l \subseteq Files /\ l \in [DOMAIN l -> 0..MaxStamp]
<1>1. PICK D \in SUBSET Files : l \in [D -> 0..MaxStamp]
  BY DEF FileList
<1> QED
  BY <1>1

LEMMA SnapshotType ==
  ASSUME TypeOK, NEW last, IsLastNum(last)
  PROVE  /\ last \in 0..Len(tape) /\ Snapshot(last) \in FileList
         /\ DOMAIN Snapshot(last) \subseteq Files
<1>1. last \in 0..Len(tape)
  BY DEF TypeOK, IsLastNum
<1>2. CASE last = 0
  BY <1>1, <1>2, NoFilesType DEF Snapshot
<1>3. CASE last # 0
  <2>1. tape[last] \in Session
    BY <1>1, <1>3 DEF TypeOK
  <2>2. Snapshot(last) \in FileList
    BY <1>3, <2>1 DEF Session, Snapshot, FilesOf
  <2> QED
    BY <1>1, <2>2, FileListDomain
<1> QED
  BY <1>2, <1>3

LEMMA ScanType ==
  ASSUME TypeOK, NEW j \in Jobs, NEW s, DOMAIN s \subseteq Files
  PROVE  /\ Scan(j, s) \in FileList
         /\ DOMAIN Scan(j, s) = Changed(j, s) \cup Gone(j, s)
         /\ \A f \in DOMAIN Scan(j, s) :
              Scan(j, s)[f] = IF f \in Changed(j, s) THEN fs[f] ELSE 0
<1>1. Changed(j, s) \subseteq Files /\ Gone(j, s) \subseteq Files
  BY IncrementsAssumption DEF Changed, Gone, Looked, Found
<1>2. Scan(j, s) \in [Changed(j, s) \cup Gone(j, s) -> 0..MaxStamp]
  BY <1>1, IncrementsAssumption DEF Scan, Hashed, TypeOK
<1> QED
  BY <1>1, <1>2 DEF FileList, Scan, Hashed

\* The run that a backup starts.
LEMMA StartFacts ==
  ASSUME TypeOK, NEW j \in Jobs, NEW full \in BOOLEAN, StartBackup(j, full)
  PROVE  \E last \in 0..Len(tape), r \in Run :
           /\ IsLastNum(last) /\ run' = {r}
           /\ r.job = j /\ r.restart = (full /\ last > 0)
           /\ r.files = Scan(j, Snapshot(last)) /\ r.data = NoFiles
           /\ r.after = (IF full THEN 0 ELSE last) /\ ~r.begun
           /\ r.at.fs = fs /\ r.at.excluded = excluded
<1>1. PICK last \in 0..MaxNum :
        /\ IsLastNum(last)
        /\ run' = {[job |-> j, restart |-> full /\ last > 0,
                    files |-> Scan(j, Snapshot(last)), data |-> NoFiles,
                    after |-> IF full THEN 0 ELSE last,
                    at |-> [fs |-> fs, excluded |-> excluded], begun |-> FALSE]}
  BY DEF StartBackup
<1>2. /\ last \in 0..Len(tape) /\ Snapshot(last) \in FileList
      /\ DOMAIN Snapshot(last) \subseteq Files
  BY <1>1, SnapshotType
<1> DEFINE files == Scan(j, Snapshot(last))
           at    == [fs |-> fs, excluded |-> excluded]
           after == IF full THEN 0 ELSE last
<1>3. files \in FileList /\ NoFiles \in FileList
  BY <1>2, ScanType, NoFilesType
<1>4. at \in Moment /\ at.fs = fs /\ at.excluded = excluded
  BY DEF TypeOK, Moment
<1>5. after \in 0..MaxNum /\ (full /\ last > 0) \in BOOLEAN
  BY IncrementsAssumption
<1> HIDE DEF files, at, after
<1> DEFINE r == [job |-> j, restart |-> full /\ last > 0, files |-> files,
                 data |-> NoFiles, after |-> after, at |-> at, begun |-> FALSE]
<1>6. r \in Run
  BY <1>3, <1>4, <1>5 DEF Run
<1>7. run' = {r}
  BY <1>1 DEF files, at, after
<1> QED
  BY <1>1, <1>2, <1>4, <1>6, <1>7 DEF files, at, after

\* The run that has copied one more file.
LEMMA WithDataFacts ==
  ASSUME TypeOK, NEW r \in run, NEW f \in Files
  PROVE  LET w == WithData(r, f)
         IN  /\ w \in Run
             /\ w.job = r.job /\ w.restart = r.restart /\ w.files = r.files
             /\ w.after = r.after /\ w.at = r.at /\ w.begun = r.begun
             /\ DOMAIN w.data = DOMAIN r.data \cup {f}
             /\ \A g \in DOMAIN w.data : w.data[g] = IF g = f THEN fs[f] ELSE r.data[g]
<1> DEFINE D == DOMAIN r.data \cup {f}
           d == [g \in D |-> IF g = f THEN fs[f] ELSE r.data[g]]
<1>1. r \in Run
  BY DEF TypeOK
<1>2. r.data \in FileList
  BY <1>1 DEF Run
<1>3. D \subseteq Files /\ r.data \in [DOMAIN r.data -> 0..MaxStamp]
  BY <1>2, FileListDomain
<1>4. d \in [D -> 0..MaxStamp]
  BY <1>3 DEF TypeOK
<1>5. d \in FileList
  BY <1>3, <1>4 DEF FileList
<1>6. DOMAIN d = D /\ \A g \in D : d[g] = IF g = f THEN fs[f] ELSE r.data[g]
  OBVIOUS
<1>7. WithData(r, f) = [r EXCEPT !.data = d]
  BY DEF WithData
<1> HIDE DEF d, D
<1>8. /\ WithData(r, f) \in Run /\ WithData(r, f).data = d
      /\ WithData(r, f).job = r.job /\ WithData(r, f).restart = r.restart
      /\ WithData(r, f).files = r.files /\ WithData(r, f).after = r.after
      /\ WithData(r, f).at = r.at /\ WithData(r, f).begun = r.begun
  BY <1>1, <1>5, <1>7 DEF Run
<1> QED
  BY <1>6, <1>8 DEF D

\* A run writes behind a session that is there, and nothing else writes meanwhile.
RunFits(r) ==
  /\ r.after \in 0..Len(tape)
  /\ r.begun => Len(tape) = r.after

TInv == TypeOK /\ \A r \in run : RunFits(r)

LEMMA TypeStep == ASSUME TInv, [Next]_vars PROVE TypeOK'
<1> USE IncrementsAssumption
<1>0. TypeOK /\ \A r \in run : r.after \in 0..Len(tape)
  BY DEF TInv, RunFits
<1> USE <1>0
<1>1. ASSUME NEW j \in Jobs, NEW full \in BOOLEAN, StartBackup(j, full) PROVE TypeOK'
  <2>1. run' \subseteq Run
    BY <1>1, StartFacts
  <2> QED
    BY <1>1, <2>1 DEF StartBackup, TypeOK
<1>2. ASSUME NEW r \in run, BeginWrite(r) PROVE TypeOK'
  <2>1. r \in Run /\ [r EXCEPT !.begun = TRUE] \in Run
    BY DEF TypeOK, Run
  <2>2. tape' \in Seq(Session) /\ Len(tape') = r.after
    BY <1>2, Prefix DEF BeginWrite, TypeOK
  <2>3. past' \in Seq(Moment) /\ Len(past') = r.after
    BY <1>2, Prefix DEF BeginWrite, TypeOK
  <2>4. rows' \subseteq 1..r.after
    BY <1>2 DEF BeginWrite, TypeOK
  <2> QED
    BY <1>2, <2>1, <2>2, <2>3, <2>4 DEF BeginWrite, TypeOK
<1>3. ASSUME NEW r \in run, NEW f \in Files, CopyFile(r, f) PROVE TypeOK'
  BY <1>3, WithDataFacts DEF CopyFile, TypeOK
<1>4. ASSUME NEW r \in run, FinishBackup(r) PROVE TypeOK'
  <2> DEFINE s == [job |-> r.job, restart |-> r.restart, files |-> r.files, data |-> r.data]
  <2>1. r \in Run /\ s \in Session /\ r.at \in Moment
    BY DEF TypeOK, Run, Session
  <2> HIDE DEF s
  <2>2. tape' = Append(tape, s) /\ past' = Append(past, r.at)
    BY <1>4 DEF FinishBackup, s
  <2>3. tape' \in Seq(Session) /\ Len(tape') = Len(tape) + 1
    BY <2>1, <2>2, Appended DEF TypeOK
  <2>4. past' \in Seq(Moment) /\ Len(past') = Len(past) + 1
    BY <2>1, <2>2, Appended DEF TypeOK
  <2>5. rows' \subseteq 1..(Len(tape) + 1)
    <3>1. Len(tape) \in Nat /\ rows \subseteq 1..Len(tape)
      BY DEF TypeOK
    <3>2. rows' = rows \cup {Len(tape) + 1}
      BY <1>4 DEF FinishBackup
    <3> QED
      BY <3>1, <3>2, OneMore
  <2> QED
    BY <1>4, <2>3, <2>4, <2>5 DEF FinishBackup, TypeOK
<1>5. ASSUME NEW r \in run, FailBackup(r) PROVE TypeOK'
  BY <1>5 DEF FailBackup, TypeOK
<1>6. ASSUME NEW k \in rows, DeleteSession(k) PROVE TypeOK'
  BY <1>6 DEF DeleteSession, TypeOK
<1>7. ASSUME NEW f \in Files, Touch(f) PROVE TypeOK'
  BY <1>7 DEF Touch, TypeOK
<1>8. ASSUME NEW E \in SUBSET Files, Exclude(E) PROVE TypeOK'
  BY <1>8 DEF Exclude, TypeOK
<1>9. CASE UNCHANGED vars
  BY <1>9 DEF vars, TypeOK
<1> QED
  BY <1>1, <1>2, <1>3, <1>4, <1>5, <1>6, <1>7, <1>8, <1>9 DEF Next

LEMMA RunFitsStep == ASSUME TInv, [Next]_vars PROVE (\A r \in run : RunFits(r))'
<1>0. TypeOK /\ TypeOK' /\ \A r \in run : RunFits(r)
  BY TypeStep DEF TInv
<1> USE <1>0
<1>1. ASSUME NEW j \in Jobs, NEW full \in BOOLEAN, StartBackup(j, full)
      PROVE  (\A r \in run : RunFits(r))'
  <2>1. PICK last \in 0..Len(tape), r \in Run :
          run' = {r} /\ r.after = (IF full THEN 0 ELSE last) /\ ~r.begun
    BY <1>1, StartFacts
  <2>2. tape' = tape /\ Len(tape) \in Nat
    BY <1>1 DEF StartBackup, TypeOK
  <2> QED
    BY <2>1, <2>2 DEF RunFits
<1>2. ASSUME NEW r \in run, BeginWrite(r) PROVE (\A x \in run : RunFits(x))'
  <2> DEFINE w == [r EXCEPT !.begun = TRUE]
  <2>1. r \in Run /\ w.after = r.after
    BY DEF TypeOK, Run
  <2>2. r.after \in Nat /\ Len(tape') = r.after
    BY <1>2, Prefix DEF BeginWrite, TypeOK, RunFits
  <2>3. run' = {w}
    BY <1>2 DEF BeginWrite
  <2> HIDE DEF w
  <2> QED
    BY <2>1, <2>2, <2>3 DEF RunFits
<1>3. ASSUME NEW r \in run, NEW f \in Files, CopyFile(r, f)
      PROVE  (\A x \in run : RunFits(x))'
  <2>1. run' = {WithData(r, f)} /\ tape' = tape
    BY <1>3 DEF CopyFile
  <2> QED
    BY <2>1, WithDataFacts DEF RunFits
<1>4. ASSUME NEW r \in run, FinishBackup(r) \/ FailBackup(r)
      PROVE  (\A x \in run : RunFits(x))'
  BY <1>4 DEF FinishBackup, FailBackup
<1>5. CASE UNCHANGED << tape, run >>
  BY <1>5 DEF RunFits
<1> QED
  BY <1>1, <1>2, <1>3, <1>4, <1>5 DEF Next, vars, DeleteSession, Touch, Exclude

LEMMA TInvInit == ASSUME Init PROVE TInv
BY DEF Init, TInv, TypeOK

LEMMA TInvStep == ASSUME TInv, [Next]_vars PROVE TInv'
BY TypeStep, RunFitsStep DEF TInv

\* Every variable keeps its type.
THEOREM TypeCorrect == Spec => []TypeOK
<1>1. TInv /\ [Next]_vars => TInv'
  BY TInvStep
<1>2. TInv => TypeOK
  BY DEF TInv
<1> QED
  BY <1>1, <1>2, TInvInit, PTL DEF Spec

-----------------------------------------------------------------------------
(* The two invariants.  Both are inductive over the sessions: a new session *)
(* says what it must of every path, or the session before it does.  The run *)
(* in progress carries that from its scan to the end of its write.          *)

\* What a tar holds is what the index says.
Copied(x) == \A f \in DOMAIN x.data : f \in DOMAIN x.files /\ x.data[f] = x.files[f]

\* ... of every file of the index.
Whole(x) == Copied(x) /\ \A f \in DOMAIN x.files : x.files[f] # 0 => f \in DOMAIN x.data

\* The run r and the session it writes behind have what its scan found.
Scanned(r) ==
  /\ \A f \in DOMAIN r.files : r.files[f] = 0 => r.at.fs[f] = 0
  /\ ~r.restart =>
       \A f \in Under[r.job] : r.at.fs[f] # 0 /\ f \notin r.at.excluded =>
         \/ f \in DOMAIN r.files /\ r.files[f] = r.at.fs[f]
         \/ /\ f \notin DOMAIN r.files /\ r.after # 0
            /\ f \in DOMAIN tape[r.after].files
            /\ tape[r.after].files[f] = r.at.fs[f]

SInv ==
  /\ SessionsAddUp /\ NoTombstoneOfLiveFile
  /\ \A k \in 1..Len(tape) : Whole(tape[k])
  /\ \A r \in run : Scanned(r) /\ Copied(r)

\* A step that leaves the sessions alone.
LEMMA SameSessions ==
  ASSUME SInv, UNCHANGED << tape, past >>, (\A r \in run : Scanned(r) /\ Copied(r))'
  PROVE  SInv'
BY DEF SInv, SessionsAddUp, NoTombstoneOfLiveFile, WasThere, Restores, Decides

LEMMA SameRun ==
  ASSUME SInv, UNCHANGED << tape, past, run >>
  PROVE  SInv'
<1>1. (\A r \in run : Scanned(r) /\ Copied(r))'
  BY DEF SInv, Scanned, Copied
<1> QED
  BY <1>1, SameSessions

\* The scan of a run finds every file that is there.
LEMMA StartStep ==
  ASSUME TInv, SInv, NEW j \in Jobs, NEW full \in BOOLEAN, StartBackup(j, full)
  PROVE  SInv'
<1>0. TypeOK
  BY DEF TInv
<1>1. PICK last \in 0..Len(tape), r \in Run :
        /\ IsLastNum(last) /\ run' = {r}
        /\ r.job = j /\ r.restart = (full /\ last > 0)
        /\ r.files = Scan(j, Snapshot(last)) /\ r.data = NoFiles
        /\ r.after = (IF full THEN 0 ELSE last) /\ ~r.begun
        /\ r.at.fs = fs /\ r.at.excluded = excluded
  BY <1>0, StartFacts
<1> DEFINE snap == Snapshot(last)
           s    == Scan(j, snap)
<1>2. /\ DOMAIN snap \subseteq Files
      /\ DOMAIN s = Changed(j, snap) \cup Gone(j, snap)
      /\ \A f \in DOMAIN s : s[f] = IF f \in Changed(j, snap) THEN fs[f] ELSE 0
  BY <1>0, <1>1, SnapshotType, ScanType
<1>3. last = 0 => DOMAIN snap = {}
  BY NoFilesType DEF Snapshot
<1>4. last # 0 => snap = tape[last].files
  BY DEF Snapshot, FilesOf
<1>5. r.files = s
  BY <1>1
<1> HIDE DEF snap, s
<1>6. Copied(r)
  BY <1>1, NoFilesType DEF Copied
<1>7. \A f \in DOMAIN r.files : r.files[f] = 0 => r.at.fs[f] = 0
  BY <1>1, <1>2, <1>5 DEF Changed, Gone, Looked, Found
<1>8. ASSUME ~r.restart, NEW f \in Under[r.job], r.at.fs[f] # 0, f \notin r.at.excluded
      PROVE  \/ f \in DOMAIN r.files /\ r.files[f] = r.at.fs[f]
             \/ /\ f \notin DOMAIN r.files /\ r.after # 0
                /\ f \in DOMAIN tape[r.after].files
                /\ tape[r.after].files[f] = r.at.fs[f]
  <2>1. f \in Looked(j) /\ f \in Found(j)
    BY <1>1, <1>8 DEF Looked, Found
  <2>2. CASE f \in Changed(j, snap)
    BY <1>1, <1>2, <1>5, <2>2
  <2>3. CASE f \notin Changed(j, snap)
    <3>1. f \in DOMAIN snap /\ snap[f] = fs[f]
      BY <2>1, <2>3 DEF Changed
    <3>2. last # 0 /\ r.after = last
      BY <1>1, <1>3, <1>8, <3>1
    <3>3. f \notin DOMAIN r.files
      BY <1>2, <1>5, <2>1, <2>3 DEF Gone
    <3> QED
      BY <1>1, <1>4, <3>1, <3>2, <3>3
  <2> QED
    BY <2>2, <2>3
<1>9. Scanned(r)
  BY <1>7, <1>8 DEF Scanned
<1>10. UNCHANGED << tape, past >>
  BY DEF StartBackup
<1>11. (\A x \in run : Scanned(x) /\ Copied(x))'
  BY <1>1, <1>6, <1>9, <1>10 DEF Scanned, Copied
<1> QED
  BY <1>10, <1>11, SameSessions

\* The sessions in front of the one the run writes stay as they are.
LEMMA BeginStep ==
  ASSUME TInv, SInv, NEW r \in run, BeginWrite(r)
  PROVE  SInv'
<1> DEFINE w == [r EXCEPT !.begun = TRUE]
<1>0. TypeOK /\ r \in Run /\ r.after \in 0..Len(tape)
  BY DEF TInv, RunFits, TypeOK
<1>1. /\ w.job = r.job /\ w.restart = r.restart /\ w.files = r.files /\ w.data = r.data
      /\ w.after = r.after /\ w.at = r.at
  BY <1>0 DEF Run
<1>2. run' = {w}
  BY DEF BeginWrite
<1> HIDE DEF w
<1>3. Len(tape') = r.after /\ \A k \in 1..r.after : tape'[k] = tape[k]
  BY <1>0, Prefix DEF BeginWrite, TypeOK
<1>4. \A k \in 1..r.after : past'[k] = past[k]
  BY <1>0, Prefix DEF BeginWrite, TypeOK
<1>5. r.after \in Nat /\ Len(tape) \in Nat /\ 1..r.after \subseteq 1..Len(tape)
  BY <1>0 DEF TypeOK
<1>6. Scanned(r) /\ Copied(r)
  BY DEF SInv
<1>7. Scanned(w)' /\ Copied(w)'
  <2>1. r.after # 0 => tape'[r.after] = tape[r.after]
    BY <1>3, <1>5
  <2> QED
    BY <1>1, <1>6, <2>1 DEF Scanned, Copied
<1>8. \A k \in 1..r.after : \A f \in Files :
        /\ WasThere(k, f)' <=> WasThere(k, f)
        /\ \A v : Restores(k, f, v) => Restores(k, f, v)'
  BY <1>3, <1>4, <1>5, SMTT(40) DEF WasThere, Restores, Decides
<1>9. SessionsAddUp'
  BY <1>3, <1>4, <1>5, <1>8 DEF SInv, SessionsAddUp
<1>10. NoTombstoneOfLiveFile'
  BY <1>3, <1>4, <1>5 DEF SInv, NoTombstoneOfLiveFile
<1>11. (\A k \in 1..Len(tape) : Whole(tape[k]))'
  BY <1>3, <1>5 DEF SInv, Whole, Copied
<1> QED
  BY <1>2, <1>7, <1>9, <1>10, <1>11 DEF SInv

\* A file is copied as the index has it.
LEMMA CopyStep ==
  ASSUME TInv, SInv, NEW r \in run, NEW f \in Files, CopyFile(r, f)
  PROVE  SInv'
<1> DEFINE w == WithData(r, f)
<1>1. /\ w.job = r.job /\ w.restart = r.restart /\ w.files = r.files
      /\ w.after = r.after /\ w.at = r.at
      /\ DOMAIN w.data = DOMAIN r.data \cup {f}
      /\ \A g \in DOMAIN w.data : w.data[g] = IF g = f THEN fs[f] ELSE r.data[g]
  BY WithDataFacts DEF TInv
<1>2. run' = {w} /\ UNCHANGED << tape, past >>
  BY DEF CopyFile
<1>3. f \in DOMAIN r.files /\ fs[f] = r.files[f]
  BY DEF CopyFile, Uncopied
<1> HIDE DEF w
<1>4. Scanned(r) /\ Copied(r)
  BY DEF SInv
<1>5. Copied(w)
  BY <1>1, <1>3, <1>4 DEF Copied
<1>6. Scanned(w)
  BY <1>1, <1>4 DEF Scanned
<1>7. (\A x \in run : Scanned(x) /\ Copied(x))'
  BY <1>2, <1>5, <1>6 DEF Scanned, Copied
<1> QED
  BY <1>2, <1>7, SameSessions

\* The session of the run adds up with those in front of it.
LEMMA FinishStep ==
  ASSUME TInv, SInv, NEW r \in run, FinishBackup(r)
  PROVE  SInv'
<1> DEFINE s == [job |-> r.job, restart |-> r.restart, files |-> r.files, data |-> r.data]
<1>0. /\ TypeOK /\ r \in Run /\ s \in Session /\ r.at \in Moment
      /\ r.after = Len(tape) /\ Len(tape) \in Nat /\ Len(past) = Len(tape)
  BY DEF TInv, RunFits, TypeOK, Run, Session, FinishBackup
<1>new. PICK new \in Nat : new = Len(tape) + 1
  BY <1>0
<1>1. s.job = r.job /\ s.restart = r.restart /\ s.files = r.files /\ s.data = r.data
  OBVIOUS
<1>2. tape' = Append(tape, s) /\ past' = Append(past, r.at) /\ run' = {} /\ Uncopied(r) = {}
  BY DEF FinishBackup
<1> HIDE DEF s
<1>3. /\ Len(tape') = new /\ tape'[new] = s
      /\ \A k \in 1..Len(tape) : tape'[k] = tape[k]
  BY <1>0, <1>2, <1>new, Appended DEF TypeOK
<1>4. past'[new] = r.at /\ \A k \in 1..Len(tape) : past'[k] = past[k]
  BY <1>0, <1>2, <1>new, Appended DEF TypeOK
<1>5. Scanned(r) /\ Copied(r)
  BY DEF SInv
<1>6. Whole(s)
  BY <1>1, <1>2, <1>5 DEF Whole, Copied, Uncopied
<1>7. new \in Nat /\ new > 0 /\ \A k \in 1..new : k = new \/ k \in 1..Len(tape)
  BY <1>0, <1>new
<1>8. \A k \in 1..Len(tape) : \A f \in Files :
        /\ WasThere(k, f)' <=> WasThere(k, f)
        /\ \A v : Restores(k, f, v) => Restores(k, f, v)'
  BY <1>0, <1>3, <1>4 DEF WasThere, Restores, Decides
<1>9. ASSUME NEW f \in Files, ~s.restart, WasThere(new, f)'
      PROVE  Restores(new, f, past[new].fs[f])'
  <2>1. f \in Under[r.job] /\ r.at.fs[f] # 0 /\ f \notin r.at.excluded
    BY <1>1, <1>3, <1>4, <1>9 DEF WasThere
  <2>2. CASE f \in DOMAIN r.files /\ r.files[f] = r.at.fs[f]
    <3>1. f \in DOMAIN s.files /\ s.files[f] # 0 /\ s.data[f] = r.at.fs[f]
      BY <1>1, <1>6, <2>1, <2>2 DEF Whole, Copied
    <3>2. Decides(new, new, f)'
      BY <1>3, <1>7, <3>1 DEF Decides
    <3> QED
      BY <1>3, <1>4, <1>7, <3>1, <3>2 DEF Restores
  <2>3. CASE /\ f \notin DOMAIN r.files /\ r.after # 0
             /\ f \in DOMAIN tape[r.after].files
             /\ tape[r.after].files[f] = r.at.fs[f]
    <3> DEFINE last == r.after
    <3>1. last \in 1..Len(tape) /\ new = last + 1
      BY <1>0, <1>new, <2>3
    <3>2. Whole(tape[last]) /\ tape'[last] = tape[last]
      BY <1>3, <3>1 DEF SInv
    <3>3. tape'[last].files[f] # 0 /\ tape'[last].data[f] = r.at.fs[f]
      BY <2>1, <2>3, <3>2 DEF Whole, Copied
    <3>4. f \notin DOMAIN tape'[new].files /\ f \in DOMAIN tape'[last].files
      BY <1>1, <1>3, <2>3, <3>2
    <3> HIDE DEF last
    <3>5. last \in 1..new /\ \A m \in (last + 1)..new : m = new
      BY <1>0, <3>1
    <3>6. Decides(last, new, f)'
      BY <3>4, <3>5 DEF Decides
    <3> QED
      BY <1>4, <3>3, <3>5, <3>6 DEF Restores
  <2> QED
    BY <1>1, <1>5, <1>9, <2>1, <2>2, <2>3 DEF Scanned
<1>10. SessionsAddUp'
  <2>1. ASSUME NEW k \in 1..Len(tape'), ~tape'[k].restart, NEW f \in Files, WasThere(k, f)'
        PROVE  Restores(k, f, past[k].fs[f])'
    <3>1. CASE k = new
      BY <1>3, <1>9, <2>1, <3>1
    <3>2. CASE k \in 1..Len(tape)
      <4>1. Restores(k, f, past[k].fs[f])
        BY <1>3, <1>8, <2>1, <3>2 DEF SInv, SessionsAddUp
      <4> QED
        BY <1>4, <1>8, <3>2, <4>1
    <3> QED
      BY <1>3, <1>7, <3>1, <3>2
  <2> QED
    BY <2>1 DEF SessionsAddUp
<1>11. NoTombstoneOfLiveFile'
  <2>1. ASSUME NEW k \in 1..Len(tape'), NEW f \in DOMAIN tape'[k].files,
               tape'[k].files[f] = 0
        PROVE  past'[k].fs[f] = 0
    <3>1. CASE k = new
      BY <1>1, <1>3, <1>4, <1>5, <2>1, <3>1 DEF Scanned
    <3>2. CASE k \in 1..Len(tape)
      BY <1>3, <1>4, <2>1, <3>2 DEF SInv, NoTombstoneOfLiveFile
    <3> QED
      BY <1>3, <1>7, <3>1, <3>2
  <2> QED
    BY <2>1 DEF NoTombstoneOfLiveFile
<1>12. (\A k \in 1..Len(tape) : Whole(tape[k]))'
  BY <1>3, <1>6, <1>7 DEF SInv, Whole, Copied
<1> QED
  BY <1>2, <1>10, <1>11, <1>12 DEF SInv

LEMMA SInvStep == ASSUME TInv, SInv, [Next]_vars PROVE SInv'
<1>1. ASSUME NEW j \in Jobs, NEW full \in BOOLEAN, StartBackup(j, full) PROVE SInv'
  BY <1>1, StartStep
<1>2. ASSUME NEW r \in run, BeginWrite(r) PROVE SInv'
  BY <1>2, BeginStep
<1>3. ASSUME NEW r \in run, NEW f \in Files, CopyFile(r, f) PROVE SInv'
  BY <1>3, CopyStep
<1>4. ASSUME NEW r \in run, FinishBackup(r) PROVE SInv'
  BY <1>4, FinishStep
<1>5. ASSUME NEW r \in run, FailBackup(r) PROVE SInv'
  <2>1. UNCHANGED << tape, past >> /\ run' = {}
    BY <1>5 DEF FailBackup
  <2> QED
    BY <2>1, SameSessions
<1>6. ASSUME NEW k \in rows, DeleteSession(k) PROVE SInv'
  BY <1>6, SameRun DEF DeleteSession
<1>7. ASSUME NEW f \in Files, Touch(f) PROVE SInv'
  BY <1>7, SameRun DEF Touch
<1>8. ASSUME NEW E \in SUBSET Files, Exclude(E) PROVE SInv'
  BY <1>8, SameRun DEF Exclude
<1>9. CASE UNCHANGED vars
  BY <1>9, SameRun DEF vars
<1> QED
  BY <1>1, <1>2, <1>3, <1>4, <1>5, <1>6, <1>7, <1>8, <1>9 DEF Next

LEMMA SInvInvariant == Spec => [](TInv /\ SInv)
<1>1. Init => TInv /\ SInv
  BY TInvInit DEF Init, SInv, SessionsAddUp, NoTombstoneOfLiveFile
<1>2. TInv /\ SInv /\ [Next]_vars => (TInv /\ SInv)'
  BY TInvStep, SInvStep
<1> QED
  BY <1>1, <1>2, PTL DEF Spec

\* The sessions up to any session that is not a FULL restart restore every file
\* that was there and not excluded when it was written, however many jobs share
\* the cassette and whatever is deleted from the catalog between the runs.
THEOREM EverySessionRestorable == Spec => []SessionsAddUp
<1>1. TInv /\ SInv => SessionsAddUp
  BY DEF SInv
<1> QED
  BY <1>1, SInvInvariant, PTL

\* A tombstone is written only for a path that is not on the file system.
THEOREM TombstonesAreForDeletedFiles == Spec => []NoTombstoneOfLiveFile
<1>1. TInv /\ SInv => NoTombstoneOfLiveFile
  BY DEF SInv
<1> QED
  BY <1>1, SInvInvariant, PTL
=============================================================================
