----------------------------- MODULE Increments -----------------------------
(***************************************************************************)
(* What the sessions of one cassette contain: internal/usecase/scan        *)
(* (Scanner.Scan), the snapshot it is given by internal/usecase/backup     *)
(* (Backup, lastSnapshot) and what reading the sessions again restores     *)
(* (internal/usecase/restore).                                             *)
(*                                                                         *)
(* A run compares the file system with the files of the cassette's last    *)
(* session in the catalog, and then writes what changed, file by file      *)
(* (internal/adapter/tapeformat), while files go on changing.  A run that  *)
(* cannot go on ends without a session; what it leaves behind on tape and  *)
(* in the catalog is the subject of module Backup.                         *)
(***************************************************************************)
EXTENDS Integers, Sequences

CONSTANTS
  Files,      \* paths
  Jobs,       \* backup jobs that use the cassette
  Under,      \* [Jobs -> SUBSET Files]: what lies under the roots of a job
  Mirrors,    \* the jobs with mode "mirror"; the others append
  MaxStamp,   \* bound: a file is in one of the states 1..MaxStamp
  MaxNum      \* bound: sessions on the cassette

ASSUME IncrementsAssumption ==
  /\ Under \in [Jobs -> SUBSET Files] /\ Mirrors \subseteq Jobs
  /\ MaxStamp \in Nat /\ MaxNum \in Nat

VARIABLES
  fs,         \* [Files -> 0..MaxStamp]: size, mtime and contents of each file in one
              \* number, 0 = no such file
  excluded,   \* files that the exclude patterns of the config match
  tape,       \* the sessions on the cassette
  rows,       \* numbers of the sessions in the catalog
  past,       \* what fs and excluded were when each session was scanned
  run         \* the run in progress, if there is one

vars == << fs, excluded, tape, rows, past, run >>

\* A file list: the entry of a path is its state, 0 for a tombstone.
FileList == UNION { [D -> 0..MaxStamp] : D \in SUBSET Files }

NoFiles == [f \in {} |-> 0]

Moment == [fs : [Files -> 0..MaxStamp], excluded : SUBSET Files]

\* restart: the session was asked for with --full on a cassette with sessions;
\* files: what the index says, size, mtime and digest; data: the tar.
Session == [job : Jobs, restart : BOOLEAN, files : FileList, data : FileList]

\* after: the session it writes behind; at: the moment of its scan; begun: whether
\* it has positioned the tape and written the index.
Run == [job : Jobs, restart : BOOLEAN, files : FileList, data : FileList,
        after : 0..MaxNum, at : Moment, begun : BOOLEAN]

TypeOK ==
  /\ fs \in [Files -> 0..MaxStamp]
  /\ excluded \subseteq Files
  /\ tape \in Seq(Session)
  /\ rows \subseteq 1..Len(tape)
  /\ past \in Seq(Moment) /\ Len(past) = Len(tape)
  /\ run \subseteq Run

Init ==
  /\ fs \in [Files -> 0..MaxStamp] /\ excluded = {}
  /\ tape = << >> /\ rows = {} /\ past = << >> /\ run = {}

-----------------------------------------------------------------------------
(* The scan. *)

\* lastSession: the highest number in the catalog, 0 without sessions.
IsLastNum(n) ==
  /\ n \in rows \cup {0}
  /\ \A k \in rows : k <= n

\* GetFilesBySession: what the index of session n says.
FilesOf(n) == tape[n].files

\* lastSnapshot: the files of that session, whatever its job and type.
Snapshot(last) == IF last = 0 THEN NoFiles ELSE FilesOf(last)

\* Walk meets the excluded files too.
Found(j) == { f \in Under[j] : fs[f] # 0 }

\* excludedPath: what it matches is met, but not looked at.
Looked(j) == Found(j) \ excluded

\* scanEntry, unchanged: new paths, and those whose size or mtime differ.
Changed(j, snapshot) ==
  { f \in Looked(j) : f \in DOMAIN snapshot => snapshot[f] # fs[f] }

\* Seeded bug: what is excluded counts as deleted.
GoneOrExcluded(j, snapshot) ==
  IF j \in Mirrors
    THEN { f \in DOMAIN snapshot \cap Under[j] : f \notin Looked(j) } ELSE {}

\* tombstones: paths of the snapshot under the roots that Walk did not meet.
Gone(j, snapshot) ==
  IF j \in Mirrors THEN { f \in DOMAIN snapshot \cap Under[j] : f \notin Found(j) } ELSE {}

\* hashFile: the index gets the state the file is in, digests included.
Hashed(f) == fs[f]

\* Scan
Scan(j, snapshot) ==
  [f \in Changed(j, snapshot) \cup Gone(j, snapshot) |->
     IF f \in Changed(j, snapshot) THEN Hashed(f) ELSE 0]

-----------------------------------------------------------------------------
(* The actions. *)

\* Backup: the snapshot is taken from the last session also when the run is FULL
\* and the last session is about to be dropped.
StartBackup(j, full) ==
  /\ run = {}
  /\ \E last \in 0..MaxNum :
       /\ IsLastNum(last)
       /\ full \/ last < MaxNum
       /\ run' = {[job |-> j, restart |-> full /\ last > 0,
                   files |-> Scan(j, Snapshot(last)), data |-> NoFiles,
                   after |-> IF full THEN 0 ELSE last,
                   at |-> [fs |-> fs, excluded |-> excluded], begun |-> FALSE]}
  /\ UNCHANGED << fs, excluded, tape, rows, past >>

\* Seeded bug: a FULL run forgets to drop the sessions it overwrites.
BeginWriteKeepsRows(r) ==
  /\ ~r.begun
  /\ tape' = SubSeq(tape, 1, r.after) /\ past' = SubSeq(past, 1, r.after)
  /\ run' = {[r EXCEPT !.begun = TRUE]}
  /\ UNCHANGED << fs, excluded, rows >>

\* writePart, up to the index: a FULL run has dropped the sessions of the cassette;
\* what lay behind the session the run writes behind is gone.
BeginWrite(r) ==
  /\ ~r.begun
  /\ tape' = SubSeq(tape, 1, r.after) /\ past' = SubSeq(past, 1, r.after)
  /\ rows' = { k \in rows : k <= r.after }
  /\ run' = {[r EXCEPT !.begun = TRUE]}
  /\ UNCHANGED << fs, excluded >>

\* What writeTar has still to copy: tombstones are in the index only.
Uncopied(r) == { f \in DOMAIN r.files \ DOMAIN r.data : r.files[f] # 0 }

\* The run r with the contents of f in its tar.
WithData(r, f) ==
  [r EXCEPT !.data = [g \in DOMAIN r.data \cup {f} |->
                        IF g = f THEN fs[f] ELSE r.data[g]]]

\* Seeded bug: the digest of what was copied is not compared with the index.
CopyFileUnchecked(r, f) ==
  /\ r.begun /\ f \in Uncopied(r)
  /\ run' = {WithData(r, f)}
  /\ UNCHANGED << fs, excluded, tape, rows, past >>

\* writeTarFile, copyFileToTar: a file is only copied as the scan has seen it; one
\* that is gone, or whose length or digest is another, ends the run (FailBackup).
CopyFile(r, f) ==
  /\ r.begun /\ f \in Uncopied(r) /\ fs[f] = r.files[f]
  /\ run' = {WithData(r, f)}
  /\ UNCHANGED << fs, excluded, tape, rows, past >>

\* commit: the session is on the tape and its files are in the catalog.
FinishBackup(r) ==
  /\ r.begun /\ Uncopied(r) = {}
  /\ tape' = Append(tape, [job |-> r.job, restart |-> r.restart,
                           files |-> r.files, data |-> r.data])
  /\ past' = Append(past, r.at)
  /\ rows' = rows \cup {Len(tape) + 1}
  /\ run' = {}
  /\ UNCHANGED << fs, excluded >>

\* A file that changed since the scan, or anything else that fails before the
\* session is complete: restoreEOD closes the tape behind the last whole session.
FailBackup(r) ==
  /\ run' = {}
  /\ UNCHANGED << fs, excluded, tape, rows, past >>

\* catalog delete and prune: the cassette keeps the session.
DeleteSession(k) ==
  /\ rows' = rows \ {k}
  /\ UNCHANGED << fs, excluded, tape, past, run >>

\* A file is created, changed or deleted.
Touch(f) ==
  /\ \E s \in 0..MaxStamp : s # fs[f] /\ fs' = [fs EXCEPT ![f] = s]
  /\ UNCHANGED << excluded, tape, rows, past, run >>

\* The exclude patterns of the config change.
Exclude(E) ==
  /\ E # excluded /\ excluded' = E
  /\ UNCHANGED << fs, tape, rows, past, run >>

Next ==
  \/ \E j \in Jobs, full \in BOOLEAN : StartBackup(j, full)
  \/ \E r \in run : BeginWrite(r)
  \/ \E r \in run, f \in Files : CopyFile(r, f)
  \/ \E r \in run : FinishBackup(r)
  \/ \E r \in run : FailBackup(r)
  \/ \E k \in rows : DeleteSession(k)
  \/ \E f \in Files : Touch(f)
  \/ \E E \in SUBSET Files : Exclude(E)

Spec == Init /\ [][Next]_vars

-----------------------------------------------------------------------------
(* What a restore gives. *)

\* Restore.Full reads the sessions 1..k in order: the last one that names a path
\* decides what becomes of it.
Decides(i, k, f) ==
  /\ i \in 1..k /\ f \in DOMAIN tape[i].files
  /\ \A m \in (i + 1)..k : f \notin DOMAIN tape[m].files

\* A tombstone removes the file, any other entry is taken from the tar.
Restores(k, f, s) ==
  \E i \in 1..k :
    /\ Decides(i, k, f)
    /\ s = IF tape[i].files[f] = 0 THEN 0 ELSE tape[i].data[f]

\* A file that was there, and not excluded, when session k was scanned.
WasThere(k, f) ==
  f \in Under[tape[k].job] /\ past[k].fs[f] # 0 /\ f \notin past[k].excluded

-----------------------------------------------------------------------------
(* Properties. *)

\* Whatever the jobs that share the cassette, the order of their runs, the sessions
\* deleted from the catalog and the files that change while a run copies them, the
\* sessions up to k give every file back that was there when session k was scanned,
\* as it was then (scanner.go:118-174, backup/usecase.go:357-368,
\* tapeformat/encoder.go:244-273).  FULL restarts are the subject of FullIsComplete.
SessionsAddUp ==
  \A k \in 1..Len(tape) : ~tape[k].restart =>
    \A f \in Files : WasThere(k, f) => Restores(k, f, past[k].fs[f])

\* No session deletes a file that was there when it was scanned, also when the
\* file had been excluded by then (scanner.go:130-132).
NoTombstoneOfLiveFile ==
  \A k \in 1..Len(tape) : \A f \in DOMAIN tape[k].files :
    tape[k].files[f] = 0 => past[k].fs[f] = 0

-----------------------------------------------------------------------------
(* What the docs say and the code does not do: each is refuted by a run. *)

\* A run with --full is "a full backup, not an increment" (SPECIFICATION.md:230),
\* its snapshot is empty (usecase.go:357-358): it has every file.
FullIsComplete ==
  \A k \in 1..Len(tape) : tape[k].restart =>
    \A f \in Files : WasThere(k, f) => Restores(k, f, past[k].fs[f])

\* A mirror can be restored as of any session (README.en.md:96-98,
\* SPECIFICATION.md:315-320): what had been deleted by then is not there.
MirrorAsOfAnySession ==
  \A k \in 1..Len(tape) : tape[k].job \in Mirrors =>
    \A f \in Under[tape[k].job] :
      past[k].fs[f] = 0 => ~\E s \in 1..MaxStamp : Restores(k, f, s)
=============================================================================
