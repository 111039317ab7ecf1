# Lentovodets: TLA+ models and proofs

Lentovodets is a backup program for LTO tape, written in Go: a command line
(`lentovodets`) and a daemon with a web interface. It keeps two records that
must agree with each other, an SQLite catalog of cassettes, sessions and files
and the cassettes themselves, and it keeps them with a device that destroys
everything behind the place where it writes. These modules say what the program
does with both, step by step; TLC checks the models on small instances, and
TLAPS proves the central invariants for every instance.

Source paths below are relative to `src/`. `PROJECT.json` names, for each
definition, the lines it was translated from.

## 1. The system

| Component | State it keeps | Operations | Talks to |
|---|---|---|---|
| Backup use case `internal/usecase/backup` | `tapeState`, `spanPlan`, `spanRun`: the cassette in the drive, last number, parts, committed rows | `Backup`, `DryRun`; `beginPart`, `writePart`, `verifyPart`, `rotate`, `moveAfterENOSPC`, `abandonTape`, `rollbackRun` | catalog, drive, changer, scanner, planner |
| Tape layout, encoder and decoder `internal/adapter/tapeformat`, `docs/FORMAT.md` | the tape files between the filemarks | label, index, tar, continuation pointer, closing pair; reading them, entry by entry, to a destination | drive, destination |
| Scanner `internal/usecase/scan` | none; the snapshot is an argument | `Scan`: new and changed paths, tombstones | file system |
| Span planner `internal/domain/span.go` | the loop's part, group, total | `PlanSpan`, `NextTapeName` | none |
| Catalog `internal/adapter/sqlite` | tables tapes, sessions, files | rows and file lists; delete, prune, search | SQLite |
| Catalog use case `internal/usecase/catalog` | none | list, delete, prune, readtest, rebuild | catalog, drive |
| Format and inspect use cases | none | label a cassette and register it; list what a cassette holds | drive, catalog |
| Restore use case `internal/usecase/restore` | position in the chain | `Full`, `Selective`, `Smart`, chain follower | drive, catalog, changer, destination |
| Gate and tasks `internal/iface/web/tapegate.go`, `taskregistry.go`, `tapechanger.go` | `taskHeld`, `shortMu`, the registry and its wait group, `Server.device` | `withOp`, `probe`, `reserveTask`, `releaseTask`, `StartIfIdle`, `Continue`, `RequestNext`, `WaitAll` | every handler that uses the drive |
| Authentication `internal/iface/web/auth.go`, `internal/iface/cli/client.go` | login attempts by address, sessions by token | login, logout, middleware; the client that logs in again | every handler |
| Webhook `internal/iface/web/webhook.go` | none | tells a receiver how a task ended, at most twice | the registry |
| HTTP API, command line | none | the use cases; the operator at a prompt or at the API | use cases |
| Drive adapters `linuxtape`, `filetape` | head position; size and capacity of a file tape | Rewind, MTFSF/MTBSF, read, write, filemark | hardware, files |
| Destination `internal/adapter/osfs`, `internal/iface/destfs` | the files that a restore writes | mkdir, create, link, symlink, remove | file system |
| Configuration, hashing, logging, frontend | none that matters here | | |

How they interact. The backup use case drives everything else: it asks the
scanner for the changes, the planner for the parts, writes a row, moves the
head, writes the part, saves its file list and asks the changer for the next
cassette, which formats it through the format use case. In the daemon this runs
in the goroutine of a task that holds the gate; catalog commands do not pass the
gate and run at the same time. Restore and readtest follow the chain of
cassettes with the same changer; rebuild, readtest and inspect read the indexes
of one cassette after the other.

What is hard in it:

* Each part is three calls to two stores with no transaction around them
  (`CreateSession`, the tape, `SaveFiles`). Any of them can fail, the context
  can be cancelled and the process can die between any two.
* A write destroys what is behind it, so a number or a head position that is
  wrong by one destroys a session rather than hiding it.
* ENOSPC comes in the middle of a part; the part is undone, the cassette closed
  with a pointer, and the part tried again on another cassette.
* A run with several cassettes leaves a chain, forward by name, backward by
  UUID; both have to be written before the other end exists.
* The catalog numbers sessions and the tape does too; deleting rows makes the
  two disagree on purpose.
* Increments are read back in order: what a session does not say has to be said
  by one before it, whichever job wrote it.
* In the daemon the device belongs to one goroutine at a time, for hours, with
  the device closed in between while the operator changes the cassette.
* A restore goes on behind damage, without knowing how far the damage has led
  the head, and writes over what an earlier restore left.
* A rebuild adds what the catalog lacks while the daemon, another process,
  deletes from it.
* A tape in a file is cut off before it is written on; the process may die, and
  the host fail the write, between the two.
* In the daemon a task ends in one goroutine, is told of in a second, answered
  in a third and counted in a fourth.

What makes each part correct:

* *Backup*: what the catalog lists can be read at its place; a failed run leaves
  nothing; cassettes keep the documented layout; the chain is linked; every run
  ends.
* *Planner*: no entry is lost, doubled or reordered; parts fit; groups stay
  whole.
* *Scanner and sessions of a cassette*: the sessions up to k restore session k;
  a tombstone is for a file that is gone.
* *Restore*: a full restore gives every file its last contents, a smart one the
  newest readable copy; nothing is touched that was not asked for; no torn file
  is left without a word; every restore ends.
* *Catalog, rebuild, readtest*: a file list is that of the session on the
  cassette; a rebuild leaves out nothing and brings back nothing that was
  deleted; what a readtest reports as good was read.
* *File tape*: what was reported as written stays; the file behaves like a tape.
* *Gate*: one descriptor; flag and registry agree; everybody who waits gets an
  answer; the daemon can be stopped.
* *Daemon*: passwords cannot be guessed faster than the limit; one answer wins
  and the task goes on with that one; the webhook tells what happened; a clean
  stop leaves no task behind.

## 2. The modules

### TapeLayout

The contents of a cassette as a sequence of tape files, one for each filemark. A
tape file is one record: its kind (label, index, tar, pointer, empty, junk) and
the session it belongs to. Block formats and JSON are left out; what the program
decides on is which *kind* of file it finds where. `WritePos(n)` is MTFSF(2n+1),
`Overwrite` what a write does with the rest of the tape, `Holds` and `Reaches`
what a reader finds by seeking and by walking, `WellFormed` the layout of
`docs/FORMAT.md`, section 3.

### Backup

A run, at the grain of its calls. `phase` says where the run is, `job` holds its
local variables under their names in the code.

| Phase | Code | Actions |
|---|---|---|
| idle | `Backup`, `prepare`, `planSpanning` | `StartBackup` |
| drop | `dropSessions` | `DropSession`, `DropFails`, `DropDone` |
| begin | `beginPart` | `BeginPart`, `BeginPartFails` |
| position | `writePart`: Rewind, MTFSF | `PositionPart`, `PositionFails` |
| snapshot | `fillSnapshot`, `prevJobConfigHash` | `FillSnapshot`, `SnapshotLosesPosition` |
| write | `WriteSession`, `WriteContinuation`, `closeEOD` | `WritePart`, `WritePartFails` |
| undo, restore | the error path of `writePart` | `UndoPart`, `RestoreEOD`, `RestoreEODFails` |
| save | `commit`, `SaveFiles`, `verifyPart` | `CommitPart`, `SaveFails`, `VerifyFails` |
| abandon | `moveAfterENOSPC`, `abandonTape` | `AbandonTape`, `AbandonFails` |
| swap | `rotate`, `swap`, `RequestNext` with the formatting | `Swap`, `SwapUnregistered`, `SwapFails` |
| rollback | `rollbackRun` | `RollbackSession`, `RollbackDone` |

Around it: `Cancel`, `Crash`, `DeleteSession` and `Prune` (catalog commands).
The constant `Faults` says which kinds of failure an instance has. A failed
write leaves any prefix of what it was to write, with or without a piece of the
next tape file behind the last filemark (`open`).

Abstracted: the scan and the planner (they have modules of their own) are their
result, a number of parts; the bytes left on a cassette are a free choice; names
are numbers and `NextTapeName` is the successor. `Init` has one cassette that is
formatted and registered.

### Increments

What the sessions of one cassette contain. A run is a scan and then a copy, file
by file, while files go on changing: `StartBackup` fixes the file list
(`Changed` and `Gone` are the scanner's two results, `Snapshot` the list it
compares with), `BeginWrite` drops what the run overwrites, `CopyFile` is
`writeTarFile` with its comparison of length and digest, `FinishBackup` and
`FailBackup` are the two ends. A session has the list (`files`) and the tar
(`data`), which the property compares. `past` is a history variable: what the
file system was when each session was scanned. `Restores` is what reading the
sessions 1..k gives. Around a run are `Touch`, `Exclude` (the exclude patterns
change) and `DeleteSession` (catalog rows).

A file is one number for size, mtime and contents: a file that is rewritten with
the same size and time is not told from one that is not (nor does the scanner
tell it). The walk and the hashes of a scan are one step. Directories and links
are in `Restore`.

### PlanSpan

The loop of `PlanSpan`, one action for each of its branches, one step per file
(`Push`, `RollbackGroup`, `Cut`, `TooLarge`, `Done`). The arguments are chosen
in the initial state: any lists of entries. `GroupKey` and `EntryGroup` are the
groups, `GroupTotal` is `groupStats`, taken over the set of the group's indices.
`groupStart` is 0 where the code has -1.

### Restore

First a tree is edited (`Edit`) and its sessions are written (`WriteSession`),
over `TapeLayout`, to one cassette or along a chain; one session may be damaged:
the index, the hash of an entry, the end of the tar before an entry, a tar
header that cannot be read. A run is one session: `WriteSession(TRUE)` is the
move after ENOSPC, and a planned second part, which brings the rest of the same
scan to the next cassette, is not written here (`Backup` has its rows, pointers
and numbers, `PlanSpan` its contents). Paths are 1..n in the order of the walk,
`Parent` their directory; a file is an inode, so that hard links are two paths
with one node. Then restores run, one after the other, over the destination that
the one before has left.

| Code | Actions |
|---|---|
| `Full`, `Selective`, `Smart`, `checkTapeFor` | `StartFull`, `StartSelective`, `StartSmart` |
| `readIndex` | `ReadIndex`, `IndexDamaged`, `ReadEOD`, `ReadPointer`, `ReadFails` |
| `extractTar`, `extractEntry`, the write filter | `ReadEntry`, `EntryFails`, `TarUnreadable` |
| digest, `discardPartial`, `verifyIndexCoversTar` | `EntryDamaged`, `EntryMissing` |
| `applyTombstones`, `dropRestored` | `TarRead` |
| `skipToNextSession`, `copiesBySession` | `SkipDamaged`, `SkipCopy`, `NextCopy`, `SmartEnds` |
| `ChainFollower.Follow`, `ReadHeader` | `FollowChain` |
| the process dies, the operator gives up | `Kill` |

The destination is `osfs`, behind `destfs` when `Wrapped`: directories that are
made on the way, `os.Create` that keeps the inode of a file it truncates and
follows a symlink (`destfs` does not), links that replace what has the name.
When a call for an entry fails, of whatever kind the entry is, what the calls
before it did stays (`StopsShort`): some of the directories above, a name whose
old owner is gone. Modes, owners and times of files are left out.

Some things the model has because the code has them: tombstones are applied in
ascending order, so that a directory which is not empty at its turn stays; a
tombstone counts as a restored copy in smart restore; a session the drive does
not find is passed over in favour of an older copy; a hard link whose owner is
not at the destination fails; a cassette that carries nothing but a pointer
breaks the chain; a partial file that cannot be removed is only named in the
log.

### Catalog

The tables of SQLite with their constraints (one row per UUID, per name and per
cassette and number; a session belongs to a cassette, a file list to a session;
`RegisterTape` is an UPSERT by UUID) and the cassettes they describe. One
command at a time has the drive:

| Command | Actions |
|---|---|
| format, with and without `--force` | `StartFormat`, `WriteLabel`, `Register` |
| backup, as far as rows and cassettes go | `StartBackup`, `CreateRow`, `WritePart`, `PositionFails`, `SavePart`, `Span` |
| rebuild | `StartRebuild`, `Register`, `ListSessions`, `SkipKnown`, `AddRow`, `AddFiles` |
| readtest, inspect | `StartReadTest`, `StartInspect`, `Check`, `Follow` |
| what they share | `Unreadable`, `EndOfSessions` |

Between two calls of a command the daemon deletes and prunes (`DeleteSession`,
`Prune`), the process is killed (`Kill`), and between two commands the database
is lost (`LoseCatalog`). `WritePart` and `SavePart` are coarser than in
`Backup`, which has their own failures. An empty list is saved without a look at
the database (`SaveNothing`; in `Backup` the part that may have one is the only
part of its run), so that a run whose row was deleted meanwhile ends well and
stays out of the catalog.

### Tape and FileTape

`Tape` is the abstract specification: what `port.Tape` promises to the use
cases, in the form of `FakeTape`, the double they are tested against, with the
failures that a device has and the double has not. `FileTape` is
`internal/adapter/filetape` record by record: the file with its torn records,
the descriptor with its own `pos`, `size`, `capacity` and `used`, `WriteGoesOn`,
`WriteFull`, `WriteFails` for the three outcomes of `appendLocked`,
`MoveOrRead`, `OpenTape` for `Open` and `OpenCapacity`, and `Kill`. The programs
that run over it (format, one part of a backup with the look back at the
previous index, the repair after a failure, the reading of a session) are lists
of tape operations, taken from `usecase/format`, `usecase/backup` and
`tapeformat`. An error in the look back does not end the part: it seeks its
place once more and writes on, also when that fails (`LooksBack`, `SeeksAgain`).
On a file no such error can occur, which is a part of the proof (`FailsOpenly`):
the sessions are on the tape, and so is the place behind them. On a drive it can
(`MCBackupSeek`). `FileTape` implements `Tape` with `items <- SubSeq(file, 1,
Readable(size))`. `EndOfData` has no caller and is left out.

### TapeGate and Drive

`TapeGate` has one process for each goroutine: short operations (`withOp`), the
status probe, requests to start a task together with the task they start, the
settings handler; the operator and the shutdown are the environment. Each
critical section of `shortMu`, of `taskHeld` and of the registry is one step.
`Drive` is the abstract specification, what the st driver asks of its users: one
open descriptor, and each open after the close of the one before. `TapeGate`
implements it with `owner <- Owner`, the user that has a descriptor.

### Daemon

The rest of the daemon, with a clock. A client sends a request; `Authenticate`
is the middleware (session or API key); `Denied`, `SendLogin`, `SendAgain` are
`HTTPClient.do`, which logs in once after a 401; `LoginLimited`, `LoginWrong`
and `LoginRight` are the critical section of `authManager.Login`, whose clock
was read before the lock was taken. `StartIfIdle` puts a task into the registry
and `Launch`, outside the lock, into the wait group. The goroutine of a task
works, waits for cassettes (`EnterAwaiting`, `Continue`, `Resume`), sets its
result and ends, successfully in one place and with an error in two
(`FinishError`, `FinishAgain`). `Post` is a delivery of the webhook, which may
get lost either way. `Signal`, `HTTPShutdown`, `WaitAll` are `Server.Run` at its
end, `Fail` and `Restart` the process that dies and comes back with a registry,
sessions and counters that are empty.

A daemon without authentication (`handler_auth.go:88`) is one in which every
client has the key. The gate is merged into the start of a task (`TapeGate` has
it apart), and tokens and identifiers are unique, as the random ones of the code
are taken to be.

### Seeded bugs

Some modules define, in front of an action, the same action with a plausible
mistake (its comment begins "Seeded bug"). No specification uses them. They are
substituted for the action they precede to see that each property is able to
fail; `PROJECT.json` lists which property catches which.

## 3. What TLC checks

Passing runs:

| Run | Instance | Properties |
|---|---|---|
| `backup` | 3 cassettes, 3 runs, at most 2 parts, names 1..3; full, write, create, save, verify, swap fail | `TypeOK`, `FailedRunsLeaveNothing`, `TapesWellFormed`, `ReachableInSequence`, `NoWastedCassettes`, `ChainLinked` |
| `backup_faults` | 2 cassettes, 2 runs, at most 2 parts; every fault but `seek`, with cancellation, crash and catalog commands | `Backed` |
| `backup_live` | 3 cassettes, 2 runs, at most 2 parts; full, abandon, swap, seek, position, create, save, verify fail | `RunEnds` |
| `increments` | 1 file, 3 jobs of which two share it, 2 sessions, 2 states of the file | `TypeOK`, `SessionsAddUp`, `NoTombstoneOfLiveFile` |
| `plan_span` | a tree of five files with nested roots and a tombstone, and an increment of it without directories; sizes 0..2, budgets 0..3, depths 0..2 | `ScannerOrder`, `PartsFit`, `GroupsStayWhole`, `NoNeedlessCut`, `MoveLeavesAHead` |
| `restore` | 2 cassettes; a directory, a file in it and one beside it; 2 sessions with 1 edit between, 2 restores of everything, of the file beside, or of it and the directory; every edit, damage and fault; mirror, `--dest` | `FullRestoresLast`, `SmartTakesNewest`, `OnlyRequestedChange`, `NoTornFiles`, `RestoreEnds` |
| `catalog` | 2 cassettes, 2 names, 2 labels, 3 sessions; every damage and fault | `CatalogIsTrue`, `RebuildFills`, `DeletedStaysDeleted`, `ReadTestVouches` |
| `file_tape` | without a limit and with one of 17, data blocks of cost 2; 3 sessions of 1 or 2 tar blocks, 1 reading, 2 formats, 2 failed writes, 2 kills | `SessionsKept`, `SettledTapeIsWhole`, `CapacityKept`, `ImplementsTape` |
| `tape_gate` | 1 short operation, 1 probe, 2 tasks, 1 settings handler; deadlock checked | `OneDescriptor`, `GateAndRegistryAgree`, `TaskKeepsDrive`, `UsesDriveProperly`, `GateIsGivenBack`, `StopEndsTasks`, `ShortOpsEnd` |
| `daemon` | 2 clients at one address, neither with the API key, 2 requests each; 1 task that asks for 2 cassettes; clock 0..2, window, lifetime and sessions 1, 2 attempts, 2 tokens | `GuessesBounded`, `AnswersMatch`, `WebhookTellsOutcome`, `CleanStopEndsTasks` |

What each property says, and which code it is about, is in the comment before
it.

Why the bounds are enough. *backup*: three cassettes are what an ENOSPC move in
the middle of a chain needs (cassette, pointer-only cassette, successor) and
what `NoWastedCassettes` needs to fail; three runs let a run append behind one
that failed behind one that succeeded. The faults left out there are the ones
after which the catalog and the cassettes are *meant* to disagree (an undo that
cannot be carried out, a crash): for those `Backed` is the promise, and
`backup_faults` checks it. A rename breaks the forward pointer that is already
on the tape, so `ChainLinked` is stated for accepted names. Cassettes are
symmetric; liveness runs use no symmetry. *increments*: the scan looks at each
path by itself, so one file shared by two jobs, and a job elsewhere, has every
case; two sessions are a base and an increment with a run, of any job, in
between that fails. *plan_span*: with two files per directory a group can begin
at the head of a part, in the middle, and in the part before, or be the whole of
a part where no directory stands before it; sizes and budgets meet at equality.
*restore*: two sessions are the least for a tombstone, an older copy and a
chain; a directory with a file in it and one beside it are the least for a
request that includes a path it does not name, for a hard link and for a
symlink; the first tree has every file with an inode of its own, or one inode
for all; the second restore meets whatever the first has left. Three sessions
need too long for every fault at once; `restore_damage` has them. *catalog*: two
cassettes for a chain, a name that is taken and a label that a cassette gets
again; three sessions for one behind a row that was deleted. *file_tape*: 17 is
what a label, two sessions of one tar block and the closing pair cost, so that a
record fits exactly, a longer session meets the limit in its closing pair, and a
third one at its index; two failed writes let the repair of a failed part fail
too, two kills let one meet what the other left. *tape_gate*: two tasks are what
the races of reservation, registry and release need; a second short operation
adds only the order in the queue of the mutex. *daemon*: two clients race for an
answer, for the registry and, with up to four logins, for the last of two
attempts; a clock of three values lets one login open a window while the other
still waits for the lock with the clock of the tick before. Neither client has
the key, so that each passes the middleware only with a session, which may end;
a client that has the key always passes and never logs in.

For the safety properties of all passing runs the bounds do not matter: they are
proved for all values, under the assumptions of section 4.

The bounds in the modules are `MaxRuns`, `MaxParts` and `MaxName` (`Backup`),
`MaxStamp` and `MaxNum` (`Increments`), `MaxSessions`, `MaxEdits` and
`MaxRestores` (`Restore`), `MaxUuids` and `MaxRuns` (`Catalog`), `MaxTar`,
`MaxRuns`, `MaxReads`, `MaxFormats`, `MaxFails` and `MaxKills` (`FileTape`),
`MaxTime`, `MaxTokens`, `MaxRequests` and `MaxWaits` (`Daemon`); in `Catalog`
and `Restore` one session at most is damaged by the medium. Deadlock is checked
for the gate. The other models stop where their runs or inputs are used up.

Fairness. `backup_live` has the faults that keep a run going (ENOSPC and what
follows it) and those that end it in other ways; cancellation, crash and failing
undos only lead sooner to the end, and multiply the states. It assumes that the
goroutine of a run goes on (`WF_vars(Step)`): a call of it ends with success or
an error. `SwapFails` stands for an operator who gives up or makes a mistake, so
the run does not wait in that model for ever; that a task in the daemon may,
with the gate taken, is in `TapeGate`. There each goroutine runs (`WF`), and the
mutex starves nobody (`SF` on locking: `sync.Mutex` hands over to a waiter after
1 ms of starvation). Nobody has to send a request, to answer a waiting task or
to stop the daemon: the liveness properties of the gate therefore say "or a task
waits for the operator". `restore` assumes that a restore goes on
(`WF_vars(Step)`) and that an operator who is asked for a cassette inserts one,
any one; an operator who gives up is `Kill`.

### Where the code and its documentation part

Two runs have one property each, taken from a comment or a document, and TLC
finds a behaviour of the code that violates it.

| Run | What is promised | What the code does |
|---|---|---|
| `increments_full` | `usecase.go:357`, `SPECIFICATION.md:230`: a `--full` run is not an increment | The snapshot is taken before the sessions are dropped, `--full` or not: the run writes what changed and overwrites the rest. |
| `restore_damage` | `features.md:121`, `restore/usecase.go:74-75`: a damaged session is skipped, moving on to the next | `skipToNextSession` makes two MTFSF(1) from wherever the damage left the head. Behind a damaged index or a wrong hash that leads into the next session's tar, which is then taken for a damaged index: a session without damage is passed over. |

The following configurations show the others; each has one property and ends
with its counterexample (`tlc -config MCBackupUndo.cfg MCBackup`, and so on).

| Configuration | What is promised | What the code does |
|---|---|---|
| `MCIncrementsMirror` | `README.en.md:97`, `features.md:45`: a mirror as of any session | The snapshot is the last session, not the whole cassette: a file that was not in it is deleted without a tombstone. |
| `MCBackupTooBig` | `span.go:158, 288`: a failed move rolls the run back | The second move at full capacity returns without `rollbackRun`. |
| `MCBackupUndo` | `usecase.go:375`: a failure of any stage takes the session out of the catalog | A failed positioning returns at once; a cancelled write undoes in the cancelled context. |
| `MCBackupSeek` | `usecase.go:428, 466`: deduplication does not affect the write | If the way back from the previous index fails too, the failure is logged and the part is written where the head is. |
| `MCTapeGateSettings` | `handler_status.go:83`: the device is not changed while a task runs | The check and the change are not under one lock. |
| `MCRestoreLinks` | `features.md:365-367`, `README.en.md:88`: hard links are preserved | `osfs/writer.go:36`: `os.Create` truncates the inode that is there. A file that once was a hard link, restored over its older session, gives its contents to the other name too. |
| `MCCatalogForce` | `cli.md:196`, `features.md:183`: `--force` re-formats | The new label has a new UUID; when the catalog has the name for another UUID, which may be the cassette's own old one, the label is written and the registration fails. |
| `MCCatalogRerun` | `features.md:167-168`, `cli.md:247-248`: rebuild is safe to run again and fills in what is missing | A rebuild that fails between the row and its file list leaves a row without files, and the next rebuild skips it (`rebuild.go:46-48, 125-144`). |

Smaller ones, seen while modelling and without a configuration of their own: a
group whose directory the walk leaves and comes back to may be torn
(`span.go:89-91` does not say so; `GroupsStayWhole` has the condition
`Contiguous`); a short operation that saw the flag clear can wait for `shortMu`
behind a task that has just started (`tapegate.go:29-31`); `mapTapeFull` drops
the errors that were joined to ENOSPC; the specification takes the snapshot from
the last session of the same job (`SPECIFICATION.md:315-317`), the code from the
last session of the cassette; in a file tape `used` is stale after a write that
was cut short, and a torn record makes `OpenCapacity` and the label check of
format fail until the file is mended by hand; `daemonChanger.finish` may close
the device twice.

## 4. What TLAPS proves

The proof modules extend the modules they are about, so the formulas proved are
the ones TLC checks.

| Module | Theorems | Along which invariant |
|---|---|---|
| `BackupProofs` | `TypeCorrect` | `TInv`: the type, that a run at work has a number and its row is a row, that the head is behind a filemark the cassette has |
| | `SavedSessionsAreOnTape` | `BInv == TInv /\ Lasting /\ Work` |
| | `FailedRunsAreUndone`, `CassettesKeepTheirLayout`, `SessionsAreReachable` | `SInv == BInv /\ Ledger`, `LInv == SInv /\ Layout` |
| | `MovesAreNotWasted` | `NInv == BInv /\ Names /\ Pointers /\ Moves` |
| | `PartsAreLinked` | `CInv == NInv /\ Chain` |
| `RestoreProofs` | `TypesHold`, `NoTornFilesLeft`, `OnlyTheRequestedChanges` | `AInv == TInv /\ Copied` with the two properties |
| | `SmartTakesTheNewest` | `AInv /\ Newer` |
| | `FullRestoresTheLast` | `AInv /\ Ordered /\ InOrder`, where `Ordered == Layout /\ Fresh` |
| `FileTapeProofs` | `LimitIsKept`, `FileIsATape`, `TypesAreKept` | `DInv == Kinds /\ Desc /\ Account` |
| | `SessionsAreKept`, `SettledTapesAreWhole` | `DInv /\ PInv`: the properties, and what the program at work may rely on at each of its operations (`Course`) |
| `PlanSpanProofs` | `PlannerTypes`, `FilesKeepTheirOrder`, `PartsFitTheBudget`, `GroupsAreNotTorn`, `NoCutIsNeedless`, `NoMoveWithoutCut` | `PInv`: there are cut points `e` with `Cuts(e, n) /\ AtWork(e, n)` |
| `TapeGateProofs` | `TypeCorrect`, `DeviceOpenedOnce`, `TaskOwnsDevice`, `RegistryFollowsGate`, `GateImplementsDrive` | `GInv == MutexHeld /\ OpenedInside /\ OneTaskAtWork /\ ActiveAtWork` |
| `IncrementsProofs` | `TypeCorrect`, `EverySessionRestorable`, `TombstonesAreForDeletedFiles` | `TInv` (the type, and that a run fits the cassette it writes on), `SInv` (the properties, and that the run at work was scanned rightly and has copied what it scanned) |
| `CatalogProofs` | `CatalogTypes`, `CatalogTells`, `RebuildIsComplete`, `DeletionsLast`, `ReadTestIsTrue` | `CatalogInv == TypeOK /\ CassettesInv /\ RowsInv /\ CommandInv /\ BackupInv /\ RebuildInv /\ VouchInv` |
| `DaemonProofs` | `DaemonTypes`, `DaemonGuesses`, `DaemonAnswers`, `DaemonTells`, `DaemonStops` | `DaemonInv == TypeOK /\ LimiterInv /\ AnswersInv /\ RegistryInv` |

*Saved sessions are on tape* (`Spec => []Backed`) is the central one. `Backed`
is not inductive: that a write spares the sessions in the catalog depends on
where the head is, that on what the run believes about its cassette, and that on
the rows. `Lasting` holds at all times (registered cassettes have a label, rows
are of registered cassettes, `Backed`). `Work` is what each phase relies on: in
particular that every saved row of the cassette at work has a number of at most
`job.lastNum`, and that the head is at `WritePos(job.lastNum)` from the
positioning to the write, which is why a write, a failed write, the closing pair
and the pointer all leave the sessions alone. It is proved for any number of
cassettes, runs, parts and names and under all faults, `Cancel`, `Crash` and
catalog commands included, with the one assumption `"seek" \notin Faults`;
without it the statement is false, and `MCBackupSeek.cfg` shows how.

*Every session restorable* rests on one observation, proved for one more session
at a time: a path is left out of a session only if the last session has it as it
is, or has no need of it, so what the sessions up to k-1 restore for it is still
right at k. It covers jobs that share a cassette, changing exclude patterns and
deleted rows, and files that change while they are copied: `Copied` says that
the tar has what the list has, because a copy is compared with it. Sessions
written with `--full` on a used cassette are excepted, see `increments_full`.

*The gate implements the drive*: at most one goroutine is behind the mutex, only
that one has a descriptor, hence every step opens with nothing open, or closes,
or leaves `Owner` alone.

*What a run leaves behind* builds on `BInv`. `Ledger` keeps account of the rows:
each one is of a run that ended well or is noted by the run at work
(`job.created`, or the row of its part), and each one without a file list is
about to be taken out again. `Layout` is what the cassettes look like between
two writes: all are in order but the one a part of which failed, and that one
still begins with `job.lastNum` whole sessions (`Packed`), so the closing pair
or the pointer puts it in order again. When a run starts, that its cassette has
whole sessions up to the last row follows from `TapesWellFormed` and `Backed`
together. The theorems assume, by the names of the faults, that deleting and
positioning succeed and that nobody cancels, kills or disturbs the run
(`Accountable`), those about the cassettes also that the closing pair and the
pointer can be written (`Tidy`): without the first assumption the statement is
false, and `MCBackupUndo.cfg` shows how.

*Moves and links* are about names and pointers, in the theorems
`MovesAreNotWasted` and `PartsAreLinked`. `Names` has that a name of the catalog
is on one label, `Pointers` that a cassette with nothing but a pointer points to
the name behind its own and that no run has two in a row, `Moves` that the run
on a cassette behind one it has moved away from still remembers the move and is
at full capacity, so that a second ENOSPC there ends it; whatever fails, is
cancelled, crashes or is deleted between the two. `Chain` follows the parts: all
but the last two are linked already (`Linked`), the cassette at work is the one
the last part points to (`OnNext`), and before a change of cassette the pointer
to the next name is on the tape (`Asks`). Both theorems assume that the operator
takes the suggested names and that the head is never lost (`Faults \cap {"seek",
"rename"} = {}`): with another name the pointer on the tape is wrong by design,
and a lost head may write over a pointer.

*The restore* has invariants of three kinds. About the destination (`TInv`): a
name is under a directory, an inode has one contents, and a plain path, one that
never was a symlink or a hard link, shares its inode with nobody and no symlink
leads there (`Apart`); so an entry changes no plain path but its own and the
directories on its way (`Others`). About the session that is read (`Copied`):
none of the entries that were read is damaged, and each one that was asked for
is at the destination. About the order of sessions: `Newer` has, for smart, that
every sound copy of what is still looked for is still to come and that what is
not looked for any more has been taken from the newest copy. For full, `Layout`
has what was written (the sessions of a cassette follow one another, cassettes
follow one another, each one in use but the last ends in a pointer to the next),
`Fresh` that a file the last list leaves out is in the list before it as it is,
and `InOrder` that a restore from the first cassette of undamaged ones has, at
every step, restored the sessions before the head and no other. A destination
may hold anything an earlier restore left: that full and smart repair it is part
of what is proved.

One proof attempt failed for a good reason. `OnlyRequestedChange` had allowed
new directories above the requested paths only. The write filter also lets the
owner of a requested hard link through (`newWriteFilter`, `decoder.go:180-213`),
wherever it is, and the directories above the owner are made for it:
`OwnerOfAsked` says so now, and the run checks the corrected property. The three
properties of the destination's contents are about plain paths; that others may
get wrong contents is what `MCRestoreLinks.cfg` shows.

*The file tape implements the tape*: `Readable(size)` are the whole records
before the first torn one, and the items of `Tape` are these. Every way a write
may end is a write, a full tape or a failure of `Tape`; opening, moving and
reading are its own. `Account` relates the capacity that is used to the records:
exactly as long as no write failed, and never too little. That sessions stay
readable is an induction over the program at work, operation by operation
(`Course`): where the head is when a part begins, that nothing before it is
touched, and which records are behind it after each operation. The usage of a
capacity is a fold over a set of numbers in an order nobody chose: `UsageIs` has
that it is the number of filemarks and of blocks at their costs, by an induction
over the size of the set that rests, like the others, on the least number
principle (`Least`, `AllNumbers`).

*The catalog tells the truth* needs more than the rows. A rebuild finds a
cassette by its UUID, so `CassettesInv` has that a UUID is on one cassette; the
n-th session of a cassette is at least the n-th of all, which bounds the
numbers. `RowsInv` is `CatalogIsTrue` with what each row holds by itself;
`CommandInv` is what each command may rely on at each of its places; `BackupInv`
is that a backup holds the highest row of its cassette, which is why what it
cuts off behind the head has no list any more; `RebuildInv` is what a rebuild
has done with the sessions before the head, and that a number it has deleted is
either one it knew or one it is past, which is why it brings none back;
`VouchInv` is what a readtest has seen. That a cassette with rows has a highest
number (`LastNum` chooses it) is the least number principle, taken from the
well-foundedness of < on the naturals.

*The planner*: a plan is nothing but its cut points, so `PInv` says that there
are some. `Cuts` has what is final: each part is the stretch of the files
between two cuts and fits, the next stretch would not have fitted behind it, and
a cut inside a group is inside one that fits on no cassette. `AtWork` has what
the part at work remembers: where the group at its end begins (`GroupAtWork`),
and with which file it overflowed the part before (`Opened`); no later group has
begun before that file, so a group that moves away leaves it behind and the cut
in front of it stays needed. That is also why the properties are not inductive
by themselves. `Cut` and `RollbackGroup` add one cut point each, in the same way
(`SplitHolds`), and differ only in where and why it may be there. What is at
hand of a group costs no more than the whole of it (`StretchOfGroup`), so a
group that fits is never all of a part that overflows: the head it leaves behind
is not empty (`HeadStays`), and the question `len(head) > 0` in `rollbackGroup`
is always answered with yes. The totals of the model are folds over sets of
indices, with `CHOOSE` for the next element; `SumOf` is the sum over a set, with
lemmas about subsets, one element more and shifts, and `MapThenSumIs` has that
the folds are these sums. `JoinedAgain` has the same for the concatenation of
the parts.

*The daemon*: the limiter's count and the window it began in bound the guesses
since the last right one although logins carry old clocks (`LimiterInv`); an
answer that was granted belongs to the wait of its number, which is closed from
then on (`AnswersInv`); the wait group is the number of goroutines, a task that
runs has one or a handler that is about to start it, and what was told is the
snapshot the task ended with (`RegistryInv`).

Assumptions on the constants are the named ASSUMEs of the modules (`NoTape` is
no cassette, the sets of goroutines are disjoint, `None` is nobody, windows and
limits are not zero, the bounds are numbers, the planner is given lists of
entries).

Every invariant and every action property that a passing run checks is the
statement of a theorem. Only model-checked: the five liveness properties of
runs, restores and the gate (`RunEnds`, `RestoreEnds`, `StopEndsTasks`,
`ShortOpsEnd`, `GateIsGivenBack`), which are out of the prover's reach because
they rest on fairness and ENABLED.

## 5. What is not modelled

* Block formats, JSON, hashes, compression, ioctls, TapeAlert: input and output
  without state of its own. A file that does not decode is the kind `junk`, or a
  damage of its session.
* `DryRun`, reports, progress, logs: they read, or tell.
* The configuration. The daemon reads it at its start and rewrites it as a
  whole; a job that the command line adds meanwhile is lost. No document
  promises otherwise, and the mutex of `Config` does not reach another process.
* The arithmetic of the budget (`usedBytes`, `min_tail`): a free choice of the
  number of parts in `Backup`.
* Searches by pattern and migrations of the catalog. The lookup that a smart
  restore makes is in `Restore`.
* Modes, owners and times of restored files, hard links across sessions by inode
  number.
* A daemon that stops while handlers or tasks go on beyond its patience (5 and
  30 seconds): `CleanStopEndsTasks` claims nothing of it.
* The names of the users of a session, requests for lists, streams of progress.
* The frontend, the other test doubles and the tools.

## 6. Plan

What would come next, in this order:

1. Restore composed with `Increments`, so that a full restore is shown to
   compute `Restores`.
2. The budget in place of the free choice in `StartBackup`; the configuration
   with two processes.
