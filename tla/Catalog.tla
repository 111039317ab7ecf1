------------------------------ MODULE Catalog -------------------------------
(***************************************************************************)
(* The catalog and the cassettes it describes: formatting a cassette       *)
(* (internal/usecase/format), rebuilding the catalog from its indexes      *)
(* (internal/usecase/catalog/rebuild.go), testing and inspecting it        *)
(* (ReadTest, internal/usecase/inspect), and the SQLite tables themselves  *)
(* (internal/adapter/sqlite).                                              *)
(*                                                                         *)
(* One command at a time has the drive, and its calls to the tape and to   *)
(* the catalog are steps.  Between them the daemon, another process on the *)
(* same database, deletes and prunes sessions; the command may be killed;  *)
(* and the database file may get lost.  Backups are there to write what is *)
(* rebuilt: Backup.tla has their own failures.                             *)
(***************************************************************************)
EXTENDS Integers, Sequences, FiniteSets

CONSTANTS
  Cassettes,  \* the physical cassettes
  Names,      \* names operators give them
  NoName,     \* no name: of a cassette without a label, or without a successor
  Faults,     \* what may go wrong, a subset of FaultKinds
  Damages,    \* what may be wrong with a session, a subset of DamageKinds
  MaxUuids,   \* bound: formatted labels
  MaxRuns     \* bound: sessions written; the n-th is written at time n

FaultKinds ==
  { "kill",    \* the process dies between two calls
    "tape",    \* a tape operation fails
    "db",      \* a call to the catalog fails
    "lost" }   \* the database file is lost

DamageKinds ==
  { "index",   \* the index of a session cannot be read
    "data" }   \* its tar cannot, which only ReadTest looks at

ASSUME CatalogAssumption ==
  /\ NoName \notin Names /\ IsFiniteSet(Cassettes)
  /\ Faults \subseteq FaultKinds /\ Damages \subseteq DamageKinds
  /\ MaxUuids \in Nat /\ MaxRuns \in Nat

VARIABLES
  tape,    \* [Cassettes -> Medium]
  uuids,   \* labels written so far: label n has UUID n
  runs,    \* sessions written so far, which is the time too
  damage,  \* [1..runs -> DamageKinds \cup {"none"}]
  tapes,   \* table tapes, a set of [uuid, name]
  rows,    \* tables sessions and files, a set of Row
  op       \* the command that has the drive

db   == << tapes, rows >>
vars == << tape, uuids, runs, damage, tapes, rows, op >>

-----------------------------------------------------------------------------
(* Types. *)

\* label: "blank", of a foreign or a newer format, or "ours"; next: the name in
\* the continuation pointer behind the last session.
Medium == [label : {"blank", "foreign", "newer", "ours"}, uuid : 0..MaxUuids,
           name : Names \cup {NoName}, next : Names \cup {NoName},
           sessions : Seq([id : 1..MaxRuns, from : 0..MaxUuids])]

\* A session as the catalog has it: number on the cassette, which session that
\* is, its time, and the session whose file list was saved for it (0: none yet).
Row == [uuid : 1..MaxUuids, num : 1..MaxRuns, id : 1..MaxRuns, at : 1..MaxRuns,
        list : 0..MaxRuns]

\* The command: kind, what it does next (pc), the cassette, the tape file under
\* the head (session n has its index in file 2n, its tar in 2n + 1).
\*   known   numbers of the cassette's sessions when rebuild listed them
\*   gone    numbers the daemon deleted since
\*   name    of the label that format writes
\*   seen    sessions whose reading the report counts
\*   result  "failed" when the command gives up by itself, "fault" by a fault
Kinds == {"none", "format", "backup", "rebuild", "readtest", "inspect"}

PCs == {"idle", "label", "register", "list", "read", "save", "create", "write", "files", "swap"}

Op == [kind : Kinds, pc : PCs, c : Cassettes, head : Nat, known : SUBSET (1..MaxRuns),
       gone : SUBSET (1..MaxRuns), name : Names \cup {NoName}, force : BOOLEAN,
       seen : SUBSET (1..MaxRuns),
       result : {"none", "running", "ok", "failed", "fault", "killed"}]

\* With the tables' constraints: one row per UUID, name and (cassette, number),
\* and no session without its cassette.
TypeOK ==
  /\ tape \in [Cassettes -> Medium]
  /\ uuids \in 0..MaxUuids /\ runs \in 0..MaxRuns
  /\ damage \in [1..runs -> DamageKinds \cup {"none"}]
  /\ tapes \subseteq [uuid : 1..MaxUuids, name : Names]
  /\ \A s, t \in tapes : s.uuid = t.uuid \/ s.name = t.name => s = t
  /\ rows \subseteq Row
  /\ \A r, s \in rows : r.uuid = s.uuid /\ r.num = s.num => r = s
  /\ \A r \in rows : \E t \in tapes : t.uuid = r.uuid
  /\ op \in Op

Idle(c) == [kind |-> "none", pc |-> "idle", c |-> c, head |-> 0, known |-> {}, gone |-> {},
            name |-> NoName, force |-> FALSE, seen |-> {}, result |-> "none"]

Init ==
  /\ \E l \in [Cassettes -> {"blank", "foreign", "newer"}] :
       tape = [c \in Cassettes |-> [label |-> l[c], uuid |-> 0, name |-> NoName,
                                    next |-> NoName, sessions |-> << >>]]
  /\ uuids = 0 /\ runs = 0 /\ damage = << >>
  /\ tapes = {} /\ rows = {}
  /\ op \in { Idle(c) : c \in Cassettes }

-----------------------------------------------------------------------------
(* The tables. *)

\* RegisterTape: an UPSERT by UUID; another cassette with that name is an error.
CanRegister(u, n) == \A t \in tapes : t.name = n => t.uuid = u

RegisterTape(u, n) ==
  /\ CanRegister(u, n)
  /\ tapes' = { t \in tapes : t.uuid # u } \cup {[uuid |-> u, name |-> n]}

Registered(u) == \E t \in tapes : t.uuid = u

\* ListSessions, LastSessionNum
Nums(u) == { r.num : r \in { s \in rows : s.uuid = u } }

LastNum(u) == IF Nums(u) = {} THEN 0 ELSE CHOOSE n \in Nums(u) : \A m \in Nums(u) : m <= n

\* Seeded bug: a rebuilt session gets the time of the rebuild.
NewRowNow(u, num, id) == [uuid |-> u, num |-> num, id |-> id, at |-> runs, list |-> 0]

\* CreateSession: the row has no files yet.
CanCreate(u, num) == Registered(u) /\ num \notin Nums(u)

NewRow(u, num, id) == [uuid |-> u, num |-> num, id |-> id, at |-> id, list |-> 0]

\* Seeded bug: the row counts as there although the daemon deleted it.
SaveAnew(u, num, id) == rows' = { r \in rows : r.uuid # u \/ r.num # num }
                                  \cup {[NewRow(u, num, id) EXCEPT !.list = id]}

\* SaveFiles, one transaction: without the row, the foreign key fails ...
SaveFiles(u, num, id) ==
  /\ num \in Nums(u)
  /\ rows' = { IF r.uuid = u /\ r.num = num THEN [r EXCEPT !.list = id] ELSE r : r \in rows }

\* ... but an empty list is saved without a look at the database.
SaveNothing(u, num) == num \notin Nums(u) /\ UNCHANGED rows

-----------------------------------------------------------------------------
(* Commands. *)

Under    == tape[op.c]
Uuid     == Under.uuid
Sessions == Under.sessions

Go(pc) == op' = [op EXCEPT !.pc = pc]

Finish(r) == op' = [op EXCEPT !.pc = "idle", !.head = 0, !.name = NoName, !.result = r]

Fails(fault) == fault \in Faults /\ Finish("fault")

Start(kind, c, pc) ==
  [Idle(c) EXCEPT !.kind = kind, !.pc = pc, !.head = 2, !.result = "running"]

\* Rewind, readLabel, MTFSF(1): what rebuild, readtest and inspect begin with.
StartOn(kind, c, pc) ==
  /\ op.pc = "idle"
  /\ op' = IF tape[c].label = "ours" THEN Start(kind, c, pc)
           ELSE [Start(kind, c, "idle") EXCEPT !.result = "failed"]
  /\ UNCHANGED << tape, uuids, runs, damage, tapes, rows >>

StartRebuild(c) == StartOn("rebuild", c, "register")

StartReadTest(c) == StartOn("readtest", c, "read")

StartInspect(c) == StartOn("inspect", c, "read")

-----------------------------------------------------------------------------
(* Format. *)

\* readLabel: a newer format is an error whatever the flag.
MayFormat(c, force) ==
  /\ tape[c].label # "newer"
  /\ tape[c].label = "ours" => force

StartFormat(c, n, force) ==
  /\ op.pc = "idle" /\ uuids < MaxUuids
  /\ op' = [Start("format", c, IF MayFormat(c, force) THEN "label" ELSE "idle") EXCEPT
              !.name = n, !.force = force,
              !.result = IF MayFormat(c, force) THEN "running" ELSE "failed"]
  /\ UNCHANGED << tape, uuids, runs, damage, tapes, rows >>

\* writeLabel: with the label all that was on the cassette is gone.
Labelled == [label |-> "ours", uuid |-> uuids + 1, name |-> op.name, next |-> NoName,
             sessions |-> << >>]

WriteLabel ==
  /\ op.pc = "label"
  /\ uuids' = uuids + 1
  /\ \/ Go("register") /\ tape' = [tape EXCEPT ![op.c] = Labelled]
     \/ Fails("tape") /\ tape' \in { tape, [tape EXCEPT ![op.c] = Labelled] }
  /\ UNCHANGED << runs, damage, tapes, rows >>

\* RegisterTape after the label is written; rebuild registers what it reads.
Register ==
  /\ op.pc = "register"
  /\ \/ /\ RegisterTape(Uuid, Under.name)
        /\ IF op.kind = "format" THEN Finish("ok") ELSE Go("list")
     \/ ~CanRegister(Uuid, Under.name) /\ Finish("failed") /\ UNCHANGED tapes
     \/ Fails("db") /\ UNCHANGED tapes
  /\ UNCHANGED << tape, uuids, runs, damage, rows >>

-----------------------------------------------------------------------------
(* Backup, as far as the catalog and the cassettes are concerned. *)

\* A FULL backup takes the rows of the sessions away that it will overwrite.
StartBackup(c, full) ==
  /\ op.pc = "idle" /\ runs < MaxRuns
  /\ tape[c].label = "ours" /\ Registered(tape[c].uuid)
  /\ op' = Start("backup", c, "create")
  /\ rows' = IF full THEN { r \in rows : r.uuid # tape[c].uuid } ELSE rows
  /\ UNCHANGED << tape, uuids, runs, damage, tapes >>

\* The number is the catalog's: behind a deleted row the tape still has a session.
CreateRow ==
  /\ op.pc = "create"
  /\ op' = [op EXCEPT !.pc = "write", !.head = 2 * (LastNum(Uuid) + 1)]
  /\ runs' = runs + 1
  /\ rows' = rows \cup {NewRow(Uuid, LastNum(Uuid) + 1, runs + 1)}
  /\ damage' = Append(damage, "none")
  /\ UNCHANGED << tape, uuids, tapes >>

Num == op.head \div 2

Behind(s) == [tape EXCEPT ![op.c].sessions = SubSeq(@, 1, Num - 1) \o s, ![op.c].next = NoName]

New == << [id |-> runs, from |-> 0] >>

\* The row of the session that is at work, which undoPart deletes again.
Undone == { r \in rows : r.uuid # Uuid \/ r.num # Num }

\* Bound: one session is damaged, and the one a backup was killed in.
WritePart ==
  /\ op.pc = "write" /\ Num <= Len(Sessions) + 1
  /\ \/ /\ Go("files") /\ tape' = Behind(New) /\ UNCHANGED rows
        /\ \E d \in Damages \cup {"none"} :
             /\ d # "none" => \A id \in DOMAIN damage : damage[id] = "none"
             /\ damage' = [damage EXCEPT ![runs] = d]
     \/ Fails("tape") /\ tape' = Behind(<< >>) /\ rows' = Undone /\ UNCHANGED damage
  /\ UNCHANGED << uuids, runs, tapes >>

\* MTFSF meets the end of the data: the catalog has rows the cassette does not.
PositionFails ==
  /\ op.pc = "write" /\ (Num > Len(Sessions) + 1 \/ "tape" \in Faults)
  /\ Finish(IF Num > Len(Sessions) + 1 THEN "failed" ELSE "fault") /\ rows' = Undone
  /\ UNCHANGED << tape, uuids, runs, damage, tapes >>

SavePart ==
  /\ op.pc = "files"
  /\ \/ /\ SaveFiles(Uuid, Num, runs) \/ SaveNothing(Uuid, Num)
        /\ Finish("ok") /\ UNCHANGED tape
     \/ /\ Num \notin Nums(Uuid) \/ "db" \in Faults
        /\ Finish("failed") /\ rows' = Undone /\ tape' = Behind(<< >>)
  /\ UNCHANGED << uuids, runs, damage, tapes >>

\* ... or the run goes on with part 2 on the empty cassette d.
Span(d) ==
  /\ op.pc = "files" /\ runs < MaxRuns /\ Num \in Nums(Uuid)
  /\ d # op.c /\ tape[d].label = "ours" /\ tape[d].sessions = << >> /\ CanCreate(tape[d].uuid, 1)
  /\ tape' = [tape EXCEPT ![op.c].next = tape[d].name,
                          ![d].sessions = << [id |-> runs + 1, from |-> Uuid] >>]
  /\ rows' = { IF r.uuid = Uuid /\ r.num = Num THEN [r EXCEPT !.list = runs] ELSE r : r \in rows }
               \cup {[NewRow(tape[d].uuid, 1, runs + 1) EXCEPT !.list = runs + 1]}
  /\ runs' = runs + 1 /\ damage' = Append(damage, "none")
  /\ Finish("ok")
  /\ UNCHANGED << uuids, tapes >>

-----------------------------------------------------------------------------
(* Rebuild. *)

\* Seeded bug: no UUID is passed on, which lists the sessions of all cassettes.
ListAllSessions ==
  /\ op.pc = "list"
  /\ op' = [op EXCEPT !.pc = "read", !.known = { r.num : r \in rows }, !.gone = {}]
  /\ UNCHANGED << tape, uuids, runs, damage, tapes, rows >>

ListSessions ==
  /\ op.pc = "list"
  /\ \/ op' = [op EXCEPT !.pc = "read", !.known = Nums(Uuid), !.gone = {}]
     \/ Fails("db")
  /\ UNCHANGED << tape, uuids, runs, damage, tapes, rows >>

AtEnd == op.pc = "read" /\ Num > Len(Sessions)

Here == Sessions[Num].id

\* Seeded bug: the tar is not looked at.
IndexReadable ==
  op.pc = "read" /\ Num <= Len(Sessions) /\ op.head % 2 = 0 /\ damage[Here] # "index"

\* The head is at an index that can be read and, for readtest, a tar that can.
Readable ==
  /\ op.pc = "read" /\ Num <= Len(Sessions) /\ op.head % 2 = 0
  /\ damage[Here] = "none" \/ (damage[Here] = "data" /\ op.kind # "readtest")

\* ReadIndexFiles, ReadSession: a damage that the reader meets ends the command.
Unreadable ==
  /\ op.pc = "read" /\ ~AtEnd
  /\ \/ ~Readable /\ Finish("failed")
     \/ Fails("tape")
  /\ UNCHANGED << tape, uuids, runs, damage, tapes, rows >>

\* Behind the index, MTFSF(1) skips the tar.
SkipTar == Readable /\ op' = [op EXCEPT !.head = @ + 2, !.seen = @ \cup {Here}]

\* rebuildSession, when the list has the number: whatever that row holds.
SkipKnown ==
  /\ op.kind = "rebuild" /\ Num \in op.known
  /\ SkipTar
  /\ UNCHANGED << tape, uuids, runs, damage, tapes, rows >>

\* ... and when it has not: the header is the row.  The time is the session's.
AddRow ==
  /\ op.kind = "rebuild" /\ Readable /\ Num \notin op.known
  /\ \/ /\ CanCreate(Uuid, Num) /\ Go("save")
        /\ rows' = rows \cup {NewRow(Uuid, Num, Here)}
     \/ ~CanCreate(Uuid, Num) /\ Finish("failed") /\ UNCHANGED rows
     \/ Fails("db") /\ UNCHANGED rows
  /\ UNCHANGED << tape, uuids, runs, damage, tapes >>

\* The second call; when it fails, the row stays without its files.
AddFiles ==
  /\ op.pc = "save"
  /\ \/ /\ SaveFiles(Uuid, Num, Here) \/ SaveNothing(Uuid, Num)
        /\ op' = [op EXCEPT !.pc = "read", !.head = @ + 2, !.seen = @ \cup {Here}]
     \/ Num \notin Nums(Uuid) /\ Finish("failed") /\ UNCHANGED rows
     \/ Fails("db") /\ UNCHANGED rows
  /\ UNCHANGED << tape, uuids, runs, damage, tapes >>

-----------------------------------------------------------------------------
(* Readtest and inspect, and the end of all three. *)

Check ==
  /\ op.kind \in {"readtest", "inspect"} /\ SkipTar
  /\ UNCHANGED << tape, uuids, runs, damage, tapes, rows >>

\* The end of the data, or a pointer: readtest goes on when it has a changer,
\* the others name the next cassette.
EndOfSessions ==
  /\ AtEnd
  /\ \/ Finish("ok")
     \/ op.kind = "readtest" /\ Under.next # NoName /\ Go("swap")
  /\ UNCHANGED << tape, uuids, runs, damage, tapes, rows >>

\* ChainFollower: the name of the pointer, and session 1 refers back.
Follow(d) ==
  /\ op.pc = "swap"
  /\ IF /\ tape[d].label = "ours" /\ tape[d].name = Under.next
        /\ tape[d].sessions # << >> /\ damage[tape[d].sessions[1].id] # "index"
        /\ tape[d].sessions[1].from = Uuid
       THEN op' = [op EXCEPT !.pc = "read", !.c = d, !.head = 2]
       ELSE Finish("failed")
  /\ UNCHANGED << tape, uuids, runs, damage, tapes, rows >>

-----------------------------------------------------------------------------
(* What else happens to the catalog and to a command. *)

Deleted(gone) ==
  /\ rows' = rows \ gone
  /\ op' = [op EXCEPT !.gone = @ \cup { r.num : r \in { s \in gone : op.kind = "rebuild" /\ s.uuid = Uuid } }]
  /\ UNCHANGED << tape, uuids, runs, damage, tapes >>

\* DELETE /api/catalog/sessions/{id}
DeleteSession(r) == Deleted({r})

\* POST /api/catalog/prune: what is older, on every cassette.
Prune(before) ==
  /\ \E r \in rows : r.at < before
  /\ Deleted({ r \in rows : r.at < before })

\* A new database: applySchema makes the tables.
LoseCatalog ==
  /\ "lost" \in Faults /\ op.pc = "idle" /\ tapes # {}
  /\ tapes' = {} /\ rows' = {} /\ op' = Idle(op.c)
  /\ UNCHANGED << tape, uuids, runs, damage >>

\* A part that is being written is left with a torn tar, or not at all.
Kill ==
  /\ "kill" \in Faults /\ op.pc # "idle"
  /\ Finish("killed")
  /\ IF op.pc = "write" /\ Num <= Len(Sessions) + 1
       THEN \/ UNCHANGED << tape, damage >>
            \/ tape' = Behind(<< >>) /\ UNCHANGED damage
            \/ tape' = Behind(New) /\ "data" \in Damages /\ damage' = [damage EXCEPT ![runs] = "data"]
       ELSE UNCHANGED << tape, damage >>
  /\ UNCHANGED << uuids, runs, tapes, rows >>

-----------------------------------------------------------------------------
(* The specification. *)

Step ==
  \/ WriteLabel \/ Register
  \/ CreateRow \/ WritePart \/ PositionFails \/ SavePart
  \/ \E d \in Cassettes : Span(d) \/ Follow(d)
  \/ ListSessions \/ Unreadable \/ SkipKnown \/ AddRow \/ AddFiles
  \/ Check \/ EndOfSessions

Daemon == \/ \E r \in rows : DeleteSession(r)
          \/ \E before \in 2..MaxRuns : Prune(before)

Next ==
  \/ \E c \in Cassettes, n \in Names, force \in BOOLEAN : StartFormat(c, n, force)
  \/ \E c \in Cassettes, full \in BOOLEAN : StartBackup(c, full)
  \/ \E c \in Cassettes : StartRebuild(c) \/ StartReadTest(c) \/ StartInspect(c)
  \/ Step \/ Daemon \/ LoseCatalog \/ Kill

Spec == Init /\ [][Next]_vars

-----------------------------------------------------------------------------
(* Properties. *)

\* The row of a session with its files.
HasFiles(u, num, id) ==
  [uuid |-> u, num |-> num, id |-> id, at |-> id, list |-> id] \in rows

\* A file list in the catalog is that of the session which the cassette has under
\* this number, at every moment of every command: a FULL backup deletes the rows
\* before it overwrites the sessions, a rebuild that is interrupted, or races with
\* deletions, saves no list for another session, and the time that prune and smart
\* restore go by is the session's, not that of the rebuild (rebuild.go:118-147).
CatalogIsTrue ==
  \A r \in rows, c \in Cassettes :
    r.list # 0 /\ tape[c].label = "ours" /\ tape[c].uuid = r.uuid =>
      /\ r.num <= Len(tape[c].sessions)
      /\ HasFiles(r.uuid, r.num, tape[c].sessions[r.num].id)

\* A rebuild that ended well has given the catalog every session of the cassette
\* that it lacked when it was read, but those deleted meanwhile; also after the
\* database was lost, the cassette was formatted elsewhere, or a rebuild before
\* this one failed at any of its steps (rebuild.go:52-114).
RebuildFills ==
  op.kind = "rebuild" /\ op.result = "ok" =>
    \A n \in DOMAIN Sessions \ op.gone :
      IF n \in op.known THEN n \in Nums(Uuid) ELSE HasFiles(Uuid, n, Sessions[n].id)

\* What the daemon deletes while a rebuild is at work stays deleted: neither the
\* list of numbers read before nor a file list saved after brings it back.
DeletedStaysDeleted == op.kind = "rebuild" => op.gone \cap Nums(Uuid) = {}

\* A readtest that ended well vouches for every session: on the cassette where it
\* ended, and on those the chain led it over (catalog/usecase.go:157-214).
ReadTestVouches ==
  op.kind = "readtest" /\ op.result = "ok" =>
    /\ \A id \in op.seen : damage[id] = "none"
    /\ \A n \in DOMAIN Sessions : Sessions[n].id \in op.seen

-----------------------------------------------------------------------------
(* What the docs say and the code does not do: each is refuted by a run. *)

\* "`--force` — re-format an already formatted one" (docs/func/EN/cli.md:196):
\* only a newer format, or a fault, makes a forced format fail.
ForceReformats ==
  op.kind = "format" /\ op.force /\ op.result = "failed" => Under.label = "newer"

\* "existing sessions are skipped, re-running [is] safe" (docs/func/EN/features.md:167-168),
\* "it fills in the missing parts" (docs/func/EN/cli.md:247-248): after a rebuild
\* that ended well, the files of every session of the cassette are in the catalog.
RebuildRepairs ==
  op.kind = "rebuild" /\ op.result = "ok" =>
    \A n \in DOMAIN Sessions \ op.gone : HasFiles(Uuid, n, Sessions[n].id)
=============================================================================
