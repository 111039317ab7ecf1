------------------------------ MODULE Restore -------------------------------
(***************************************************************************)
(* Reading cassettes back: internal/usecase/restore (usecase.go, chain.go) *)
(* over the decoder (internal/adapter/tapeformat/decoder.go) and the       *)
(* destination (internal/adapter/osfs, internal/iface/destfs).             *)
(*                                                                         *)
(* First a user edits a tree and backups write its changes, session by     *)
(* session, to a cassette or to a chain of cassettes; media damage may hit *)
(* a session.  Then restores run: every index, every entry of a tar and    *)
(* every change of cassette is a step.  A head inside tape file h and one  *)
(* at its beginning are told apart only by what the reader does next:      *)
(* MTFSF(1) stands at h + 1 from both.                                     *)
(***************************************************************************)
EXTENDS TapeLayout, FiniteSets

CONSTANTS
  Paths,        \* 1..n, in the order of the walk and of the index
  Parent,       \* [Paths -> Paths \cup {0}], 0 for a path under the root
  Chain,        \* the cassettes, in the order the sessions use them
  Edits,        \* what users do to a path, a subset of EditKinds
  Damages,      \* what may be wrong with a session, a subset of DamageKinds
  Faults,       \* what may go wrong meanwhile, a subset of FaultKinds
  Mirror,       \* the job has mode "mirror"
  Requests,     \* what may be asked for, sets of paths; {} is everything
  Wrapped,      \* restore with --dest: destfs refuses to write through links
  MaxSessions,  \* bound: sessions that are written
  MaxEdits,     \* bound: edits between two sessions
  MaxRestores   \* bound: restores that are started

EditKinds == {"create", "modify", "remove", "link", "symlink"}

DamageKinds ==
  { "index",    \* the index is no JSON, or its checksum is wrong
    "hash",     \* the contents of an entry do not have the hash of the index
    "missing",  \* the tar ends before an entry, at the end of the one before
    "header" }  \* the tar cannot be read on at an entry: not a damage to the code

FaultKinds ==
  { "write",    \* the destination refuses an entry
    "remove",   \* ... and the removal of the partial file too
    "medium",   \* a read at the end of the data fails (st driver), instead of EOF
    "position", \* the drive does not find a session
    "stop" }    \* the process dies, or the operator gives up

ASSUME RestoreAssumption ==
  /\ IsFiniteSet(Paths) /\ Paths = 1..Cardinality(Paths) /\ Parent \in [Paths -> Paths \cup {0}]
  /\ \A p \in Paths : Parent[p] < p
  /\ Chain \in Seq(Tapes) \ {<< >>} /\ \A t \in Tapes : \E i \in DOMAIN Chain : Chain[i] = t
  /\ \A i, j \in DOMAIN Chain : Chain[i] = Chain[j] => i = j
  /\ Edits \subseteq EditKinds /\ Damages \subseteq DamageKinds /\ Faults \subseteq FaultKinds
  /\ {Mirror, Wrapped} \subseteq BOOLEAN
  /\ Requests \subseteq SUBSET Paths
  /\ MaxSessions \in Nat /\ MaxEdits \in Nat /\ MaxRestores \in Nat

VARIABLES
  fs,      \* [Paths -> Node]: the tree that is backed up
  edits,   \* edits since the last session
  past,    \* the tree when each session was written
  lists,   \* the file lists of the sessions, as in their indexes and the catalog
  damage,  \* the damage of each session
  files,   \* [Tapes -> Seq(Seg)]: the cassettes
  dest,    \* [Paths -> Copy]: the destination
  before,  \* dest when the restore began
  tries,   \* restores started
  op       \* the restore at work

written == << fs, edits, past, lists, damage, files >>
vars    == << fs, edits, past, lists, damage, files, dest, before, tries, op >>

-----------------------------------------------------------------------------
(* Types. *)

Dirs == { d \in Paths : \E p \in Paths : Parent[p] = d }

\* The directories above a path.
Up[p \in Paths] == IF Parent[p] = 0 THEN {} ELSE {Parent[p]} \cup Up[Parent[p]]

\* What a path of the tree is.  A regular file is known by its contents: those
\* made before session `at` at path `of`; two paths with the same contents are
\* hard links.  A directory has a modification time `at`, a symlink a target `of`.
Node == [kind : {"none", "dir", "reg", "sym"}, at : 0..MaxSessions, of : Paths \cup {0}]

None == [kind |-> "none", at |-> 0, of |-> 0]

\* An entry of a file list: the node, or a link to another path, or a tombstone.
Entry == [kind : {"dir", "reg", "sym", "link", "dead"}, at : 0..MaxSessions,
          of : Paths \cup {0}, to : Paths \cup {0}]

IsFileList(l) == DOMAIN l \subseteq Paths /\ \A p \in DOMAIN l : l[p] \in Entry

\* A file of the destination: inode and contents (a node, Torn when partial).
Torn == [kind |-> "reg", at |-> 0, of |-> 0]

Copy == [kind : {"none", "dir", "sym", "file"}, ino : Paths \cup {0}, data : Node]

Nothing == [kind |-> "none", ino |-> 0, data |-> None]

Modes == {"none", "full", "selective", "smart"}

\* Where a restore is, and how it ended.
PCs == {"build", "idle", "index", "tar", "damaged", "swap", "next"}

Results == {"none", "running", "ok", "failed", "noCopy", "killed"}

\* The locals of a restore:
\*   cur, head  the cassette in the drive, the tape file under the head
\*   sess       the session that is read, at the entry `entry` of its list
\*   want       requested paths that are still looked for, {} for everything
\*   todo       sessions whose copies smart has not tried
\* and, of its past: the first cassette, the request, the sessions the drive did
\* not find, and the paths whose partial file could not be removed (both logged).
Op == [pc : PCs, mode : Modes, cur : Tapes, head : Nat, sess : 0..MaxSessions,
       entry : Nat, want : SUBSET Paths, todo : SUBSET (1..MaxSessions),
       first : Tapes, asked : SUBSET Paths, missed : SUBSET (1..MaxSessions),
       told : SUBSET Paths, result : Results]

TypeOK ==
  /\ fs \in [Paths -> Node] /\ edits \in 0..MaxEdits
  /\ Len(past) = Len(lists) /\ Len(damage) = Len(lists)
  /\ \A k \in DOMAIN lists : past[k] \in [Paths -> Node] /\ IsFileList(lists[k])
  /\ \A t \in Tapes : \A i \in DOMAIN files[t] : files[t][i] \in Seg
  /\ dest \in [Paths -> Copy] /\ before \in [Paths -> Copy]
  /\ tries \in 0..MaxRestores
  /\ op \in Op
  /\ \A p, q \in Paths :   \* one inode has one contents
       dest[p].kind = "file" /\ dest[q].kind = "file" /\ dest[p].ino = dest[q].ino
         => dest[p].data = dest[q].data

Idle == [pc |-> "build", mode |-> "none", cur |-> Chain[1], head |-> 0, sess |-> 0,
         entry |-> 0, want |-> {}, todo |-> {}, first |-> Chain[1], asked |-> {},
         missed |-> {}, told |-> {}, result |-> "none"]

\* The tree of the first session: every file has an inode, or all share the first's.
FirstTree(shared) ==
  [p \in Paths |->
     IF p \in Dirs THEN [None EXCEPT !.kind = "dir"]
     ELSE [kind |-> "reg", at |-> 0,
           of |-> IF shared THEN CHOOSE q \in Paths \ Dirs : \A r \in Paths \ Dirs : q <= r ELSE p]]

Init ==
  /\ \E shared \in BOOLEAN : fs = FirstTree(shared)
  /\ edits = 0 /\ past = << >> /\ lists = << >> /\ damage = << >>
  /\ files = [t \in Tapes |-> << Label(CHOOSE n \in DOMAIN Chain : Chain[n] = t), Empty >>]
  /\ dest = [p \in Paths |-> Nothing] /\ before = dest
  /\ tries = 0 /\ op = Idle

-----------------------------------------------------------------------------
(* The tree, and the sessions that are written of it. *)

Now == Len(lists) + 1

New(p) == [kind |-> "reg", at |-> Now, of |-> p]

InTree(p) == \A d \in {Parent[p]} \ {0} : fs[d].kind = "dir"

\* A name that comes, goes or is replaced changes the time of its directory.
WithDirTime(tree, p) ==
  IF Parent[p] = 0 THEN tree ELSE [tree EXCEPT ![Parent[p]].at = Now]

\* Bound: the first session has the tree of Init.
Edit(p, e) ==
  /\ op.pc = "build" /\ e \in Edits /\ edits < MaxEdits /\ Now \in 2..MaxSessions
  /\ InTree(p) /\ edits' = edits + 1
  /\ \/ /\ e = "create" /\ p \notin Dirs /\ fs' = WithDirTime([fs EXCEPT ![p] = New(p)], p)
     \/ /\ e = "create" /\ p \in Dirs /\ fs[p] = None
        /\ fs' = WithDirTime([fs EXCEPT ![p] = [None EXCEPT !.kind = "dir", !.at = Now]], p)
     \/ /\ e = "modify" /\ fs[p].kind = "reg"
        /\ fs' = [q \in Paths |-> IF fs[q] = fs[p] THEN New(p) ELSE fs[q]]
     \/ /\ e = "remove" /\ fs[p] # None
        /\ fs' = WithDirTime([q \in Paths |-> IF p \in {q} \cup Up[q] THEN None ELSE fs[q]], p)
     \/ /\ e = "link" /\ p \notin Dirs
        /\ \E q \in 1..(p - 1) : /\ fs[q].kind = "reg" /\ fs[q] # fs[p]
                                 /\ fs' = WithDirTime([fs EXCEPT ![p] = fs[q]], p)
     \/ /\ e = "symlink" /\ p \notin Dirs
        /\ \E q \in Paths \ (Dirs \cup {p}) :
             /\ fs[p] # [kind |-> "sym", at |-> Now, of |-> q]
             /\ fs' = WithDirTime([fs EXCEPT ![p] = [kind |-> "sym", at |-> Now, of |-> q]], p)
  /\ UNCHANGED << past, lists, damage, files, dest, before, tries, op >>

\* entryMeta, setHardlink: the first path of an inode is its owner.
EntryOf(p) ==
  LET owners == { q \in 1..(p - 1) : fs[p].kind = "reg" /\ fs[q] = fs[p] }
      e      == [kind |-> fs[p].kind, at |-> fs[p].at, of |-> fs[p].of, to |-> 0]
  IN  IF owners = {} THEN e
      ELSE [e EXCEPT !.kind = "link", !.to = CHOOSE q \in owners : \A r \in owners : q <= r]

Dead == [kind |-> "dead", at |-> 0, of |-> 0, to |-> 0]

\* The scan: what differs from the files of the last session, then tombstones.
Scan ==
  LET snap == IF lists = << >> THEN [p \in {} |-> Dead] ELSE lists[Len(lists)]
      here == { p \in Paths : fs[p] # None }
      new  == { p \in here : p \in DOMAIN snap => snap[p] # EntryOf(p) }
      gone == IF Mirror THEN DOMAIN snap \ here ELSE {}
  IN  [p \in new \cup gone |-> IF p \in new THEN EntryOf(p) ELSE Dead]

\* The cassette in use, and the sessions on it.
SessionsOn(t) == (Len(files[t]) - 2) \div 2

InUse == { n \in DOMAIN Chain : n = 1 \/ SessionsOn(Chain[n]) > 0 }

\* What writeTar puts into the tar: everything but the tombstones.
InTar(l) == { p \in DOMAIN l : l[p].kind # "dead" }

Sound == [kind |-> "none", at |-> 0]

Damaged(l) ==
  {Sound} \cup { [kind |-> d, at |-> p] : d \in Damages \cap {"missing", "header"}, p \in InTar(l) }
          \cup { [kind |-> "hash", at |-> p] :
                   p \in { q \in InTar(l) : l[q].kind = "reg" /\ "hash" \in Damages } }
          \cup { [kind |-> d, at |-> 0] : d \in Damages \cap {"index"} }

\* The next run: one session, behind the last one or, when the cassette turned
\* out to be full (move), as session 1 of the next cassette of the chain, with
\* the pointer to it on the one before.  A planned second part, which brings the
\* rest of the same scan to the next cassette, is left out: the pointer and the
\* numbers are those of a move, and Backup has them.
WriteSession(move) ==
  LET n == CHOOSE i \in InUse : \A j \in InUse : j <= i
      t == Chain[IF move THEN n + 1 ELSE n]
      s == [run |-> Now, part |-> 1, num |-> IF move THEN 1 ELSE SessionsOn(t) + 1]
      f == IF move THEN Chain[n] ELSE NoTape
      w == [files EXCEPT ![t] = Overwrite(@, WritePos(s.num - 1), SessionImage(s, f, Empty))]
  IN  /\ op.pc = "build" /\ Now <= MaxSessions /\ (edits > 0 \/ Now = 1)
      /\ move => n < Len(Chain) /\ SessionsOn(Chain[n]) > 0
      /\ files' = IF move
           THEN [w EXCEPT ![Chain[n]] = Overwrite(@, Len(@) - 2, << Pointer(s, n + 1), Empty >>)]
           ELSE w
      /\ lists' = Append(lists, Scan) /\ past' = Append(past, fs) /\ edits' = 0
      /\ \E d \in Damaged(Scan) :
           /\ d # Sound => \A k \in DOMAIN damage : damage[k] = Sound
           /\ damage' = Append(damage, d)
      /\ UNCHANGED << fs, dest, before, tries, op >>

-----------------------------------------------------------------------------
(* The destination: osfs, behind destfs when Wrapped.  Each operator is the   *)
(* outcome of a call: whether it succeeds, and the tree it leaves.            *)

Outcome(ok, d) == [ok |-> ok, d |-> d]

MkdirAll(d, ps) ==
  IF \E p \in ps : d[p].kind \in {"file", "sym"} THEN Outcome(FALSE, d)
  ELSE Outcome(TRUE, [p \in Paths |-> IF p \in ps THEN [Nothing EXCEPT !.kind = "dir"] ELSE d[p]])

\* os.Create follows a symlink; destfs does not let it.
Real(d, p) == IF d[p].kind = "sym" THEN d[p].data.of ELSE p

MayCreate(d, p) ==
  /\ d[p].kind = "sym" => ~Wrapped
  /\ d[Real(d, p)].kind \in {"none", "file"}
  /\ \A a \in Up[Real(d, p)] : d[a].kind = "dir"

\* ... truncates a file that is there and keeps its inode: every link to it
\* gets the new contents.
Fill(d, p, data) ==
  LET r == Real(d, p)
      i == IF d[r].kind = "file" THEN d[r].ino
           ELSE CHOOSE n \in Paths : \A q \in Paths : d[q].ino # n
  IN  [q \in Paths |-> IF q = r \/ (d[q].kind = "file" /\ d[q].ino = i)
                         THEN [kind |-> "file", ino |-> i, data |-> data] ELSE d[q]]

Remove(d, p) ==
  IF d[p] = Nothing \/ \E c \in Paths : Parent[c] = p /\ d[c] # Nothing
    THEN Outcome(FALSE, d) ELSE Outcome(TRUE, [d EXCEPT ![p] = Nothing])

\* osfs.Symlink and osfs.Link remove what has the name first.
Replace(d, p, ok, copy) ==
  LET r == Remove(d, p) IN
  IF d[p] # Nothing /\ ~r.ok THEN Outcome(FALSE, d)
  ELSE IF ok THEN Outcome(TRUE, [r.d EXCEPT ![p] = copy]) ELSE Outcome(FALSE, r.d)

\* The owner of a link is looked up where the link is made; a destination that
\* does not have it refuses the link.
Symlink(d, p, copy) == Replace(d, p, TRUE, copy)

Link(d, p, owner) == Replace(d, p, d[owner].kind \in {"file", "sym"}, d[owner])

-----------------------------------------------------------------------------
(* Start and end of a restore. *)

Listed(p) == { k \in DOMAIN lists : p \in DOMAIN lists[k] }

\* Session k as the catalog knows it: its number, if it is on cassette t.
NumOn(t, k) ==
  { n \in 1..MaxSessions : /\ 2 * n <= Len(files[t])
                           /\ files[t][2 * n].kind = "index" /\ files[t][2 * n].run = k }

Start(o) ==
  /\ op.pc \in {"build", "idle"} /\ tries < MaxRestores /\ lists # << >>
  /\ tries' = tries + 1
  /\ op' = o
  /\ before' = dest /\ UNCHANGED << written, dest >>

\* Full: from the cassette in the drive, session 1.
StartFull(t) ==
  Start([Idle EXCEPT !.pc = "index", !.mode = "full", !.cur = t, !.first = t, !.head = 2,
                     !.result = "running"])

\* checkTapeFor
RightTape(t, k) == NumOn(t, k) # {}

\* Selective: session k by its catalog row; the cassette has to be the right one.
StartSelective(t, k, ps) ==
  LET o == [Idle EXCEPT !.mode = "selective", !.cur = t, !.want = ps, !.asked = ps] IN
  /\ k \in DOMAIN lists
  /\ \/ \E n \in NumOn(t, k) : Start([o EXCEPT !.pc = "index", !.head = 2 * n, !.result = "running"])
     \/ ~RightTape(t, k) /\ Start([o EXCEPT !.pc = "idle", !.result = "failed"])

\* Smart: the sessions of this cassette that list a requested path, as it is
\* written: what lies under a directory is not looked up.
StartSmart(t, ps) ==
  /\ ps # {}
  /\ Start([Idle EXCEPT !.pc = "next", !.mode = "smart", !.cur = t, !.want = ps, !.asked = ps,
                        !.result = "running",
                        !.todo = { k \in UNION { Listed(p) : p \in ps } : NumOn(t, k) # {} }])

Go(pc) == op' = [op EXCEPT !.pc = pc]

Finish(r) == op' = [op EXCEPT !.pc = "idle", !.result = r]

\* A damaged session or copy: full and smart go on, selective ends.  What could
\* not be removed is named in the log.
OnDamage(head, told) ==
  LET o == [op EXCEPT !.told = @ \cup told] IN
  op' = IF op.mode = "selective" THEN [o EXCEPT !.pc = "idle", !.result = "failed"]
                                 ELSE [o EXCEPT !.pc = "damaged", !.head = head]

-----------------------------------------------------------------------------
(* ReadSession: the index ... *)

Under == files[op.cur]

\* What readIndex finds when it reads up to the next filemark.
Found ==
  IF op.head > Len(Under) THEN Empty
  ELSE IF Under[op.head].kind = "tar" /\ InTar(lists[Under[op.head].run]) = {} THEN Empty
  ELSE Under[op.head]

ReadIndex ==
  /\ op.pc = "index" /\ Found.kind = "index" /\ damage[Found.run].kind # "index"
  /\ op' = [op EXCEPT !.pc = "tar", !.sess = Found.run, !.entry = 1, !.head = @ + 1]
  /\ UNCHANGED << written, dest, before, tries >>

\* Blocks that are no index: a damaged one, or the tar a reader out of step finds.
IndexDamaged ==
  /\ op.pc = "index"
  /\ \/ Found.kind = "tar"
     \/ Found.kind = "index" /\ damage[Found.run].kind = "index"
  /\ OnDamage(op.head + 1, {})
  /\ UNCHANGED << written, dest, before, tries >>

\* EmptyIndexError: the end of the data for full, an error for the others.
ReadEOD ==
  /\ op.pc = "index" /\ Found.kind = "empty"
  /\ Finish(IF op.mode = "full" THEN "ok" ELSE "failed")
  /\ UNCHANGED << written, dest, before, tries >>

\* ContinuationError; without a changer (a script) the restore ends with a warning.
ReadPointer ==
  /\ op.pc = "index" /\ Found.kind = "pointer"
  /\ IF op.mode # "full" THEN Finish("failed") ELSE Go("swap") \/ Finish("ok")
  /\ UNCHANGED << written, dest, before, tries >>

\* A read that fails is no damage: every mode ends.
ReadFails ==
  /\ op.pc = "index" /\ op.head > Len(Under) /\ "medium" \in Faults
  /\ Finish("failed")
  /\ UNCHANGED << written, dest, before, tries >>

-----------------------------------------------------------------------------
(* ... and the tar, entry by entry. *)

List == lists[op.sess]

AtEntry(p) ==
  /\ op.pc = "tar" /\ p \in InTar(List) /\ p >= op.entry
  /\ \A q \in InTar(List) : q >= op.entry => p <= q

Hit(p, d) == damage[op.sess] = [kind |-> d, at |-> p]

Includes(ps, p) == ps = {} \/ p \in ps \/ Up[p] \cap ps # {}

\* newWriteFilter, writable: requested paths, and the owners of requested links.
Writable(p) ==
  \/ Includes(op.want, p)
  \/ \E q \in DOMAIN List : List[q].kind = "link" /\ List[q].to = p /\ Includes(op.want, q)

Contents(p) == [kind |-> "reg", at |-> List[p].at, of |-> List[p].of]

\* The directory of an entry, made with all above it.
Parents(p) == MkdirAll(dest, Up[p])

ExtractDir(p) == MkdirAll(dest, Up[p] \cup {p})

CanBegin(p) == Parents(p).ok /\ MayCreate(Parents(p).d, p)

ExtractFile(p) ==
  IF CanBegin(p) THEN Outcome(TRUE, Fill(Parents(p).d, p, Contents(p))) ELSE Outcome(FALSE, Parents(p).d)

ExtractSymlink(p) ==
  LET target == [kind |-> "sym", at |-> List[p].at, of |-> List[p].of] IN
  IF Parents(p).ok
    THEN Symlink(Parents(p).d, p, [kind |-> "sym", ino |-> 0, data |-> target])
    ELSE Parents(p)

ExtractHardlink(p) ==
  IF Parents(p).ok THEN Link(Parents(p).d, p, List[p].to) ELSE Parents(p)

\* extractEntry
Extract(p) ==
  CASE List[p].kind = "dir"  -> ExtractDir(p)
    [] List[p].kind = "reg"  -> ExtractFile(p)
    [] List[p].kind = "sym"  -> ExtractSymlink(p)
    [] List[p].kind = "link" -> ExtractHardlink(p)

ReadEntry(p) ==
  /\ AtEntry(p) /\ ~Hit(p, "hash") /\ ~Hit(p, "missing") /\ ~Hit(p, "header")
  /\ LET x == IF Writable(p) THEN Extract(p) ELSE Outcome(TRUE, dest) IN
     /\ dest' = x.d
     /\ IF x.ok THEN op' = [op EXCEPT !.entry = p + 1] ELSE Finish("failed")
  /\ UNCHANGED << written, before, tries >>

\* The file is open and partly written.
Begun(p) == Fill(Parents(p).d, p, Torn)

\* Seeded bug: the partial file stays.
DiscardNothing(p, told) == told = {} /\ dest' = Begun(p)

\* discardPartial: what was written of p is removed; a failure is reported.
DiscardPartial(p, told) ==
  \/ told = {} /\ dest' = Remove(Begun(p), p).d
  \/ told = {p} /\ "remove" \in Faults /\ dest' = Begun(p)

\* The hash of the contents is wrong: the file that had the name is gone too.
EntryDamaged(p) ==
  /\ AtEntry(p) /\ Hit(p, "hash")
  /\ \/ ~Writable(p) /\ OnDamage(op.head, {}) /\ UNCHANGED dest
     \/ /\ Writable(p) /\ CanBegin(p)
        /\ \E told \in {{}, {p}} : DiscardPartial(p, told) /\ OnDamage(op.head, told)
     \/ /\ Writable(p) /\ ~CanBegin(p)
        /\ dest' = Parents(p).d /\ Finish("failed")
  /\ UNCHANGED << written, before, tries >>

\* The calls for an entry stop short of it: at a directory above, which are made
\* from the top, at the entry itself, or behind the removal of the name's old owner.
StopsShort(p) ==
  \/ \E a \in Up[p] \cup {p} : dest' = MkdirAll(dest, Up[a]).d
  \/ /\ List[p].kind \in {"sym", "link"} /\ Parents(p).ok
     /\ dest' = Remove(Parents(p).d, p).d

\* The destination is full or read-only.
EntryFails(p) ==
  /\ "write" \in Faults /\ AtEntry(p) /\ Writable(p)
  /\ \/ StopsShort(p) /\ Finish("failed")
     \/ /\ List[p].kind = "reg" /\ CanBegin(p)
        /\ \E told \in {{}, {p}} :
             /\ DiscardPartial(p, told)
             /\ op' = [op EXCEPT !.pc = "idle", !.result = "failed", !.told = @ \cup told]
  /\ UNCHANGED << written, before, tries >>

\* verifyIndexCoversTar: the tar ended early, and its filemark is behind the head.
EntryMissing(p) ==
  /\ AtEntry(p) /\ Hit(p, "missing")
  /\ OnDamage(op.head + 1, {})
  /\ UNCHANGED << written, dest, before, tries >>

\* tar.Reader fails: no damage to isSessionDamage.
TarUnreadable(p) ==
  /\ AtEntry(p) /\ Hit(p, "header")
  /\ Finish("failed")
  /\ UNCHANGED << written, dest, before, tries >>

\* Seeded bug: every deletion is done, whatever was asked for.
AllTombstones(l) == { p \in DOMAIN l : l[p].kind = "dead" }

\* applyTombstones: of the requested paths themselves, not of what is under them.
Tombstones(l) == { p \in DOMAIN l : l[p].kind = "dead" /\ (op.want = {} \/ p \in op.want) }

\* In the order of the list, a directory before what is in it; one that is not
\* empty stays, with a warning.
Bury(d, dead) == [p \in Paths |-> IF p \in dead THEN Remove(d, p).d[p] ELSE d[p]]

\* dropRestored
DropRestored(want) == want \ DOMAIN List

TarRead ==
  /\ op.pc = "tar" /\ \A p \in InTar(List) : p < op.entry
  /\ dest' = Bury(dest, Tombstones(List))
  /\ op' = CASE op.mode = "full" -> [op EXCEPT !.pc = "index", !.head = @ + 1]
             [] op.mode = "selective" -> [op EXCEPT !.pc = "idle", !.result = "ok"]
             [] OTHER -> [op EXCEPT !.pc = "next", !.want = DropRestored(@)]
  /\ UNCHANGED << written, before, tries >>

-----------------------------------------------------------------------------
(* Between sessions. *)

\* Seeded bug: the head stays where the damage left it.
SkipNothing ==
  /\ op.pc = "damaged" /\ op.mode = "full"
  /\ op' = [op EXCEPT !.pc = "index", !.head = IF Under[op.head].kind = "tar" THEN @ - 1 ELSE @]
  /\ UNCHANGED << written, dest, before, tries >>

\* skipToNextSession: two filemarks on, from wherever the damage left the head.
SkipDamaged ==
  /\ op.pc = "damaged" /\ op.mode = "full"
  /\ \E n \in 0..2 :
       /\ op.head + n <= Len(Under) + 1 /\ (n < 2 => op.head + n = Len(Under) + 1)
       /\ op' = [op EXCEPT !.pc = "index", !.head = op.head + n]
  /\ UNCHANGED << written, dest, before, tries >>

SkipCopy ==
  /\ op.pc = "damaged" /\ op.mode = "smart"
  /\ Go("next")
  /\ UNCHANGED << written, dest, before, tries >>

\* Seeded bug: the oldest copy first.
Oldest(k) == \A j \in op.todo : k <= j

\* copiesBySession: by the number on the cassette, the highest first.
Newest(k) == \A j \in op.todo : j <= k

\* Smart takes the next session; one the drive does not find is skipped.
NextCopy(k) ==
  /\ op.pc = "next" /\ op.want # {} /\ k \in op.todo /\ Newest(k)
  /\ \/ \E n \in NumOn(op.cur, k) :
          op' = [op EXCEPT !.pc = "index", !.head = 2 * n, !.todo = @ \ {k}]
     \/ "position" \in Faults /\ op' = [op EXCEPT !.todo = @ \ {k}, !.missed = @ \cup {k}]
  /\ UNCHANGED << written, dest, before, tries >>

SmartEnds ==
  /\ op.pc = "next" /\ (op.want = {} \/ op.todo = {})
  /\ Finish(IF op.want = {} THEN "ok" ELSE "noCopy")
  /\ UNCHANGED << written, dest, before, tries >>

\* restoreChanger: the name of the cassette t that the operator inserted.
LabelOf(t) == files[t][1].name

\* ReadHeader, headerOf: the cassette that session 1 of t continues, if the index
\* there can be read.
Continues(t) ==
  { files[t][i].from : i \in { n \in {2} \cap DOMAIN files[t] :
                               files[t][n].kind = "index" /\ damage[files[t][n].run].kind # "index" } }

\* Seeded bug: the cassette is not wound back after the header was read.
FollowBehindHeader(t) ==
  /\ op.pc = "swap" /\ LabelOf(t) = Found.name
  /\ op' = [op EXCEPT !.pc = "index", !.cur = t, !.head = 3]
  /\ UNCHANGED << written, dest, before, tries >>

\* ChainFollower.Follow: the cassette t that the operator inserts must have the
\* name of the pointer, and its session 1 the back reference.
FollowChain(t) ==
  /\ op.pc = "swap"
  /\ IF LabelOf(t) = Found.name /\ op.cur \in Continues(t)
       THEN op' = [op EXCEPT !.pc = "index", !.cur = t, !.head = 2]
       ELSE Finish("failed")
  /\ UNCHANGED << written, dest, before, tries >>

\* The operator gives up, the process is killed: an entry may be half-written, and
\* what the restore knew is gone.
Kill ==
  /\ "stop" \in Faults /\ op.pc \notin {"build", "idle"}
  /\ \/ UNCHANGED dest
     \/ \E p \in Paths : /\ AtEntry(p) /\ Writable(p)
                         /\ \/ StopsShort(p)
                            \/ List[p].kind = "reg" /\ CanBegin(p) /\ dest' = Begun(p)
  /\ op' = [op EXCEPT !.pc = "idle", !.head = 0, !.sess = 0, !.entry = 0, !.want = {}, !.todo = {},
                      !.result = "killed"]
  /\ UNCHANGED << written, before, tries >>

-----------------------------------------------------------------------------
(* The specification. *)

Build == \E p \in Paths, e \in Edits : Edit(p, e)

Step ==
  \/ ReadIndex \/ IndexDamaged \/ ReadEOD \/ ReadPointer \/ ReadFails
  \/ \E p \in Paths : ReadEntry(p) \/ EntryDamaged(p) \/ EntryFails(p) \/ EntryMissing(p) \/ TarUnreadable(p)
  \/ TarRead \/ SkipDamaged \/ SkipCopy \/ SmartEnds
  \/ \E k \in DOMAIN lists : NextCopy(k)
  \/ \E t \in Tapes : FollowChain(t)

Next ==
  \/ Build \/ \E move \in BOOLEAN : WriteSession(move)
  \/ \E t \in Tapes : StartFull(t)
  \/ \E t \in Tapes, ps \in Requests :
       StartSmart(t, ps) \/ \E k \in DOMAIN lists : StartSelective(t, k, ps)
  \/ Step \/ Kill

Spec == Init /\ [][Next]_vars

\* A restore runs on, and an operator who is asked for a cassette inserts one.
FairSpec == Spec /\ WF_vars(Step)

-----------------------------------------------------------------------------
(* Properties. *)

\* Paths that never were symlinks and never shared an inode, and that no symlink
\* lets a restore without --dest write to: os.Create keeps the inode of a file it
\* truncates and follows links, see FullRestoresLinks.
Plain(p) ==
  \A k \in DOMAIN past :
    /\ past[k][p].kind # "sym"
    /\ \A q \in Paths \ {p} :
         /\ past[k][p].kind = "reg" => past[k][q] # past[k][p]
         /\ past[k][q].kind = "sym" /\ past[k][q].of = p => Wrapped

\* The destination has p as an entry of a list gives it.
IsAs(p, e) ==
  CASE e.kind = "reg"  -> dest[p].kind = "file" /\ dest[p].data = [kind |-> "reg", at |-> e.at, of |-> e.of]
    [] e.kind = "dead" -> p \in Dirs \/ dest[p] = Nothing
    [] e.kind = "dir"  -> dest[p].kind = "dir"
    [] OTHER           -> TRUE

\* The last of the sessions ks that list p says what p is.
AsLast(p, ks) ==
  \A k \in ks \cap Listed(p) : (\A j \in ks \cap Listed(p) : j <= k) => IsAs(p, lists[k][p])

\* A full restore ended well, from the first cassette to the last.
FullDone ==
  /\ op.mode = "full" /\ op.result = "ok" /\ op.first = Chain[1]
  /\ \A n \in InUse : SessionsOn(Chain[n]) > 0 /\ op.cur # Chain[n] => \E m \in InUse : m > n /\ op.cur = Chain[m]

Whole == { k \in DOMAIN lists : damage[k] = Sound }

\* Whatever was edited between the sessions, whichever cassettes they are on and
\* whatever an earlier restore, failed or killed, left at the destination: a full
\* restore of undamaged cassettes gives every file its last contents, and takes
\* away what the last list that has it calls deleted (usecase.go:81-141).
FullRestoresLast ==
  FullDone /\ Whole = DOMAIN lists =>
    \A p \in Paths : Plain(p) =>
      /\ AsLast(p, Whole)
      /\ past[Len(past)][p].kind = "reg" => dest[p].data = past[Len(past)][p]

\* Smart takes the newest readable copy of every path (usecase.go:206-209, 288-293),
\* also when the copies of several paths are in different sessions, and some of
\* them damaged or not found.  Of paths one of which is below another it does not.
SmartTakesNewest ==
  op.mode = "smart" /\ op.result = "ok" =>
    \A p \in op.asked :
      Plain(p) /\ (Up[p] \cup {q \in Paths : p \in Up[q]}) \cap op.asked = {}
        => AsLast(p, { k \in Whole \ op.missed : NumOn(op.cur, k) # {} })

\* p is the owner of a hard link that was asked for: its contents come with the link.
OwnerOfAsked(p) ==
  \E k \in DOMAIN lists : \E q \in DOMAIN lists[k] :
    lists[k][q].kind = "link" /\ lists[k][q].to = p /\ Includes(op.asked, q)

\* A restore of some paths writes and deletes nothing else, but the directories
\* above them and above the owners of links among them (decoder.go:180-213,
\* usecase.go:392-409).
OnlyRequestedChange ==
  op.asked # {} =>
    \A p \in Paths : Plain(p) /\ dest[p] # before[p] =>
      \/ Includes(op.asked, p)
      \/ /\ dest[p].kind = "dir"
         /\ \E q \in Paths : p \in Up[q] /\ (q \in op.asked \/ OwnerOfAsked(q))

\* A file that is only partly restored is removed, or the log names it; only a
\* restore that is killed leaves one behind (decoder.go:361-423).
NoTornFiles ==
  \A p \in Paths : dest[p].data = Torn /\ before[p].data # Torn /\ Plain(p) =>
    op.result = "killed" \/ p \in op.told

\* Every restore ends: it runs out of sessions, also when it is out of step with
\* them behind a damaged one, and out of copies.
RestoreEnds == []<>(op.pc \in {"build", "idle"})

-----------------------------------------------------------------------------
(* What the docs say and the code does not do: each is refuted by a run. *)

\* "Damaged sessions are skipped, moving on to the next" (docs/func/EN/features.md:121,
\* usecase.go:74-75): a damaged session costs what is in it, not another one.
DamageCostsOneSession ==
  FullDone => \A p \in Paths : Plain(p) /\ Listed(p) \subseteq Whole => AsLast(p, Whole)

\* Hard links "are supported: on restore, [...] the shared inode [is] preserved"
\* (docs/func/EN/features.md:365-367), "hard links are preserved" (README.en.md:88):
\* a full restore gives a file its own contents, also when it once was a hard link.
FullRestoresLinks ==
  FullDone /\ Whole = DOMAIN lists =>
    \A p \in Paths : past[Len(past)][p].kind = "reg" => dest[p].data = past[Len(past)][p]
=============================================================================
