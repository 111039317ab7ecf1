---------------------------- MODULE CatalogProofs ----------------------------
(***************************************************************************)
(* Theorems about the catalog and the cassettes it describes: for any      *)
(* number of cassettes, names, labels and sessions, and all faults.        *)
(***************************************************************************)
EXTENDS Catalog, FiniteSetTheorems, SequenceTheorems, WellFoundedInduction, TLAPS

-----------------------------------------------------------------------------
(* The invariant.                                                          *)

\* A UUID is on one cassette, and the n-th session of a cassette is not
\* older than the n-th session of all.
CassettesInv ==
  /\ \A c \in Cassettes : tape[c].label = "ours" => tape[c].uuid \in 1..uuids /\ tape[c].name \in Names
  /\ \A c, d \in Cassettes :
       tape[c].label = "ours" /\ tape[d].label = "ours" /\ tape[c].uuid = tape[d].uuid => c = d
  /\ \A c \in Cassettes : \A n \in DOMAIN tape[c].sessions :
       n <= tape[c].sessions[n].id /\ tape[c].sessions[n].id <= runs

RowOK(r) == r.uuid <= uuids /\ r.num <= r.id /\ r.id <= runs /\ r.at = r.id /\ r.list \in {0, r.id}

\* The row is that of the session on the cassette c.
Describes(r, c) == r.num <= Len(tape[c].sessions) /\ tape[c].sessions[r.num].id = r.id

RowsInv ==
  /\ \A r \in rows : RowOK(r)
  /\ \A r \in rows, c \in Cassettes :
       r.list # 0 /\ tape[c].label = "ours" /\ tape[c].uuid = r.uuid => Describes(r, c)

\* Which command does what, and what it goes by.
CommandInv ==
  /\ op.pc # "idle" => op.result = "running"
  /\ op.pc = "label" => op.kind = "format" /\ uuids < MaxUuids /\ op.name \in Names
  /\ op.pc = "register" => op.kind \in {"format", "rebuild"}
  /\ op.pc \in {"list", "save"} => op.kind = "rebuild"
  /\ op.pc = "read" => op.kind \in {"rebuild", "readtest", "inspect"}
  /\ op.pc = "swap" => op.kind = "readtest"
  /\ op.pc \in {"create", "write", "files"} => op.kind = "backup" /\ Registered(Uuid)
  /\ op.pc = "create" => runs < MaxRuns
  /\ op.pc \notin {"idle", "label"} => Under.label = "ours"
  /\ op.pc \in {"label", "register", "list"} => op.head = 2
  /\ op.pc \in {"read", "save", "write", "files"} => op.head = 2 * Num /\ Num >= 1

\* The rows of the cassette a backup writes on, and the session it has written.
BackupInv ==
  /\ op.pc \in {"write", "files"} =>
       /\ Num <= runs
       /\ \A r \in rows : r.uuid = Uuid => /\ r.num <= Num
                                           /\ r.num = Num => r.id = runs /\ r.list = 0
  /\ op.pc = "files" => Num <= Len(Sessions) /\ Here = runs

\* What a rebuild has made of the sessions before the head, and what the list it
\* read at its start still says.
RebuildInv ==
  op.kind = "rebuild" =>
    /\ op.gone \cap Nums(Uuid) = {}
    /\ op.pc \in {"read", "save"} \/ op.result = "ok" => op.known \ op.gone \subseteq Nums(Uuid)
    /\ op.pc \in {"read", "save"} =>
         /\ \A m \in Nums(Uuid) \cup op.gone :
              m \in op.known \/ m < Num \/ (op.pc = "save" /\ m = Num)
         /\ \A n \in DOMAIN Sessions \ (op.gone \cup op.known) :
              n < Num => HasFiles(Uuid, n, Sessions[n].id)
    /\ op.pc = "save" =>
         /\ Num <= Len(Sessions) /\ Num \notin op.known /\ Num \in Nums(Uuid) \cup op.gone
         /\ \A r \in rows : r.uuid = Uuid /\ r.num = Num => r.id = Here /\ r.list = 0
    /\ op.result = "ok" =>
         \A n \in DOMAIN Sessions \ (op.gone \cup op.known) : HasFiles(Uuid, n, Sessions[n].id)

VouchInv ==
  op.kind = "readtest" =>
    /\ \A id \in op.seen : damage[id] = "none"
    /\ op.pc = "read" => \A n \in DOMAIN Sessions : n < Num => Sessions[n].id \in op.seen
    /\ op.result = "ok" => \A n \in DOMAIN Sessions : Sessions[n].id \in op.seen

CatalogInv ==
  TypeOK /\ CassettesInv /\ RowsInv /\ CommandInv /\ BackupInv /\ RebuildInv /\ VouchInv

-----------------------------------------------------------------------------
(* Records of commands.                                                    *)

LEMMA OpWith ==
  ASSUME NEW r \in Op
  PROVE  /\ \A pc \in PCs : [r EXCEPT !.pc = pc] \in Op
         /\ \A pc \in PCs, n \in Nat, m \in Names \cup {NoName},
               q \in {"none", "running", "ok", "failed", "fault", "killed"} :
              [r EXCEPT !.pc = pc, !.head = n, !.name = m, !.result = q] \in Op
         /\ \A pc \in PCs, n \in Nat : [r EXCEPT !.pc = pc, !.head = n] \in Op
         /\ \A k, g \in SUBSET (1..MaxRuns), pc \in PCs :
              [r EXCEPT !.pc = pc, !.known = k, !.gone = g] \in Op
         /\ \A n \in Nat, s \in SUBSET (1..MaxRuns) : [r EXCEPT !.head = n, !.seen = s] \in Op
         /\ \A pc \in PCs, n \in Nat, s \in SUBSET (1..MaxRuns) :
              [r EXCEPT !.pc = pc, !.head = n, !.seen = s] \in Op
         /\ \A pc \in PCs, c \in Cassettes, n \in Nat :
              [r EXCEPT !.pc = pc, !.c = c, !.head = n] \in Op
         /\ \A g \in SUBSET (1..MaxRuns) : [r EXCEPT !.gone = g] \in Op
<1>1. /\ \A pc \in PCs : [r EXCEPT !.pc = pc] \in Op
      /\ \A pc \in PCs, n \in Nat : [r EXCEPT !.pc = pc, !.head = n] \in Op
      /\ \A g \in SUBSET (1..MaxRuns) : [r EXCEPT !.gone = g] \in Op
  BY DEF Op
<1>2. ASSUME NEW pc \in PCs, NEW n \in Nat, NEW m \in Names \cup {NoName},
             NEW q \in {"none", "running", "ok", "failed", "fault", "killed"}
      PROVE  [r EXCEPT !.pc = pc, !.head = n, !.name = m, !.result = q] \in Op
  BY DEF Op
<1>3. ASSUME NEW k \in SUBSET (1..MaxRuns), NEW g \in SUBSET (1..MaxRuns), NEW pc \in PCs
      PROVE  [r EXCEPT !.pc = pc, !.known = k, !.gone = g] \in Op
  BY DEF Op
<1>4. ASSUME NEW pc \in PCs, NEW n \in Nat, NEW s \in SUBSET (1..MaxRuns)
      PROVE  /\ [r EXCEPT !.head = n, !.seen = s] \in Op
             /\ [r EXCEPT !.pc = pc, !.head = n, !.seen = s] \in Op
  BY DEF Op
<1>5. ASSUME NEW n \in Nat, NEW s \in SUBSET (1..MaxRuns)
      PROVE  [r EXCEPT !.head = n, !.seen = s] \in Op
  BY DEF Op
<1>6. ASSUME NEW pc \in PCs, NEW c \in Cassettes, NEW n \in Nat
      PROVE  [r EXCEPT !.pc = pc, !.c = c, !.head = n] \in Op
  BY DEF Op
<1> QED
  BY <1>1, <1>2, <1>3, <1>4, <1>5, <1>6

LEMMA OpFields ==
  ASSUME TypeOK
  PROVE  /\ op \in Op /\ op.kind \in Kinds /\ op.pc \in PCs /\ op.c \in Cassettes /\ op.head \in Nat
         /\ op.known \subseteq 1..MaxRuns /\ op.gone \subseteq 1..MaxRuns
         /\ op.name \in Names \cup {NoName} /\ op.seen \subseteq 1..MaxRuns
         /\ op.force \in BOOLEAN
BY DEF TypeOK, Op

LEMMA CassetteFields ==
  ASSUME TypeOK, NEW c \in Cassettes
  PROVE  /\ tape[c] \in Medium /\ tape[c].uuid \in 0..MaxUuids
         /\ tape[c].name \in Names \cup {NoName} /\ tape[c].next \in Names \cup {NoName}
         /\ tape[c].sessions \in Seq([id : 1..MaxRuns, from : 0..MaxUuids])
         /\ Len(tape[c].sessions) \in Nat
         /\ DOMAIN tape[c].sessions = 1..Len(tape[c].sessions)
         /\ \A n \in 1..Len(tape[c].sessions) : tape[c].sessions[n].id \in 1..MaxRuns
<1>1. tape[c] \in Medium
  BY DEF TypeOK
<1>2. tape[c].sessions \in Seq([id : 1..MaxRuns, from : 0..MaxUuids])
  BY <1>1 DEF Medium
<1>3. \A n \in 1..Len(tape[c].sessions) : tape[c].sessions[n] \in [id : 1..MaxRuns, from : 0..MaxUuids]
  BY <1>2, ElementOfSeq
<1> QED
  BY <1>1, <1>2, <1>3, LenProperties DEF Medium

LEMMA IdleType == ASSUME NEW c \in Cassettes PROVE Idle(c) \in Op
BY CatalogAssumption DEF Idle, Op, Kinds, PCs

LEMMA StartType ==
  ASSUME NEW c \in Cassettes, NEW kind \in Kinds, NEW pc \in PCs
  PROVE  LET s == Start(kind, c, pc) IN
           /\ s \in Op /\ s.kind = kind /\ s.pc = pc /\ s.c = c /\ s.head = 2
           /\ s.gone = {} /\ s.seen = {} /\ s.result = "running"
<1> DEFINE i == Idle(c)
           s == [i EXCEPT !.kind = kind, !.pc = pc, !.head = 2, !.result = "running"]
<1>1. i \in Op /\ i.c = c /\ i.gone = {} /\ i.seen = {}
  BY IdleType DEF Idle
<1> HIDE DEF i
<1>2. 2 \in Nat /\ "running" \in {"none", "running", "ok", "failed", "fault", "killed"}
  OBVIOUS
<1>3. /\ s \in Op /\ s.kind = kind /\ s.pc = pc /\ s.c = c /\ s.head = 2
      /\ s.gone = {} /\ s.seen = {} /\ s.result = "running"
  BY <1>1, <1>2 DEF Op
<1> USE DEF i
<1>4. Start(kind, c, pc) = s
  BY DEF Start
<1> HIDE DEF s
<1> QED
  BY <1>3, <1>4

\* What Go and Finish do to the command.
LEMMA GoFields ==
  ASSUME TypeOK, NEW pc \in PCs, Go(pc)
  PROVE  /\ op' \in Op /\ op'.pc = pc
         /\ op'.kind = op.kind /\ op'.c = op.c /\ op'.head = op.head /\ op'.known = op.known
         /\ op'.gone = op.gone /\ op'.name = op.name /\ op'.seen = op.seen
         /\ op'.result = op.result
<1>1. op \in Op /\ op' = [op EXCEPT !.pc = pc]
  BY DEF TypeOK, Go
<1>2. op' \in Op
  BY <1>1, OpWith
<1> QED
  BY <1>1, <1>2 DEF Op

LEMMA FinishFields ==
  ASSUME TypeOK, NEW r \in {"ok", "failed", "fault", "killed"}, Finish(r)
  PROVE  /\ op' \in Op /\ op'.pc = "idle" /\ op'.result = r
         /\ op'.kind = op.kind /\ op'.c = op.c /\ op'.known = op.known
         /\ op'.gone = op.gone /\ op'.seen = op.seen
<1>1. /\ op \in Op /\ op' = [op EXCEPT !.pc = "idle", !.head = 0, !.name = NoName, !.result = r]
      /\ "idle" \in PCs /\ 0 \in Nat /\ NoName \in Names \cup {NoName}
      /\ r \in {"none", "running", "ok", "failed", "fault", "killed"}
  BY DEF TypeOK, Finish, PCs
<1>2. op' \in Op
  BY <1>1, OpWith
<1> QED
  BY <1>1, <1>2 DEF Op

-----------------------------------------------------------------------------
(* The tables.                                                             *)

\* What the constraints of the tables are.
TablesOK ==
  /\ tapes \subseteq [uuid : 1..MaxUuids, name : Names]
  /\ \A s, t \in tapes : s.uuid = t.uuid \/ s.name = t.name => s = t
  /\ rows \subseteq Row
  /\ \A r, s \in rows : r.uuid = s.uuid /\ r.num = s.num => r = s
  /\ \A r \in rows : \E t \in tapes : t.uuid = r.uuid

LEMMA FewerRows ==
  ASSUME TablesOK, rows' \subseteq rows, tapes' = tapes
  PROVE  TablesOK'
BY DEF TablesOK

LEMMA RowFields ==
  ASSUME TypeOK, NEW r \in rows
  PROVE  /\ r \in Row /\ r.uuid \in 1..MaxUuids /\ r.num \in 1..MaxRuns /\ r.id \in 1..MaxRuns
         /\ r.at \in 1..MaxRuns /\ r.list \in 0..MaxRuns
         /\ r = [uuid |-> r.uuid, num |-> r.num, id |-> r.id, at |-> r.at, list |-> r.list]
BY DEF TypeOK, Row

LEMMA NewRowType ==
  ASSUME NEW u \in 1..MaxUuids, NEW num \in 1..MaxRuns, NEW id \in 1..MaxRuns, NEW l \in 0..MaxRuns
  PROVE  /\ [NewRow(u, num, id) EXCEPT !.list = l] =
              [uuid |-> u, num |-> num, id |-> id, at |-> id, list |-> l]
         /\ [uuid |-> u, num |-> num, id |-> id, at |-> id, list |-> l] \in Row
BY DEF NewRow, Row

\* A row for a number that has none.
LEMMA AddedRow ==
  ASSUME TablesOK, NEW u \in 1..MaxUuids, NEW num \in 1..MaxRuns, NEW id \in 1..MaxRuns,
         CanCreate(u, num), rows' = rows \cup {NewRow(u, num, id)}, tapes' = tapes
  PROVE  TablesOK'
<1> DEFINE new == NewRow(u, num, id)
<1>1. new \in Row /\ new.uuid = u /\ new.num = num
  BY CatalogAssumption DEF NewRow, Row
<1>2. \A r \in rows : ~(r.uuid = u /\ r.num = num)
  BY DEF CanCreate, Nums
<1>3. \E t \in tapes : t.uuid = u
  BY DEF CanCreate, Registered
<1> HIDE DEF new
<1> QED
  BY <1>1, <1>2, <1>3 DEF TablesOK, new

\* The row whose files are saved.
WithFiles(r, u, num, id) == IF r.uuid = u /\ r.num = num THEN [r EXCEPT !.list = id] ELSE r

LEMMA WithFilesFields ==
  ASSUME NEW r \in Row, NEW u, NEW num, NEW id \in 0..MaxRuns
  PROVE  LET q == WithFiles(r, u, num, id) IN
           /\ q \in Row /\ q.uuid = r.uuid /\ q.num = r.num /\ q.id = r.id /\ q.at = r.at
           /\ q.list = IF r.uuid = u /\ r.num = num THEN id ELSE r.list
BY DEF WithFiles, Row

\* The rows with those files.
Saved(u, num, id) == {WithFiles(r, u, num, id) : r \in rows}

LEMMA SavedRows ==
  ASSUME TypeOK, NEW u \in 1..MaxUuids, NEW num \in Nat, NEW id \in 0..MaxRuns
  PROVE  /\ SaveFiles(u, num, id) => rows' = Saved(u, num, id) /\ num \in Nums(u)
         /\ \A q \in Saved(u, num, id) : q \in Row /\ \E r \in rows :
              /\ q.uuid = r.uuid /\ q.num = r.num /\ q.id = r.id /\ q.at = r.at
              /\ q.list = IF r.uuid = u /\ r.num = num THEN id ELSE r.list
         /\ \A r \in rows : \E q \in Saved(u, num, id) : q.uuid = r.uuid /\ q.num = r.num
         /\ \A r \in rows : r.uuid # u \/ r.num # num => r \in Saved(u, num, id)
         /\ \A p, q \in Saved(u, num, id) : p.uuid = q.uuid /\ p.num = q.num => p = q
<1>1. SaveFiles(u, num, id) => rows' = Saved(u, num, id) /\ num \in Nums(u)
  BY DEF SaveFiles, Saved, WithFiles
<1>2. \A r \in rows : r \in Row /\ WithFiles(r, u, num, id) \in Saved(u, num, id)
  BY DEF TypeOK, Saved
<1>3. \A q \in Saved(u, num, id) : \E r \in rows : q = WithFiles(r, u, num, id)
  BY DEF Saved
<1>4. \A q \in Saved(u, num, id) : q \in Row /\ \E r \in rows :
        /\ q.uuid = r.uuid /\ q.num = r.num /\ q.id = r.id /\ q.at = r.at
        /\ q.list = IF r.uuid = u /\ r.num = num THEN id ELSE r.list
  BY <1>2, <1>3, WithFilesFields
<1>5. \A r \in rows : \E q \in Saved(u, num, id) : q.uuid = r.uuid /\ q.num = r.num
  BY <1>2, WithFilesFields
<1>6. \A r \in rows : r.uuid # u \/ r.num # num => r \in Saved(u, num, id)
  BY <1>2 DEF WithFiles
<1>7. ASSUME NEW p \in Saved(u, num, id), NEW q \in Saved(u, num, id), p.uuid = q.uuid, p.num = q.num
      PROVE  p = q
  <2>1. PICK r \in rows : p = WithFiles(r, u, num, id)
    BY <1>3
  <2>2. PICK s \in rows : q = WithFiles(s, u, num, id)
    BY <1>3
  <2>3. r.uuid = s.uuid /\ r.num = s.num
    BY <1>2, <1>7, <2>1, <2>2, WithFilesFields
  <2> QED
    BY <2>1, <2>2, <2>3 DEF TypeOK
<1> QED
  BY <1>1, <1>4, <1>5, <1>6, <1>7

LEMMA SavedFiles ==
  ASSUME TypeOK, NEW u \in 1..MaxUuids, NEW num \in Nat, NEW id \in 0..MaxRuns,
         SaveFiles(u, num, id)
  PROVE  Nums(u)' = Nums(u) /\ (tapes' = tapes => TablesOK')
<1>1. rows' = Saved(u, num, id)
  BY SavedRows
<1>2. \A q \in rows' : q \in Row /\ \E r \in rows : q.uuid = r.uuid /\ q.num = r.num
  BY <1>1, SavedRows
<1>3. \A r \in rows : \E q \in rows' : q.uuid = r.uuid /\ q.num = r.num
  BY <1>1, SavedRows
<1>4. \A p, q \in rows' : p.uuid = q.uuid /\ p.num = q.num => p = q
  BY <1>1, SavedRows
<1>5. Nums(u)' = Nums(u)
  BY <1>2, <1>3 DEF Nums
<1>6. ASSUME tapes' = tapes PROVE TablesOK'
  BY <1>2, <1>4, <1>6 DEF TypeOK, TablesOK
<1> QED
  BY <1>5, <1>6

-----------------------------------------------------------------------------
(* Numbers.                                                                *)

LEMMA LessOnNat ==
  \E R : IsWellFoundedOn(R, Nat) /\ \A x, y \in Nat : x < y => <<x, y>> \in R
<1> DEFINE R == OpToRel(<, Nat)
<1>1. IsWellFoundedOn(R, Nat)
  BY NatLessThanWellFounded
<1>2. \A x, y \in Nat : x < y => <<x, y>> \in R
  BY DEF OpToRel
<1> HIDE DEF R
<1> QED
  BY <1>1, <1>2, Zenon

\* A set of numbers that is not empty has a least one ...
LEMMA Least ==
  ASSUME NEW T \in SUBSET Nat, T # {}
  PROVE  \E k \in T : \A j \in T : k <= j
<1>1. PICK R : IsWellFoundedOn(R, Nat) /\ \A x, y \in Nat : x < y => <<x, y>> \in R
  BY LessOnNat
<1>2. IsWellFoundedOn(R, Nat) /\ T \subseteq Nat
  BY <1>1
<1>3. \E k \in T : \A j \in T : ~(<<j, k>> \in R)
  BY <1>2, WFMin, Zenon
<1>4. PICK k \in T : \A j \in T : ~(<<j, k>> \in R)
  BY <1>3, Zenon
<1>5. \A j \in T : ~(j < k)
  BY <1>1, <1>2, <1>4, Zenon
<1> QED
  BY <1>2, <1>5

\* ... and one below a bound has a largest.
LEMMA Largest ==
  ASSUME NEW b \in Nat, NEW S \in SUBSET (0..b), S # {}
  PROVE  \E m \in S : \A j \in S : j <= m
<1> DEFINE T == {k \in Nat : \E m \in S : k = b - m}
<1>1. \A m \in S : m \in 0..b /\ b - m \in T
  OBVIOUS
<1>2. T \in SUBSET Nat /\ T # {}
  BY <1>1
<1>3. \A k \in T : \E m \in S : k = b - m
  OBVIOUS
<1> HIDE DEF T
<1>4. PICK k \in T : \A j \in T : k <= j
  BY <1>2, Least
<1>5. PICK m \in S : k = b - m
  BY <1>3, <1>4
<1>6. ASSUME NEW j \in S PROVE j <= m
  BY <1>1, <1>4, <1>5, <1>6
<1> QED
  BY <1>6

\* LastNum is the largest number, and no row has the next one.
LEMMA LastNumIs ==
  ASSUME TypeOK, RowsInv, NEW u \in 1..MaxUuids
  PROVE  /\ LastNum(u) \in 0..runs
         /\ \A m \in Nums(u) : m <= LastNum(u)
<1>1. runs \in Nat /\ \A m \in Nums(u) : m \in 1..runs
  BY RowFields, CatalogAssumption DEF RowsInv, RowOK, Nums, TypeOK
<1>2. CASE Nums(u) = {}
  BY <1>1, <1>2 DEF LastNum
<1>3. CASE Nums(u) # {}
  <2>1. Nums(u) \in SUBSET (0..runs)
    BY <1>1
  <2>2. PICK m \in Nums(u) : \A j \in Nums(u) : j <= m
    BY <1>1, <1>3, <2>1, Largest
  <2>3. LastNum(u) \in Nums(u) /\ \A j \in Nums(u) : j <= LastNum(u)
    BY <1>3, <2>2 DEF LastNum
  <2> QED
    BY <1>1, <2>3
<1> QED
  BY <1>2, <1>3

LEMMA Halves ==
  /\ 2 \div 2 = 1
  /\ \A n \in Nat : (2 * n) \div 2 = n
  /\ \A n \in Nat : (2 * n + 2) \div 2 = n + 1
  /\ \A n \in Nat : (2 * n) % 2 = 0
OBVIOUS

-----------------------------------------------------------------------------
(* The place of a command.                                                 *)

LEMMA Place ==
  ASSUME CatalogInv
  PROVE  /\ op \in Op /\ op.c \in Cassettes /\ op.head \in Nat
         /\ uuids \in 0..MaxUuids /\ runs \in 0..MaxRuns /\ MaxUuids \in Nat /\ MaxRuns \in Nat
         /\ Uuid = tape[op.c].uuid /\ Sessions = tape[op.c].sessions
         /\ Len(Sessions) \in Nat /\ DOMAIN Sessions = 1..Len(Sessions)
         /\ \A n \in 1..Len(Sessions) : Sessions[n].id \in 1..MaxRuns /\ n <= Sessions[n].id /\ Sessions[n].id <= runs
         /\ op.pc \notin {"idle", "label"} =>
              /\ tape[op.c].label = "ours" /\ Uuid \in 1..uuids /\ Uuid \in 1..MaxUuids
              /\ tape[op.c].name \in Names
         /\ op.pc \in {"read", "save", "write", "files"} =>
              Num \in Nat /\ Num >= 1 /\ op.head = 2 * Num
<1>1. TypeOK /\ CassettesInv /\ CommandInv
  BY DEF CatalogInv
<1>2. /\ op \in Op /\ op.c \in Cassettes /\ op.head \in Nat
      /\ uuids \in 0..MaxUuids /\ runs \in 0..MaxRuns /\ MaxUuids \in Nat /\ MaxRuns \in Nat
  BY <1>1, OpFields, CatalogAssumption DEF TypeOK
<1>3. /\ Uuid = tape[op.c].uuid /\ Sessions = tape[op.c].sessions
      /\ Len(Sessions) \in Nat /\ DOMAIN Sessions = 1..Len(Sessions)
      /\ \A n \in 1..Len(Sessions) : Sessions[n].id \in 1..MaxRuns
  BY <1>1, <1>2, CassetteFields DEF Uuid, Sessions, Under
<1>4. \A n \in 1..Len(Sessions) : n <= Sessions[n].id /\ Sessions[n].id <= runs
  BY <1>1, <1>2, <1>3 DEF CassettesInv
<1>5. op.pc \notin {"idle", "label"} =>
        tape[op.c].label = "ours" /\ Uuid \in 1..uuids /\ Uuid \in 1..MaxUuids
          /\ tape[op.c].name \in Names
  BY <1>1, <1>2, <1>3 DEF CassettesInv, CommandInv, Under
<1>6. op.pc \in {"read", "save", "write", "files"} => Num \in Nat /\ Num >= 1 /\ op.head = 2 * Num
  BY <1>1, <1>2 DEF CommandInv, Num
<1> QED
  BY <1>2, <1>3, <1>4, <1>5, <1>6

\* Taking rows away.
LEMMA FewerRowsInv ==
  ASSUME CassettesInv, RowsInv, rows' \subseteq rows, UNCHANGED << tape, uuids, runs >>
  PROVE  CassettesInv' /\ RowsInv'
<1>1. CassettesInv'
  BY DEF CassettesInv
<1>2. RowsInv'
  BY DEF RowsInv, RowOK, Describes
<1> QED
  BY <1>1, <1>2

LEMMA FewerNums == ASSUME NEW u, rows' \subseteq rows PROVE Nums(u)' \subseteq Nums(u)
BY DEF Nums

\* A command that gives up, by itself or by a fault, before it has changed a
\* tape; rows may be gone that it had made.
LEMMA Stopped ==
  ASSUME CatalogInv, NEW r \in {"failed", "fault", "killed"}, Finish(r),
         rows' \subseteq rows, UNCHANGED << tape, uuids, runs, damage, tapes >>
  PROVE  CatalogInv'
<1>1. TypeOK /\ CassettesInv /\ RowsInv /\ RebuildInv /\ VouchInv
  BY DEF CatalogInv
<1>2. /\ op' \in Op /\ op'.pc = "idle" /\ op'.result = r /\ op'.kind = op.kind /\ op'.c = op.c
      /\ op'.known = op.known /\ op'.gone = op.gone /\ op'.seen = op.seen
  BY <1>1, FinishFields
<1>3. TypeOK'
  <2>1. TablesOK'
    BY <1>1, FewerRows DEF TypeOK, TablesOK
  <2> QED
    BY <1>1, <1>2, <2>1 DEF TypeOK, TablesOK
<1>4. CassettesInv' /\ RowsInv'
  BY <1>1, FewerRowsInv
<1>5. CommandInv' /\ BackupInv'
  BY <1>2 DEF CommandInv, BackupInv
<1>6. RebuildInv'
  <2>1. Uuid' = Uuid /\ Nums(Uuid)' \subseteq Nums(Uuid)
    BY <1>2 DEF Uuid, Under, Nums
  <2> QED
    BY <1>1, <1>2, <2>1 DEF RebuildInv
<1>7. VouchInv'
  BY <1>1, <1>2 DEF VouchInv
<1> QED
  BY <1>3, <1>4, <1>5, <1>6, <1>7 DEF CatalogInv

-----------------------------------------------------------------------------
(* The beginning of a command.                                             *)

LEMMA StartOnStep ==
  ASSUME CatalogInv, NEW c \in Cassettes, NEW kind \in Kinds, NEW pc \in PCs,
         << kind, pc >> \in {<< "rebuild", "register" >>, << "readtest", "read" >>, << "inspect", "read" >>},
         StartOn(kind, c, pc)
  PROVE  CatalogInv'
<1>1. TypeOK /\ CassettesInv /\ RowsInv
  BY DEF CatalogInv
<1>2. UNCHANGED << tape, uuids, runs, damage, tapes, rows >>
  BY DEF StartOn
<1>3. \/ tape[c].label = "ours" /\ op' = Start(kind, c, pc)
      \/ op' = [Start(kind, c, "idle") EXCEPT !.result = "failed"]
  BY DEF StartOn
<1>4. /\ op' \in Op /\ op'.kind = kind /\ op'.c = c /\ op'.head = 2 /\ op'.gone = {} /\ op'.seen = {}
      /\ \/ tape[c].label = "ours" /\ op'.pc = pc /\ op'.result = "running"
         \/ op'.pc = "idle" /\ op'.result = "failed"
  <2>1. CASE tape[c].label = "ours" /\ op' = Start(kind, c, pc)
    BY <2>1, StartType
  <2>2. CASE op' = [Start(kind, c, "idle") EXCEPT !.result = "failed"]
    <3> DEFINE s == Start(kind, c, "idle")
    <3>1. /\ s \in Op /\ s.kind = kind /\ s.pc = "idle" /\ s.c = c /\ s.head = 2 /\ s.gone = {} /\ s.seen = {}
          /\ "failed" \in {"none", "running", "ok", "failed", "fault", "killed"}
      BY StartType DEF PCs
    <3> HIDE DEF s
    <3>2. LET q == [s EXCEPT !.result = "failed"] IN
            /\ q \in Op /\ q.kind = kind /\ q.pc = "idle" /\ q.c = c /\ q.head = 2
            /\ q.gone = {} /\ q.seen = {} /\ q.result = "failed"
      BY <3>1 DEF Op
    <3> QED
      BY <2>2, <3>2 DEF s
  <2> QED
    BY <1>3, <2>1, <2>2
<1>5. TypeOK' /\ CassettesInv' /\ RowsInv'
  BY <1>1, <1>2, <1>4, FewerRowsInv DEF TypeOK
<1>6. Num' = 1 /\ Under' = tape[c]
  BY <1>2, <1>4, Halves DEF Num, Under
<1>7. CommandInv' /\ BackupInv'
  BY <1>2, <1>4, <1>6 DEF CommandInv, BackupInv
<1>8. RebuildInv'
  BY <1>4 DEF RebuildInv
<1>9. VouchInv'
  <2>1. \A n \in DOMAIN Sessions' : ~(n < 1)
    BY <1>1, <1>6, CassetteFields DEF Sessions
  <2> QED
    BY <1>4, <1>6, <2>1 DEF VouchInv
<1> QED
  BY <1>5, <1>7, <1>8, <1>9 DEF CatalogInv

LEMMA StartFormatStep ==
  ASSUME CatalogInv, NEW c \in Cassettes, NEW n \in Names, NEW force \in BOOLEAN,
         StartFormat(c, n, force)
  PROVE  CatalogInv'
<1>1. TypeOK /\ CassettesInv /\ RowsInv
  BY DEF CatalogInv
<1>2. UNCHANGED << tape, uuids, runs, damage, tapes, rows >> /\ uuids < MaxUuids
  BY DEF StartFormat
<1> DEFINE pc == IF MayFormat(c, force) THEN "label" ELSE "idle"
           result == IF MayFormat(c, force) THEN "running" ELSE "failed"
           s == Start("format", c, pc)
<1>3. op' = [s EXCEPT !.name = n, !.force = force, !.result = result]
  BY DEF StartFormat
<1>4. /\ pc \in {"label", "idle"} /\ pc \in PCs /\ result \in {"running", "failed"}
      /\ pc = "label" => result = "running"
      /\ result \in {"none", "running", "ok", "failed", "fault", "killed"}
      /\ n \in Names \cup {NoName}
  BY DEF PCs
<1>5. s \in Op /\ s.kind = "format" /\ s.pc = pc /\ s.c = c /\ s.head = 2
  BY <1>4, StartType DEF Kinds
<1> HIDE DEF s, pc, result
<1>6. /\ op' \in Op /\ op'.kind = "format" /\ op'.pc = pc /\ op'.head = 2 /\ op'.result = result
      /\ op'.name = n
  BY <1>3, <1>4, <1>5 DEF Op
<1>7. TypeOK' /\ CassettesInv' /\ RowsInv'
  BY <1>1, <1>2, <1>6, FewerRowsInv DEF TypeOK
<1>8. CommandInv' /\ BackupInv' /\ RebuildInv' /\ VouchInv'
  BY <1>2, <1>4, <1>6 DEF CommandInv, BackupInv, RebuildInv, VouchInv
<1> QED
  BY <1>7, <1>8 DEF CatalogInv

LEMMA StartBackupStep ==
  ASSUME CatalogInv, NEW c \in Cassettes, NEW full \in BOOLEAN, StartBackup(c, full)
  PROVE  CatalogInv'
<1>1. TypeOK /\ CassettesInv /\ RowsInv
  BY DEF CatalogInv
<1>2. /\ UNCHANGED << tape, uuids, runs, damage, tapes >> /\ rows' \subseteq rows
      /\ runs < MaxRuns /\ tape[c].label = "ours" /\ Registered(tape[c].uuid)
      /\ op' = Start("backup", c, "create")
  BY DEF StartBackup
<1>3. /\ op' \in Op /\ op'.kind = "backup" /\ op'.pc = "create" /\ op'.c = c /\ op'.result = "running"
  BY <1>2, StartType DEF Kinds, PCs
<1>4. TypeOK'
  <2>1. TablesOK'
    BY <1>1, <1>2, FewerRows DEF TypeOK, TablesOK
  <2> QED
    BY <1>1, <1>2, <1>3, <2>1 DEF TypeOK, TablesOK
<1>5. CassettesInv' /\ RowsInv'
  BY <1>1, <1>2, FewerRowsInv
<1>6. Under' = tape[c] /\ Uuid' = tape[c].uuid /\ Registered(Uuid)'
  BY <1>2, <1>3 DEF Under, Uuid, Registered
<1>7. CommandInv' /\ BackupInv' /\ RebuildInv' /\ VouchInv'
  BY <1>2, <1>3, <1>6 DEF CommandInv, BackupInv, RebuildInv, VouchInv
<1> QED
  BY <1>4, <1>5, <1>7 DEF CatalogInv

-----------------------------------------------------------------------------
(* Formatting and registering.                                             *)

LEMMA WriteLabelStep ==
  ASSUME CatalogInv, WriteLabel
  PROVE  CatalogInv'
<1>1. TypeOK /\ CassettesInv /\ RowsInv /\ CommandInv
  BY DEF CatalogInv
<1>2. /\ op \in Op /\ op.c \in Cassettes /\ uuids \in 0..MaxUuids /\ MaxUuids \in Nat
  BY Place
<1>3. /\ op.pc = "label" /\ uuids' = uuids + 1 /\ UNCHANGED << runs, damage, tapes, rows >>
      /\ tape' \in {tape, [tape EXCEPT ![op.c] = Labelled]}
      /\ \/ Go("register") /\ tape' = [tape EXCEPT ![op.c] = Labelled]
         \/ Finish("fault")
  BY DEF WriteLabel, Fails
<1>4. op.kind = "format" /\ uuids < MaxUuids /\ op.name \in Names /\ op.head = 2 /\ op.result = "running"
  BY <1>1, <1>3 DEF CommandInv
<1>5. /\ op' \in Op /\ op'.kind = "format" /\ op'.c = op.c
      /\ \/ op'.pc = "register" /\ op'.head = 2 /\ op'.result = "running"
            /\ tape' = [tape EXCEPT ![op.c] = Labelled]
         \/ op'.pc = "idle" /\ op'.result = "fault"
  <2>1. CASE Go("register") /\ tape' = [tape EXCEPT ![op.c] = Labelled]
    BY <1>1, <1>4, <2>1, GoFields DEF PCs
  <2>2. CASE Finish("fault")
    BY <1>1, <1>4, <2>2, FinishFields
  <2> QED
    BY <1>3, <2>1, <2>2
<1>6. /\ Labelled \in Medium /\ Labelled.label = "ours" /\ Labelled.uuid = uuids + 1
      /\ Labelled.name = op.name /\ Labelled.sessions = << >>
  <2>1. << >> \in Seq([id : 1..MaxRuns, from : 0..MaxUuids])
    BY EmptySeq
  <2>2. uuids + 1 \in 0..MaxUuids /\ op.name \in Names \cup {NoName}
    BY <1>2, <1>4
  <2> QED
    BY <2>1, <2>2 DEF Labelled, Medium
<1>7. /\ tape' \in [Cassettes -> Medium] /\ uuids' \in 0..MaxUuids
      /\ \A c \in Cassettes : tape'[c] = tape[c] \/ (c = op.c /\ tape'[c] = Labelled)
  BY <1>1, <1>2, <1>3, <1>4, <1>6 DEF TypeOK
<1>8. TypeOK'
  BY <1>1, <1>3, <1>5, <1>7 DEF TypeOK
<1>9. CassettesInv'
  <2>1. \A c \in Cassettes : tape[c].label = "ours" => tape[c].uuid # uuids + 1
    BY <1>1, <1>2 DEF CassettesInv
  <2>2. DOMAIN Labelled.sessions = {}
    BY <1>6
  <2>3. \A c \in Cassettes : tape'[c].label = "ours" => tape'[c].uuid \in 1..uuids' /\ tape'[c].name \in Names
    BY <1>1, <1>2, <1>3, <1>4, <1>6, <1>7 DEF CassettesInv
  <2>4. \A c, d \in Cassettes :
          tape'[c].label = "ours" /\ tape'[d].label = "ours" /\ tape'[c].uuid = tape'[d].uuid => c = d
    BY <1>1, <1>6, <1>7, <2>1 DEF CassettesInv
  <2>5. \A c \in Cassettes : \A n \in DOMAIN tape'[c].sessions :
          n <= tape'[c].sessions[n].id /\ tape'[c].sessions[n].id <= runs'
    BY <1>1, <1>3, <1>7, <2>2 DEF CassettesInv
  <2> QED
    BY <2>3, <2>4, <2>5 DEF CassettesInv
<1>10. RowsInv'
  <2>1. \A r \in rows : RowOK(r) /\ RowOK(r)' /\ r.uuid # uuids + 1
    <3> TAKE r \in rows
    <3>1. RowOK(r)
      BY <1>1 DEF RowsInv
    <3> QED
      BY <1>1, <1>2, <1>3, <3>1, RowFields DEF RowOK
  <2>2. ASSUME NEW r \in rows, NEW c \in Cassettes, r.list # 0, tape'[c].label = "ours",
               tape'[c].uuid = r.uuid
        PROVE  Describes(r, c)'
    <3>1. tape'[c] = tape[c]
      BY <1>6, <1>7, <2>1, <2>2
    <3> QED
      BY <1>1, <2>2, <3>1 DEF RowsInv, Describes
  <2> QED
    BY <1>3, <2>1, <2>2 DEF RowsInv
<1>11. CommandInv'
  <2>1. Under'.label = "ours" \/ op'.pc = "idle"
    BY <1>1, <1>2, <1>5, <1>6 DEF Under, TypeOK
  <2> QED
    BY <1>5, <2>1 DEF CommandInv
<1>12. BackupInv' /\ RebuildInv' /\ VouchInv'
  BY <1>5 DEF BackupInv, RebuildInv, VouchInv
<1> QED
  BY <1>8, <1>9, <1>10, <1>11, <1>12 DEF CatalogInv

LEMMA RegisterStep ==
  ASSUME CatalogInv, Register
  PROVE  CatalogInv'
<1>1. TypeOK /\ CassettesInv /\ RowsInv /\ CommandInv /\ RebuildInv /\ VouchInv
  BY DEF CatalogInv
<1>2. /\ op.pc = "register" /\ UNCHANGED << tape, uuids, runs, damage, rows >>
      /\ op.result = "running" /\ op.kind \in {"format", "rebuild"} /\ op.head = 2
      /\ Under.label = "ours"
  BY <1>1 DEF Register, CommandInv
<1>3. CASE Finish("failed") /\ UNCHANGED tapes
  BY <1>2, <1>3, Stopped
<1>4. CASE Fails("db") /\ UNCHANGED tapes
  BY <1>2, <1>4, Stopped DEF Fails
<1>5. ASSUME RegisterTape(Uuid, Under.name), IF op.kind = "format" THEN Finish("ok") ELSE Go("list")
      PROVE  CatalogInv'
  <2>1. /\ op' \in Op /\ op'.kind = op.kind /\ op'.c = op.c /\ op'.gone = op.gone
        /\ \/ op.kind = "format" /\ op'.pc = "idle" /\ op'.result = "ok"
           \/ op.kind = "rebuild" /\ op'.pc = "list" /\ op'.head = 2 /\ op'.result = "running"
    <3>1. CASE op.kind = "format"
      BY <1>1, <1>5, <3>1, FinishFields
    <3>2. CASE op.kind = "rebuild"
      BY <1>1, <1>2, <1>5, <3>2, GoFields DEF PCs
    <3> QED
      BY <1>2, <3>1, <3>2
  <2>2. Uuid \in 1..MaxUuids /\ Under.name \in Names
    BY <1>2, Place DEF Under
  <2> DEFINE new == [uuid |-> Uuid, name |-> Under.name]
  <2>3. /\ tapes' = {t \in tapes : t.uuid # Uuid} \cup {new}
        /\ \A t \in tapes : t.name = Under.name => t.uuid = Uuid
    BY <1>5 DEF RegisterTape, CanRegister
  <2>4. new \in [uuid : 1..MaxUuids, name : Names] /\ new.uuid = Uuid /\ new.name = Under.name
    BY <2>2
  <2> HIDE DEF new
  <2>5. TablesOK'
    <3>1. tapes' \subseteq [uuid : 1..MaxUuids, name : Names]
      BY <1>1, <2>3, <2>4 DEF TypeOK
    <3>2. \A s, t \in tapes' : s.uuid = t.uuid \/ s.name = t.name => s = t
      BY <1>1, <2>3, <2>4 DEF TypeOK
    <3>3. \A r \in rows' : \E t \in tapes' : t.uuid = r.uuid
      BY <1>1, <1>2, <2>3, <2>4 DEF TypeOK
    <3> QED
      BY <1>1, <1>2, <3>1, <3>2, <3>3 DEF TypeOK, TablesOK
  <2>6. TypeOK'
    BY <1>1, <1>2, <2>1, <2>5 DEF TypeOK, TablesOK
  <2>7. CassettesInv' /\ RowsInv'
    BY <1>1, <1>2, FewerRowsInv
  <2>8. Under' = Under /\ Uuid' = Uuid /\ Nums(Uuid)' = Nums(Uuid)
    BY <1>2, <2>1 DEF Under, Uuid, Nums
  <2>9. CommandInv' /\ BackupInv' /\ VouchInv'
    BY <1>2, <2>1, <2>8 DEF CommandInv, BackupInv, VouchInv
  <2>10. RebuildInv'
    BY <1>1, <2>1, <2>8 DEF RebuildInv
  <2> QED
    BY <2>6, <2>7, <2>9, <2>10 DEF CatalogInv
<1> QED
  BY <1>3, <1>4, <1>5 DEF Register

-----------------------------------------------------------------------------
(* Reading a cassette.                                                     *)

LEMMA ListSessionsStep ==
  ASSUME CatalogInv, ListSessions
  PROVE  CatalogInv'
<1>1. TypeOK /\ CassettesInv /\ RowsInv /\ CommandInv
  BY DEF CatalogInv
<1>2. /\ op.pc = "list" /\ UNCHANGED << tape, uuids, runs, damage, tapes, rows >>
      /\ op.result = "running" /\ op.kind = "rebuild" /\ op.head = 2 /\ Under.label = "ours"
  BY <1>1 DEF ListSessions, CommandInv
<1>3. CASE Fails("db")
  BY <1>2, <1>3, Stopped DEF Fails
<1>4. ASSUME op' = [op EXCEPT !.pc = "read", !.known = Nums(Uuid), !.gone = {}] PROVE CatalogInv'
  <2>1. Nums(Uuid) \in SUBSET (1..MaxRuns) /\ {} \in SUBSET (1..MaxRuns) /\ "read" \in PCs /\ op \in Op
    BY <1>1, RowFields DEF Nums, PCs, TypeOK
  <2>2. op' \in Op
    BY <1>4, <2>1, OpWith
  <2>3. /\ op'.pc = "read" /\ op'.kind = "rebuild" /\ op'.c = op.c /\ op'.head = 2
        /\ op'.known = Nums(Uuid) /\ op'.gone = {} /\ op'.result = "running"
    BY <1>2, <1>4, <2>1 DEF Op
  <2>4. TypeOK' /\ CassettesInv' /\ RowsInv'
    BY <1>1, <1>2, <2>2, FewerRowsInv DEF TypeOK
  <2>5. Under' = Under /\ Uuid' = Uuid /\ Nums(Uuid)' = Nums(Uuid) /\ Num' = 1 /\ Sessions' = Sessions
    BY <1>2, <2>3, Halves DEF Under, Uuid, Nums, Num, Sessions
  <2>6. CommandInv' /\ BackupInv' /\ VouchInv'
    BY <1>2, <2>3, <2>5 DEF CommandInv, BackupInv, VouchInv
  <2>7. \A n \in DOMAIN Sessions' : ~(n < 1)
    BY <2>5, Place
  <2>8. RebuildInv'
    BY <2>3, <2>5, <2>7 DEF RebuildInv
  <2> QED
    BY <2>4, <2>6, <2>8 DEF CatalogInv
<1> QED
  BY <1>3, <1>4 DEF ListSessions

LEMMA UnreadableStep ==
  ASSUME CatalogInv, Unreadable
  PROVE  CatalogInv'
BY Stopped DEF Unreadable, Fails

\* The head behind the next tar, whichever of the three commands reads.
LEMMA Skipped ==
  ASSUME CatalogInv, SkipTar, UNCHANGED << tape, uuids, runs, damage, tapes, rows >>,
         op.kind = "rebuild" => Num \in op.known
  PROVE  CatalogInv'
<1>1. TypeOK /\ CassettesInv /\ RowsInv /\ CommandInv /\ RebuildInv /\ VouchInv
  BY DEF CatalogInv
<1>2. /\ op.pc = "read" /\ Num <= Len(Sessions)
      /\ damage[Here] = "none" \/ (damage[Here] = "data" /\ op.kind # "readtest")
      /\ op' = [op EXCEPT !.head = @ + 2, !.seen = @ \cup {Here}]
  BY DEF SkipTar, Readable
<1>3. /\ op \in Op /\ op.head \in Nat /\ Num \in Nat /\ Num >= 1 /\ op.head = 2 * Num
      /\ Len(Sessions) \in Nat /\ DOMAIN Sessions = 1..Len(Sessions)
  BY <1>2, Place
<1>4. Here = Sessions[Num].id /\ Here \in 1..MaxRuns
  BY <1>2, <1>3, Place DEF Here
<1>5. /\ op.seen \cup {Here} \in SUBSET (1..MaxRuns) /\ op.head + 2 \in Nat
  BY <1>1, <1>3, <1>4, OpFields
<1>6. op' \in Op
  BY <1>2, <1>3, <1>5, OpWith
<1>7. /\ op'.pc = "read" /\ op'.kind = op.kind /\ op'.c = op.c /\ op'.head = op.head + 2
      /\ op'.known = op.known /\ op'.gone = op.gone /\ op'.seen = op.seen \cup {Here}
      /\ op'.result = op.result
  BY <1>2, <1>3 DEF Op
<1>8. TypeOK' /\ CassettesInv' /\ RowsInv'
  BY <1>1, <1>6, FewerRowsInv DEF TypeOK
<1>9. /\ Under' = Under /\ Uuid' = Uuid /\ Nums(Uuid)' = Nums(Uuid) /\ Sessions' = Sessions
      /\ Num' = Num + 1
  BY <1>3, <1>7, Halves DEF Under, Uuid, Nums, Num, Sessions
<1>10. CommandInv' /\ BackupInv'
  BY <1>1, <1>2, <1>3, <1>7, <1>9 DEF CommandInv, BackupInv
<1>11. ASSUME op.kind = "rebuild" PROVE RebuildInv'
  <2>1. /\ op.gone \cap Nums(Uuid) = {} /\ op.known \ op.gone \subseteq Nums(Uuid)
        /\ \A m \in Nums(Uuid) \cup op.gone : m \in op.known \/ m < Num
        /\ \A n \in DOMAIN Sessions \ (op.gone \cup op.known) : n < Num => HasFiles(Uuid, n, Sessions[n].id)
        /\ op.result = "running"
    BY <1>1, <1>2, <1>11 DEF RebuildInv, CommandInv
  <2>2. \A m \in Nums(Uuid) \cup op.gone : m \in op.known \/ m < Num + 1
    BY <1>1, <1>3, <2>1, OpFields, RowFields DEF Nums
  <2>3. \A n \in DOMAIN Sessions \ (op.gone \cup op.known) :
          n < Num + 1 => HasFiles(Uuid, n, Sessions[n].id)
    BY <1>3, <1>11, <2>1
  <2>4. \A u, n, id : HasFiles(u, n, id)' = HasFiles(u, n, id)
    BY DEF HasFiles
  <2> QED
    BY <1>7, <1>9, <2>1, <2>2, <2>3, <2>4 DEF RebuildInv
<1>12. VouchInv'
  BY <1>1, <1>2, <1>3, <1>4, <1>7, <1>9 DEF VouchInv, CommandInv
<1> QED
  BY <1>7, <1>8, <1>10, <1>11, <1>12 DEF CatalogInv, RebuildInv

LEMMA SkipKnownStep == ASSUME CatalogInv, SkipKnown PROVE CatalogInv'
BY Skipped DEF SkipKnown

LEMMA CheckStep == ASSUME CatalogInv, Check PROVE CatalogInv'
BY Skipped DEF Check

LEMMA EndOfSessionsStep ==
  ASSUME CatalogInv, EndOfSessions
  PROVE  CatalogInv'
<1>1. TypeOK /\ CassettesInv /\ RowsInv /\ CommandInv /\ RebuildInv /\ VouchInv
  BY DEF CatalogInv
<1>2. /\ op.pc = "read" /\ Num > Len(Sessions) /\ UNCHANGED << tape, uuids, runs, damage, tapes, rows >>
      /\ op.result = "running" /\ op.kind \in {"rebuild", "readtest", "inspect"}
      /\ Under.label = "ours"
      /\ Finish("ok") \/ (op.kind = "readtest" /\ Go("swap"))
  BY <1>1 DEF EndOfSessions, AtEnd, CommandInv
<1>3. /\ Len(Sessions) \in Nat /\ DOMAIN Sessions = 1..Len(Sessions) /\ Num \in Nat
      /\ \A n \in DOMAIN Sessions : n < Num
  BY <1>2, Place
<1>4. /\ op' \in Op /\ op'.kind = op.kind /\ op'.c = op.c /\ op'.known = op.known
      /\ op'.gone = op.gone /\ op'.seen = op.seen
      /\ \/ op'.pc = "idle" /\ op'.result = "ok"
         \/ op'.pc = "swap" /\ op.kind = "readtest" /\ op'.result = "running"
  <2>1. CASE Finish("ok")
    BY <1>1, <2>1, FinishFields
  <2>2. CASE op.kind = "readtest" /\ Go("swap")
    BY <1>1, <1>2, <2>2, GoFields DEF PCs
  <2> QED
    BY <1>2, <2>1, <2>2
<1>5. TypeOK' /\ CassettesInv' /\ RowsInv'
  BY <1>1, <1>2, <1>4, FewerRowsInv DEF TypeOK
<1>6. /\ Under' = Under /\ Uuid' = Uuid /\ Nums(Uuid)' = Nums(Uuid) /\ Sessions' = Sessions
      /\ \A u, n, id : HasFiles(u, n, id)' = HasFiles(u, n, id)
  BY <1>2, <1>4 DEF Under, Uuid, Nums, Sessions, HasFiles
<1>7. CommandInv' /\ BackupInv'
  BY <1>2, <1>4, <1>6 DEF CommandInv, BackupInv
<1>8. RebuildInv'
  BY <1>1, <1>2, <1>3, <1>4, <1>6 DEF RebuildInv
<1>9. VouchInv'
  BY <1>1, <1>2, <1>3, <1>4, <1>6 DEF VouchInv
<1> QED
  BY <1>5, <1>7, <1>8, <1>9 DEF CatalogInv

LEMMA FollowStep ==
  ASSUME CatalogInv, NEW d \in Cassettes, Follow(d)
  PROVE  CatalogInv'
<1>1. TypeOK /\ CassettesInv /\ RowsInv /\ CommandInv /\ VouchInv
  BY DEF CatalogInv
<1>2. /\ op.pc = "swap" /\ op.kind = "readtest" /\ op.result = "running"
      /\ UNCHANGED << tape, uuids, runs, damage, tapes, rows >>
  BY <1>1 DEF Follow, CommandInv
<1>3. CASE Finish("failed")
  BY <1>2, <1>3, Stopped
<1>4. ASSUME tape[d].label = "ours", op' = [op EXCEPT !.pc = "read", !.c = d, !.head = 2]
      PROVE  CatalogInv'
  <2>1. op \in Op /\ "read" \in PCs /\ 2 \in Nat
    BY <1>1 DEF TypeOK, PCs
  <2>2. op' \in Op
    BY <1>4, <2>1, OpWith
  <2>3. /\ op'.pc = "read" /\ op'.kind = "readtest" /\ op'.c = d /\ op'.head = 2
        /\ op'.seen = op.seen /\ op'.result = "running"
    BY <1>2, <1>4, <2>1 DEF Op
  <2>4. TypeOK' /\ CassettesInv' /\ RowsInv'
    BY <1>1, <1>2, <2>2, FewerRowsInv DEF TypeOK
  <2>5. Under' = tape[d] /\ Num' = 1 /\ \A n \in DOMAIN Sessions' : ~(n < 1)
    BY <1>1, <1>2, <2>3, Halves, CassetteFields DEF Under, Num, Sessions
  <2>6. CommandInv' /\ BackupInv' /\ RebuildInv'
    BY <1>4, <2>3, <2>5 DEF CommandInv, BackupInv, RebuildInv
  <2>7. VouchInv'
    BY <1>1, <1>2, <2>3, <2>5 DEF VouchInv
  <2> QED
    BY <2>4, <2>6, <2>7 DEF CatalogInv
<1> QED
  BY <1>3, <1>4 DEF Follow

-----------------------------------------------------------------------------
(* Rebuilding a session.                                                   *)

LEMMA AddRowStep ==
  ASSUME CatalogInv, AddRow
  PROVE  CatalogInv'
<1>1. TypeOK /\ CassettesInv /\ RowsInv /\ CommandInv /\ RebuildInv
  BY DEF CatalogInv
<1>2. /\ op.kind = "rebuild" /\ op.pc = "read" /\ Num <= Len(Sessions) /\ Num \notin op.known
      /\ UNCHANGED << tape, uuids, runs, damage, tapes >>
      /\ op.result = "running" /\ Under.label = "ours"
  BY <1>1 DEF AddRow, Readable, CommandInv
<1>3. CASE Finish("failed") /\ UNCHANGED rows
  BY <1>2, <1>3, Stopped
<1>4. CASE Fails("db") /\ UNCHANGED rows
  BY <1>2, <1>4, Stopped DEF Fails
<1>5. ASSUME CanCreate(Uuid, Num), Go("save"), rows' = rows \cup {NewRow(Uuid, Num, Here)}
      PROVE  CatalogInv'
  <2>1. /\ op' \in Op /\ op'.pc = "save" /\ op'.kind = "rebuild" /\ op'.c = op.c
        /\ op'.head = op.head /\ op'.known = op.known /\ op'.gone = op.gone
        /\ op'.result = "running"
    BY <1>1, <1>2, <1>5, GoFields DEF PCs
  <2>2. /\ Len(Sessions) \in Nat /\ DOMAIN Sessions = 1..Len(Sessions) /\ Num \in Nat /\ Num >= 1
        /\ Here = Sessions[Num].id /\ Here \in 1..MaxRuns /\ Num <= Here /\ Here <= runs
        /\ Num \in 1..MaxRuns /\ Uuid \in 1..uuids /\ Uuid \in 1..MaxUuids /\ op.head = 2 * Num
        /\ tape[op.c].label = "ours"
    BY <1>2, Place DEF Here
  <2> DEFINE new == NewRow(Uuid, Num, Here)
  <2>3. /\ new \in Row /\ new.uuid = Uuid /\ new.num = Num /\ new.id = Here /\ new.at = Here /\ new.list = 0
    BY <2>2, CatalogAssumption DEF NewRow, Row
  <2>4. TypeOK'
    <3>1. TablesOK'
      BY <1>1, <1>2, <1>5, <2>2, AddedRow DEF TypeOK, TablesOK
    <3> QED
      BY <1>1, <1>2, <2>1, <3>1 DEF TypeOK, TablesOK
  <2> HIDE DEF new
  <2>5. rows' = rows \cup {new}
    BY <1>5 DEF new
  <2>6. CassettesInv'
    BY <1>1, <1>2 DEF CassettesInv
  <2>7. RowsInv'
    BY <1>1, <1>2, <2>2, <2>3, <2>5 DEF RowsInv, RowOK, Describes
  <2>8. /\ Under' = Under /\ Uuid' = Uuid /\ Nums(Uuid)' = Nums(Uuid) \cup {Num} /\ Sessions' = Sessions
        /\ Num' = Num /\ Num \notin Nums(Uuid) /\ Here' = Here
    <3>1. /\ Under' = Under /\ Uuid' = Uuid /\ Sessions' = Sessions /\ Num' = Num /\ Num \notin Nums(Uuid)
      BY <1>2, <1>5, <2>1 DEF Under, Uuid, Num, Sessions, CanCreate
    <3>2. Nums(Uuid)' = Nums(Uuid) \cup {Num}
      BY <2>3, <2>5, <3>1 DEF Nums
    <3> QED
      BY <3>1, <3>2 DEF Here
  <2>9. CommandInv' /\ BackupInv' /\ VouchInv'
    BY <1>2, <2>1, <2>2, <2>8 DEF CommandInv, BackupInv, VouchInv
  <2>10. /\ op.gone \cap Nums(Uuid) = {} /\ op.known \ op.gone \subseteq Nums(Uuid)
         /\ \A m \in Nums(Uuid) \cup op.gone : m \in op.known \/ m < Num
         /\ \A n \in DOMAIN Sessions \ (op.gone \cup op.known) : n < Num => HasFiles(Uuid, n, Sessions[n].id)
    BY <1>1, <1>2 DEF RebuildInv
  <2>11. Num \notin op.gone
    BY <1>2, <2>2, <2>10
  <2>12. \A n \in DOMAIN Sessions \ (op.gone \cup op.known) : n < Num => HasFiles(Uuid, n, Sessions[n].id)'
    BY <1>2, <2>1, <2>5, <2>8, <2>10 DEF HasFiles
  <2>13. \A r \in rows' : r.uuid = Uuid /\ r.num = Num => r.id = Here /\ r.list = 0
    BY <2>3, <2>5, <2>8 DEF Nums
  <2>14. RebuildInv'
    BY <1>2, <2>1, <2>2, <2>8, <2>10, <2>11, <2>12, <2>13 DEF RebuildInv
  <2> QED
    BY <2>4, <2>6, <2>7, <2>9, <2>14 DEF CatalogInv
<1> QED
  BY <1>3, <1>4, <1>5 DEF AddRow

\* The file list goes to the row of the session it is of.
LEMMA SavedRight ==
  ASSUME TypeOK, CassettesInv, RowsInv, NEW u \in 1..MaxUuids, NEW num \in Nat, NEW id \in 1..MaxRuns,
         \E c \in Cassettes :
           /\ tape[c].label = "ours" /\ tape[c].uuid = u
           /\ num <= Len(tape[c].sessions) /\ tape[c].sessions[num].id = id,
         \A r \in rows : r.uuid = u /\ r.num = num => r.id = id,
         SaveFiles(u, num, id), UNCHANGED << tape, uuids, runs, tapes >>
  PROVE  TablesOK' /\ RowsInv' /\ CassettesInv' /\ HasFiles(u, num, id)'
<1>0. PICK c \in Cassettes :
      /\ tape[c].label = "ours" /\ tape[c].uuid = u
      /\ num <= Len(tape[c].sessions) /\ tape[c].sessions[num].id = id
  OBVIOUS
<1>1. id \in 0..MaxRuns
  BY CatalogAssumption
<1>2. /\ \A q \in rows' : \E r \in rows :
           /\ q.uuid = r.uuid /\ q.num = r.num /\ q.id = r.id /\ q.at = r.at
           /\ q.list = IF r.uuid = u /\ r.num = num THEN id ELSE r.list
      /\ Nums(u)' = Nums(u) /\ num \in Nums(u)
  <2>1. rows' = Saved(u, num, id) /\ num \in Nums(u)
    BY <1>1, SavedRows
  <2>2. Nums(u)' = Nums(u)
    BY <1>1, SavedFiles
  <2> QED
    BY <1>1, <2>1, <2>2, SavedRows
<1>3. TablesOK'
  BY <1>1, SavedFiles
<1>4. CassettesInv'
  BY DEF CassettesInv
<1>5. ASSUME NEW q \in rows'
      PROVE  /\ RowOK(q)'
             /\ \A d \in Cassettes : q.list # 0 /\ tape[d].label = "ours" /\ tape[d].uuid = q.uuid => Describes(q, d)
  <2>1. PICK r \in rows :
          /\ q.uuid = r.uuid /\ q.num = r.num /\ q.id = r.id /\ q.at = r.at
          /\ q.list = IF r.uuid = u /\ r.num = num THEN id ELSE r.list
    BY <1>2
  <2>2. RowOK(r)
    BY DEF RowsInv
  <2>3. RowOK(q)'
    BY <2>1, <2>2 DEF RowOK
  <2>4. ASSUME NEW d \in Cassettes, q.list # 0, tape[d].label = "ours", tape[d].uuid = q.uuid
        PROVE  Describes(q, d)
    <3>1. CASE r.uuid = u /\ r.num = num
      BY <1>0, <2>1, <2>4, <3>1 DEF CassettesInv, Describes
    <3>2. CASE ~(r.uuid = u /\ r.num = num)
      BY <2>1, <2>4, <3>2 DEF RowsInv, Describes
    <3> QED
      BY <3>1, <3>2
  <2> QED
    BY <2>3, <2>4
<1>6. RowsInv'
  BY <1>5 DEF RowsInv, Describes
<1>7. HasFiles(u, num, id)'
  <2>1. PICK q \in rows' : q.uuid = u /\ q.num = num
    BY <1>2 DEF Nums
  <2>2. PICK r \in rows :
          /\ q.uuid = r.uuid /\ q.num = r.num /\ q.id = r.id /\ q.at = r.at
          /\ q.list = IF r.uuid = u /\ r.num = num THEN id ELSE r.list
    BY <1>2
  <2>3. q.id = id /\ q.at = id /\ q.list = id
    BY <2>1, <2>2 DEF RowsInv, RowOK
  <2>4. q \in Row
    BY <1>3 DEF TablesOK
  <2>5. q = [uuid |-> u, num |-> num, id |-> id, at |-> id, list |-> id]
    BY <2>1, <2>3, <2>4 DEF Row
  <2> QED
    BY <2>5 DEF HasFiles
<1> QED
  BY <1>3, <1>4, <1>6, <1>7

LEMMA AddFilesStep ==
  ASSUME CatalogInv, AddFiles
  PROVE  CatalogInv'
<1>1. TypeOK /\ CassettesInv /\ RowsInv /\ CommandInv /\ RebuildInv
  BY DEF CatalogInv
<1>2. /\ op.kind = "rebuild" /\ op.pc = "save" /\ Num <= Len(Sessions) /\ Num \notin op.known
      /\ UNCHANGED << tape, uuids, runs, damage, tapes >>
      /\ op.result = "running" /\ Under.label = "ours"
  BY <1>1 DEF AddFiles, CommandInv, RebuildInv
<1>3. CASE Finish("failed") /\ UNCHANGED rows
  BY <1>2, <1>3, Stopped
<1>4. CASE Fails("db") /\ UNCHANGED rows
  BY <1>2, <1>4, Stopped DEF Fails
<1>5. ASSUME SaveFiles(Uuid, Num, Here),
             op' = [op EXCEPT !.pc = "read", !.head = @ + 2, !.seen = @ \cup {Here}]
      PROVE  CatalogInv'
  <2>1. /\ op \in Op /\ op.c \in Cassettes
        /\ Len(Sessions) \in Nat /\ DOMAIN Sessions = 1..Len(Sessions) /\ Num \in Nat /\ Num >= 1
        /\ Here = Sessions[Num].id /\ Here \in 1..MaxRuns
        /\ op.head = 2 * Num /\ op.head \in Nat
        /\ tape[op.c].label = "ours" /\ Uuid = tape[op.c].uuid /\ Sessions = tape[op.c].sessions
    BY <1>2, Place DEF Here
  <2>2. op.seen \cup {Here} \in SUBSET (1..MaxRuns) /\ op.head + 2 \in Nat /\ "read" \in PCs
    BY <1>1, <2>1, OpFields DEF PCs
  <2>3. op' \in Op
    BY <1>5, <2>1, <2>2, OpWith
  <2>4. /\ op'.pc = "read" /\ op'.kind = "rebuild" /\ op'.c = op.c /\ op'.head = op.head + 2
        /\ op'.known = op.known /\ op'.gone = op.gone /\ op'.result = "running"
    BY <1>2, <1>5, <2>1 DEF Op
  <2> PICK u, k, h : u = Uuid /\ k = Num /\ h = Here
    OBVIOUS
  <2>a. u \in 1..MaxUuids /\ k \in Nat /\ h \in 1..MaxRuns /\ h \in 0..MaxRuns /\ SaveFiles(u, k, h)
    <3>1. u \in 1..MaxUuids
      BY <1>2, <2>1, Place
    <3> QED
      BY <1>5, <2>1, <3>1
  <2>5. TablesOK' /\ RowsInv' /\ CassettesInv' /\ HasFiles(u, k, h)'
    <3>1. \A r \in rows : r.uuid = u /\ r.num = k => r.id = h
      BY <1>1, <1>2 DEF RebuildInv
    <3>2. /\ u \in 1..MaxUuids /\ k \in Nat /\ h \in 1..MaxRuns /\ SaveFiles(u, k, h)
          /\ \E c \in Cassettes :
               /\ tape[c].label = "ours" /\ tape[c].uuid = u
               /\ k <= Len(tape[c].sessions) /\ tape[c].sessions[k].id = h
      BY <1>2, <2>1, <2>a
    <3> QED
      BY <1>1, <1>2, <3>1, <3>2, SavedRight, SMTT(40)
  <2>6. TypeOK'
    BY <1>1, <1>2, <2>3, <2>5 DEF TypeOK, TablesOK
  <2>7. Nums(u)' = Nums(u) /\ \A r \in rows : r.num # k => r \in rows'
    <3>1. Nums(u)' = Nums(u) /\ rows' = Saved(u, k, h)
      BY <1>1, <2>a, SavedFiles, SavedRows
    <3> QED
      BY <1>1, <2>a, <3>1, SavedRows
  <2>8. /\ Under' = Under /\ Uuid' = Uuid /\ Sessions' = Sessions /\ Num' = Num + 1
        /\ Nums(Uuid)' = Nums(Uuid)
    <3>1. Under' = Under /\ Uuid' = Uuid /\ Sessions' = Sessions /\ Num' = Num + 1
      BY <1>2, <2>1, <2>4, Halves DEF Under, Uuid, Num, Sessions
    <3>2. \A v : v = Uuid => Nums(v)' = Nums(v)
      BY <2>7
    <3> QED
      BY <2>7, <3>1 DEF Nums
  <2>9. CommandInv' /\ BackupInv' /\ VouchInv'
    <3>1. op'.head = 2 * Num' /\ Num' >= 1 /\ Under'.label = "ours"
      BY <1>2, <2>1, <2>4, <2>8
    <3>2. CommandInv'
      BY <2>4, <3>1 DEF CommandInv
    <3> QED
      BY <2>4, <3>2 DEF BackupInv, VouchInv
  <2>10. /\ op.gone \cap Nums(Uuid) = {} /\ op.known \ op.gone \subseteq Nums(Uuid)
         /\ \A m \in Nums(Uuid) \cup op.gone : m \in op.known \/ m < Num \/ m = Num
         /\ \A n \in DOMAIN Sessions \ (op.gone \cup op.known) : n < Num => HasFiles(Uuid, n, Sessions[n].id)
    BY <1>1, <1>2 DEF RebuildInv
  <2>11. \A m \in Nums(Uuid) \cup op.gone : m \in op.known \/ m < Num + 1
    <3>1. \A m \in Nums(Uuid) \cup op.gone : m \in 1..MaxRuns
      BY <1>1, OpFields, RowFields DEF Nums
    <3> QED
      BY <2>1, <2>10, <3>1, CatalogAssumption
  <2>12. ASSUME NEW n \in DOMAIN Sessions \ (op.gone \cup op.known), n < Num + 1
         PROVE  HasFiles(Uuid, n, Sessions[n].id)'
    <3>1. CASE n = k
      BY <2>1, <2>5, <2>8, <3>1 DEF HasFiles
    <3>2. CASE n # k
      <4>1. n < Num
        BY <2>1, <2>12, <3>2
      <4>2. [uuid |-> Uuid, num |-> n, id |-> Sessions[n].id, at |-> Sessions[n].id, list |-> Sessions[n].id] \in rows
        BY <2>10, <4>1 DEF HasFiles
      <4> QED
        BY <2>7, <2>8, <3>2, <4>2 DEF HasFiles
    <3> QED
      BY <3>1, <3>2
  <2>13. RebuildInv'
    BY <1>2, <2>4, <2>8, <2>10, <2>11, <2>12 DEF RebuildInv
  <2> QED
    BY <2>5, <2>6, <2>9, <2>13 DEF CatalogInv
<1>6. ASSUME SaveNothing(Uuid, Num),
             op' = [op EXCEPT !.pc = "read", !.head = @ + 2, !.seen = @ \cup {Here}]
      PROVE  CatalogInv'
  <2>1. /\ op \in Op /\ op.c \in Cassettes
        /\ Len(Sessions) \in Nat /\ DOMAIN Sessions = 1..Len(Sessions) /\ Num \in Nat /\ Num >= 1
        /\ Here \in 1..MaxRuns /\ op.head = 2 * Num /\ op.head \in Nat
    BY <1>2, Place DEF Here
  <2>2. op.seen \cup {Here} \in SUBSET (1..MaxRuns) /\ op.head + 2 \in Nat /\ "read" \in PCs
    BY <1>1, <2>1, OpFields DEF PCs
  <2>3. op' \in Op
    BY <1>6, <2>1, <2>2, OpWith
  <2>4. /\ op'.pc = "read" /\ op'.kind = "rebuild" /\ op'.c = op.c /\ op'.head = op.head + 2
        /\ op'.known = op.known /\ op'.gone = op.gone /\ op'.result = "running"
    BY <1>2, <1>6, <2>1 DEF Op
  <2>5. rows' = rows /\ Num \notin Nums(Uuid)
    BY <1>6 DEF SaveNothing
  <2>6. TypeOK' /\ CassettesInv' /\ RowsInv'
    BY <1>1, <1>2, <2>3, <2>5, FewerRowsInv DEF TypeOK
  <2>7. /\ Under' = Under /\ Uuid' = Uuid /\ Nums(Uuid)' = Nums(Uuid) /\ Sessions' = Sessions
        /\ Num' = Num + 1 /\ \A u, n, id : HasFiles(u, n, id)' = HasFiles(u, n, id)
    BY <1>2, <2>1, <2>4, <2>5, Halves DEF Under, Uuid, Nums, Num, Sessions, HasFiles
  <2>8. CommandInv' /\ BackupInv' /\ VouchInv'
    <3>1. op'.head = 2 * Num' /\ Num' >= 1 /\ Under'.label = "ours"
      BY <1>2, <2>1, <2>4, <2>7
    <3> QED
      BY <2>4, <3>1 DEF CommandInv, BackupInv, VouchInv
  <2>9. /\ op.gone \cap Nums(Uuid) = {} /\ op.known \ op.gone \subseteq Nums(Uuid)
        /\ \A m \in Nums(Uuid) \cup op.gone : m \in op.known \/ m < Num \/ m = Num
        /\ \A n \in DOMAIN Sessions \ (op.gone \cup op.known) : n < Num => HasFiles(Uuid, n, Sessions[n].id)
        /\ Num \in op.gone
    BY <1>1, <1>2, <2>5 DEF RebuildInv
  <2>10. \A m \in Nums(Uuid) \cup op.gone : m \in op.known \/ m < Num + 1
    <3>1. \A m \in Nums(Uuid) \cup op.gone : m \in 1..MaxRuns
      BY <1>1, OpFields, RowFields DEF Nums
    <3> QED
      BY <2>1, <2>9, <3>1, CatalogAssumption
  <2>11. \A n \in DOMAIN Sessions \ (op.gone \cup op.known) :
           n < Num + 1 => HasFiles(Uuid, n, Sessions[n].id)
    BY <2>1, <2>9
  <2>12. RebuildInv'
    BY <1>2, <2>4, <2>7, <2>9, <2>10, <2>11 DEF RebuildInv
  <2> QED
    BY <2>6, <2>8, <2>12 DEF CatalogInv
<1> QED
  BY <1>3, <1>4, <1>5, <1>6 DEF AddFiles, SaveNothing

-----------------------------------------------------------------------------
(* Deletions and the loss of the database.                                 *)

LEMMA DeletedStep ==
  ASSUME CatalogInv, NEW gone \in SUBSET rows, Deleted(gone)
  PROVE  CatalogInv'
<1>1. TypeOK /\ CassettesInv /\ RowsInv /\ CommandInv /\ BackupInv /\ RebuildInv /\ VouchInv
  BY DEF CatalogInv
<1> DEFINE nums == {r.num : r \in {s \in gone : op.kind = "rebuild" /\ s.uuid = Uuid}}
<1>2. /\ rows' = rows \ gone /\ UNCHANGED << tape, uuids, runs, damage, tapes >>
      /\ op' = [op EXCEPT !.gone = @ \cup nums]
  BY DEF Deleted
<1>3. /\ op \in Op /\ nums \in SUBSET (1..MaxRuns) /\ op.gone \in SUBSET (1..MaxRuns)
      /\ \A m \in nums : \E r \in gone : r.uuid = Uuid /\ r.num = m
      /\ op.kind = "rebuild" => \A r \in gone : r.uuid = Uuid => r.num \in nums
  BY <1>1, OpFields, RowFields
<1> HIDE DEF nums
<1>4. op.gone \cup nums \in SUBSET (1..MaxRuns)
  BY <1>3
<1>5. op' \in Op
  BY <1>2, <1>3, <1>4, OpWith
<1>6. /\ op'.pc = op.pc /\ op'.kind = op.kind /\ op'.c = op.c /\ op'.head = op.head
      /\ op'.known = op.known /\ op'.gone = op.gone \cup nums /\ op'.seen = op.seen
      /\ op'.result = op.result /\ op'.name = op.name
  BY <1>2, <1>3 DEF Op
<1>7. TypeOK'
  <2>1. TablesOK'
    BY <1>1, <1>2, FewerRows DEF TypeOK, TablesOK
  <2> QED
    BY <1>1, <1>2, <1>5, <2>1 DEF TypeOK, TablesOK
<1>8. CassettesInv' /\ RowsInv'
  BY <1>1, <1>2, FewerRowsInv
<1>9. /\ Under' = Under /\ Uuid' = Uuid /\ Sessions' = Sessions /\ Num' = Num /\ Here' = Here
      /\ Registered(Uuid)' = Registered(Uuid)
  BY <1>2, <1>6 DEF Under, Uuid, Sessions, Num, Here, Registered
<1>10. CommandInv' /\ VouchInv'
  BY <1>1, <1>2, <1>6, <1>9 DEF CommandInv, VouchInv
<1>11. BackupInv'
  BY <1>1, <1>2, <1>6, <1>9 DEF BackupInv
<1>12. ASSUME op.kind = "rebuild" PROVE RebuildInv'
  <2>1. /\ Nums(Uuid)' \subseteq Nums(Uuid) /\ Nums(Uuid) \subseteq Nums(Uuid)' \cup nums
        /\ nums \subseteq Nums(Uuid) /\ nums \cap Nums(Uuid)' = {}
    <3>1. Nums(Uuid)' \subseteq Nums(Uuid) /\ nums \subseteq Nums(Uuid)
      BY <1>2, <1>3, <1>9 DEF Nums
    <3>2. Nums(Uuid) \subseteq Nums(Uuid)' \cup nums
      BY <1>2, <1>3, <1>9, <1>12 DEF Nums
    <3>3. ASSUME NEW m \in nums, m \in Nums(Uuid)' PROVE FALSE
      <4>1. PICK r \in gone : r.uuid = Uuid /\ r.num = m
        BY <1>3
      <4>2. PICK s \in rows' : s.uuid = Uuid /\ s.num = m
        BY <1>9, <3>3 DEF Nums
      <4>3. r = s
        BY <1>1, <1>2, <4>1, <4>2 DEF TypeOK
      <4> QED
        BY <1>2, <4>1, <4>2, <4>3
    <3> QED
      BY <3>1, <3>2, <3>3
  <2>2. ASSUME NEW n, n \notin nums, NEW id, HasFiles(Uuid, n, id) PROVE HasFiles(Uuid, n, id)'
    <3> DEFINE r == [uuid |-> Uuid, num |-> n, id |-> id, at |-> id, list |-> id]
    <3>1. r \in rows /\ r.uuid = Uuid /\ r.num = n
      BY <2>2 DEF HasFiles
    <3>2. r \in rows'
      BY <1>2, <1>3, <1>12, <2>2, <3>1
    <3> QED
      BY <1>9, <3>2 DEF HasFiles
  <2>3. op.gone \cap Nums(Uuid) = {}
    BY <1>1, <1>12 DEF RebuildInv
  <2>4. op.pc \in {"read", "save"} \/ op.result = "ok" => op.known \ (op.gone \cup nums) \subseteq Nums(Uuid)'
    BY <1>1, <1>12, <2>1 DEF RebuildInv
  <2>5. op.pc \in {"read", "save"} =>
          \A m \in Nums(Uuid)' \cup (op.gone \cup nums) :
            m \in op.known \/ m < Num \/ (op.pc = "save" /\ m = Num)
    BY <1>1, <1>12, <2>1 DEF RebuildInv
  <2>6. op.pc \in {"read", "save"} =>
          \A n \in DOMAIN Sessions \ (op.gone \cup nums \cup op.known) :
            n < Num => HasFiles(Uuid, n, Sessions[n].id)'
    <3> SUFFICES ASSUME op.pc \in {"read", "save"},
                        NEW n \in DOMAIN Sessions \ (op.gone \cup nums \cup op.known), n < Num
                 PROVE  HasFiles(Uuid, n, Sessions[n].id)'
      OBVIOUS
    <3>1. HasFiles(Uuid, n, Sessions[n].id) /\ n \notin nums
      BY <1>1, <1>12 DEF RebuildInv
    <3>2. PICK id : id = Sessions[n].id
      OBVIOUS
    <3>3. HasFiles(Uuid, n, id)'
      BY <2>2, <3>1, <3>2
    <3> QED
      BY <1>9, <3>2, <3>3
  <2>7. op.pc = "save" =>
          /\ Num <= Len(Sessions) /\ Num \notin op.known
          /\ Num \in Nums(Uuid)' \cup (op.gone \cup nums)
          /\ \A r \in rows' : r.uuid = Uuid /\ r.num = Num => r.id = Here /\ r.list = 0
    BY <1>1, <1>2, <1>12, <2>1 DEF RebuildInv
  <2>8. op.result = "ok" =>
          \A n \in DOMAIN Sessions \ (op.gone \cup nums \cup op.known) : HasFiles(Uuid, n, Sessions[n].id)'
    <3> SUFFICES ASSUME op.result = "ok", NEW n \in DOMAIN Sessions \ (op.gone \cup nums \cup op.known)
                 PROVE  HasFiles(Uuid, n, Sessions[n].id)'
      OBVIOUS
    <3>1. HasFiles(Uuid, n, Sessions[n].id) /\ n \notin nums
      BY <1>1, <1>12 DEF RebuildInv
    <3>2. PICK id : id = Sessions[n].id
      OBVIOUS
    <3>3. HasFiles(Uuid, n, id)'
      BY <2>2, <3>1, <3>2
    <3> QED
      BY <1>9, <3>2, <3>3
  <2> QED
    BY <1>6, <1>9, <2>1, <2>3, <2>4, <2>5, <2>6, <2>7, <2>8 DEF RebuildInv
<1> QED
  BY <1>6, <1>7, <1>8, <1>10, <1>11, <1>12 DEF CatalogInv, RebuildInv

LEMMA LoseCatalogStep ==
  ASSUME CatalogInv, LoseCatalog
  PROVE  CatalogInv'
<1>1. TypeOK /\ CassettesInv /\ RowsInv
  BY DEF CatalogInv
<1>2. /\ op.c \in Cassettes /\ tapes' = {} /\ rows' = {} /\ op' = Idle(op.c)
      /\ UNCHANGED << tape, uuids, runs, damage >>
  BY Place DEF LoseCatalog
<1>3. op' \in Op /\ op'.pc = "idle" /\ op'.kind = "none"
  BY <1>2, IdleType DEF Idle
<1>4. TypeOK' /\ CassettesInv' /\ RowsInv'
  BY <1>1, <1>2, <1>3, FewerRowsInv DEF TypeOK
<1>5. CommandInv' /\ BackupInv' /\ RebuildInv' /\ VouchInv'
  BY <1>3 DEF CommandInv, BackupInv, RebuildInv, VouchInv
<1> QED
  BY <1>4, <1>5 DEF CatalogInv

-----------------------------------------------------------------------------
(* Writing a session.                                                      *)

SessionRecords == [id : 1..MaxRuns, from : 0..MaxUuids]

LEMMA LongerDamage ==
  ASSUME NEW n \in Nat, NEW D, NEW f \in [1..n -> D], NEW d \in D
  PROVE  Append(f, d) \in [1..(n + 1) -> D]
<1>1. f \in Seq(D)
  BY SeqDef
<1>2. Len(f) = n
  BY <1>1, LenProperties
<1>3. Append(f, d) \in Seq(D) /\ Len(Append(f, d)) = n + 1
  BY <1>1, <1>2, AppendProperties
<1> QED
  BY <1>3, LenProperties

LEMMA CreateRowStep ==
  ASSUME CatalogInv, CreateRow
  PROVE  CatalogInv'
<1>1. TypeOK /\ CassettesInv /\ RowsInv /\ CommandInv
  BY DEF CatalogInv
<1>2. /\ op.pc = "create" /\ op.kind = "backup" /\ op.result = "running" /\ runs < MaxRuns
      /\ Under.label = "ours" /\ Registered(Uuid)
      /\ UNCHANGED << tape, uuids, tapes >> /\ runs' = runs + 1
      /\ op' = [op EXCEPT !.pc = "write", !.head = 2 * (LastNum(Uuid) + 1)]
      /\ rows' = rows \cup {NewRow(Uuid, LastNum(Uuid) + 1, runs + 1)}
      /\ damage' = Append(damage, "none")
  BY <1>1 DEF CreateRow, CommandInv
<1>3. /\ op \in Op /\ op.c \in Cassettes /\ runs \in 0..MaxRuns /\ MaxRuns \in Nat
      /\ uuids \in 0..MaxUuids /\ MaxUuids \in Nat /\ Uuid \in 1..uuids /\ Uuid \in 1..MaxUuids
  BY <1>2, Place
<1>4. PICK n, u : n = LastNum(Uuid) + 1 /\ u = Uuid
  OBVIOUS
<1>5. /\ n \in 1..MaxRuns /\ n <= runs + 1 /\ u \in 1..MaxUuids
      /\ \A m \in Nums(u) : m < n
  <2>1. /\ LastNum(u) \in 0..runs
        /\ \A m \in Nums(u) : m <= LastNum(u)
    BY <1>1, <1>3, <1>4, LastNumIs
  <2>2. \A m \in Nums(u) : m \in 1..MaxRuns
    BY <1>1, RowFields DEF Nums
  <2> QED
    BY <1>2, <1>3, <1>4, <2>1, <2>2
<1>6. /\ op' \in Op /\ op'.pc = "write" /\ op'.kind = "backup" /\ op'.c = op.c /\ op'.head = 2 * n
      /\ op'.result = "running"
  <2>1. "write" \in PCs /\ 2 * n \in Nat
    BY <1>5 DEF PCs
  <2>2. op' \in Op
    BY <1>2, <1>3, <1>4, <2>1, OpWith
  <2> QED
    BY <1>2, <1>3, <1>4, <2>1, <2>2 DEF Op
<1> PICK new : new = NewRow(u, n, runs + 1)
  OBVIOUS
<1>7. /\ new \in Row /\ new.uuid = u /\ new.num = n /\ new.id = runs + 1 /\ new.at = runs + 1
      /\ new.list = 0 /\ runs + 1 \in 1..MaxRuns
  BY <1>2, <1>3, <1>5 DEF NewRow, Row
<1>8. TablesOK'
  <2>1. CanCreate(u, n)
    <3>1. Registered(u) /\ n \notin Nums(u)
      BY <1>2, <1>4, <1>5
    <3> QED
      BY <3>1 DEF CanCreate
  <2>2. rows' = rows \cup {NewRow(u, n, runs + 1)}
    BY <1>2, <1>4
  <2>3. TablesOK
    BY <1>1 DEF TypeOK, TablesOK
  <2> QED
    BY <1>2, <1>5, <1>7, <2>1, <2>2, <2>3, AddedRow
<1>9. rows' = rows \cup {new}
  BY <1>2, <1>4
<1>10. TypeOK'
  <2>1. damage' \in [1..runs' -> DamageKinds \cup {"none"}]
    <3> DEFINE D == DamageKinds \cup {"none"}
    <3>1. damage \in [1..runs -> D] /\ "none" \in D /\ runs \in Nat
      BY <1>1, <1>3 DEF TypeOK
    <3> HIDE DEF D
    <3>2. Append(damage, "none") \in [1..(runs + 1) -> D]
      BY <3>1, LongerDamage
    <3> QED
      BY <1>2, <3>2 DEF D
  <2> QED
    BY <1>1, <1>2, <1>3, <1>6, <1>8, <2>1 DEF TypeOK, TablesOK
<1>11. CassettesInv'
  <2>1. \A c \in Cassettes : \A i \in DOMAIN tape[c].sessions :
          i <= tape[c].sessions[i].id /\ tape[c].sessions[i].id <= runs + 1
    <3> SUFFICES ASSUME NEW c \in Cassettes, NEW i \in DOMAIN tape[c].sessions
                 PROVE  i <= tape[c].sessions[i].id /\ tape[c].sessions[i].id <= runs + 1
      OBVIOUS
    <3>1. tape[c].sessions[i].id \in 1..MaxRuns
      BY <1>1, CassetteFields
    <3> QED
      BY <1>1, <1>3, <3>1 DEF CassettesInv
  <2> QED
    BY <1>1, <1>2, <2>1 DEF CassettesInv
<1>12. RowsInv'
  <2>1. \A r \in rows : RowOK(r)'
    <3> TAKE r \in rows
    <3>1. RowOK(r) /\ r.id \in 1..MaxRuns
      BY <1>1, RowFields DEF RowsInv
    <3> QED
      BY <1>2, <1>3, <3>1 DEF RowOK
  <2>2. RowOK(new)'
    BY <1>2, <1>3, <1>4, <1>5, <1>7 DEF RowOK
  <2> QED
    BY <1>1, <1>2, <1>7, <1>9, <2>1, <2>2 DEF RowsInv, Describes
<1>13. /\ Under' = Under /\ Uuid' = u /\ Num' = n /\ Registered(Uuid)'
  BY <1>2, <1>4, <1>5, <1>6, Halves DEF Under, Uuid, Num, Registered
<1>14. CommandInv'
  BY <1>2, <1>5, <1>6, <1>13 DEF CommandInv
<1>15. BackupInv'
  <2>1. ASSUME NEW r \in rows', r.uuid = u
        PROVE  r.num <= n /\ (r.num = n => r.id = runs + 1 /\ r.list = 0)
    <3>1. CASE r \in rows
      BY <1>1, <1>5, <2>1, <3>1, RowFields DEF Nums
    <3>2. CASE r = new
      BY <1>5, <1>7, <3>2
    <3> QED
      BY <1>9, <3>1, <3>2
  <2> QED
    BY <1>2, <1>5, <1>6, <1>13, <2>1 DEF BackupInv
<1>16. RebuildInv' /\ VouchInv'
  BY <1>6 DEF RebuildInv, VouchInv
<1> QED
  BY <1>10, <1>11, <1>12, <1>14, <1>15, <1>16 DEF CatalogInv

\* A cassette whose end is overwritten, with the session or with nothing.
LEMMA BehindIs ==
  ASSUME CatalogInv, op.pc \in {"write", "files"}, Num <= Len(Sessions) + 1,
         tape' = Behind(<< >>) \/ tape' = Behind(New)
  PROVE  /\ tape' \in [Cassettes -> Medium]
         /\ \A c \in Cassettes : c # op.c => tape'[c] = tape[c]
         /\ tape'[op.c].label = tape[op.c].label /\ tape'[op.c].uuid = tape[op.c].uuid
         /\ tape'[op.c].name = tape[op.c].name
         /\ LET m == tape'[op.c].sessions IN
              /\ Len(m) \in Nat /\ DOMAIN m = 1..Len(m) /\ Len(m) <= Num /\ Len(m) >= Num - 1
              /\ \A i \in 1..Len(m) : i < Num => i <= Len(Sessions) /\ m[i] = Sessions[i]
              /\ Num <= Len(m) => m[Num].id = runs
              /\ tape' = Behind(New) => Len(m) = Num
<1>1. TypeOK /\ BackupInv
  BY DEF CatalogInv
<1>2. /\ op.c \in Cassettes /\ Num \in Nat /\ Num >= 1 /\ Sessions = tape[op.c].sessions
      /\ Len(Sessions) \in Nat /\ runs \in 0..MaxRuns /\ MaxRuns \in Nat /\ Num <= runs
  BY <1>1, Place DEF BackupInv
<1>3. tape \in [Cassettes -> Medium] /\ tape[op.c] \in Medium /\ Sessions \in Seq(SessionRecords)
  BY <1>1, <1>2, CassetteFields DEF TypeOK, SessionRecords
<1> DEFINE q == SubSeq(Sessions, 1, Num - 1)
<1>4. /\ q \in Seq(SessionRecords) /\ Len(q) = Num - 1
      /\ \A i \in 1..(Num - 1) : q[i] = Sessions[i] /\ i <= Len(Sessions)
  <2>1. \A i \in 1..(Num - 1) : Sessions[i] \in SessionRecords
    BY <1>2, <1>3, ElementOfSeq
  <2> QED
    BY <1>2, <2>1, SubSeqProperties
<1> HIDE DEF q
<1>5. New \in Seq(SessionRecords) /\ Len(New) = 1 /\ New[1].id = runs
  BY <1>2, CatalogAssumption DEF New, SessionRecords
<1>6. << >> \in Seq(SessionRecords) /\ Len(<< >>) = 0
  BY EmptySeq
<1>7. ASSUME NEW s \in Seq(SessionRecords), Len(s) \in {0, 1}, Len(s) = 1 => s[1].id = runs,
             tape' = Behind(s)
      PROVE  /\ tape' \in [Cassettes -> Medium]
             /\ \A c \in Cassettes : c # op.c => tape'[c] = tape[c]
             /\ tape'[op.c].label = tape[op.c].label /\ tape'[op.c].uuid = tape[op.c].uuid
             /\ tape'[op.c].name = tape[op.c].name
             /\ tape'[op.c].sessions = q \o s
             /\ q \o s \in Seq(SessionRecords) /\ Len(q \o s) = Num - 1 + Len(s)
             /\ \A i \in 1..(Num - 1) : (q \o s)[i] = Sessions[i] /\ i <= Len(Sessions)
             /\ Len(s) = 1 => (q \o s)[Num].id = runs
  <2>1. /\ q \o s \in Seq(SessionRecords) /\ Len(q \o s) = Num - 1 + Len(s)
        /\ \A i \in 1..(Num - 1) : (q \o s)[i] = Sessions[i] /\ i <= Len(Sessions)
        /\ Len(s) = 1 => (q \o s)[Num].id = runs
    <3>1. /\ q \o s \in Seq(SessionRecords) /\ Len(q \o s) = Num - 1 + Len(s)
          /\ \A i \in 1..(Num - 1 + Len(s)) : (q \o s)[i] = IF i <= Num - 1 THEN q[i] ELSE s[i - (Num - 1)]
      <4>1. /\ q \o s \in Seq(SessionRecords) /\ Len(q \o s) = Len(q) + Len(s)
            /\ \A i \in 1..Len(q) + Len(s) : (q \o s)[i] = IF i <= Len(q) THEN q[i] ELSE s[i - Len(q)]
        BY <1>4, <1>7, ConcatProperties, ZenonT(60)
      <4> QED
        BY <1>4, <4>1
    <3>2. \A i \in 1..(Num - 1) : (q \o s)[i] = Sessions[i] /\ i <= Len(Sessions)
      BY <1>2, <1>4, <1>7, <3>1, SMTT(60)
    <3>3. ASSUME Len(s) = 1 PROVE (q \o s)[Num].id = runs
      <4>1. Num - (Num - 1) = 1 /\ Num \in 1..(Num - 1 + Len(s)) /\ ~(Num <= Num - 1)
        BY <1>2, <3>3
      <4>2. (q \o s)[Num] = s[1]
        BY <3>1, <4>1
      <4> QED
        BY <1>7, <3>3, <4>2
    <3> QED
      BY <3>1, <3>2, <3>3
  <2> DEFINE p == q \o s
  <2> HIDE DEF p
  <2>2. tape' = [tape EXCEPT ![op.c] = [@ EXCEPT !.sessions = p, !.next = NoName]]
    BY <1>2, <1>3, <1>7 DEF Behind, q, p
  <2>3. p \in Seq([id : 1..MaxRuns, from : 0..MaxUuids])
    BY <2>1 DEF p, SessionRecords
  <2>4. LET m == [tape[op.c] EXCEPT !.sessions = p, !.next = NoName] IN
          /\ m \in Medium /\ m.label = tape[op.c].label /\ m.uuid = tape[op.c].uuid
          /\ m.name = tape[op.c].name /\ m.sessions = p
    BY <1>3, <2>3 DEF Medium
  <2>5. tape'[op.c] = [tape[op.c] EXCEPT !.sessions = p, !.next = NoName]
    BY <1>2, <1>3, <2>2
  <2>6. /\ tape' \in [Cassettes -> Medium]
        /\ \A c \in Cassettes : c # op.c => tape'[c] = tape[c]
    BY <1>2, <1>3, <2>2, <2>4
  <2> QED
    BY <2>1, <2>4, <2>5, <2>6 DEF p
<1> DEFINE m == tape'[op.c].sessions
<1>8. CASE tape' = Behind(New)
  <2> PICK s : s = New
    OBVIOUS
  <2>0. s \in Seq(SessionRecords) /\ Len(s) = 1 /\ s[1].id = runs /\ tape' = Behind(s)
    BY <1>5, <1>8
  <2>1. /\ tape' \in [Cassettes -> Medium]
        /\ \A c \in Cassettes : c # op.c => tape'[c] = tape[c]
        /\ tape'[op.c].label = tape[op.c].label /\ tape'[op.c].uuid = tape[op.c].uuid
        /\ tape'[op.c].name = tape[op.c].name
        /\ m \in Seq(SessionRecords) /\ Len(m) = Num
        /\ \A i \in 1..(Num - 1) : m[i] = Sessions[i] /\ i <= Len(Sessions)
        /\ m[Num].id = runs
    <3>1. /\ tape' \in [Cassettes -> Medium]
          /\ \A c \in Cassettes : c # op.c => tape'[c] = tape[c]
          /\ tape'[op.c].label = tape[op.c].label /\ tape'[op.c].uuid = tape[op.c].uuid
          /\ tape'[op.c].name = tape[op.c].name
          /\ m = q \o s
      BY <1>7, <2>0
    <3>2. /\ q \o s \in Seq(SessionRecords) /\ Len(q \o s) = Num - 1 + Len(s)
          /\ \A i \in 1..(Num - 1) : (q \o s)[i] = Sessions[i] /\ i <= Len(Sessions)
          /\ Len(s) = 1 => (q \o s)[Num].id = runs
      BY <1>7, <2>0
    <3> HIDE DEF m
    <3> QED
      BY <1>2, <2>0, <3>1, <3>2
  <2>2. DOMAIN m = 1..Len(m)
    BY <2>1, LenProperties
  <2> QED
    BY <1>2, <2>1, <2>2
<1>9. CASE tape' = Behind(<< >>) /\ tape' # Behind(New)
  <2> PICK s : s = << >>
    OBVIOUS
  <2>0. /\ s \in Seq(SessionRecords) /\ Len(s) = 0 /\ tape' = Behind(s)
        /\ Len(s) \in {0, 1} /\ (Len(s) = 1 => s[1].id = runs)
    BY <1>6, <1>9
  <2>1. /\ tape' \in [Cassettes -> Medium]
        /\ \A c \in Cassettes : c # op.c => tape'[c] = tape[c]
        /\ tape'[op.c].label = tape[op.c].label /\ tape'[op.c].uuid = tape[op.c].uuid
        /\ tape'[op.c].name = tape[op.c].name
        /\ m \in Seq(SessionRecords) /\ Len(m) = Num - 1
        /\ \A i \in 1..(Num - 1) : m[i] = Sessions[i] /\ i <= Len(Sessions)
    <3>1. /\ tape' \in [Cassettes -> Medium]
          /\ \A c \in Cassettes : c # op.c => tape'[c] = tape[c]
          /\ tape'[op.c].label = tape[op.c].label /\ tape'[op.c].uuid = tape[op.c].uuid
          /\ tape'[op.c].name = tape[op.c].name
          /\ m = q \o s
      BY <1>7, <2>0
    <3>2. /\ q \o s \in Seq(SessionRecords) /\ Len(q \o s) = Num - 1 + Len(s)
          /\ \A i \in 1..(Num - 1) : (q \o s)[i] = Sessions[i] /\ i <= Len(Sessions)
          /\ Len(s) = 1 => (q \o s)[Num].id = runs
      BY <1>7, <2>0
    <3> HIDE DEF m
    <3> QED
      BY <1>2, <2>0, <3>1, <3>2
  <2>2. DOMAIN m = 1..Len(m)
    BY <2>1, LenProperties
  <2> QED
    BY <1>2, <1>9, <2>1, <2>2
<1> QED
  BY <1>8, <1>9

LEMMA BehindKeeps ==
  ASSUME CatalogInv, op.pc \in {"write", "files"}, Num <= Len(Sessions) + 1,
         tape' = Behind(<< >>) \/ tape' = Behind(New),
         rows' \subseteq rows, UNCHANGED << uuids, runs >>
  PROVE  CassettesInv' /\ RowsInv'
<1> DEFINE m == tape'[op.c].sessions
<1>1. CassettesInv /\ RowsInv /\ BackupInv /\ TypeOK
  BY DEF CatalogInv
<1>2. /\ op.c \in Cassettes /\ Num \in Nat /\ Num >= 1 /\ Num <= runs /\ runs \in Nat
      /\ Sessions = tape[op.c].sessions /\ Uuid = tape[op.c].uuid
      /\ Len(Sessions) \in Nat /\ DOMAIN Sessions = 1..Len(Sessions)
      /\ \A n \in 1..Len(Sessions) : n <= Sessions[n].id /\ Sessions[n].id <= runs
  BY <1>1, Place DEF BackupInv
<1>3. /\ tape' \in [Cassettes -> Medium]
      /\ \A c \in Cassettes : c # op.c => tape'[c] = tape[c]
      /\ tape'[op.c].label = tape[op.c].label /\ tape'[op.c].uuid = tape[op.c].uuid
      /\ tape'[op.c].name = tape[op.c].name
  BY BehindIs
<1>4. /\ Len(m) \in Nat /\ DOMAIN m = 1..Len(m) /\ Len(m) <= Num /\ Len(m) >= Num - 1
      /\ \A i \in 1..Len(m) : i < Num => i <= Len(Sessions) /\ m[i] = Sessions[i]
      /\ Num <= Len(m) => m[Num].id = runs
  BY BehindIs
<1> HIDE DEF m
<1>5. CassettesInv'
  <2>1. \A c \in Cassettes : tape'[c].label = tape[c].label /\ tape'[c].uuid = tape[c].uuid /\ tape'[c].name = tape[c].name
    BY <1>3
  <2>2. \A i \in DOMAIN m : i <= m[i].id /\ m[i].id <= runs
    <3> SUFFICES ASSUME NEW i \in 1..Len(m) PROVE i <= m[i].id /\ m[i].id <= runs
      BY <1>4
    <3>1. CASE i < Num
      BY <1>2, <1>4, <3>1, SMTT(60)
    <3>2. CASE i = Num
      BY <1>2, <1>4, <3>2
    <3> QED
      BY <1>2, <1>4, <3>1, <3>2
  <2>3. \A c \in Cassettes : \A i \in DOMAIN tape'[c].sessions :
          i <= tape'[c].sessions[i].id /\ tape'[c].sessions[i].id <= runs
    BY <1>1, <1>3, <2>2 DEF CassettesInv, m
  <2> QED
    BY <1>1, <2>1, <2>3 DEF CassettesInv
<1>6. RowsInv'
  <2>1. \A r \in rows' : RowOK(r)'
    BY <1>1 DEF RowsInv, RowOK
  <2>2. ASSUME NEW r \in rows', NEW c \in Cassettes, r.list # 0, tape'[c].label = "ours",
               tape'[c].uuid = r.uuid
        PROVE  Describes(r, c)'
    <3>1. /\ r \in rows /\ tape[c].label = "ours" /\ tape[c].uuid = r.uuid /\ r.num \in 1..MaxRuns
          /\ r.num <= Len(tape[c].sessions) /\ tape[c].sessions[r.num].id = r.id
      BY <1>1, <1>3, <2>2, RowFields DEF RowsInv, Describes
    <3>2. CASE c # op.c
      BY <1>3, <3>1, <3>2 DEF Describes
    <3>3. CASE c = op.c
      <4>1. r.num <= Num /\ r.num # Num
        BY <1>1, <1>2, <2>2, <3>1, <3>3 DEF BackupInv
      <4>2. r.num \in 1..Len(m) /\ r.num < Num
        BY <1>2, <1>4, <3>1, <4>1, CatalogAssumption
      <4> QED
        <5>1. r.num <= Len(m) /\ m[r.num] = Sessions[r.num]
          BY <1>4, <4>2
        <5>2. m[r.num].id = r.id
          BY <1>2, <3>1, <3>3, <5>1
        <5> QED
          BY <3>3, <5>1, <5>2 DEF Describes, m
    <3> QED
      BY <3>2, <3>3
  <2> QED
    BY <2>1, <2>2 DEF RowsInv
<1> QED
  BY <1>5, <1>6

\* A backup that ends with the end of its cassette overwritten.
LEMMA BehindEnds ==
  ASSUME CatalogInv, op.pc \in {"write", "files"}, Num <= Len(Sessions) + 1,
         tape' = Behind(<< >>) \/ tape' = Behind(New),
         NEW r \in {"ok", "failed", "fault", "killed"}, Finish(r),
         rows' \subseteq rows, UNCHANGED << uuids, runs, tapes >>,
         damage' \in [1..runs -> DamageKinds \cup {"none"}]
  PROVE  CatalogInv'
<1>1. TypeOK /\ CommandInv
  BY DEF CatalogInv
<1>2. op.kind = "backup"
  BY <1>1 DEF CommandInv
<1>3. op' \in Op /\ op'.pc = "idle" /\ op'.kind = "backup"
  BY <1>1, <1>2, FinishFields
<1>4. tape' \in [Cassettes -> Medium]
  BY BehindIs
<1>5. CassettesInv' /\ RowsInv'
  BY BehindKeeps
<1>6. TypeOK'
  <2>1. TablesOK'
    BY <1>1, FewerRows DEF TypeOK, TablesOK
  <2> QED
    BY <1>1, <1>3, <1>4, <2>1 DEF TypeOK, TablesOK
<1>7. CommandInv' /\ BackupInv' /\ RebuildInv' /\ VouchInv'
  BY <1>3 DEF CommandInv, BackupInv, RebuildInv, VouchInv
<1> QED
  BY <1>5, <1>6, <1>7 DEF CatalogInv

LEMMA WritePartStep ==
  ASSUME CatalogInv, WritePart
  PROVE  CatalogInv'
<1>1. TypeOK /\ CommandInv /\ BackupInv
  BY DEF CatalogInv
<1>2. /\ op.pc = "write" /\ op.kind = "backup" /\ op.result = "running" /\ Registered(Uuid)
      /\ Num <= Len(Sessions) + 1 /\ UNCHANGED << uuids, runs, tapes >>
      /\ Under.label = "ours"
  BY <1>1 DEF WritePart, CommandInv
<1>3. /\ op.c \in Cassettes /\ Num \in Nat /\ Num >= 1 /\ op.head = 2 * Num /\ Num <= runs
  BY <1>1, <1>2, Place DEF BackupInv
<1>4. CASE Fails("tape") /\ tape' = Behind(<< >>) /\ rows' = Undone /\ UNCHANGED damage
  BY <1>1, <1>2, <1>4, BehindEnds DEF Fails, Undone, TypeOK
<1>5. ASSUME Go("files"), tape' = Behind(New), UNCHANGED rows,
             NEW d \in Damages \cup {"none"}, damage' = [damage EXCEPT ![runs] = d]
      PROVE  CatalogInv'
  <2>1. /\ op' \in Op /\ op'.pc = "files" /\ op'.kind = "backup" /\ op'.c = op.c
        /\ op'.head = op.head /\ op'.result = "running"
    BY <1>1, <1>2, <1>5, GoFields DEF PCs
  <2>2. /\ tape' \in [Cassettes -> Medium]
        /\ tape'[op.c].label = tape[op.c].label /\ tape'[op.c].uuid = tape[op.c].uuid
        /\ LET m == tape'[op.c].sessions IN
             /\ Num <= Len(m) => m[Num].id = runs
             /\ Len(m) = Num
    BY <1>2, <1>5, BehindIs
  <2>3. CassettesInv' /\ RowsInv'
    BY <1>2, <1>5, BehindKeeps
  <2>4. damage' \in [1..runs' -> DamageKinds \cup {"none"}]
    BY <1>1, <1>2, <1>5, CatalogAssumption DEF TypeOK
  <2>5. TypeOK'
    BY <1>1, <1>2, <1>5, <2>1, <2>2, <2>4 DEF TypeOK
  <2>6. /\ Under'.label = "ours" /\ Uuid' = Uuid /\ Num' = Num /\ Registered(Uuid)'
        /\ Sessions' = tape'[op.c].sessions
    BY <1>2, <2>1, <2>2 DEF Under, Uuid, Num, Registered, Sessions
  <2>7. CommandInv'
    BY <1>2, <1>3, <2>1, <2>6 DEF CommandInv
  <2>8. BackupInv'
    <3>1. Num <= Len(Sessions') /\ Sessions'[Num].id = runs
      BY <1>3, <2>2, <2>6
    <3>2. Here' = runs
      BY <2>6, <3>1 DEF Here
    <3> QED
      BY <1>1, <1>2, <1>5, <2>1, <2>6, <3>1, <3>2 DEF BackupInv
  <2>9. RebuildInv' /\ VouchInv'
    BY <2>1 DEF RebuildInv, VouchInv
  <2> QED
    BY <2>3, <2>5, <2>7, <2>8, <2>9 DEF CatalogInv
<1> QED
  BY <1>4, <1>5 DEF WritePart

LEMMA PositionFailsStep == ASSUME CatalogInv, PositionFails PROVE CatalogInv'
BY Stopped DEF PositionFails, Undone

LEMMA SavePartStep ==
  ASSUME CatalogInv, SavePart
  PROVE  CatalogInv'
<1>1. TypeOK /\ CassettesInv /\ RowsInv /\ CommandInv /\ BackupInv
  BY DEF CatalogInv
<1>2. /\ op.pc = "files" /\ op.kind = "backup" /\ UNCHANGED << uuids, runs, damage, tapes >>
      /\ Num <= Len(Sessions) /\ Here = runs
      /\ \A r \in rows : r.uuid = Uuid /\ r.num = Num => r.id = runs
  BY <1>1 DEF SavePart, CommandInv, BackupInv
<1>3. /\ op.c \in Cassettes /\ Num \in Nat /\ Num >= 1 /\ Len(Sessions) \in Nat
      /\ Uuid \in 1..MaxUuids /\ Uuid = tape[op.c].uuid /\ Sessions = tape[op.c].sessions
      /\ tape[op.c].label = "ours" /\ Here = Sessions[Num].id /\ runs \in 1..MaxRuns
  <2>1. /\ op.c \in Cassettes /\ Num \in Nat /\ Num >= 1 /\ Len(Sessions) \in Nat
        /\ Uuid \in 1..MaxUuids /\ Uuid = tape[op.c].uuid /\ Sessions = tape[op.c].sessions
        /\ tape[op.c].label = "ours" /\ Here = Sessions[Num].id
        /\ runs \in 0..MaxRuns /\ MaxRuns \in Nat
    BY <1>2, Place DEF Here
  <2> QED
    BY <1>1, <1>2, <2>1 DEF BackupInv
<1>4. CASE Finish("failed") /\ rows' = Undone /\ tape' = Behind(<< >>)
  <2>1. Num <= Len(Sessions) + 1 /\ rows' \subseteq rows
    BY <1>2, <1>3, <1>4 DEF Undone
  <2> QED
    BY <1>1, <1>2, <1>4, <2>1, BehindEnds DEF TypeOK
<1>5. ASSUME SaveFiles(Uuid, Num, runs), Finish("ok"), UNCHANGED tape
      PROVE  CatalogInv'
  <2>1. op' \in Op /\ op'.pc = "idle" /\ op'.kind = "backup"
    BY <1>1, <1>2, <1>5, FinishFields
  <2>2. TablesOK' /\ RowsInv' /\ CassettesInv'
    <3> PICK u, k, h : u = Uuid /\ k = Num /\ h = runs
      OBVIOUS
    <3>1. /\ u \in 1..MaxUuids /\ k \in Nat /\ h \in 1..MaxRuns /\ SaveFiles(u, k, h)
          /\ \E c \in Cassettes :
               /\ tape[c].label = "ours" /\ tape[c].uuid = u
               /\ k <= Len(tape[c].sessions) /\ tape[c].sessions[k].id = h
          /\ \A r \in rows : r.uuid = u /\ r.num = k => r.id = h
      BY <1>2, <1>3, <1>5
    <3> QED
      BY <1>1, <1>2, <1>5, <3>1, SavedRight
  <2>3. TypeOK'
    BY <1>1, <1>2, <1>5, <2>1, <2>2 DEF TypeOK, TablesOK
  <2>4. CommandInv' /\ BackupInv' /\ RebuildInv' /\ VouchInv'
    BY <2>1 DEF CommandInv, BackupInv, RebuildInv, VouchInv
  <2> QED
    BY <2>2, <2>3, <2>4 DEF CatalogInv
<1>6. ASSUME SaveNothing(Uuid, Num), Finish("ok"), UNCHANGED tape
      PROVE  CatalogInv'
  <2>1. op' \in Op /\ op'.pc = "idle" /\ op'.kind = "backup" /\ rows' = rows
    BY <1>1, <1>2, <1>6, FinishFields DEF SaveNothing
  <2>2. TypeOK' /\ CassettesInv' /\ RowsInv'
    BY <1>1, <1>2, <1>6, <2>1, FewerRowsInv DEF TypeOK
  <2>3. CommandInv' /\ BackupInv' /\ RebuildInv' /\ VouchInv'
    BY <2>1 DEF CommandInv, BackupInv, RebuildInv, VouchInv
  <2> QED
    BY <2>2, <2>3 DEF CatalogInv
<1> QED
  BY <1>4, <1>5, <1>6 DEF SavePart

LEMMA SpanStep ==
  ASSUME CatalogInv, NEW d \in Cassettes, Span(d)
  PROVE  CatalogInv'
<1>1. TypeOK /\ CassettesInv /\ RowsInv /\ CommandInv /\ BackupInv
  BY DEF CatalogInv
<1> PICK u, v, k, g : u = Uuid /\ v = tape[d].uuid /\ k = Num /\ g = runs
  OBVIOUS
<1>2. /\ op.pc = "files" /\ op.kind = "backup" /\ runs < MaxRuns /\ Num \in Nums(Uuid)
      /\ d # op.c /\ tape[d].label = "ours" /\ tape[d].sessions = << >> /\ CanCreate(v, 1)
      /\ UNCHANGED << uuids, tapes >> /\ Finish("ok")
      /\ runs' = runs + 1 /\ damage' = Append(damage, "none")
      /\ Num <= Len(Sessions) /\ Here = runs
      /\ \A r \in rows : r.uuid = Uuid /\ r.num = Num => r.id = runs
  BY <1>1 DEF Span, CommandInv, BackupInv
<1>3. /\ op.c \in Cassettes /\ k \in Nat /\ k >= 1 /\ u \in 1..MaxUuids /\ tape[op.c].label = "ours"
      /\ tape[op.c].uuid = u /\ runs \in 0..MaxRuns /\ MaxRuns \in Nat /\ g \in 0..MaxRuns
      /\ g + 1 \in 1..MaxRuns /\ uuids \in 0..MaxUuids
      /\ k <= Len(tape[op.c].sessions) /\ tape[op.c].sessions[k].id = g
  <2>1. /\ op.c \in Cassettes /\ Num \in Nat /\ Num >= 1 /\ Uuid \in 1..MaxUuids
        /\ tape[op.c].label = "ours" /\ tape[op.c].uuid = Uuid /\ runs \in 0..MaxRuns
        /\ MaxRuns \in Nat /\ uuids \in 0..MaxUuids /\ Sessions = tape[op.c].sessions
    BY <1>2, Place
  <2> QED
    BY <1>2, <2>1 DEF Here
<1>4. /\ v \in 1..uuids /\ v \in 1..MaxUuids /\ v # u /\ tape[d].name \in Names \cup {NoName}
  <2>1. v \in 1..uuids /\ tape[d].name \in Names \cup {NoName}
    BY <1>1, <1>2, CassetteFields DEF CassettesInv
  <2>2. MaxUuids \in Nat
    BY CatalogAssumption
  <2>3. ASSUME v = u PROVE FALSE
    <3>1. tape[d].uuid = tape[op.c].uuid /\ tape[d].label = "ours" /\ tape[op.c].label = "ours"
      BY <1>2, <1>3, <2>3
    <3> QED
      BY <1>1, <1>2, <1>3, <3>1 DEF CassettesInv
  <2> QED
    BY <1>3, <2>1, <2>2, <2>3
<1> PICK new : new = [NewRow(v, 1, g + 1) EXCEPT !.list = g + 1]
  OBVIOUS
<1>5. new \in Row /\ new.uuid = v /\ new.num = 1 /\ new.id = g + 1 /\ new.at = g + 1 /\ new.list = g + 1
  BY <1>3, <1>4 DEF NewRow, Row
<1>6. rows' = Saved(u, k, g) \cup {new}
  BY DEF Span, Saved, WithFiles
<1>7. /\ \A q \in Saved(u, k, g) : q \in Row /\ \E r \in rows :
           /\ q.uuid = r.uuid /\ q.num = r.num /\ q.id = r.id /\ q.at = r.at
           /\ q.list = IF r.uuid = u /\ r.num = k THEN g ELSE r.list
      /\ \A p, q \in Saved(u, k, g) : p.uuid = q.uuid /\ p.num = q.num => p = q
  <2>0. TypeOK /\ u \in 1..MaxUuids /\ k \in Nat /\ g \in 0..MaxRuns
    BY <1>1, <1>3
  <2>1. \A q \in Saved(u, k, g) : q \in Row /\ \E r \in rows :
          /\ q.uuid = r.uuid /\ q.num = r.num /\ q.id = r.id /\ q.at = r.at
          /\ q.list = IF r.uuid = u /\ r.num = k THEN g ELSE r.list
    BY <2>0, SavedRows
  <2>2. \A p, q \in Saved(u, k, g) : p.uuid = q.uuid /\ p.num = q.num => p = q
    BY <2>0, SavedRows
  <2> QED
    BY <2>1, <2>2
<1>8. TablesOK'
  <2>1. \A q \in Saved(u, k, g) : ~(q.uuid = v /\ q.num = 1)
    BY <1>2, <1>7 DEF CanCreate, Nums
  <2>2. rows' \subseteq Row
    BY <1>5, <1>6, <1>7
  <2>3. \A p, q \in rows' : p.uuid = q.uuid /\ p.num = q.num => p = q
    <3> SUFFICES ASSUME NEW p \in rows', NEW q \in rows', p.uuid = q.uuid, p.num = q.num PROVE p = q
      OBVIOUS
    <3>1. CASE p \in Saved(u, k, g) /\ q \in Saved(u, k, g)
      BY <1>7, <3>1
    <3>2. CASE p = new \/ q = new
      BY <1>5, <1>6, <2>1, <3>2
    <3> QED
      BY <1>6, <3>1, <3>2
  <2>4. \A q \in rows' : \E t \in tapes' : t.uuid = q.uuid
    <3> SUFFICES ASSUME NEW q \in rows' PROVE \E t \in tapes : t.uuid = q.uuid
      BY <1>2
    <3>1. CASE q = new
      BY <1>2, <1>5, <3>1 DEF CanCreate, Registered
    <3>2. CASE q \in Saved(u, k, g)
      BY <1>1, <1>7, <3>2 DEF TypeOK
    <3> QED
      BY <1>6, <3>1, <3>2
  <2> QED
    BY <1>1, <1>2, <2>2, <2>3, <2>4 DEF TablesOK, TypeOK
<1> PICK one : one = << [id |-> g + 1, from |-> u] >>
  OBVIOUS
<1>9. one \in Seq(SessionRecords) /\ Len(one) = 1 /\ DOMAIN one = 1..1 /\ one[1].id = g + 1
  BY <1>3 DEF SessionRecords
<1>10. /\ tape' \in [Cassettes -> Medium]
       /\ \A c \in Cassettes : c # d => tape'[c].sessions = tape[c].sessions
       /\ tape'[d].sessions = one
       /\ \A c \in Cassettes :
            /\ tape'[c].label = tape[c].label /\ tape'[c].uuid = tape[c].uuid
            /\ tape'[c].name = tape[c].name
  <2> DEFINE a == [tape[op.c] EXCEPT !.next = tape[d].name]
             b == [tape[d] EXCEPT !.sessions = one]
  <2>1. tape' = [tape EXCEPT ![op.c].next = tape[d].name, ![d].sessions = one]
    BY DEF Span
  <2>2. tape \in [Cassettes -> Medium] /\ tape[op.c] \in Medium /\ tape[d] \in Medium
    BY <1>1, <1>3 DEF TypeOK
  <2>3. tape' = [tape EXCEPT ![op.c] = a, ![d] = b]
    BY <1>2, <1>3, <2>1, <2>2
  <2>4. one \in Seq([id : 1..MaxRuns, from : 0..MaxUuids])
    BY <1>9 DEF SessionRecords
  <2>5. /\ a \in Medium /\ a.label = tape[op.c].label /\ a.uuid = tape[op.c].uuid
        /\ a.name = tape[op.c].name /\ a.sessions = tape[op.c].sessions
        /\ b \in Medium /\ b.label = tape[d].label /\ b.uuid = tape[d].uuid
        /\ b.name = tape[d].name /\ b.sessions = one
    BY <1>4, <2>2, <2>4 DEF Medium
  <2> HIDE DEF a, b
  <2>6. /\ tape' \in [Cassettes -> Medium] /\ tape'[op.c] = a /\ tape'[d] = b
        /\ \A c \in Cassettes : c # op.c /\ c # d => tape'[c] = tape[c]
    BY <1>2, <1>3, <2>2, <2>3, <2>5
  <2> QED
    BY <1>2, <2>5, <2>6
<1>11. TypeOK'
  <2>1. damage' \in [1..runs' -> DamageKinds \cup {"none"}]
    <3> DEFINE D == DamageKinds \cup {"none"}
    <3>1. damage \in [1..runs -> D] /\ "none" \in D /\ runs \in Nat
      BY <1>1, <1>3 DEF TypeOK
    <3> HIDE DEF D
    <3>2. Append(damage, "none") \in [1..(runs + 1) -> D]
      BY <3>1, LongerDamage
    <3> QED
      BY <1>2, <3>2 DEF D
  <2>2. op' \in Op
    BY <1>1, <1>2, FinishFields
  <2> QED
    BY <1>1, <1>2, <1>3, <1>8, <1>10, <2>1, <2>2 DEF TypeOK, TablesOK
<1>12. CassettesInv'
  <2>1. \A c \in Cassettes : \A i \in DOMAIN tape'[c].sessions :
          i <= tape'[c].sessions[i].id /\ tape'[c].sessions[i].id <= runs + 1
    <3> SUFFICES ASSUME NEW c \in Cassettes, NEW i \in DOMAIN tape'[c].sessions
                 PROVE  i <= tape'[c].sessions[i].id /\ tape'[c].sessions[i].id <= runs + 1
      OBVIOUS
    <3>1. CASE c = d
      BY <1>3, <1>9, <1>10, <3>1
    <3>2. CASE c # d
      <4>1. tape[c].sessions[i].id \in 1..MaxRuns
        BY <1>1, <1>10, <3>2, CassetteFields
      <4> QED
        BY <1>1, <1>3, <1>10, <3>2, <4>1 DEF CassettesInv
    <3> QED
      BY <3>1, <3>2
  <2> QED
    BY <1>1, <1>2, <1>10, <2>1, SMTT(40) DEF CassettesInv
<1>13. RowsInv'
  <2>1. ASSUME NEW q \in rows'
        PROVE  /\ RowOK(q)'
               /\ \A c \in Cassettes :
                    q.list # 0 /\ tape[c].label = "ours" /\ tape[c].uuid = q.uuid => Describes(q, c)'
    <3>1. CASE q = new
      <4>1. RowOK(q)'
        BY <1>2, <1>3, <1>4, <1>5, <3>1 DEF RowOK
      <4>2. \A c \in Cassettes : tape[c].label = "ours" /\ tape[c].uuid = q.uuid => c = d
        BY <1>1, <1>2, <1>5, <3>1 DEF CassettesInv
      <4>3. Describes(q, d)'
        BY <1>5, <1>9, <1>10, <3>1 DEF Describes
      <4>4. q.uuid = v
        BY <1>5, <3>1
      <4> QED
        BY <4>1, <4>2, <4>3
    <3>2. ASSUME q \in Saved(u, k, g)
          PROVE  /\ RowOK(q)'
                 /\ \A c \in Cassettes :
                      q.list # 0 /\ tape[c].label = "ours" /\ tape[c].uuid = q.uuid => Describes(q, c)'
      <4>1. PICK r \in rows :
              /\ q.uuid = r.uuid /\ q.num = r.num /\ q.id = r.id /\ q.at = r.at
              /\ q.list = IF r.uuid = u /\ r.num = k THEN g ELSE r.list
        BY <1>7, <3>2
      <4>2. RowOK(r) /\ r.id \in 1..MaxRuns /\ r.num \in 1..MaxRuns
        BY <1>1, RowFields DEF RowsInv
      <4>3. r.uuid = u /\ r.num = k => r.id = g
        BY <1>2
      <4>4. RowOK(q)'
        BY <1>2, <1>3, <4>1, <4>2, <4>3 DEF RowOK
      <4>5. ASSUME NEW c \in Cassettes, q.list # 0, tape[c].label = "ours", tape[c].uuid = q.uuid
            PROVE  Describes(q, c)'
        <5>1. CASE r.uuid = u /\ r.num = k
          <6>1. c = op.c
            BY <1>1, <1>3, <4>1, <4>5, <5>1 DEF CassettesInv
          <6> QED
            BY <1>2, <1>3, <1>10, <4>1, <4>3, <5>1, <6>1 DEF Describes
        <5>2. CASE ~(r.uuid = u /\ r.num = k)
          <6>1. Describes(r, c)
            BY <1>1, <4>1, <4>5, <5>2 DEF RowsInv
          <6>2. c # d
            BY <1>2, <4>2, <6>1 DEF Describes
          <6> QED
            BY <1>10, <4>1, <6>1, <6>2 DEF Describes
        <5> QED
          BY <5>1, <5>2
      <4> QED
        BY <4>4, <4>5
    <3> QED
      BY <1>6, <3>1, <3>2
  <2> QED
    BY <1>10, <2>1 DEF RowsInv
<1>14. CommandInv' /\ BackupInv' /\ RebuildInv' /\ VouchInv'
  <2>1. op'.pc = "idle" /\ op'.kind = "backup"
    BY <1>1, <1>2, FinishFields
  <2> QED
    BY <2>1 DEF CommandInv, BackupInv, RebuildInv, VouchInv
<1> QED
  BY <1>11, <1>12, <1>13, <1>14 DEF CatalogInv

LEMMA KillStep ==
  ASSUME CatalogInv, Kill
  PROVE  CatalogInv'
<1>1. TypeOK /\ BackupInv /\ CommandInv
  BY DEF CatalogInv
<1>2. Finish("killed") /\ UNCHANGED << uuids, runs, tapes, rows >>
  BY DEF Kill
<1>3. CASE UNCHANGED << tape, damage >>
  BY <1>2, <1>3, Stopped
<1>4. ASSUME ~UNCHANGED << tape, damage >> PROVE CatalogInv'
  <2>1. /\ op.pc = "write" /\ Num <= Len(Sessions) + 1
        /\ \/ tape' = Behind(<< >>) /\ UNCHANGED damage
           \/ tape' = Behind(New) /\ damage' = [damage EXCEPT ![runs] = "data"]
    BY <1>4 DEF Kill
  <2>2. damage' \in [1..runs -> DamageKinds \cup {"none"}]
    BY <1>1, <2>1 DEF TypeOK, DamageKinds
  <2> QED
    BY <1>2, <2>1, <2>2, BehindEnds
<1> QED
  BY <1>3, <1>4

-----------------------------------------------------------------------------
(* The invariant, and what it says.                                        *)

LEMMA CatalogInit == Init => CatalogInv
<1> SUFFICES ASSUME Init PROVE CatalogInv
  OBVIOUS
<1>1. PICK l \in [Cassettes -> {"blank", "foreign", "newer"}] :
        tape = [c \in Cassettes |-> [label |-> l[c], uuid |-> 0, name |-> NoName,
                                     next |-> NoName, sessions |-> << >>]]
  BY DEF Init
<1>2. /\ uuids = 0 /\ runs = 0 /\ damage = << >> /\ tapes = {} /\ rows = {}
      /\ op \in {Idle(c) : c \in Cassettes}
  BY DEF Init
<1>3. op \in Op /\ op.pc = "idle" /\ op.kind = "none"
  BY <1>2, IdleType DEF Idle
<1>4. /\ tape \in [Cassettes -> Medium]
      /\ \A c \in Cassettes : tape[c].label # "ours" /\ tape[c].sessions = << >>
  <2>1. << >> \in Seq([id : 1..MaxRuns, from : 0..MaxUuids]) /\ 0 \in 0..MaxUuids
    BY EmptySeq, CatalogAssumption
  <2>2. ASSUME NEW c \in Cassettes
        PROVE  [label |-> l[c], uuid |-> 0, name |-> NoName, next |-> NoName, sessions |-> << >>] \in Medium
    BY <2>1 DEF Medium
  <2>3. \A c \in Cassettes : l[c] # "ours"
    OBVIOUS
  <2> QED
    BY <1>1, <2>2, <2>3
<1>5. damage \in [1..runs -> DamageKinds \cup {"none"}]
  <2>1. << >> \in Seq(DamageKinds \cup {"none"}) /\ Len(<< >>) = 0
    BY EmptySeq
  <2> QED
    BY <1>2, <2>1, LenProperties
<1>6. TypeOK
  BY <1>2, <1>3, <1>4, <1>5, CatalogAssumption DEF TypeOK
<1>7. CassettesInv
  <2>1. DOMAIN << >> = {}
    OBVIOUS
  <2> QED
    BY <1>4, <2>1 DEF CassettesInv
<1>8. RowsInv /\ CommandInv /\ BackupInv /\ RebuildInv /\ VouchInv
  BY <1>2, <1>3 DEF RowsInv, CommandInv, BackupInv, RebuildInv, VouchInv
<1> QED
  BY <1>6, <1>7, <1>8 DEF CatalogInv

LEMMA CatalogNext == CatalogInv /\ [Next]_vars => CatalogInv'
<1> SUFFICES ASSUME CatalogInv, [Next]_vars PROVE CatalogInv'
  OBVIOUS
<1>1. CASE UNCHANGED vars
  <2>1. /\ Uuid' = Uuid /\ Num' = Num /\ Sessions' = Sessions /\ Under' = Under /\ Here' = Here
        /\ Nums(Uuid)' = Nums(Uuid) /\ Registered(Uuid)' = Registered(Uuid)
        /\ \A u, n, id : HasFiles(u, n, id)' = HasFiles(u, n, id)
    BY <1>1 DEF vars, Uuid, Num, Sessions, Under, Here, Nums, Registered, HasFiles
  <2>2. TypeOK' /\ CassettesInv' /\ RowsInv'
    BY <1>1, FewerRowsInv DEF vars, CatalogInv, TypeOK
  <2>3. CommandInv' /\ BackupInv' /\ VouchInv'
    BY <1>1, <2>1 DEF vars, CatalogInv, CommandInv, BackupInv, VouchInv
  <2>4. RebuildInv'
    BY <1>1, <2>1 DEF vars, CatalogInv, RebuildInv
  <2> QED
    BY <2>2, <2>3, <2>4 DEF CatalogInv
<1>2. ASSUME NEW c \in Cassettes, NEW n \in Names, NEW force \in BOOLEAN, StartFormat(c, n, force)
      PROVE  CatalogInv'
  BY <1>2, StartFormatStep
<1>3. ASSUME NEW c \in Cassettes, NEW full \in BOOLEAN, StartBackup(c, full) PROVE CatalogInv'
  BY <1>3, StartBackupStep
<1>4. ASSUME NEW c \in Cassettes, StartRebuild(c) \/ StartReadTest(c) \/ StartInspect(c)
      PROVE  CatalogInv'
  <2>1. /\ {"rebuild", "readtest", "inspect"} \subseteq Kinds /\ {"register", "read"} \subseteq PCs
    BY DEF Kinds, PCs
  <2> QED
    BY <1>4, <2>1, StartOnStep DEF StartRebuild, StartReadTest, StartInspect
<1>5. CASE Step
  <2>1. CASE WriteLabel \/ Register
    BY <2>1, WriteLabelStep, RegisterStep
  <2>2. CASE CreateRow \/ WritePart \/ PositionFails \/ SavePart
    BY <2>2, CreateRowStep, WritePartStep, PositionFailsStep, SavePartStep
  <2>3. ASSUME NEW d \in Cassettes, Span(d) \/ Follow(d) PROVE CatalogInv'
    BY <2>3, SpanStep, FollowStep
  <2>4. CASE ListSessions \/ Unreadable \/ SkipKnown \/ AddRow \/ AddFiles
    BY <2>4, ListSessionsStep, UnreadableStep, SkipKnownStep, AddRowStep, AddFilesStep
  <2>5. CASE Check \/ EndOfSessions
    BY <2>5, CheckStep, EndOfSessionsStep
  <2> QED
    BY <1>5, <2>1, <2>2, <2>3, <2>4, <2>5 DEF Step
<1>6. CASE Daemon
  <2>1. ASSUME NEW r \in rows, DeleteSession(r) PROVE CatalogInv'
    BY <2>1, DeletedStep DEF DeleteSession
  <2>2. ASSUME NEW before \in 2..MaxRuns, Prune(before) PROVE CatalogInv'
    BY <2>2, DeletedStep DEF Prune
  <2> QED
    BY <1>6, <2>1, <2>2 DEF Daemon
<1> QED
  BY <1>1, <1>2, <1>3, <1>4, <1>5, <1>6, LoseCatalogStep, KillStep DEF Next

THEOREM CatalogInvariant == Spec => []CatalogInv
BY CatalogInit, CatalogNext, PTL DEF Spec

\* The rows are in the tables' constraints, the cassettes have their types
\* (sqlite/catalog.go).
THEOREM CatalogTypes == Spec => []TypeOK
<1>1. CatalogInv => TypeOK
  BY DEF CatalogInv
<1> QED
  BY <1>1, CatalogInvariant, PTL

\* Every file list in the catalog is that of the session on the cassette
\* (backup commit, rebuild.go).
THEOREM CatalogTells == Spec => []CatalogIsTrue
<1>1. ASSUME CatalogInv PROVE CatalogIsTrue
  <2> SUFFICES ASSUME NEW r \in rows, NEW c \in Cassettes,
                      r.list # 0, tape[c].label = "ours", tape[c].uuid = r.uuid
               PROVE  /\ r.num <= Len(tape[c].sessions)
                      /\ HasFiles(r.uuid, r.num, tape[c].sessions[r.num].id)
    BY DEF CatalogIsTrue
  <2>1. TypeOK /\ RowOK(r) /\ Describes(r, c)
    BY <1>1 DEF CatalogInv, RowsInv
  <2>2. r = [uuid |-> r.uuid, num |-> r.num, id |-> r.id, at |-> r.at, list |-> r.list]
    BY <2>1, RowFields
  <2>3. r.at = r.id /\ r.list = r.id /\ tape[c].sessions[r.num].id = r.id
    BY <2>1 DEF RowOK, Describes
  <2> QED
    BY <2>1, <2>2, <2>3 DEF HasFiles, Describes
<1> QED
  BY <1>1, CatalogInvariant, PTL

\* A rebuild that ends well has filled in what was missing (rebuild.go).
THEOREM RebuildIsComplete == Spec => []RebuildFills
<1>1. ASSUME CatalogInv PROVE RebuildFills
  BY <1>1 DEF CatalogInv, RebuildInv, RebuildFills
<1> QED
  BY <1>1, CatalogInvariant, PTL

\* What is deleted during a rebuild does not come back (rebuild.go, DeleteSession).
THEOREM DeletionsLast == Spec => []DeletedStaysDeleted
<1>1. ASSUME CatalogInv PROVE DeletedStaysDeleted
  BY <1>1 DEF CatalogInv, RebuildInv, DeletedStaysDeleted
<1> QED
  BY <1>1, CatalogInvariant, PTL

\* A readtest that ends well has read every session (catalog/usecase.go ReadTest).
THEOREM ReadTestIsTrue == Spec => []ReadTestVouches
<1>1. ASSUME CatalogInv PROVE ReadTestVouches
  BY <1>1 DEF CatalogInv, VouchInv, ReadTestVouches
<1> QED
  BY <1>1, CatalogInvariant, PTL
=============================================================================
