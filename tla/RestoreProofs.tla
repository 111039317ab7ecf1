--------------------------- MODULE RestoreProofs ---------------------------
(***************************************************************************)
(* Theorems about reading cassettes back, for every tree, chain, damage,   *)
(* failure, request and number of sessions and restores.                   *)
(***************************************************************************)
EXTENDS Restore, FiniteSetTheorems, SequenceTheorems, WellFoundedInduction, TLAPS

-----------------------------------------------------------------------------
(* Tape files, and writing over them. *)

LEMMA BlankSegTypes == Empty \in Seg /\ Junk \in Seg
BY DEF Empty, Junk, Blocks, NoSession, Seg, Kinds

LEMMA KindsOfSegs ==
  ASSUME NEW s, NEW from, NEW n
  PROVE  /\ Empty.kind = "empty" /\ Junk.kind = "junk" /\ Label(n).kind = "label"
         /\ Index(s, from).kind = "index" /\ Tar(s).kind = "tar"
         /\ Pointer(s, n).kind = "pointer"
BY DEF Empty, Junk, Label, Index, Tar, Pointer, Blocks

\* A prefix of a sequence of tape files.
LEMMA PrefixFacts ==
  ASSUME NEW segs \in Seq(Seg), NEW c \in 0..Len(segs)
  PROVE  /\ SubSeq(segs, 1, c) \in Seq(Seg)
         /\ Len(SubSeq(segs, 1, c)) = c
         /\ \A i \in 1..c : SubSeq(segs, 1, c)[i] = segs[i]
<1>1. Len(segs) \in Nat /\ c \in Int
  BY LenProperties
<1>2. \A i \in 1..c : segs[i] \in Seg
  BY <1>1, ElementOfSeq
<1> QED
  BY <1>1, <1>2, SubSeqProperties

\* A write behind filemark p keeps the first p files, and what was written
\* follows them.
LEMMA OverwriteFacts ==
  ASSUME NEW cass \in Seq(Seg), NEW p \in 0..Len(cass), NEW segs \in Seq(Seg)
  PROVE  /\ Overwrite(cass, p, segs) \in Seq(Seg)
         /\ Len(Overwrite(cass, p, segs)) = p + Len(segs)
         /\ \A i \in 1..p : Overwrite(cass, p, segs)[i] = cass[i]
         /\ \A i \in 1..Len(segs) : Overwrite(cass, p, segs)[p + i] = segs[i]
<1> DEFINE kept == SubSeq(cass, 1, p)
<1>1. /\ kept \in Seq(Seg) /\ Len(kept) = p
      /\ \A i \in 1..p : kept[i] = cass[i]
  BY PrefixFacts
<1>2. Len(segs) \in Nat /\ p \in Nat /\ Len(cass) \in Nat
  BY LenProperties
<1>3. /\ kept \o segs \in Seq(Seg)
      /\ Len(kept \o segs) = Len(kept) + Len(segs)
      /\ \A i \in 1..(Len(kept) + Len(segs)) :
           (kept \o segs)[i] = IF i <= Len(kept) THEN kept[i] ELSE segs[i - Len(kept)]
  BY <1>1, ConcatProperties
<1> HIDE DEF kept
<1>4. Overwrite(cass, p, segs) = kept \o segs
  BY DEF Overwrite, kept
<1> QED
  BY <1>1, <1>2, <1>3, <1>4, SMTT(40)

-----------------------------------------------------------------------------
(* The invariants. *)

\* A tree that a session can be of.
IsTree(tree) ==
  /\ tree \in [Paths -> Node]
  /\ \A p \in Paths : /\ tree[p].kind = "none" => tree[p] = None
                      /\ tree[p].kind \in {"reg", "sym"} => tree[p].of \in Paths
                      /\ p \in Dirs => tree[p].kind \in {"none", "dir"}

\* What entry e of the list of a session says of path p is so in its tree.
Tells(tree, p, e) ==
  /\ e \in Entry
  /\ e.kind \in {"reg", "sym"} => tree[p] = [kind |-> e.kind, at |-> e.at, of |-> e.of]
  /\ e.kind = "dir" => tree[p].kind = "dir"
  /\ e.kind = "link" => /\ e.to \in Paths \ {p}
                        /\ tree[p].kind = "reg" /\ tree[e.to] = tree[p]

FileLists == UNION { [D -> Entry] : D \in SUBSET Paths }

Damage == [kind : {"none", "index", "hash", "missing", "header"}, at : Paths \cup {0}]

\* What was written: trees, their lists and what is wrong with the sessions.
Sessions ==
  /\ past \in Seq([Paths -> Node]) /\ lists \in Seq(FileLists) /\ damage \in Seq(Damage)
  /\ Len(past) = Len(lists) /\ Len(damage) = Len(lists) /\ Len(lists) \in 0..MaxSessions
  /\ \A k \in 1..Len(lists) :
       /\ IsTree(past[k])
       /\ \A p \in DOMAIN lists[k] : Tells(past[k], p, lists[k][p])
       /\ damage[k] # Sound =>
            /\ damage[k].kind # "none"
            /\ damage[k].kind = "index" \/ damage[k].at \in InTar(lists[k])

\* ... and the cassettes.
Cassettes ==
  /\ files \in [Tapes -> Seq(Seg)]
  /\ \A t \in Tapes :
       /\ Len(files[t]) >= 2
       /\ \A i \in 1..Len(files[t]) :
            files[t][i].kind \in {"index", "tar"} => files[t][i].run \in 1..Len(lists)

\* A destination: a name is under a directory, an inode has one contents.
IsDest(d) ==
  /\ d \in [Paths -> Copy]
  /\ \A p \in Paths :
       /\ d[p].kind = "none" => d[p] = Nothing
       /\ d[p].kind = "file" => d[p].ino \in Paths
       /\ d[p].kind # "file" => d[p].ino = 0 /\ d[p].data # Torn
       /\ d[p].kind = "sym" => d[p].data.of \in Paths
       /\ d[p] # Nothing /\ Parent[p] # 0 => d[Parent[p]].kind = "dir"
  /\ \A p, q \in Paths :
       d[p].kind = "file" /\ d[q].kind = "file" /\ d[p].ino = d[q].ino => d[p].data = d[q].data

\* A plain path is no symlink, shares its inode with no other, and no symlink leads there.
Apart(d) ==
  \A p \in Paths : Plain(p) =>
    /\ d[p].kind # "sym"
    /\ \A q \in Paths : /\ q # p /\ d[p].kind = "file" /\ d[q].kind = "file" => d[p].ino # d[q].ino
                        /\ d[q].kind = "sym" /\ d[q].data.of = p => Wrapped

Reading == op.pc \in {"index", "tar", "damaged", "swap", "next"}

\* The restore at work.
Work ==
  /\ op \in Op /\ (op.pc = "build" => op = Idle)
  /\ Reading <=> op.result = "running"
  /\ Reading => op.mode # "none"
  /\ op.pc \in {"index", "tar", "damaged", "swap"} => op.head > 0
  /\ op.pc = "tar" => op.sess \in 1..Len(lists)
  /\ op.pc = "next" => op.mode = "smart"
  /\ op.pc = "damaged" => op.mode # "selective"
  /\ op.pc = "swap" => op.mode = "full"
  /\ op.todo \subseteq 1..Len(lists)
  /\ op.mode = "full" => op.asked = {}
  /\ op.asked = {} => op.want = {}
  /\ op.want \subseteq op.asked
  /\ op.asked # {} /\ Reading /\ op.pc # "next" => op.want # {}

\* What the restore has read of a session is sound, and at the destination.
Copied ==
  op.pc = "tar" =>
    /\ damage[op.sess].kind # "index"
    /\ \A p \in InTar(List) : p < op.entry =>
         /\ damage[op.sess].at # p \/ damage[op.sess] = Sound
         /\ Plain(p) /\ Includes(op.want, p) => IsAs(p, List[p])

Written == IsTree(fs) /\ Sessions /\ Cassettes

TInv ==
  /\ Written /\ edits \in 0..MaxEdits /\ tries \in 0..MaxRestores
  /\ IsDest(dest) /\ Apart(dest) /\ before \in [Paths -> Copy]
  /\ Work

AInv == TInv /\ Copied /\ NoTornFiles /\ OnlyRequestedChange

\* Restore o, with d as its destination.  The sessions of the cassette that have a
\* sound copy of p ...
Copies(o, p) == { k \in Whole \ o.missed : k \in Listed(p) /\ NumOn(o.cur, k) # {} }

\* ... the session that is read ...
AtWork(o) ==
  IF o.pc = "index" THEN files[o.cur][o.head].run ELSE IF o.pc = "tar" THEN o.sess ELSE 0

\* ... paths none of which is below another ...
Lone(o, p) == (Up[p] \cup {q \in Paths : p \in Up[q]}) \cap o.asked = {}

\* IsAs, of a destination d.
Has(d, p, e) ==
  CASE e.kind = "reg"  -> d[p].kind = "file" /\ d[p].data = [kind |-> "reg", at |-> e.at, of |-> e.of]
    [] e.kind = "dead" -> p \in Dirs \/ d[p] = Nothing
    [] e.kind = "dir"  -> d[p].kind = "dir"
    [] OTHER           -> TRUE

\* ... and p as the newest of the copies ks has it, which is not to come any more.
Taken(d, p, ks, todo) ==
  \E k \in ks : Has(d, p, lists[k][p]) /\ k \notin todo /\ \A j \in ks : j <= k

\* Smart: the copies of what is looked for are still to come, what is not looked
\* for any more has been taken from the newest.
NewerIn(d, o) ==
  o.mode = "smart" /\ o.result \in {"running", "ok"} =>
    /\ o.result = "ok" => o.want = {}
    /\ \A k \in o.todo : NumOn(o.cur, k) # {} /\ k \notin o.missed
    /\ o.pc = "index" => o.head \in 1..Len(files[o.cur]) /\ files[o.cur][o.head].kind = "index"
    /\ o.pc \in {"index", "tar"} =>
         /\ AtWork(o) \notin o.missed /\ NumOn(o.cur, AtWork(o)) # {}
         /\ \A k \in o.todo : k < AtWork(o)
    /\ \A p \in o.want : \A k \in Copies(o, p) : k \in o.todo \/ k = AtWork(o)
    /\ \A p \in o.asked \ o.want : Plain(p) /\ Lone(o, p) => Taken(d, p, Copies(o, p), o.todo)

Newer == NewerIn(dest, op)

\* The first session of a cassette, and the last.
First(t) == files[t][2].run

Last(t) == First(t) + SessionsOn(t) - 1

\* A cassette has its sessions one behind the other, in the order they were written.
Stacked(t) ==
  /\ Len(files[t]) = IF SessionsOn(t) = 0 THEN 2 ELSE 2 * SessionsOn(t) + 3
  /\ \A j \in 1..SessionsOn(t) : files[t][2 * j].kind = "index" /\ files[t][2 * j].run = First(t) + j - 1

\* Cassette n goes on where the one before it ended, and points to the next one.
Linked(n) ==
  LET t    == Chain[n]
      eod  == files[t][2 * SessionsOn(t) + 2]
      next == n + 1 \in 1..Len(Chain) /\ SessionsOn(Chain[n + 1]) > 0 IN
  /\ n = 1 => First(t) = 1
  /\ n > 1 => First(t) = Last(Chain[n - 1]) + 1
  /\ next => eod.kind = "pointer" /\ eod.name = n + 1
  /\ ~next => eod.kind = "empty" /\ Last(t) = Len(lists)

\* Full: sessions of a cassette are in order, and cassettes are too.
Layout ==
  /\ \A n \in 1..Len(Chain) :
       /\ files[Chain[n]][1].name = n /\ Stacked(Chain[n])
       /\ SessionsOn(Chain[n]) > 0 => Linked(n)
  /\ \A m, n \in 1..Len(Chain) : m <= n /\ SessionsOn(Chain[n]) > 0 => SessionsOn(Chain[m]) > 0
  /\ SessionsOn(Chain[1]) = 0 => Len(lists) = 0

\* A path that is listed is listed as it is; one that is not was in the list before.
Fresh ==
  \A k \in 1..Len(lists) : \A p \in Paths :
    past[k][p].kind = "reg" /\ (\A q \in Paths : q # p => past[k][q] # past[k][p]) =>
      \E j \in {k - 1, k} \cap Listed(p) :
        /\ k \in Listed(p) => j = k
        /\ lists[j][p].kind = "reg" /\ lists[j][p].at = past[k][p].at /\ lists[j][p].of = past[k][p].of

\* AsLast, of a destination d.
LastIn(d, p, ks) ==
  \A k \in ks \cap Listed(p) : (\A j \in ks \cap Listed(p) : j <= k) => Has(d, p, lists[k][p])

Restored(d, n) == \A p \in Paths : Plain(p) => LastIn(d, p, 1..n)

InOrderIn(d, o) ==
  o.mode = "full" /\ o.first = Chain[1] /\ Whole = DOMAIN lists /\ o.result \in {"running", "ok"} =>
    /\ SessionsOn(o.cur) > 0
    /\ o.pc \in {"index", "tar", "swap", "idle"}
    /\ o.pc = "index" =>
         \E j \in 1..(SessionsOn(o.cur) + 1) :
           o.head = 2 * j /\ Restored(d, First(o.cur) + j - 2)
    /\ o.pc = "tar" =>
         /\ \E j \in 1..SessionsOn(o.cur) : o.head = 2 * j + 1 /\ o.sess = First(o.cur) + j - 1
         /\ \A p \in Paths : Plain(p) /\ (p \in InTar(lists[o.sess]) => p >= o.entry) =>
              LastIn(d, p, 1..(o.sess - 1))
    /\ o.pc = "swap" =>
         /\ o.head = 2 * SessionsOn(o.cur) + 2
         /\ files[o.cur][o.head].kind = "pointer" /\ Restored(d, Last(o.cur))
    /\ o.pc = "idle" => Restored(d, Last(o.cur))

InOrder == InOrderIn(dest, op)

-----------------------------------------------------------------------------
(* Numbers. *)

\* The order of the numbers is well-founded.
LEMMA LessOnNat ==
  \E R : IsWellFoundedOn(R, Nat) /\ \A x, y \in Nat : x < y => <<x, y>> \in R
<1> DEFINE R == OpToRel(<, Nat)
<1>1. IsWellFoundedOn(R, Nat)
  BY NatLessThanWellFounded
<1>2. \A x, y \in Nat : x < y => <<x, y>> \in R
  BY DEF OpToRel
<1> HIDE DEF R
<1> QED
  BY <1>1, <1>2, Zenon

\* A set of numbers has a least one.
LEMMA Least ==
  ASSUME NEW S \in SUBSET Nat, S # {}
  PROVE  \E k \in S : \A j \in S : k <= j
<1>1. PICK R : IsWellFoundedOn(R, Nat) /\ \A x, y \in Nat : x < y => <<x, y>> \in R
  BY LessOnNat
<1>2. IsWellFoundedOn(R, Nat) /\ S \subseteq Nat
  BY <1>1
<1>3. \E k \in S : \A j \in S : ~(<<j, k>> \in R)
  BY <1>2, WFMin, Zenon
<1>4. PICK k \in S : \A j \in S : ~(<<j, k>> \in R)
  BY <1>3, Zenon
<1>5. \A j \in S : ~(j < k)
  BY <1>1, <1>2, <1>4, Zenon
<1>6. \A j \in S : k <= j
  BY <1>2, <1>5
<1> QED
  BY <1>6

\* What holds of 0 and of the next number holds of all.
LEMMA AllNumbers ==
  ASSUME NEW S, 0 \in S, \A n \in Nat : n \in S => n + 1 \in S
  PROVE  Nat \subseteq S
<1> DEFINE B == Nat \ S
<1>1. CASE B = {}
  BY <1>1
<1>2. CASE B # {}
  <2>1. \E m \in B : \A j \in B : m <= j
    BY <1>2, Least
  <2> HIDE DEF B
  <2>2. PICK m \in B : \A j \in B : m <= j
    BY <2>1
  <2>3. m \in Nat /\ m # 0 /\ m \notin S
    BY <2>2 DEF B
  <2>4. m - 1 \in Nat /\ m - 1 \notin B
    BY <2>2, <2>3
  <2> QED
    BY <2>3, <2>4 DEF B
<1> QED
  BY <1>1, <1>2

-----------------------------------------------------------------------------
(* Paths. *)

\* Paths are numbered, a directory before what is in it.
LEMMA PathsAre ==
  /\ IsFiniteSet(Paths) /\ Cardinality(Paths) \in Nat
  /\ Paths = 1..Cardinality(Paths)
  /\ Paths \subseteq Nat \ {0}
  /\ Parent \in [Paths -> Paths \cup {0}]
  /\ \A p \in Paths : Parent[p] < p
<1>1. IsFiniteSet(Paths) /\ Paths = 1..Cardinality(Paths)
  BY RestoreAssumption
<1>2. Cardinality(Paths) \in Nat
  BY <1>1, FS_CardinalityType
<1> QED
  BY <1>1, <1>2, RestoreAssumption

\* What is above a path: its parent, and what is above that.
LEMMA UpIs ==
  \A p \in Paths : Up[p] = IF Parent[p] = 0 THEN {} ELSE {Parent[p]} \cup Up[Parent[p]]
<1> DEFINE N == Cardinality(Paths)
           Body(f, p) == IF Parent[p] = 0 THEN {} ELSE {Parent[p]} \cup f[Parent[p]]
           Given(m) == \E g : /\ g = [p \in 1..m |-> g[p]]
                            /\ \A p \in 1..m : g[p] = Body(g, p)
           S == { m \in Nat : m <= N => Given(m) }
<1>1. Given(0)
  <2> DEFINE g == [p \in 1..0 |-> {}]
  <2>1. g = [p \in 1..0 |-> g[p]]
    OBVIOUS
  <2>2. \A p \in 1..0 : g[p] = Body(g, p)
    OBVIOUS
  <2> HIDE DEF g
  <2> QED
    BY <2>1, <2>2
<1>2. ASSUME NEW m \in Nat, Given(m), m + 1 <= N PROVE Given(m + 1)
  <2>1. N \in Nat
    BY PathsAre
  <2>2. PICK g : /\ g = [p \in 1..m |-> g[p]]
                 /\ \A p \in 1..m : g[p] = Body(g, p)
    BY <1>2
  <2> DEFINE h == [p \in 1..(m + 1) |-> IF p = m + 1 THEN Body(g, p) ELSE g[p]]
  <2>3. h = [p \in 1..(m + 1) |-> h[p]]
    OBVIOUS
  <2>4. ASSUME NEW p \in 1..(m + 1) PROVE h[p] = Body(h, p)
    <3>1. p \in Paths /\ Parent[p] \in Paths \cup {0} /\ Parent[p] < p
      BY <1>2, <2>1, PathsAre
    <3>2. Parent[p] # 0 => Parent[p] \in 1..m
      BY <3>1, PathsAre
    <3>3. Parent[p] # 0 => h[Parent[p]] = g[Parent[p]]
      BY <3>2
    <3>4. p = m + 1 \/ p \in 1..m
      OBVIOUS
    <3>5. h[p] = IF p = m + 1 THEN Body(g, p) ELSE g[p]
      OBVIOUS
    <3>6. h[p] = Body(g, p)
      BY <2>2, <3>4, <3>5
    <3> HIDE DEF h
    <3> QED
      BY <3>3, <3>6
  <2> HIDE DEF h
  <2> QED
    BY <2>3, <2>4
<1> HIDE DEF Given
<1>3. 0 \in S
  BY <1>1
<1>4. ASSUME NEW m \in Nat, m \in S PROVE m + 1 \in S
  BY <1>2, <1>4, PathsAre
<1> HIDE DEF S
<1>5. N \in S
  BY <1>3, <1>4, AllNumbers, PathsAre
<1>6. Given(N)
  BY <1>5, PathsAre DEF S
<1>7. PICK g : /\ g = [p \in 1..N |-> g[p]]
               /\ \A p \in 1..N : g[p] = Body(g, p)
  BY <1>6 DEF Given
<1>8. 1..N = Paths
  BY PathsAre
<1> HIDE DEF N
<1>9. g = [p \in Paths |-> IF Parent[p] = 0 THEN {} ELSE {Parent[p]} \cup g[Parent[p]]]
  BY <1>7, <1>8
<1> DEFINE f == CHOOSE x : x = [p \in Paths |-> IF Parent[p] = 0 THEN {} ELSE {Parent[p]} \cup x[Parent[p]]]
<1>10. f = [p \in Paths |-> IF Parent[p] = 0 THEN {} ELSE {Parent[p]} \cup f[Parent[p]]]
  BY <1>9
<1>11. Up = f
  BY DEF Up
<1> HIDE DEF f
<1> QED
  BY <1>10, <1>11

\* What holds of every path whose parent it holds of, holds of all.
LEMMA AllPaths ==
  ASSUME NEW T, \A p \in Paths : (Parent[p] # 0 => Parent[p] \in T) => p \in T
  PROVE  Paths \subseteq T
<1> DEFINE B == { p \in Paths : p \notin T }
<1>1. SUFFICES ASSUME B # {} PROVE FALSE
  OBVIOUS
<1>2. B \in SUBSET Nat
  BY PathsAre
<1>3. \E m \in B : \A j \in B : m <= j
  BY <1>1, <1>2, Least
<1>4. PICK m \in B : \A j \in B : m <= j
  BY <1>3
<1>5. m \in Paths /\ m \notin T
  BY <1>4
<1>6. Parent[m] # 0 => Parent[m] \in Paths /\ Parent[m] < m /\ m \in Nat /\ Parent[m] \in Nat
  BY <1>5, PathsAre
<1>7. Parent[m] # 0 => Parent[m] \notin B
  BY <1>4, <1>6
<1>8. Parent[m] # 0 => Parent[m] \in T
  BY <1>6, <1>7
<1> QED
  BY <1>5, <1>8

\* What is above a path is a directory, and has a smaller number.
LEMMA UpAreDirs ==
  \A p \in Paths : /\ Up[p] \subseteq Paths
                   /\ \A q \in Up[p] : q < p /\ q \in Dirs
<1> DEFINE T == { p \in Paths : Up[p] \subseteq Paths /\ \A q \in Up[p] : q < p /\ q \in Dirs }
<1>1. ASSUME NEW p \in Paths, Parent[p] # 0 => Parent[p] \in T PROVE p \in T
  <2>1. CASE Parent[p] = 0
    BY <2>1, UpIs
  <2>2. CASE Parent[p] # 0
    <3>1. Up[p] = {Parent[p]} \cup Up[Parent[p]]
      BY <2>2, UpIs
    <3>2. Parent[p] \in Paths /\ Parent[p] < p /\ p \in Nat /\ Parent[p] \in Nat
      BY <2>2, PathsAre
    <3>3. Parent[p] \in Dirs
      BY <3>2 DEF Dirs
    <3>4. Up[Parent[p]] \subseteq Paths /\ \A q \in Up[Parent[p]] : q < Parent[p] /\ q \in Dirs
      BY <1>1, <2>2
    <3>5. \A q \in Up[Parent[p]] : q \in Nat /\ q < p
      BY <3>2, <3>4, PathsAre
    <3> QED
      BY <3>1, <3>2, <3>3, <3>4, <3>5
  <2> QED
    BY <2>1, <2>2
<1> HIDE DEF T
<1>2. Paths \subseteq T
  BY <1>1, AllPaths
<1> QED
  BY <1>2 DEF T

\* What is above a path has above it what is above the path, too.
LEMMA UpIsClosed ==
  \A p \in Paths : \A q \in Up[p] : Up[q] \subseteq Up[p]
<1> DEFINE T == { p \in Paths : \A q \in Up[p] : Up[q] \subseteq Up[p] }
<1>1. ASSUME NEW p \in Paths, Parent[p] # 0 => Parent[p] \in T PROVE p \in T
  <2>1. CASE Parent[p] = 0
    BY <2>1, UpIs
  <2>2. CASE Parent[p] # 0
    <3>1. Up[p] = {Parent[p]} \cup Up[Parent[p]]
      BY <2>2, UpIs
    <3>2. \A q \in Up[Parent[p]] : Up[q] \subseteq Up[Parent[p]]
      BY <1>1, <2>2
    <3> QED
      BY <3>1, <3>2
  <2> QED
    BY <2>1, <2>2
<1> HIDE DEF T
<1>2. Paths \subseteq T
  BY <1>1, AllPaths
<1> QED
  BY <1>2 DEF T

\* Of two directories above a path, one is above the other.
LEMMA UpIsALine ==
  \A p \in Paths : \A q, r \in Up[p] : q = r \/ q \in Up[r] \/ r \in Up[q]
<1> DEFINE T == { p \in Paths : \A q, r \in Up[p] : q = r \/ q \in Up[r] \/ r \in Up[q] }
<1>1. ASSUME NEW p \in Paths, Parent[p] # 0 => Parent[p] \in T PROVE p \in T
  <2>1. CASE Parent[p] = 0
    BY <2>1, UpIs
  <2>2. CASE Parent[p] # 0
    <3>1. Up[p] = {Parent[p]} \cup Up[Parent[p]]
      BY <2>2, UpIs
    <3>2. \A q, r \in Up[Parent[p]] : q = r \/ q \in Up[r] \/ r \in Up[q]
      BY <1>1, <2>2
    <3> QED
      BY <3>1, <3>2
  <2> QED
    BY <2>1, <2>2
<1> HIDE DEF T
<1>2. Paths \subseteq T
  BY <1>1, AllPaths
<1> QED
  BY <1>2 DEF T

\* The parent is above a path.
LEMMA ParentIsAbove ==
  ASSUME NEW p \in Paths, Parent[p] # 0
  PROVE  /\ Parent[p] \in Paths \cap Dirs \cap Up[p] /\ Parent[p] # p
         /\ \A q \in Paths : p \in Up[q] => Parent[p] \in Up[q]
<1>1. Parent[p] \in Up[p]
  BY UpIs
<1>2. Parent[p] \in Paths \cap Dirs /\ Parent[p] # p
  BY <1>1, UpAreDirs, PathsAre
<1>3. \A q \in Paths : p \in Up[q] => Parent[p] \in Up[q]
  BY <1>1, UpIsClosed
<1> QED
  BY <1>1, <1>2, <1>3

-----------------------------------------------------------------------------
(* The destination. *)

DirCopy == [Nothing EXCEPT !.kind = "dir"]

\* What a destination has at a path.
LEMMA CopyTypes ==
  /\ MaxSessions \in Nat /\ None \in Node /\ Torn \in Node
  /\ Nothing \in Copy /\ Nothing.kind = "none" /\ Nothing.ino = 0 /\ Nothing.data # Torn
  /\ DirCopy \in Copy /\ DirCopy.kind = "dir" /\ DirCopy.ino = 0 /\ DirCopy.data # Torn
<1>1. MaxSessions \in Nat
  BY RestoreAssumption
<1> QED
  BY <1>1 DEF DirCopy, Nothing, None, Torn, Node, Copy

\* MkdirAll of directories with all above them.
LEMMA MkdirAllGives ==
  ASSUME NEW d, IsDest(d), NEW ps \in SUBSET Paths,
         \A q \in ps : Parent[q] # 0 => Parent[q] \in ps
  PROVE  LET x == MkdirAll(d, ps) IN
         /\ x.ok \in BOOLEAN
         /\ IsDest(x.d) /\ (Apart(d) => Apart(x.d))
         /\ \A q \in Paths : x.d[q] = d[q] \/ (q \in ps /\ x.d[q] = DirCopy)
         /\ x.ok => \A q \in ps : x.d[q] = DirCopy
<1> DEFINE x == MkdirAll(d, ps)
           e == [p \in Paths |-> IF p \in ps THEN DirCopy ELSE d[p]]
<1>1. CASE \E p \in ps : d[p].kind \in {"file", "sym"}
  <2>1. x.ok = FALSE /\ x.d = d
    BY <1>1 DEF MkdirAll, Outcome
  <2> HIDE DEF x
  <2>2. x.ok \in BOOLEAN /\ IsDest(x.d) /\ (Apart(d) => Apart(x.d))
    BY <2>1
  <2>3. /\ \A q \in Paths : x.d[q] = d[q] \/ (q \in ps /\ x.d[q] = DirCopy)
        /\ ~x.ok
    BY <2>1
  <2> QED
    BY <2>2, <2>3 DEF x
<1>2. CASE ~(\E p \in ps : d[p].kind \in {"file", "sym"})
  <2>1. x.ok = TRUE /\ x.d = e
    BY <1>2 DEF MkdirAll, Outcome, DirCopy
  <2>2. d \in [Paths -> Copy]
    BY DEF IsDest
  <2>3. \A q \in Paths : e[q] = IF q \in ps THEN DirCopy ELSE d[q]
    OBVIOUS
  <2>4. e \in [Paths -> Copy]
    BY <2>2, CopyTypes
  <2> HIDE DEF e
  <2>5. \A q \in Paths : Parent[q] # 0 => Parent[q] \in Paths
    BY PathsAre
  <2>6. ASSUME NEW q \in Paths, e[q] # Nothing, Parent[q] # 0 PROVE e[Parent[q]].kind = "dir"
    <3>1. Parent[q] \in Paths
      BY <2>5, <2>6
    <3>2. CASE q \in ps
      BY <2>3, <2>6, <3>1, <3>2, CopyTypes
    <3>3. CASE q \notin ps
      <4>1. d[Parent[q]].kind = "dir"
        BY <2>3, <2>6, <3>3 DEF IsDest
      <4> QED
        BY <2>3, <3>1, <4>1, CopyTypes
    <3> QED
      BY <3>2, <3>3
  <2>7. \A q \in Paths : e[q].kind \in {"file", "sym", "none"} => e[q] = d[q]
    BY <2>3, CopyTypes
  <2>8. \A q \in Paths : e[q].kind # "file" => e[q].ino = 0 /\ e[q].data # Torn
    BY <2>3, CopyTypes DEF IsDest
  <2>9. IsDest(e)
    BY <2>4, <2>6, <2>7, <2>8 DEF IsDest
  <2>10. Apart(d) => Apart(e)
    BY <2>7 DEF Apart
  <2> HIDE DEF x
  <2>11. x.ok \in BOOLEAN /\ IsDest(x.d) /\ (Apart(d) => Apart(x.d))
    BY <2>1, <2>9, <2>10
  <2>12. ASSUME NEW q \in Paths
         PROVE  /\ x.d[q] = d[q] \/ (q \in ps /\ x.d[q] = DirCopy)
                /\ q \in ps => x.d[q] = DirCopy
    BY <2>1, <2>3
  <2> QED
    BY <2>11, <2>12 DEF x
<1> QED
  BY <1>1, <1>2

\* There always is an inode for a file that is made.
LEMMA FreshInode ==
  ASSUME NEW d, IsDest(d), NEW r \in Paths, d[r].kind # "file"
  PROVE  \E i \in Paths : \A q \in Paths : d[q].ino # i
<1> DEFINE S == Paths \ {r}
           Used == { d[q].ino : q \in S }
<1>1. IsFiniteSet(Paths) /\ Cardinality(Paths) \in Nat
  BY PathsAre
<1>2. IsFiniteSet(S) /\ Cardinality(S) = Cardinality(Paths) - 1
  BY <1>1, FS_RemoveElement
<1>3. IsFiniteSet(Used) /\ Cardinality(Used) <= Cardinality(S)
  <2> DEFINE f == [q \in S |-> d[q].ino]
  <2>1. f \in Surjection(S, Used)
    BY DEF Surjection
  <2> HIDE DEF f, Used, S
  <2> QED
    BY <1>2, <2>1, FS_Surjection
<1>4. Cardinality(Used) \in Nat
  BY <1>3, FS_CardinalityType
<1> HIDE DEF Used, S
<1>5. ~(Paths \subseteq Used)
  <2>1. SUFFICES ASSUME Paths \subseteq Used PROVE FALSE
    OBVIOUS
  <2>2. Cardinality(Paths) <= Cardinality(Used)
    BY <1>3, <2>1, FS_Subset
  <2> QED
    BY <1>1, <1>2, <1>3, <1>4, <2>2
<1>6. PICK i \in Paths : i \notin Used
  BY <1>5
<1>7. d[r].ino = 0 /\ i # 0
  BY PathsAre DEF IsDest
<1>8. \A q \in Paths : q # r => d[q].ino # i
  BY <1>6 DEF Used, S
<1> QED
  BY <1>7, <1>8

\* A file is written: no plain path but its own changes.
LEMMA FillGives ==
  ASSUME NEW d, IsDest(d), Apart(d), NEW p \in Paths, MayCreate(d, p),
         NEW data \in Node
  PROVE  LET x == Fill(d, p, data) IN
         /\ IsDest(x) /\ Apart(x)
         /\ \A q \in Paths : Plain(q) /\ q # p => x[q] = d[q]
         /\ Plain(p) => x[p].kind = "file" /\ x[p].data = data
<1> DEFINE r == Real(d, p)
           i == IF d[r].kind = "file" THEN d[r].ino
                ELSE CHOOSE n \in Paths : \A q \in Paths : d[q].ino # n
           C == { q \in Paths : q = r \/ (d[q].kind = "file" /\ d[q].ino = i) }
           new == [kind |-> "file", ino |-> i, data |-> data]
           x == [q \in Paths |-> IF q \in C THEN new ELSE d[q]]
<1>1. Fill(d, p, data) = x
  BY DEF Fill
<1>2. d \in [Paths -> Copy]
  BY DEF IsDest
<1>3. r \in Paths /\ d[r].kind \in {"none", "file"}
  BY DEF Real, MayCreate, IsDest
<1>4. \A a \in Up[r] : d[a].kind = "dir"
  BY DEF MayCreate
<1>5. d[p].kind = "sym" => ~Wrapped /\ r = d[p].data.of
  BY DEF MayCreate, Real
<1>6. d[p].kind # "sym" => r = p
  BY DEF Real
<1> HIDE DEF r
<1>7. d[r].kind = "file" => i \in Paths /\ i = d[r].ino
  BY <1>3 DEF IsDest
<1>8. d[r].kind # "file" => i \in Paths /\ \A q \in Paths : d[q].ino # i
  <2>1. SUFFICES ASSUME d[r].kind # "file"
                 PROVE  i \in Paths /\ \A q \in Paths : d[q].ino # i
    OBVIOUS
  <2>2. \E n \in Paths : \A q \in Paths : d[q].ino # n
    BY <1>3, <2>1, FreshInode
  <2> QED
    BY <2>1, <2>2
<1> HIDE DEF i
<1>9. i \in Paths
  BY <1>7, <1>8
<1>10. r \in C /\ \A q \in C : q = r \/ (d[q].kind = "file" /\ d[q].ino = i)
  BY <1>3
<1>11. \A q \in Paths : d[q].kind = "file" /\ d[q].ino = i => q \in C
  OBVIOUS
<1>12. C \subseteq Paths
  OBVIOUS
<1>13. \A q \in C : d[q].kind \in {"none", "file"}
  BY <1>3
<1> HIDE DEF C
<1>14. new.kind = "file" /\ new.ino = i /\ new.data = data /\ new \in Copy
  BY <1>9 DEF Copy
<1>15. new # Nothing
  BY <1>14, CopyTypes
<1> HIDE DEF new
<1>16. \A q \in Paths : x[q] = IF q \in C THEN new ELSE d[q]
  OBVIOUS
<1>17. x \in [Paths -> Copy]
  BY <1>2, <1>14
<1> HIDE DEF x
<1>18. IsDest(x)
  <2>1. ASSUME NEW q \in Paths
        PROVE  /\ x[q].kind = "none" => x[q] = Nothing
               /\ x[q].kind = "file" => x[q].ino \in Paths
               /\ x[q].kind # "file" => x[q].ino = 0 /\ x[q].data # Torn
               /\ x[q].kind = "sym" => x[q].data.of \in Paths
    <3>1. CASE q \in C
      BY <1>9, <1>14, <1>16, <3>1
    <3>2. CASE q \notin C
      <4>1. x[q] = d[q]
        BY <1>16, <3>2
      <4> QED
        BY <4>1 DEF IsDest
    <3> QED
      BY <3>1, <3>2
  <2>2. ASSUME NEW q \in Paths, x[q] # Nothing, Parent[q] # 0
        PROVE  x[Parent[q]].kind = "dir"
    <3>1. Parent[q] \in Paths /\ Parent[q] \in Up[q]
      BY <2>2, ParentIsAbove
    <3>2. d[Parent[q]].kind = "dir"
      <4>1. CASE q = r
        BY <1>4, <3>1, <4>1
      <4>2. CASE q # r
        <5>1. d[q] # Nothing
          BY <1>10, <1>16, <2>2, <4>2, CopyTypes
        <5> QED
          BY <2>2, <5>1 DEF IsDest
      <4> QED
        BY <4>1, <4>2
    <3>3. Parent[q] \notin C
      BY <1>13, <3>2
    <3> QED
      BY <1>16, <3>1, <3>2, <3>3
  <2>3. ASSUME NEW a \in Paths, NEW b \in Paths,
               x[a].kind = "file", x[b].kind = "file", x[a].ino = x[b].ino
        PROVE  x[a].data = x[b].data
    <3>1. CASE a \in C /\ b \in C
      BY <1>16, <3>1
    <3>2. CASE a \notin C /\ b \notin C
      <4>1. x[a] = d[a] /\ x[b] = d[b]
        BY <1>16, <3>2
      <4> QED
        BY <2>3, <4>1 DEF IsDest
    <3>3. CASE a \in C /\ b \notin C
      BY <1>11, <1>14, <1>16, <2>3, <3>3
    <3>4. CASE a \notin C /\ b \in C
      BY <1>11, <1>14, <1>16, <2>3, <3>4
    <3> QED
      BY <3>1, <3>2, <3>3, <3>4
  <2> QED
    BY <1>17, <2>1, <2>2, <2>3 DEF IsDest
<1>19. ASSUME NEW q \in C, NEW c \in C, Plain(q)
       PROVE  q = c
  <2>1. CASE d[r].kind = "file"
    <3>1. d[q].kind = "file" /\ d[c].kind = "file" /\ d[q].ino = i /\ d[c].ino = i
      BY <1>7, <1>10, <2>1
    <3> QED
      BY <1>12, <1>19, <3>1 DEF Apart
  <2>2. CASE d[r].kind # "file"
    BY <1>8, <1>10, <1>12, <2>2
  <2> QED
    BY <2>1, <2>2
<1>20. Apart(x)
  <2>1. SUFFICES ASSUME NEW q \in Paths, Plain(q)
                 PROVE  /\ x[q].kind # "sym"
                        /\ \A c \in Paths :
                             /\ c # q /\ x[q].kind = "file" /\ x[c].kind = "file" => x[q].ino # x[c].ino
                             /\ x[c].kind = "sym" /\ x[c].data.of = q => Wrapped
    BY DEF Apart
  <2>2. x[q].kind # "sym"
    BY <1>14, <1>16, <2>1 DEF Apart
  <2>3. ASSUME NEW c \in Paths, c # q, x[q].kind = "file", x[c].kind = "file"
        PROVE  x[q].ino # x[c].ino
    <3>1. CASE q \in C /\ c \in C
      BY <1>19, <2>1, <2>3, <3>1
    <3>2. CASE q \notin C /\ c \notin C
      <4>1. x[q] = d[q] /\ x[c] = d[c]
        BY <1>16, <3>2
      <4> QED
        BY <2>1, <2>3, <4>1 DEF Apart
    <3>3. CASE q \in C /\ c \notin C
      BY <1>11, <1>14, <1>16, <2>3, <3>3
    <3>4. CASE q \notin C /\ c \in C
      BY <1>11, <1>14, <1>16, <2>3, <3>4
    <3> QED
      BY <3>1, <3>2, <3>3, <3>4
  <2>4. ASSUME NEW c \in Paths, x[c].kind = "sym", x[c].data.of = q PROVE Wrapped
    <3>1. x[c] = d[c]
      BY <1>14, <1>16, <2>4
    <3> QED
      BY <2>1, <2>4, <3>1 DEF Apart
  <2> QED
    BY <2>2, <2>3, <2>4
<1>21. ASSUME NEW q \in Paths, Plain(q), q # p PROVE x[q] = d[q]
  <2>1. q # r
    <3>1. SUFFICES ASSUME q = r PROVE FALSE
      OBVIOUS
    <3>2. d[p].kind = "sym"
      BY <1>6, <1>21, <3>1
    <3> QED
      BY <1>5, <1>21, <3>1, <3>2 DEF Apart
  <2>2. q \notin C
    BY <1>10, <1>19, <1>21, <2>1
  <2> QED
    BY <1>16, <2>2
<1>22. Plain(p) => x[p] = new
  <2>1. Plain(p) => d[p].kind # "sym"
    BY DEF Apart
  <2> QED
    BY <1>6, <1>10, <1>16, <2>1
<1> QED
  BY <1>1, <1>14, <1>18, <1>20, <1>21, <1>22

\* Remove: one name goes, or none when something is below it.
LEMMA RemoveGives ==
  ASSUME NEW d, IsDest(d), NEW p \in Paths
  PROVE  LET x == Remove(d, p) IN
         /\ x.ok \in BOOLEAN /\ IsDest(x.d) /\ (Apart(d) => Apart(x.d))
         /\ \A q \in Paths : q # p => x.d[q] = d[q]
         /\ x.d[p] = d[p] \/ x.d[p] = Nothing
         /\ x.ok => x.d[p] = Nothing
         /\ x.d[p] # Nothing => \E c \in Paths : Parent[c] = p /\ d[c] # Nothing
<1> DEFINE x == Remove(d, p)
<1>1. CASE d[p] = Nothing \/ \E c \in Paths : Parent[c] = p /\ d[c] # Nothing
  <2>1. x.ok = FALSE /\ x.d = d
    BY <1>1 DEF Remove, Outcome
  <2> QED
    BY <1>1, <2>1
<1>2. CASE ~(d[p] = Nothing \/ \E c \in Paths : Parent[c] = p /\ d[c] # Nothing)
  <2> DEFINE e == [d EXCEPT ![p] = Nothing]
  <2>1. x.ok = TRUE /\ x.d = e
    BY <1>2 DEF Remove, Outcome
  <2>2. d \in [Paths -> Copy]
    BY DEF IsDest
  <2>3. e \in [Paths -> Copy] /\ e[p] = Nothing /\ \A q \in Paths : q # p => e[q] = d[q]
    BY <2>2, CopyTypes
  <2> HIDE DEF e
  <2>4. \A q \in Paths : e[q].kind # "none" => e[q] = d[q]
    BY <2>3, CopyTypes
  <2>5. ASSUME NEW q \in Paths, e[q] # Nothing, Parent[q] # 0 PROVE e[Parent[q]].kind = "dir"
    <3>1. q # p /\ d[q] # Nothing
      BY <2>3, <2>5
    <3>2. d[Parent[q]].kind = "dir" /\ Parent[q] \in Paths
      BY <2>5, <3>1, PathsAre DEF IsDest
    <3>3. Parent[q] # p
      BY <1>2, <3>1
    <3> QED
      BY <2>3, <3>2, <3>3
  <2>6. \A q \in Paths : /\ e[q].kind = "none" => e[q] = Nothing
                         /\ e[q].kind # "file" => e[q].ino = 0 /\ e[q].data # Torn
    BY <2>3, CopyTypes DEF IsDest
  <2>7. IsDest(e)
    BY <2>3, <2>4, <2>5, <2>6 DEF IsDest
  <2>8. Apart(d) => Apart(e)
    BY <2>4 DEF Apart
  <2> QED
    BY <2>1, <2>3, <2>7, <2>8
<1> QED
  BY <1>1, <1>2

\* A link or symlink that may be made at path p.
Fits(d, p, copy) ==
  /\ copy \in Copy /\ copy.kind \in {"file", "sym"}
  /\ copy.kind = "sym" => /\ copy.ino = 0 /\ copy.data # Torn /\ copy.data.of \in Paths
                          /\ Plain(copy.data.of) => Wrapped
  /\ copy.kind = "file" => copy.ino \in Paths /\ \E o \in Paths \ {p} : ~Plain(o) /\ d[o] = copy

\* It takes the place of what has the name.
LEMMA ReplaceGives ==
  ASSUME NEW d, IsDest(d), Apart(d), NEW p \in Paths, ~Plain(p),
         Parent[p] # 0 => d[Parent[p]].kind = "dir",
         NEW ok \in BOOLEAN, NEW copy, ok => Fits(d, p, copy)
  PROVE  LET x == Replace(d, p, ok, copy) IN
         /\ x.ok \in BOOLEAN /\ IsDest(x.d) /\ Apart(x.d)
         /\ \A q \in Paths : q # p => x.d[q] = d[q]
<1> DEFINE x == Replace(d, p, ok, copy)
           r == Remove(d, p)
           e == [r.d EXCEPT ![p] = copy]
<1>1. /\ r.ok \in BOOLEAN /\ IsDest(r.d) /\ Apart(r.d)
      /\ \A q \in Paths : q # p => r.d[q] = d[q]
      /\ r.d[p] = d[p] \/ r.d[p] = Nothing
      /\ r.ok => r.d[p] = Nothing
  BY RemoveGives
<1> HIDE DEF r
<1>2. CASE d[p] # Nothing /\ ~r.ok
  <2>1. x.ok = FALSE /\ x.d = d
    BY <1>2 DEF Replace, Outcome, r
  <2> QED
    BY <2>1
<1>3. CASE ~(d[p] # Nothing /\ ~r.ok) /\ ~ok
  <2>1. x.ok = FALSE /\ x.d = r.d
    BY <1>3 DEF Replace, Outcome, r
  <2> QED
    BY <1>1, <2>1
<1>4. CASE ~(d[p] # Nothing /\ ~r.ok) /\ ok
  <2>1. x.ok = TRUE /\ x.d = e
    BY <1>4 DEF Replace, Outcome, r
  <2>2. r.d[p] = Nothing
    BY <1>1, <1>4
  <2>3. Fits(d, p, copy)
    BY <1>4
  <2>4. r.d \in [Paths -> Copy] /\ copy \in Copy
    BY <1>1, <2>3 DEF IsDest, Fits
  <2>5. e \in [Paths -> Copy] /\ e[p] = copy /\ \A q \in Paths : q # p => e[q] = r.d[q]
    BY <2>4
  <2> HIDE DEF e
  <2>6. ASSUME NEW q \in Paths, e[q] # Nothing, Parent[q] # 0 PROVE e[Parent[q]].kind = "dir"
    <3>1. Parent[q] \in Paths /\ Parent[q] # q
      BY <2>6, ParentIsAbove
    <3>2. CASE q = p
      BY <1>1, <2>5, <2>6, <3>1, <3>2
    <3>3. CASE q # p
      <4>1. r.d[Parent[q]].kind = "dir"
        BY <1>1, <2>5, <2>6, <3>3 DEF IsDest
      <4>2. Parent[q] # p
        BY <2>2, <4>1, CopyTypes
      <4> QED
        BY <2>5, <3>1, <4>1, <4>2
    <3> QED
      BY <3>2, <3>3
  <2>7. ASSUME NEW q \in Paths
        PROVE  /\ e[q].kind = "none" => e[q] = Nothing
               /\ e[q].kind = "file" => e[q].ino \in Paths
               /\ e[q].kind # "file" => e[q].ino = 0 /\ e[q].data # Torn
               /\ e[q].kind = "sym" => e[q].data.of \in Paths
    <3>1. CASE q = p
      BY <2>3, <2>5, <3>1 DEF Fits
    <3>2. CASE q # p
      BY <1>1, <2>5, <3>2 DEF IsDest
    <3> QED
      BY <3>1, <3>2
  <2>8. ASSUME copy.kind = "file"
        PROVE  \E o \in Paths \ {p} : ~Plain(o) /\ r.d[o] = copy
    BY <1>1, <2>3, <2>8 DEF Fits
  <2>9. ASSUME NEW a \in Paths, NEW b \in Paths, a # p,
               e[a].kind = "file", e[b].kind = "file", e[a].ino = e[b].ino
        PROVE  e[a].data = e[b].data
    <3>1. e[a] = r.d[a]
      BY <2>5, <2>9
    <3>2. CASE b # p
      BY <1>1, <2>5, <2>9, <3>1, <3>2 DEF IsDest
    <3>3. CASE b = p
      <4>1. PICK o \in Paths \ {p} : ~Plain(o) /\ r.d[o] = copy
        BY <2>5, <2>8, <2>9, <3>3
      <4>2. r.d[o].kind = "file" /\ r.d[o].ino = r.d[a].ino /\ e[b].data = r.d[o].data
        BY <2>5, <2>9, <3>1, <3>3, <4>1
      <4> QED
        BY <1>1, <2>9, <3>1, <4>2 DEF IsDest
    <3> QED
      BY <3>2, <3>3
  <2>10. \A a, b \in Paths :
           e[a].kind = "file" /\ e[b].kind = "file" /\ e[a].ino = e[b].ino => e[a].data = e[b].data
    BY <2>9
  <2>11. IsDest(e)
    BY <2>5, <2>6, <2>7, <2>10 DEF IsDest
  <2>12. Apart(e)
    <3>1. SUFFICES ASSUME NEW q \in Paths, Plain(q)
                   PROVE  /\ e[q].kind # "sym"
                          /\ \A c \in Paths :
                               /\ c # q /\ e[q].kind = "file" /\ e[c].kind = "file" => e[q].ino # e[c].ino
                               /\ e[c].kind = "sym" /\ e[c].data.of = q => Wrapped
      BY DEF Apart
    <3>2. q # p /\ e[q] = r.d[q]
      BY <2>5, <3>1
    <3>3. e[q].kind # "sym"
      BY <1>1, <3>1, <3>2 DEF Apart
    <3>4. ASSUME NEW c \in Paths, c # q, e[q].kind = "file", e[c].kind = "file"
          PROVE  e[q].ino # e[c].ino
      <4>1. CASE c # p
        BY <1>1, <2>5, <3>1, <3>2, <3>4, <4>1 DEF Apart
      <4>2. CASE c = p
        <5>1. PICK o \in Paths \ {p} : ~Plain(o) /\ r.d[o] = copy
          BY <2>5, <2>8, <3>4, <4>2
        <5>2. o # q /\ r.d[o].kind = "file" /\ r.d[o].ino = e[c].ino
          BY <2>5, <3>1, <3>4, <4>2, <5>1
        <5> QED
          BY <1>1, <3>1, <3>2, <3>4, <5>2 DEF Apart
      <4> QED
        BY <4>1, <4>2
    <3>5. ASSUME NEW c \in Paths, e[c].kind = "sym", e[c].data.of = q PROVE Wrapped
      <4>1. CASE c # p
        BY <1>1, <2>5, <3>1, <3>5, <4>1 DEF Apart
      <4>2. CASE c = p
        BY <2>3, <2>5, <3>1, <3>5, <4>2 DEF Fits
      <4> QED
        BY <4>1, <4>2
    <3> QED
      BY <3>3, <3>4, <3>5
  <2> QED
    BY <1>1, <2>1, <2>5, <2>11, <2>12
<1> QED
  BY <1>2, <1>3, <1>4

\* Tombstones: a directory that is not empty stays.
LEMMA BuryGives ==
  ASSUME NEW d, IsDest(d), NEW dead \in SUBSET Paths
  PROVE  LET e == Bury(d, dead) IN
         /\ IsDest(e) /\ (Apart(d) => Apart(e))
         /\ \A p \in Paths : e[p] = d[p] \/ (p \in dead /\ e[p] = Nothing)
         /\ \A p \in dead : p \notin Dirs => e[p] = Nothing
<1> DEFINE e == Bury(d, dead)
<1>1. d \in [Paths -> Copy]
  BY DEF IsDest
<1>2. \A p \in Paths : e[p] = IF p \in dead THEN Remove(d, p).d[p] ELSE d[p]
  BY DEF Bury
<1>3. e = [p \in Paths |-> e[p]]
  BY DEF Bury
<1> HIDE DEF e
<1>4. \A p \in Paths :
        /\ Remove(d, p).d[p] = d[p] \/ Remove(d, p).d[p] = Nothing
        /\ Remove(d, p).d[p] # Nothing => \E c \in Paths : Parent[c] = p /\ d[c] # Nothing
  BY RemoveGives
<1>5. ASSUME NEW p \in Paths PROVE e[p] = d[p] \/ (p \in dead /\ e[p] = Nothing)
  <2>1. CASE p \in dead
    <3> DEFINE rest == Remove(d, p).d[p]
    <3>1. e[p] = rest
      BY <1>2, <2>1
    <3>2. rest = d[p] \/ rest = Nothing
      BY <1>4
    <3> HIDE DEF rest
    <3> QED
      BY <2>1, <3>1, <3>2
  <2>2. CASE p \notin dead
    <3>1. e[p] = d[p]
      BY <1>2, <2>2
    <3> QED
      BY <3>1
  <2> QED
    BY <2>1, <2>2
<1>6. \A p \in Paths : e[p] \in Copy
  BY <1>1, <1>5, CopyTypes
<1>7. e \in [Paths -> Copy]
  BY <1>3, <1>6
<1>8. \A q \in Paths : e[q].kind # "none" => e[q] = d[q]
  BY <1>5, CopyTypes
<1>9. ASSUME NEW q \in Paths, e[q] # Nothing, Parent[q] # 0 PROVE e[Parent[q]].kind = "dir"
  <2>1. e[q] = d[q]
    BY <1>5, <1>9
  <2>2. d[Parent[q]].kind = "dir" /\ Parent[q] \in Paths
    BY <1>9, <2>1, PathsAre DEF IsDest
  <2>3. d[Parent[q]] # Nothing
    BY <2>2, CopyTypes
  <2>4. Remove(d, Parent[q]).d[Parent[q]] = d[Parent[q]]
    BY <1>9, <2>1, <2>2, <2>3 DEF Remove, Outcome
  <2> QED
    BY <1>2, <2>2, <2>4
<1>10. \A q \in Paths : /\ e[q].kind = "none" => e[q] = Nothing
                        /\ e[q].kind # "file" => e[q].ino = 0 /\ e[q].data # Torn
  BY <1>5, CopyTypes DEF IsDest
<1>11. IsDest(e)
  BY <1>7, <1>8, <1>9, <1>10 DEF IsDest
<1>12. Apart(d) => Apart(e)
  BY <1>8 DEF Apart
<1>13. ASSUME NEW p \in dead, p \notin Dirs PROVE e[p] = Nothing
  <2>1. ~ \E c \in Paths : Parent[c] = p /\ d[c] # Nothing
    BY <1>13 DEF Dirs
  <2> QED
    BY <1>2, <1>4, <2>1
<1> QED
  BY <1>5, <1>11, <1>12, <1>13 DEF e

-----------------------------------------------------------------------------
(* The tree and the lists of what changes in it. *)

\* Nodes of a tree.
LEMMA NodeTypes ==
  /\ None.kind = "none" /\ None.at = 0 /\ None.of = 0
  /\ \A at \in 0..MaxSessions, of \in Paths \cup {0} : \A k \in {"none", "dir", "reg", "sym"} :
       [kind |-> k, at |-> at, of |-> of] \in Node
  /\ \A x \in Node : /\ x.kind \in {"none", "dir", "reg", "sym"}
                     /\ x.at \in 0..MaxSessions /\ x.of \in Paths \cup {0}
                     /\ x = [kind |-> x.kind, at |-> x.at, of |-> x.of]
  /\ 0 \notin Paths
BY PathsAre DEF Node, None

\* A first path of those that satisfy something.
LEMMA FirstPath ==
  ASSUME NEW S \in SUBSET Paths, S # {}
  PROVE  LET q == CHOOSE q \in S : \A r \in S : q <= r IN q \in S /\ \A r \in S : q <= r
<1>1. S \in SUBSET Nat
  BY PathsAre
<1>2. \E q \in S : \A r \in S : q <= r
  BY <1>1, Least
<1> QED
  BY <1>2

\* The tree of Init is one.
LEMMA FirstTreeGives ==
  ASSUME NEW shared \in BOOLEAN
  PROVE  IsTree(FirstTree(shared))
<1> DEFINE S == Paths \ Dirs
           one == CHOOSE q \in S : \A r \in S : q <= r
           tree == FirstTree(shared)
<1>1. S # {} => one \in Paths
  <2>1. S \in SUBSET Paths
    OBVIOUS
  <2>2. S # {} => one \in S
    BY <2>1, FirstPath
  <2> QED
    BY <2>1, <2>2
<1>2. \A p \in Paths : tree[p] = IF p \in Dirs THEN [None EXCEPT !.kind = "dir"]
                                 ELSE [kind |-> "reg", at |-> 0, of |-> IF shared THEN one ELSE p]
  BY DEF FirstTree
<1>3. tree = [p \in Paths |-> tree[p]]
  BY DEF FirstTree
<1>4. [None EXCEPT !.kind = "dir"] = [kind |-> "dir", at |-> 0, of |-> 0]
  BY DEF None
<1>5. 0 \in 0..MaxSessions
  BY CopyTypes
<1> HIDE DEF tree, one
<1>6. ASSUME NEW p \in Paths
      PROVE  /\ tree[p] \in Node
             /\ tree[p].kind = "none" => tree[p] = None
             /\ tree[p].kind \in {"reg", "sym"} => tree[p].of \in Paths
             /\ p \in Dirs => tree[p].kind \in {"none", "dir"}
  <2>1. CASE p \in Dirs
    <3>1. tree[p] = [kind |-> "dir", at |-> 0, of |-> 0]
      BY <1>2, <1>4, <2>1
    <3>2. tree[p] \in Node
      BY <1>5, <3>1 DEF Node
    <3> QED
      BY <3>1, <3>2
  <2>2. CASE p \notin Dirs
    <3>1. PICK of \in Paths : tree[p] = [kind |-> "reg", at |-> 0, of |-> of]
      BY <1>1, <1>2, <2>2
    <3>2. tree[p] \in Node
      BY <1>5, <3>1 DEF Node
    <3> QED
      BY <2>2, <3>1, <3>2
  <2> QED
    BY <2>1, <2>2
<1>7. tree \in [Paths -> Node]
  BY <1>3, <1>6
<1> QED
  BY <1>6, <1>7 DEF IsTree, tree

\* A tree stays one when a directory gets another time.
LEMMA WithDirTimeGives ==
  ASSUME NEW tree, IsTree(tree), NEW p \in Paths, Now \in 0..MaxSessions,
         Parent[p] # 0 => tree[Parent[p]].kind = "dir"
  PROVE  IsTree(WithDirTime(tree, p))
<1> DEFINE u == Parent[p]
           new == [tree EXCEPT ![u].at = Now]
<1>1. CASE u = 0
  BY <1>1 DEF WithDirTime
<1>2. CASE u # 0
  <2>1. WithDirTime(tree, p) = new
    BY <1>2 DEF WithDirTime
  <2>2. u \in Paths /\ tree \in [Paths -> Node] /\ tree[u].kind = "dir"
    BY <1>2, PathsAre DEF IsTree
  <2>3. tree[u].of \in Paths \cup {0} /\ tree[u] = [kind |-> "dir", at |-> tree[u].at, of |-> tree[u].of]
    BY <2>2, NodeTypes
  <2>4. /\ \A q \in Paths : q # u => new[q] = tree[q]
        /\ new[u] = [tree[u] EXCEPT !.at = Now]
        /\ new = [q \in Paths |-> new[q]]
    BY <2>2
  <2> HIDE DEF new
  <2>5. new[u] = [kind |-> "dir", at |-> Now, of |-> tree[u].of]
    BY <2>3, <2>4
  <2>6. new[u] \in Node
    BY <1>2, <2>3, <2>5, CopyTypes DEF Node
  <2>7. ASSUME NEW q \in Paths
        PROVE  /\ new[q] \in Node
               /\ new[q].kind = "none" => new[q] = None
               /\ new[q].kind \in {"reg", "sym"} => new[q].of \in Paths
               /\ q \in Dirs => new[q].kind \in {"none", "dir"}
    <3>1. CASE q = u
      BY <2>5, <2>6, <3>1
    <3>2. CASE q # u
      BY <2>4, <3>2 DEF IsTree
    <3> QED
      BY <3>1, <3>2
  <2>8. new \in [Paths -> Node]
    BY <2>4, <2>7
  <2> QED
    BY <2>1, <2>7, <2>8 DEF IsTree
<1> QED
  BY <1>1, <1>2

\* A tree stays one when one path gets another node.
LEMMA NodeChanged ==
  ASSUME NEW tree, IsTree(tree), NEW p \in Paths, NEW x \in Node,
         x.kind = "none" => x = None,
         x.kind \in {"reg", "sym"} => x.of \in Paths /\ p \notin Dirs
  PROVE  /\ IsTree([tree EXCEPT ![p] = x])
         /\ \A q \in Paths : q # p => [tree EXCEPT ![p] = x][q] = tree[q]
<1>1. tree \in [Paths -> Node]
  BY DEF IsTree
<1> DEFINE new == [tree EXCEPT ![p] = x]
<1>2. new \in [Paths -> Node] /\ new[p] = x /\ \A q \in Paths : q # p => new[q] = tree[q]
  BY <1>1
<1>3. x.kind \in {"none", "dir", "reg", "sym"}
  BY NodeTypes
<1> HIDE DEF new
<1>4. IsTree(new)
  BY <1>2, <1>3 DEF IsTree
<1> QED
  BY <1>2, <1>4 DEF new

\* A tree stays one in every edit.
LEMMA EditGives ==
  ASSUME Written, NEW p \in Paths, NEW e, Edit(p, e)
  PROVE  IsTree(fs')
<1>1. IsTree(fs) /\ fs \in [Paths -> Node] /\ Now \in 0..MaxSessions
  BY CopyTypes DEF Written, IsTree, Edit
<1>2. Parent[p] # 0 => Parent[p] \in Paths /\ Parent[p] # p /\ fs[Parent[p]].kind = "dir" /\ p \notin Up[Parent[p]]
  <2>1. Parent[p] # 0 => fs[Parent[p]].kind = "dir"
    BY DEF Edit, InTree
  <2> QED
    BY <2>1, PathsAre, UpAreDirs
<1>3. New(p) \in Node /\ New(p).kind = "reg" /\ New(p).of = p
  BY <1>1, NodeTypes DEF New
<1>4. ASSUME NEW x \in Node, x.kind = "none" => x = None,
             x.kind \in {"reg", "sym"} => x.of \in Paths /\ p \notin Dirs
      PROVE  IsTree(WithDirTime([fs EXCEPT ![p] = x], p))
  <2> DEFINE tree == [fs EXCEPT ![p] = x]
  <2>1. IsTree(tree) /\ \A q \in Paths : q # p => tree[q] = fs[q]
    BY <1>1, <1>4, NodeChanged
  <2> HIDE DEF tree
  <2>2. Parent[p] # 0 => tree[Parent[p]].kind = "dir"
    BY <1>2, <2>1
  <2>3. IsTree(WithDirTime(tree, p))
    BY <1>1, <2>1, <2>2, WithDirTimeGives
  <2> QED
    BY <2>3 DEF tree
<1>5. CASE e = "create" /\ p \notin Dirs /\ fs' = WithDirTime([fs EXCEPT ![p] = New(p)], p)
  BY <1>3, <1>4, <1>5
<1>6. CASE e = "create" /\ p \in Dirs /\ fs' = WithDirTime([fs EXCEPT ![p] = [None EXCEPT !.kind = "dir", !.at = Now]], p)
  <2> DEFINE x == [None EXCEPT !.kind = "dir", !.at = Now]
             y == [None EXCEPT !.kind = "dir"]
  <2>1. y = [kind |-> "dir", at |-> 0, of |-> 0]
    BY DEF None
  <2>2. x = [y EXCEPT !.at = Now]
    BY DEF None
  <2> HIDE DEF y
  <2>3. x = [kind |-> "dir", at |-> Now, of |-> 0]
    BY <2>1, <2>2
  <2> HIDE DEF x
  <2>4. x \in Node /\ x.kind = "dir"
    BY <1>1, <2>3, NodeTypes
  <2>5. IsTree(WithDirTime([fs EXCEPT ![p] = x], p))
    BY <1>4, <2>4
  <2> QED
    BY <1>6, <2>5 DEF x
<1>7. CASE e = "modify" /\ fs[p].kind = "reg" /\ fs' = [q \in Paths |-> IF fs[q] = fs[p] THEN New(p) ELSE fs[q]]
  <2>1. \A q \in Paths : fs'[q] = IF fs[q] = fs[p] THEN New(p) ELSE fs[q]
    BY <1>7
  <2>2. fs' \in [Paths -> Node]
    BY <1>1, <1>3, <1>7
  <2>3. \A q \in Paths : fs[q] = fs[p] => q \notin Dirs
    BY <1>1, <1>7 DEF IsTree
  <2> QED
    BY <1>1, <1>3, <2>1, <2>2, <2>3 DEF IsTree
<1>8. CASE e = "remove" /\ fs' = WithDirTime([q \in Paths |-> IF p \in {q} \cup Up[q] THEN None ELSE fs[q]], p)
  <2> DEFINE tree == [q \in Paths |-> IF p \in {q} \cup Up[q] THEN None ELSE fs[q]]
  <2>1. \A q \in Paths : tree[q] = None \/ tree[q] = fs[q]
    OBVIOUS
  <2>2. tree \in [Paths -> Node]
    BY <1>1, CopyTypes
  <2>3. Parent[p] # 0 => tree[Parent[p]] = fs[Parent[p]]
    BY <1>2
  <2> HIDE DEF tree
  <2>4. IsTree(tree)
    BY <1>1, <2>1, <2>2, NodeTypes DEF IsTree
  <2>5. IsTree(WithDirTime(tree, p))
    BY <1>1, <1>2, <2>3, <2>4, WithDirTimeGives
  <2> QED
    BY <1>8, <2>5 DEF tree
<1>9. CASE /\ e = "link" /\ p \notin Dirs
           /\ \E q \in 1..(p - 1) : /\ fs[q].kind = "reg" /\ fs[q] # fs[p]
                                    /\ fs' = WithDirTime([fs EXCEPT ![p] = fs[q]], p)
  <2>1. PICK q \in 1..(p - 1) : /\ fs[q].kind = "reg"
                                /\ fs' = WithDirTime([fs EXCEPT ![p] = fs[q]], p)
    BY <1>9
  <2>2. q \in Paths
    BY PathsAre
  <2>3. fs[q] \in Node /\ fs[q].of \in Paths
    BY <1>1, <2>1, <2>2 DEF IsTree
  <2>4. IsTree(WithDirTime([fs EXCEPT ![p] = fs[q]], p))
    BY <1>4, <1>9, <2>1, <2>3
  <2> QED
    BY <2>1, <2>4
<1>10. CASE /\ e = "symlink" /\ p \notin Dirs
            /\ \E q \in Paths \ (Dirs \cup {p}) :
                 /\ fs[p] # [kind |-> "sym", at |-> Now, of |-> q]
                 /\ fs' = WithDirTime([fs EXCEPT ![p] = [kind |-> "sym", at |-> Now, of |-> q]], p)
  <2>1. PICK q \in Paths : fs' = WithDirTime([fs EXCEPT ![p] = [kind |-> "sym", at |-> Now, of |-> q]], p)
    BY <1>10
  <2> DEFINE x == [kind |-> "sym", at |-> Now, of |-> q]
  <2>2. x \in Node /\ x.kind = "sym" /\ x.of = q
    BY <1>1, NodeTypes
  <2> HIDE DEF x
  <2>3. IsTree(WithDirTime([fs EXCEPT ![p] = x], p))
    BY <1>4, <1>10, <2>2
  <2> QED
    BY <2>1, <2>3 DEF x
<1> QED
  BY <1>5, <1>6, <1>7, <1>8, <1>9, <1>10 DEF Edit

\* Entries of a list.
LEMMA EntryTypes ==
  /\ Dead \in Entry /\ Dead.kind = "dead"
  /\ \A at \in 0..MaxSessions : \A of \in Paths \cup {0}, to \in Paths \cup {0} :
     \A k \in {"dir", "reg", "sym", "link", "dead"} :
       [kind |-> k, at |-> at, of |-> of, to |-> to] \in Entry
BY CopyTypes DEF Dead, Entry

\* EntryOf tells what the tree has at the path; a file with no other name gets an
\* entry of its own, no link.
LEMMA EntryOfGives ==
  ASSUME IsTree(fs), NEW p \in Paths, fs[p] # None
  PROVE  /\ Tells(fs, p, EntryOf(p))
         /\ EntryOf(p).kind # "dead"
         /\ fs[p].kind = "reg" /\ (\A q \in Paths : q # p => fs[q] # fs[p]) =>
              EntryOf(p).kind = "reg" /\ EntryOf(p).at = fs[p].at /\ EntryOf(p).of = fs[p].of
<1> DEFINE owners == { q \in 1..(p - 1) : fs[p].kind = "reg" /\ fs[q] = fs[p] }
           e == [kind |-> fs[p].kind, at |-> fs[p].at, of |-> fs[p].of, to |-> 0]
           one == CHOOSE q \in owners : \A r \in owners : q <= r
           l == [e EXCEPT !.kind = "link", !.to = one]
<1>1. fs[p] \in Node /\ fs[p].kind \in {"dir", "reg", "sym"}
      /\ fs[p].at \in 0..MaxSessions /\ fs[p].of \in Paths \cup {0}
      /\ fs[p] = [kind |-> fs[p].kind, at |-> fs[p].at, of |-> fs[p].of]
  BY NodeTypes DEF IsTree
<1>2. owners \subseteq Paths \ {p}
  BY PathsAre
<1>3. EntryOf(p) = IF owners = {} THEN e ELSE l
  BY DEF EntryOf
<1>4. CASE owners = {}
  <2>1. EntryOf(p) = e
    BY <1>3, <1>4
  <2>2. e \in Entry
    BY <1>1, EntryTypes
  <2> QED
    BY <1>1, <2>1, <2>2 DEF Tells
<1>5. CASE owners # {}
  <2>1. one \in owners
    BY <1>2, <1>5, FirstPath
  <2>2. one \in Paths \ {p} /\ fs[p].kind = "reg" /\ fs[one] = fs[p]
    BY <1>2, <2>1
  <2>3. EntryOf(p) = l
    BY <1>3, <1>5
  <2> HIDE DEF one
  <2> DEFINE k == [e EXCEPT !.kind = "link"]
  <2>4. k = [kind |-> "link", at |-> fs[p].at, of |-> fs[p].of, to |-> 0]
    OBVIOUS
  <2>5. l = [k EXCEPT !.to = one]
    OBVIOUS
  <2> HIDE DEF k
  <2>6. l = [kind |-> "link", at |-> fs[p].at, of |-> fs[p].of, to |-> one]
    BY <2>4, <2>5
  <2>7. l \in Entry
    BY <1>1, <2>2, <2>6 DEF Entry
  <2> QED
    BY <2>2, <2>3, <2>6, <2>7 DEF Tells
<1> QED
  BY <1>4, <1>5

\* The scan lists what is so in the tree, and every file whose last entry is another.
LEMMA ScanGives ==
  ASSUME IsTree(fs), Sessions
  PROVE  /\ Scan \in FileLists /\ DOMAIN Scan \subseteq Paths
         /\ \A p \in DOMAIN Scan : Tells(fs, p, Scan[p])
         /\ \A p \in Paths : fs[p].kind = "reg" =>
              \/ p \in DOMAIN Scan /\ Scan[p] = EntryOf(p)
              \/ /\ p \notin DOMAIN Scan
                 /\ lists # << >> /\ p \in DOMAIN lists[Len(lists)]
                 /\ lists[Len(lists)][p] = EntryOf(p)
<1> DEFINE snap == IF lists = << >> THEN [p \in {} |-> Dead] ELSE lists[Len(lists)]
           here == { p \in Paths : fs[p] # None }
           new == { p \in here : p \in DOMAIN snap => snap[p] # EntryOf(p) }
           gone == IF Mirror THEN DOMAIN snap \ here ELSE {}
           s == [p \in new \cup gone |-> IF p \in new THEN EntryOf(p) ELSE Dead]
<1>1. Scan = s
  BY DEF Scan
<1>2. DOMAIN snap \subseteq Paths
  <2>1. CASE lists = << >>
    BY <2>1
  <2>2. CASE lists # << >>
    <3>1. Len(lists) \in 1..Len(lists) /\ lists \in Seq(FileLists)
      BY <2>2 DEF Sessions
    <3>2. lists[Len(lists)] \in FileLists
      BY <3>1
    <3> QED
      BY <2>2, <3>2 DEF FileLists
  <2> QED
    BY <2>1, <2>2
<1>3. lists = << >> => DOMAIN snap = {}
  OBVIOUS
<1>4. lists # << >> => snap = lists[Len(lists)]
  OBVIOUS
<1> HIDE DEF snap
<1>5. here \subseteq Paths /\ new \subseteq here /\ gone \subseteq Paths /\ gone \cap here = {}
  BY <1>2
<1>6. \A p \in new : fs[p] # None /\ p \in Paths
  OBVIOUS
<1>7. \A p \in here \ new : p \in DOMAIN snap /\ snap[p] = EntryOf(p)
  OBVIOUS
<1>8. \A p \in Paths : fs[p].kind = "reg" => p \in here
  BY NodeTypes
<1> HIDE DEF new, gone, here
<1>9. DOMAIN s = new \cup gone /\ DOMAIN s \subseteq Paths
  BY <1>5
<1>10. \A p \in DOMAIN s : s[p] = IF p \in new THEN EntryOf(p) ELSE Dead
  OBVIOUS
<1>11. ASSUME NEW p \in DOMAIN s PROVE Tells(fs, p, s[p])
  <2>1. CASE p \in new
    BY <1>6, <1>10, <2>1, EntryOfGives
  <2>2. CASE p \notin new
    BY <1>10, <2>2, EntryTypes DEF Tells
  <2> QED
    BY <2>1, <2>2
<1>12. s \in FileLists
  <2>1. \A p \in DOMAIN s : s[p] \in Entry
    BY <1>11 DEF Tells
  <2>2. s = [p \in DOMAIN s |-> s[p]]
    OBVIOUS
  <2> HIDE DEF s
  <2>3. s \in [DOMAIN s -> Entry]
    BY <2>1, <2>2
  <2> QED
    BY <1>9, <2>3 DEF FileLists
<1>13. ASSUME NEW p \in Paths, fs[p].kind = "reg"
       PROVE  \/ p \in DOMAIN s /\ s[p] = EntryOf(p)
              \/ /\ p \notin DOMAIN s
                 /\ lists # << >> /\ p \in DOMAIN lists[Len(lists)]
                 /\ lists[Len(lists)][p] = EntryOf(p)
  <2>1. p \in here
    BY <1>8, <1>13
  <2>2. CASE p \in new
    <3>1. p \in DOMAIN s /\ s[p] = EntryOf(p)
      BY <1>9, <1>10, <2>2
    <3> QED
      BY <3>1
  <2>3. CASE p \notin new
    <3>1. p \in DOMAIN snap /\ snap[p] = EntryOf(p)
      BY <1>7, <2>1, <2>3
    <3>2. p \notin DOMAIN s
      BY <1>5, <1>9, <2>1, <2>3
    <3>3. lists # << >> /\ snap = lists[Len(lists)]
      BY <1>3, <1>4, <3>1
    <3> HIDE DEF s
    <3> QED
      BY <3>1, <3>2, <3>3
  <2> QED
    BY <2>2, <2>3
<1> HIDE DEF s
<1> QED
  BY <1>1, <1>9, <1>11, <1>12, <1>13

-----------------------------------------------------------------------------
(* The cassettes. *)

\* Every cassette has one place in the chain.
LEMMA ChainIs ==
  /\ Chain \in Seq(Tapes) /\ Len(Chain) \in Nat \ {0} /\ DOMAIN Chain = 1..Len(Chain)
  /\ \A i \in 1..Len(Chain) : Chain[i] \in Tapes
  /\ \A i, j \in 1..Len(Chain) : Chain[i] = Chain[j] => i = j
  /\ \A t \in Tapes : \E i \in 1..Len(Chain) : Chain[i] = t
<1>1. Chain \in Seq(Tapes) /\ Chain # << >>
  BY RestoreAssumption
<1>2. Len(Chain) \in Nat \ {0} /\ DOMAIN Chain = 1..Len(Chain)
  BY <1>1
<1>3. \A i \in 1..Len(Chain) : Chain[i] \in Tapes
  BY <1>1
<1> QED
  BY <1>1, <1>2, <1>3, RestoreAssumption

\* The cassette in use is the last one with sessions.
LEMMA LastInUse ==
  LET n == CHOOSE i \in InUse : \A j \in InUse : j <= i
  IN  n \in InUse /\ n \in 1..Len(Chain) /\ \A j \in InUse : j <= n
<1> DEFINE S == { k \in Nat : Len(Chain) - k \in InUse }
<1>1. InUse \subseteq 1..Len(Chain) /\ 1 \in InUse
  BY ChainIs DEF InUse
<1>2. Len(Chain) \in Nat
  BY ChainIs
<1> HIDE DEF InUse
<1>3. Len(Chain) - 1 \in S
  BY <1>1, <1>2, ChainIs
<1>4. \E k \in S : \A j \in S : k <= j
  BY <1>3, Least
<1>5. PICK k \in S : \A j \in S : k <= j
  BY <1>4
<1>6. Len(Chain) - k \in InUse /\ k \in Nat
  BY <1>5
<1>7. ASSUME NEW j \in InUse PROVE j <= Len(Chain) - k
  <2>1. j \in 1..Len(Chain)
    BY <1>1
  <2>2. Len(Chain) - j \in Nat /\ Len(Chain) - (Len(Chain) - j) = j
    BY <1>2, <2>1
  <2>3. Len(Chain) - j \in S
    BY <2>2
  <2>4. k <= Len(Chain) - j
    BY <1>5, <2>3
  <2> QED
    BY <1>2, <1>6, <2>1, <2>4
<1>8. \E i \in InUse : \A j \in InUse : j <= i
  BY <1>6, <1>7
<1> QED
  BY <1>1, <1>8

\* Sessions are two tape files each, between the label and the end.
LEMMA Halves ==
  /\ \A L \in Nat : L >= 2 => (L - 2) \div 2 \in Nat /\ 2 * ((L - 2) \div 2) + 2 <= L
  /\ \A K \in Nat : ((2 * K + 3) - 2) \div 2 = K
  /\ (2 - 2) \div 2 = 0
OBVIOUS

\* Session Now of cassette t behind c others.
IsWritten(t, c) ==
  /\ Len(files'[t]) = 2 * c + 5
  /\ \A i \in 1..(2 * c + 1) : files'[t][i] = files[t][i]
  /\ files'[t][2 * c + 2].kind = "index" /\ files'[t][2 * c + 2].run = Now
  /\ files'[t][2 * c + 3].kind = "tar" /\ files'[t][2 * c + 3].run = Now
  /\ files'[t][2 * c + 4].kind = "empty" /\ files'[t][2 * c + 5].kind = "empty"

\* Cassette u ends in a pointer to cassette n.
IsLeft(u, n) ==
  /\ Len(files'[u]) = Len(files[u])
  /\ \A i \in 1..(Len(files[u]) - 2) : files'[u][i] = files[u][i]
  /\ files'[u][Len(files[u]) - 1].kind = "pointer" /\ files'[u][Len(files[u]) - 1].name = n
  /\ files'[u][Len(files[u])].kind = "empty"

\* What WriteSession does, with the cassette it chooses.
SessionWritten(move, n) ==
  LET t == Chain[IF move THEN n + 1 ELSE n]
      c == IF move THEN 0 ELSE SessionsOn(t) IN
  /\ n \in InUse /\ n \in 1..Len(Chain) /\ \A j \in InUse : j <= n
  /\ move => n + 1 \in 1..Len(Chain) /\ SessionsOn(Chain[n]) > 0 /\ IsLeft(Chain[n], n + 1)
  /\ files' \in [Tapes -> Seq(Seg)] /\ IsWritten(t, c)
  /\ \A u \in Tapes : u # t /\ (move => u # Chain[n]) => files'[u] = files[u]

\* What a session writes.
LEMMA ImageTypes ==
  ASSUME NEW s, s.run \in Nat, s.part \in Nat, s.num \in Nat,
         NEW f \in Tapes \cup {NoTape}, NEW n \in Nat
  PROVE  LET image == SessionImage(s, f, Empty)
             last == << Pointer(s, n), Empty >> IN
         /\ image \in Seq(Seg) /\ Len(image) = 4
         /\ image[1].kind = "index" /\ image[1].run = s.run
         /\ image[2].kind = "tar" /\ image[2].run = s.run
         /\ image[3].kind = "empty" /\ image[4].kind = "empty"
         /\ last \in Seq(Seg) /\ Len(last) = 2
         /\ last[1].kind = "pointer" /\ last[1].name = n /\ last[2].kind = "empty"
<1>1. /\ Index(s, f) \in Seg /\ Index(s, f).kind = "index" /\ Index(s, f).run = s.run
      /\ Tar(s) \in Seg /\ Tar(s).kind = "tar" /\ Tar(s).run = s.run
      /\ Pointer(s, n) \in Seg /\ Pointer(s, n).kind = "pointer" /\ Pointer(s, n).name = n
  BY DEF Index, Tar, Pointer, Blocks, Seg, Kinds
<1>2. Empty \in Seg /\ Empty.kind = "empty"
  BY BlankSegTypes, KindsOfSegs
<1>3. << Index(s, f), Tar(s), Empty, Empty >> \in Seq(Seg)
  BY <1>1, <1>2
<1>4. << Pointer(s, n), Empty >> \in Seq(Seg)
  BY <1>1, <1>2
<1> QED
  BY <1>1, <1>2, <1>3, <1>4 DEF SessionImage

\* WriteSession writes session Now to a cassette of the chain, and to the one before
\* it at most a pointer.
LEMMA WriteSessionGives ==
  ASSUME Cassettes, Len(lists) \in Nat, NEW move \in BOOLEAN, WriteSession(move)
  PROVE  \E n \in 1..Len(Chain) : SessionWritten(move, n)
<1> DEFINE n == CHOOSE i \in InUse : \A j \in InUse : j <= i
           t == Chain[IF move THEN n + 1 ELSE n]
           c == IF move THEN 0 ELSE SessionsOn(t)
           s == [run |-> Now, part |-> 1, num |-> IF move THEN 1 ELSE SessionsOn(t) + 1]
           f == IF move THEN Chain[n] ELSE NoTape
           image == SessionImage(s, f, Empty)
           new == Overwrite(files[t], WritePos(s.num - 1), image)
           w == [files EXCEPT ![t] = new]
           last == << Pointer(s, n + 1), Empty >>
           left == Overwrite(w[Chain[n]], Len(w[Chain[n]]) - 2, last)
<1>1. n \in InUse /\ n \in 1..Len(Chain) /\ \A j \in InUse : j <= n
  BY LastInUse
<1>2. move => n + 1 \in 1..Len(Chain) /\ SessionsOn(Chain[n]) > 0
  <2>1. move => n < Len(Chain) /\ SessionsOn(Chain[n]) > 0
    BY DEF WriteSession
  <2> QED
    BY <1>1, <2>1, ChainIs
<1>3. files' = IF move THEN [w EXCEPT ![Chain[n]] = left] ELSE w
  BY DEF WriteSession
<1> HIDE DEF n
<1>4. t \in Tapes /\ Chain[n] \in Tapes /\ f \in Tapes \cup {NoTape} /\ (move => t # Chain[n])
  BY <1>1, <1>2, ChainIs
<1>5. files \in [Tapes -> Seq(Seg)] /\ Len(files[t]) \in Nat /\ Len(files[t]) >= 2
      /\ Len(files[Chain[n]]) \in Nat /\ Len(files[Chain[n]]) >= 2
  BY <1>4 DEF Cassettes
<1>6. c \in Nat /\ 2 * c + 1 <= Len(files[t]) /\ SessionsOn(t) \in Nat
  <2> HIDE DEF t
  <2>1. SessionsOn(t) \in Nat /\ 2 * SessionsOn(t) + 2 <= Len(files[t])
    BY <1>5, Halves DEF SessionsOn
  <2> QED
    BY <1>5, <2>1
<1>7. s.num = c + 1 /\ s.run = Now /\ WritePos(s.num - 1) = 2 * c + 1
  BY <1>6 DEF WritePos
<1>8. Now \in Nat /\ n + 1 \in Nat
  BY <1>1 DEF Now
<1>9. /\ image \in Seq(Seg) /\ Len(image) = 4
      /\ image[1].kind = "index" /\ image[1].run = Now
      /\ image[2].kind = "tar" /\ image[2].run = Now
      /\ image[3].kind = "empty" /\ image[4].kind = "empty"
      /\ last \in Seq(Seg) /\ Len(last) = 2
      /\ last[1].kind = "pointer" /\ last[1].name = n + 1 /\ last[2].kind = "empty"
  <2>1. s.run = Now /\ s.part = 1 /\ s.num \in Nat
    BY <1>6
  <2> HIDE DEF s, f, n
  <2>2. s.run \in Nat /\ s.part \in Nat /\ s.num \in Nat
    BY <1>8, <2>1
  <2> QED
    BY <1>4, <1>8, <2>1, <2>2, ImageTypes
<1> HIDE DEF image, last, s, f
<1>10. files[t] \in Seq(Seg) /\ 2 * c + 1 \in 0..Len(files[t])
  BY <1>4, <1>5, <1>6
<1> HIDE DEF c, t
<1>11. /\ new \in Seq(Seg) /\ Len(new) = (2 * c + 1) + 4
       /\ \A i \in 1..(2 * c + 1) : new[i] = files[t][i]
       /\ \A i \in 1..4 : new[(2 * c + 1) + i] = image[i]
  <2> DEFINE old == files[t]
             p == 2 * c + 1
  <2>1. new = Overwrite(old, p, image)
    BY <1>7
  <2>2. old \in Seq(Seg) /\ p \in 0..Len(old)
    BY <1>10
  <2> HIDE DEF old, p, new
  <2>3. /\ new \in Seq(Seg) /\ Len(new) = p + Len(image)
        /\ \A i \in 1..p : new[i] = old[i]
        /\ \A i \in 1..Len(image) : new[p + i] = image[i]
    BY <1>9, <2>1, <2>2, OverwriteFacts
  <2> QED
    BY <1>9, <2>3 DEF old, p
<1>12. /\ (2 * c + 1) + 4 = 2 * c + 5 /\ (2 * c + 1) + 1 = 2 * c + 2 /\ (2 * c + 1) + 2 = 2 * c + 3
       /\ (2 * c + 1) + 3 = 2 * c + 4
  BY <1>6
<1>13. /\ new[2 * c + 2] = image[1] /\ new[2 * c + 3] = image[2] /\ new[2 * c + 4] = image[3]
       /\ new[2 * c + 5] = image[4] /\ Len(new) = 2 * c + 5
  <2>1. 1 \in 1..4 /\ 2 \in 1..4 /\ 3 \in 1..4 /\ 4 \in 1..4
    OBVIOUS
  <2> HIDE DEF new
  <2> QED
    BY <1>11, <1>12, <2>1
<1> HIDE DEF new
<1>14. /\ w \in [Tapes -> Seq(Seg)] /\ w[t] = new
       /\ \A u \in Tapes : u # t => w[u] = files[u]
  BY <1>4, <1>5, <1>11
<1>15. ASSUME files'[t] = new PROVE IsWritten(t, c)
  BY <1>9, <1>11, <1>13, <1>15 DEF IsWritten
<1>16. CASE ~move
  <2>1. files' = w
    BY <1>3, <1>16
  <2>2. IsWritten(t, c)
    BY <1>14, <1>15, <2>1
  <2> HIDE DEF w
  <2>3. SessionWritten(move, n)
    BY <1>1, <1>14, <1>16, <2>1, <2>2 DEF SessionWritten, t, c
  <2> QED
    BY <1>1, <2>3
<1>17. CASE move
  <2>1. w[Chain[n]] = files[Chain[n]]
    BY <1>4, <1>14, <1>17
  <2> DEFINE old == files[Chain[n]]
             p == Len(old) - 2
  <2>2. old \in Seq(Seg) /\ p \in 0..Len(old) /\ Len(old) \in Nat
    BY <1>4, <1>5
  <2>3. left = Overwrite(old, p, last)
    BY <2>1
  <2> HIDE DEF left, p
  <2>4. /\ left \in Seq(Seg) /\ Len(left) = p + Len(last)
        /\ \A i \in 1..p : left[i] = old[i]
        /\ \A i \in 1..Len(last) : left[p + i] = last[i]
    <3> HIDE DEF old
    <3> QED
      BY <1>9, <2>2, <2>3, OverwriteFacts
  <2>5. /\ left \in Seq(Seg) /\ Len(left) = p + 2
        /\ \A i \in 1..p : left[i] = old[i]
        /\ \A i \in 1..2 : left[p + i] = last[i]
    BY <1>9, <2>4
  <2>6. left[p + 1] = last[1] /\ left[p + 2] = last[2]
    BY <2>5
  <2>7. p = Len(old) - 2 /\ p + 1 = Len(old) - 1 /\ p + 2 = Len(old)
    BY <2>2 DEF p
  <2>8. files' = [w EXCEPT ![Chain[n]] = left]
    BY <1>3, <1>17
  <2> HIDE DEF w
  <2>9. /\ files' \in [Tapes -> Seq(Seg)] /\ files'[Chain[n]] = left /\ files'[t] = new
        /\ \A u \in Tapes : u # t /\ u # Chain[n] => files'[u] = files[u]
    BY <1>4, <1>14, <1>17, <2>5, <2>8
  <2>10. IsWritten(t, c)
    BY <1>15, <2>9
  <2>11. IsLeft(Chain[n], n + 1)
    BY <1>9, <2>5, <2>6, <2>7, <2>9 DEF IsLeft
  <2>12. SessionWritten(move, n)
    BY <1>1, <1>2, <1>17, <2>9, <2>10, <2>11 DEF SessionWritten, t, c
  <2> QED
    BY <1>1, <2>12
<1> QED
  BY <1>16, <1>17

\* A session is written: the archive keeps its shape.
LEMMA WriteKeepsCassettes ==
  ASSUME Cassettes, Sessions, NEW move \in BOOLEAN, WriteSession(move)
  PROVE  Cassettes'
<1>1. Len(lists) \in Nat /\ Len(lists') = Now /\ Now = Len(lists) + 1
  BY DEF Sessions, WriteSession, Now
<1>2. PICK n \in 1..Len(Chain) : SessionWritten(move, n)
  BY <1>1, WriteSessionGives
<1> DEFINE t == Chain[IF move THEN n + 1 ELSE n]
           c == IF move THEN 0 ELSE SessionsOn(t)
<1>3. /\ files' \in [Tapes -> Seq(Seg)] /\ IsWritten(t, c)
      /\ move => n + 1 \in 1..Len(Chain) /\ IsLeft(Chain[n], n + 1)
      /\ \A u \in Tapes : u # t /\ (move => u # Chain[n]) => files'[u] = files[u]
  BY <1>2 DEF SessionWritten
<1>4. t \in Tapes /\ Chain[n] \in Tapes
  BY <1>3, ChainIs
<1>5. \A u \in Tapes : /\ Len(files[u]) \in Nat /\ Len(files[u]) >= 2
                       /\ \A i \in 1..Len(files[u]) :
                            files[u][i].kind \in {"index", "tar"} => files[u][i].run \in 1..Len(lists)
  BY DEF Cassettes
<1> HIDE DEF t
<1>6. c \in Nat /\ 2 * c + 2 <= Len(files[t])
  <2>1. SessionsOn(t) \in Nat /\ 2 * SessionsOn(t) + 2 <= Len(files[t])
    BY <1>4, <1>5, Halves DEF SessionsOn
  <2> QED
    BY <1>4, <1>5, <2>1
<1> HIDE DEF c
<1>7. ASSUME NEW u \in Tapes
      PROVE  /\ Len(files'[u]) >= 2
             /\ \A i \in 1..Len(files'[u]) :
                  files'[u][i].kind \in {"index", "tar"} => files'[u][i].run \in 1..Len(lists')
  <2>1. CASE u = t
    <3>1. Len(files'[u]) = 2 * c + 5
      BY <1>3, <2>1 DEF IsWritten
    <3>2. ASSUME NEW i \in 1..Len(files'[u]), files'[u][i].kind \in {"index", "tar"}
          PROVE  files'[u][i].run \in 1..Now
      <4>1. CASE i \in 1..(2 * c + 1)
        <5>1. files'[u][i] = files[u][i]
          BY <1>3, <2>1, <4>1 DEF IsWritten
        <5>2. i \in 1..Len(files[u])
          BY <1>4, <1>5, <1>6, <2>1, <4>1
        <5>3. files[u][i].run \in 1..Len(lists)
          BY <1>5, <3>2, <5>1, <5>2
        <5> QED
          BY <1>1, <5>1, <5>3
      <4>2. CASE i = 2 * c + 2 \/ i = 2 * c + 3
        <5>1. files'[u][i].run = Now
          BY <1>3, <2>1, <4>2 DEF IsWritten
        <5> QED
          BY <1>1, <5>1
      <4>3. CASE i = 2 * c + 4 \/ i = 2 * c + 5
        BY <1>3, <2>1, <3>2, <4>3 DEF IsWritten
      <4>4. i \in 1..(2 * c + 5)
        BY <3>1
      <4>5. \/ i \in 1..(2 * c + 1)
            \/ i = 2 * c + 2 \/ i = 2 * c + 3
            \/ i = 2 * c + 4 \/ i = 2 * c + 5
        BY <1>6, <4>4
      <4> QED
        BY <4>1, <4>2, <4>3, <4>5
    <3> QED
      BY <1>1, <1>6, <3>1, <3>2
  <2>2. CASE u # t /\ move /\ u = Chain[n]
    <3>1. /\ Len(files'[u]) = Len(files[u])
          /\ \A i \in 1..(Len(files[u]) - 2) : files'[u][i] = files[u][i]
          /\ files'[u][Len(files[u]) - 1].kind = "pointer"
          /\ files'[u][Len(files[u])].kind = "empty"
      BY <1>3, <2>2 DEF IsLeft
    <3>2. ASSUME NEW i \in 1..Len(files'[u]), files'[u][i].kind \in {"index", "tar"}
          PROVE  files'[u][i].run \in 1..Now
      <4>1. i # Len(files[u]) - 1 /\ i # Len(files[u])
        BY <3>1, <3>2
      <4>2. i \in 1..(Len(files[u]) - 2) /\ i \in 1..Len(files[u])
        BY <1>5, <3>1, <4>1
      <4>3. files'[u][i] = files[u][i]
        BY <3>1, <4>2
      <4>4. files[u][i].run \in 1..Len(lists)
        BY <1>5, <3>2, <4>2, <4>3
      <4> QED
        BY <1>1, <4>3, <4>4
    <3> QED
      BY <1>1, <1>5, <3>1, <3>2
  <2>3. CASE u # t /\ (move => u # Chain[n])
    <3>1. files'[u] = files[u]
      BY <1>3, <2>3
    <3>2. ASSUME NEW i \in 1..Len(files[u]), files[u][i].kind \in {"index", "tar"}
          PROVE  files[u][i].run \in 1..Now
      <4>1. files[u][i].run \in 1..Len(lists)
        BY <1>5, <3>2
      <4> QED
        BY <1>1, <4>1
    <3> QED
      BY <1>1, <1>5, <3>1, <3>2
  <2> QED
    BY <2>1, <2>2, <2>3
<1> QED
  BY <1>3, <1>7 DEF Cassettes

\* A session is written: its tree, its list and its damage come to the others.
LEMMA WriteKeepsSessions ==
  ASSUME IsTree(fs), Sessions, NEW move \in BOOLEAN, WriteSession(move)
  PROVE  /\ Sessions' /\ Len(lists') = Len(lists) + 1 /\ Len(lists) \in Nat
         /\ past'[Len(lists')] = fs /\ lists'[Len(lists')] = Scan
         /\ \A k \in 1..Len(lists) : past'[k] = past[k] /\ lists'[k] = lists[k] /\ damage'[k] = damage[k]
<1>1. PICK d \in Damaged(Scan) : damage' = Append(damage, d)
  BY DEF WriteSession
<1>2. /\ lists' = Append(lists, Scan) /\ past' = Append(past, fs)
      /\ Len(lists) + 1 <= MaxSessions
  BY DEF WriteSession, Now
<1>3. /\ past \in Seq([Paths -> Node]) /\ lists \in Seq(FileLists) /\ damage \in Seq(Damage)
      /\ Len(past) = Len(lists) /\ Len(damage) = Len(lists) /\ Len(lists) \in Nat
  BY DEF Sessions
<1>4. /\ Scan \in FileLists /\ DOMAIN Scan \subseteq Paths
      /\ \A p \in DOMAIN Scan : Tells(fs, p, Scan[p])
  BY ScanGives
<1>5. /\ d \in Damage
      /\ d # Sound => d.kind # "none" /\ (d.kind = "index" \/ d.at \in InTar(Scan))
  <2>1. InTar(Scan) \subseteq Paths
    BY <1>4 DEF InTar
  <2>2. Damages \subseteq DamageKinds
    BY RestoreAssumption
  <2>3. CASE d = Sound
    BY <2>3 DEF Sound, Damage
  <2>4. CASE \E k \in {"missing", "header", "hash"} : \E p \in InTar(Scan) : d = [kind |-> k, at |-> p]
    BY <2>1, <2>4 DEF Damage
  <2>5. CASE d = [kind |-> "index", at |-> 0]
    BY <2>5 DEF Damage
  <2> QED
    BY <1>1, <2>3, <2>4, <2>5 DEF Damaged
<1>6. fs \in [Paths -> Node]
  BY DEF IsTree
<1>7. /\ past' \in Seq([Paths -> Node]) /\ Len(past') = Len(past) + 1
      /\ past'[Len(past) + 1] = fs /\ \A k \in 1..Len(past) : past'[k] = past[k]
  BY <1>2, <1>3, <1>6
<1>8. /\ lists' \in Seq(FileLists) /\ Len(lists') = Len(lists) + 1
      /\ lists'[Len(lists) + 1] = Scan /\ \A k \in 1..Len(lists) : lists'[k] = lists[k]
  BY <1>2, <1>3, <1>4
<1>9. /\ damage' \in Seq(Damage) /\ Len(damage') = Len(damage) + 1
      /\ damage'[Len(damage) + 1] = d /\ \A k \in 1..Len(damage) : damage'[k] = damage[k]
  BY <1>1, <1>3, <1>5
<1>10. ASSUME NEW k \in 1..Len(lists')
       PROVE  /\ IsTree(past'[k])
              /\ \A p \in DOMAIN lists'[k] : Tells(past'[k], p, lists'[k][p])
              /\ damage'[k] # Sound =>
                   /\ damage'[k].kind # "none"
                   /\ damage'[k].kind = "index" \/ damage'[k].at \in InTar(lists'[k])
  <2>1. CASE k \in 1..Len(lists)
    <3>1. past'[k] = past[k] /\ lists'[k] = lists[k] /\ damage'[k] = damage[k]
      BY <1>3, <1>7, <1>8, <1>9, <2>1
    <3> QED
      BY <2>1, <3>1 DEF Sessions
  <2>2. CASE k = Len(lists) + 1
    <3>1. past'[k] = fs /\ lists'[k] = Scan /\ damage'[k] = d
      BY <1>3, <1>7, <1>8, <1>9, <2>2
    <3> QED
      BY <1>4, <1>5, <3>1
  <2> QED
    BY <1>3, <1>8, <2>1, <2>2
<1>11. Len(lists') \in 0..MaxSessions
  BY <1>2, <1>3, <1>8, CopyTypes
<1>12. Sessions'
  BY <1>3, <1>7, <1>8, <1>9, <1>10, <1>11 DEF Sessions
<1> QED
  BY <1>3, <1>7, <1>8, <1>9, <1>12

-----------------------------------------------------------------------------
(* What an entry of a tar does to the destination. *)

\* A plain path in the trees of the sessions.
LEMMA PlainIs ==
  ASSUME Sessions, NEW k \in 1..Len(lists), NEW p \in Paths, Plain(p)
  PROVE  /\ past[k][p].kind # "sym"
         /\ \A q \in Paths \ {p} : past[k][p].kind = "reg" => past[k][q] # past[k][p]
         /\ \A q \in Paths \ {p} : past[k][q].kind = "sym" /\ past[k][q].of = p => Wrapped
<1>1. k \in DOMAIN past
  BY DEF Sessions
<1> QED
  BY <1>1 DEF Plain

\* Entries of a list: which of them can be of a plain path, which of a directory.
LEMMA EntriesAre ==
  ASSUME Sessions, NEW k \in 1..Len(lists), NEW p \in DOMAIN lists[k]
  PROVE  /\ p \in Paths /\ lists[k][p] \in Entry /\ IsTree(past[k])
         /\ Tells(past[k], p, lists[k][p])
         /\ lists[k][p].kind \in {"dir", "reg", "sym", "link", "dead"}
         /\ p \in Dirs => lists[k][p].kind \in {"dir", "dead"}
         /\ Plain(p) => lists[k][p].kind \notin {"sym", "link"}
         /\ lists[k][p].kind = "link" => lists[k][p].to \in Paths \ {p} /\ ~Plain(lists[k][p].to)
         /\ lists[k][p].kind \in {"reg", "sym"} => lists[k][p].of \in Paths
         /\ lists[k][p].kind = "sym" =>
              /\ ~Plain(p)
              /\ \A q \in Paths : Plain(q) /\ lists[k][p].of = q => Wrapped
<1> DEFINE e == lists[k][p]
<1>1. lists[k] \in FileLists /\ IsTree(past[k]) /\ Tells(past[k], p, e)
  BY DEF Sessions
<1>2. p \in Paths
  BY <1>1 DEF FileLists
<1>3. e \in Entry /\ e.kind \in {"dir", "reg", "sym", "link", "dead"} /\ e.of \in Paths \cup {0}
  BY <1>1 DEF Tells, Entry
<1>4. e.kind = "link" => /\ e.to \in Paths \ {p} /\ past[k][p].kind = "reg"
                         /\ past[k][e.to] = past[k][p]
  BY <1>1 DEF Tells
<1>5. e.kind \in {"reg", "sym"} => past[k][p].kind = e.kind /\ past[k][p].of = e.of
  BY <1>1 DEF Tells
<1> HIDE DEF e
<1>6. p \in Dirs => e.kind \in {"dir", "dead"}
  BY <1>1, <1>2, <1>3, <1>4, <1>5 DEF IsTree
<1>7. Plain(p) => e.kind \notin {"sym", "link"}
  BY <1>2, <1>4, <1>5, PlainIs
<1>8. e.kind = "link" => ~Plain(e.to)
  BY <1>2, <1>4, PlainIs
<1>9. e.kind = "sym" => ~Plain(p) /\ \A q \in Paths : Plain(q) /\ e.of = q => Wrapped
  <2>1. ASSUME e.kind = "sym", NEW q \in Paths, Plain(q), e.of = q PROVE Wrapped
    <3>1. q # p
      BY <1>7, <2>1
    <3> QED
      BY <1>2, <1>5, <2>1, <3>1, PlainIs
  <2> QED
    BY <1>7, <2>1
<1>10. e.kind \in {"reg", "sym"} => e.of \in Paths
  BY <1>1, <1>2, <1>5 DEF IsTree
<1> QED
  BY <1>1, <1>2, <1>3, <1>4, <1>6, <1>7, <1>8, <1>9, <1>10 DEF e

\* The list that is read.
LEMMA ListIs ==
  ASSUME TInv, op.pc = "tar", NEW p \in InTar(List)
  PROVE  /\ op.sess \in 1..Len(lists) /\ p \in DOMAIN lists[op.sess] /\ p \in Paths
         /\ List = lists[op.sess]
         /\ List[p].kind \in {"dir", "reg", "sym", "link"}
<1>1. op.sess \in 1..Len(lists) /\ List = lists[op.sess]
  BY DEF TInv, Work, List
<1>2. p \in DOMAIN lists[op.sess] /\ List[p].kind # "dead"
  BY <1>1 DEF InTar
<1> QED
  BY <1>1, <1>2, EntriesAre DEF TInv, Written

\* Only the entry and the directories above it may be another afterwards, of the plain paths.
Others(p, d) ==
  \A q \in Paths : Plain(q) /\ q # p => d[q] = dest[q] \/ (q \in Up[p] /\ d[q] = DirCopy)

\* The directories above an entry are made, or not when something is in the way.
LEMMA ParentsGives ==
  ASSUME TInv, NEW p \in Paths
  PROVE  LET x == Parents(p) IN
         /\ x.ok \in BOOLEAN /\ IsDest(x.d) /\ Apart(x.d)
         /\ \A q \in Paths : x.d[q] = dest[q] \/ (q \in Up[p] /\ x.d[q] = DirCopy)
         /\ x.ok /\ Parent[p] # 0 => x.d[Parent[p]].kind = "dir"
         /\ x.d[p] = dest[p] /\ Others(p, x.d)
<1>1. Up[p] \in SUBSET Paths /\ p \notin Up[p]
  BY UpAreDirs, PathsAre
<1>2. \A q \in Up[p] : Parent[q] # 0 => Parent[q] \in Up[p]
  BY <1>1, ParentIsAbove
<1>3. IsDest(dest) /\ Apart(dest)
  BY DEF TInv
<1> DEFINE x == MkdirAll(dest, Up[p])
<1>4. /\ x.ok \in BOOLEAN /\ IsDest(x.d) /\ Apart(x.d)
      /\ \A q \in Paths : x.d[q] = dest[q] \/ (q \in Up[p] /\ x.d[q] = DirCopy)
      /\ x.ok => \A q \in Up[p] : x.d[q] = DirCopy
  BY <1>1, <1>2, <1>3, MkdirAllGives
<1>5. Parents(p) = x
  BY DEF Parents
<1> HIDE DEF x
<1>6. x.ok /\ Parent[p] # 0 => x.d[Parent[p]].kind = "dir"
  BY <1>4, ParentIsAbove, CopyTypes
<1>7. x.d[p] = dest[p] /\ Others(p, x.d)
  BY <1>1, <1>4 DEF Others
<1> QED
  BY <1>4, <1>5, <1>6, <1>7

\* The change that is left: q is p or above it, or nobody's.
LEMMA OthersAfter ==
  ASSUME NEW p \in Paths, NEW d, Others(p, d), NEW e,
         \A q \in Paths : Plain(q) /\ q # p => e[q] = d[q]
  PROVE  Others(p, e)
BY DEF Others

\* IsAs speaks of the destination, Has of any.
LEMMA IsAsIsHas == \A p, e : /\ IsAs(p, e) <=> Has(dest, p, e)
                             /\ IsAs(p, e)' <=> Has(dest', p, e)
BY DEF IsAs, Has

\* An entry that was extracted is at the destination, and no plain path but it and
\* the directories above it is another.
LEMMA ExtractGives ==
  ASSUME TInv, op.pc = "tar", NEW p \in InTar(List)
  PROVE  LET x == Extract(p) IN
         /\ x.ok \in BOOLEAN /\ IsDest(x.d) /\ Apart(x.d) /\ Others(p, x.d)
         /\ Plain(p) => x.d[p] = dest[p] \/ x.d[p].data # Torn
         /\ Plain(p) /\ x.ok => Has(x.d, p, List[p])
<1> DEFINE x == Extract(p)
           m == Parents(p)
<1>1. /\ op.sess \in 1..Len(lists) /\ p \in DOMAIN lists[op.sess] /\ p \in Paths
      /\ List = lists[op.sess] /\ List[p].kind \in {"dir", "reg", "sym", "link"}
  BY ListIs
<1>2. Sessions /\ IsDest(dest) /\ Apart(dest)
  BY DEF TInv, Written
<1>3. /\ Plain(p) => List[p].kind \notin {"sym", "link"}
      /\ List[p].kind = "link" => List[p].to \in Paths \ {p} /\ ~Plain(List[p].to)
      /\ List[p].kind \in {"reg", "sym"} => List[p].of \in Paths
      /\ List[p].kind = "sym" =>
           /\ ~Plain(p)
           /\ \A q \in Paths : Plain(q) /\ List[p].of = q => Wrapped
      /\ List[p].at \in 0..MaxSessions
  BY <1>1, <1>2, EntriesAre DEF Entry
<1>4. /\ m.ok \in BOOLEAN /\ IsDest(m.d) /\ Apart(m.d) /\ Others(p, m.d) /\ m.d[p] = dest[p]
      /\ m.ok /\ Parent[p] # 0 => m.d[Parent[p]].kind = "dir"
  BY <1>1, ParentsGives
<1>5. m = Parents(p)
  OBVIOUS
<1> HIDE DEF m
<1>6. CASE List[p].kind = "dir"
  <2> DEFINE ps == Up[p] \cup {p}
             y == MkdirAll(dest, ps)
  <2>1. x = y
    BY <1>6 DEF Extract, ExtractDir
  <2>2. ps \in SUBSET Paths /\ \A q \in ps : Parent[q] # 0 => Parent[q] \in ps
    BY <1>1, UpAreDirs, ParentIsAbove
  <2> HIDE DEF ps
  <2>3. /\ y.ok \in BOOLEAN /\ IsDest(y.d) /\ Apart(y.d)
        /\ \A q \in Paths : y.d[q] = dest[q] \/ (q \in ps /\ y.d[q] = DirCopy)
        /\ y.ok => \A q \in ps : y.d[q] = DirCopy
    BY <1>2, <2>2, MkdirAllGives
  <2> HIDE DEF y
  <2>4. Others(p, y.d)
    BY <2>3 DEF Others, ps
  <2>5. y.d[p] = dest[p] \/ y.d[p].data # Torn
    BY <1>1, <2>3, CopyTypes
  <2>6. y.ok => Has(y.d, p, List[p])
    BY <1>6, <2>3, CopyTypes DEF ps, Has
  <2> HIDE DEF x
  <2> QED
    BY <2>1, <2>3, <2>4, <2>5, <2>6 DEF x
<1>7. CASE List[p].kind = "reg" /\ CanBegin(p)
  <2> DEFINE y == Fill(m.d, p, Contents(p))
  <2>1. x.ok = TRUE /\ x.d = y
    BY <1>5, <1>7 DEF Extract, ExtractFile, Outcome
  <2>2. Contents(p) \in Node /\ Contents(p) # Torn
    BY <1>3, <1>7, PathsAre DEF Contents, Node, Torn
  <2>3. MayCreate(m.d, p)
    BY <1>5, <1>7 DEF CanBegin
  <2>4. /\ IsDest(y) /\ Apart(y)
        /\ \A q \in Paths : Plain(q) /\ q # p => y[q] = m.d[q]
        /\ Plain(p) => y[p].kind = "file" /\ y[p].data = Contents(p)
    BY <1>1, <1>4, <2>2, <2>3, FillGives
  <2> HIDE DEF y
  <2>5. Others(p, y)
    BY <1>1, <1>4, <2>4, OthersAfter
  <2>6. Plain(p) => y[p].data # Torn /\ Has(y, p, List[p])
    BY <1>7, <2>2, <2>4 DEF Has, Contents
  <2> HIDE DEF x
  <2> QED
    BY <2>1, <2>4, <2>5, <2>6 DEF x
<1>8. CASE List[p].kind = "reg" /\ ~CanBegin(p)
  <2>1. x.ok = FALSE /\ x.d = m.d
    BY <1>5, <1>8 DEF Extract, ExtractFile, Outcome
  <2> HIDE DEF x
  <2> QED
    BY <1>4, <2>1 DEF x
<1>9. CASE List[p].kind \in {"sym", "link"} /\ ~m.ok
  <2>1. x = m
    BY <1>5, <1>9 DEF Extract, ExtractSymlink, ExtractHardlink
  <2> HIDE DEF x
  <2> QED
    BY <1>3, <1>4, <1>9, <2>1 DEF x
<1>10. ASSUME List[p].kind \in {"sym", "link"}, m.ok,
              NEW ok \in BOOLEAN, NEW copy, ok => Fits(m.d, p, copy), x = Replace(m.d, p, ok, copy)
       PROVE  /\ x.ok \in BOOLEAN /\ IsDest(x.d) /\ Apart(x.d) /\ Others(p, x.d)
              /\ ~Plain(p)
  <2> HIDE DEF x
  <2>1. ~Plain(p) /\ (Parent[p] # 0 => m.d[Parent[p]].kind = "dir")
    BY <1>1, <1>3, <1>4, <1>10
  <2> DEFINE y == Replace(m.d, p, ok, copy)
  <2>2. /\ y.ok \in BOOLEAN /\ IsDest(y.d) /\ Apart(y.d)
        /\ \A q \in Paths : q # p => y.d[q] = m.d[q]
    BY <1>1, <1>4, <1>10, <2>1, ReplaceGives
  <2>3. x = y
    BY <1>10
  <2> HIDE DEF y
  <2>4. Others(p, y.d)
    BY <1>1, <1>4, <2>2, OthersAfter
  <2> QED
    BY <2>1, <2>2, <2>3, <2>4
<1>11. CASE List[p].kind = "sym" /\ m.ok
  <2> DEFINE target == [kind |-> "sym", at |-> List[p].at, of |-> List[p].of]
             copy == [kind |-> "sym", ino |-> 0, data |-> target]
  <2>1. x = Replace(m.d, p, TRUE, copy)
    BY <1>5, <1>11 DEF Extract, ExtractSymlink, Symlink
  <2>2. target \in Node /\ target # Torn /\ target.of = List[p].of
    BY <1>3, <1>11 DEF Node, Torn
  <2> HIDE DEF target
  <2>3. Fits(m.d, p, copy)
    BY <1>3, <1>11, <2>2 DEF Fits, Copy
  <2> HIDE DEF copy, x
  <2>4. TRUE \in BOOLEAN
    OBVIOUS
  <2>5. /\ x.ok \in BOOLEAN /\ IsDest(x.d) /\ Apart(x.d) /\ Others(p, x.d) /\ ~Plain(p)
    BY <1>10, <1>11, <2>1, <2>3, <2>4
  <2> QED
    BY <2>5 DEF x
<1>12. CASE List[p].kind = "link" /\ m.ok
  <2> DEFINE o == List[p].to
             copy == m.d[o]
             ok == m.d[o].kind \in {"file", "sym"}
  <2>1. x = Replace(m.d, p, ok, copy)
    BY <1>5, <1>12 DEF Extract, ExtractHardlink, Link
  <2>2. o \in Paths \ {p} /\ ~Plain(o)
    BY <1>3, <1>12
  <2>3. m.d \in [Paths -> Copy]
    BY <1>4 DEF IsDest
  <2> HIDE DEF o
  <2>4. ok => Fits(m.d, p, copy)
    BY <1>4, <2>2, <2>3 DEF Fits, IsDest, Apart
  <2>5. ok \in BOOLEAN
    OBVIOUS
  <2> HIDE DEF copy, ok, x
  <2>6. /\ x.ok \in BOOLEAN /\ IsDest(x.d) /\ Apart(x.d) /\ Others(p, x.d) /\ ~Plain(p)
    BY <1>10, <1>12, <2>1, <2>4, <2>5
  <2> QED
    BY <2>6 DEF x
<1>13. m.ok \in BOOLEAN
  BY <1>4
<1> HIDE DEF x
<1>14. \/ List[p].kind = "dir"
       \/ List[p].kind = "reg" /\ CanBegin(p)
       \/ List[p].kind = "reg" /\ ~CanBegin(p)
       \/ List[p].kind \in {"sym", "link"} /\ ~m.ok
       \/ List[p].kind = "sym" /\ m.ok
       \/ List[p].kind = "link" /\ m.ok
  BY <1>1
<1> QED
  BY <1>6, <1>7, <1>8, <1>9, <1>11, <1>12, <1>14, Zenon DEF x

\* A file that was begun, and what is left when it is discarded.
LEMMA BegunGives ==
  ASSUME TInv, NEW p \in Paths, CanBegin(p)
  PROVE  /\ IsDest(Begun(p)) /\ Apart(Begun(p)) /\ Others(p, Begun(p))
         /\ Plain(p) => Begun(p)[p].kind = "file"
<1> DEFINE m == Parents(p)
<1>1. /\ IsDest(m.d) /\ Apart(m.d) /\ Others(p, m.d)
  BY ParentsGives
<1>2. MayCreate(m.d, p)
  BY DEF CanBegin
<1>3. Begun(p) = Fill(m.d, p, Torn)
  BY DEF Begun
<1> HIDE DEF m
<1> DEFINE y == Fill(m.d, p, Torn)
<1>4. /\ IsDest(y) /\ Apart(y)
      /\ \A q \in Paths : Plain(q) /\ q # p => y[q] = m.d[q]
      /\ Plain(p) => y[p].kind = "file"
  BY <1>1, <1>2, CopyTypes, FillGives
<1> HIDE DEF y
<1>5. Others(p, y)
  BY <1>1, <1>4, OthersAfter
<1> QED
  BY <1>3, <1>4, <1>5 DEF y

\* A file that was begun is discarded, or it is told of.
LEMMA DiscardGives ==
  ASSUME TInv, NEW p \in Paths, CanBegin(p), NEW told, DiscardPartial(p, told)
  PROVE  /\ IsDest(dest') /\ Apart(dest') /\ Others(p, dest')
         /\ Plain(p) => p \in told \/ dest'[p] = Nothing
<1> DEFINE b == Begun(p)
           r == Remove(b, p)
<1>1. IsDest(b) /\ Apart(b) /\ Others(p, b) /\ (Plain(p) => b[p].kind = "file")
  BY BegunGives
<1>2. (told = {} /\ dest' = r.d) \/ (told = {p} /\ dest' = b)
  BY DEF DiscardPartial
<1> HIDE DEF b
<1>3. CASE told = {} /\ dest' = r.d
  <2>1. /\ IsDest(r.d) /\ Apart(r.d)
        /\ \A q \in Paths : q # p => r.d[q] = b[q]
        /\ r.d[p] # Nothing => \E c \in Paths : Parent[c] = p /\ b[c] # Nothing
    BY <1>1, RemoveGives
  <2>2. Others(p, r.d)
    BY <1>1, <2>1, OthersAfter
  <2> HIDE DEF r
  <2>3. ASSUME Plain(p), NEW c \in Paths, Parent[c] = p PROVE b[c] = Nothing
    <3>1. p # 0
      BY PathsAre
    <3> QED
      BY <1>1, <2>3, <3>1 DEF IsDest
  <2> QED
    BY <1>3, <2>1, <2>2, <2>3
<1>4. CASE told = {p} /\ dest' = b
  BY <1>1, <1>4
<1> QED
  BY <1>2, <1>3, <1>4

\* An entry that was stopped short of: directories above it were made, or its name
\* is free.
LEMMA StopsShortGives ==
  ASSUME TInv, NEW p \in Paths, AtEntry(p), StopsShort(p)
  PROVE  /\ IsDest(dest') /\ Apart(dest') /\ Others(p, dest')
         /\ Plain(p) => dest'[p] = dest[p]
<1>1. /\ op.pc = "tar" /\ p \in InTar(List)
      /\ IsDest(dest) /\ Apart(dest) /\ Sessions
  BY DEF AtEntry, TInv, Written
<1>2. ASSUME NEW a \in Up[p] \cup {p}, dest' = MkdirAll(dest, Up[a]).d
      PROVE  IsDest(dest') /\ Apart(dest') /\ Others(p, dest') /\ dest'[p] = dest[p]
  <2> DEFINE ps == Up[a]
             y == MkdirAll(dest, ps)
  <2>1. a \in Paths /\ ps \subseteq Up[p] /\ p \notin ps
    BY UpAreDirs, UpIsClosed, PathsAre
  <2>2. ps \in SUBSET Paths /\ \A q \in ps : Parent[q] # 0 => Parent[q] \in ps
    BY <2>1, UpAreDirs, ParentIsAbove
  <2> HIDE DEF ps
  <2>3. /\ IsDest(y.d) /\ Apart(y.d)
        /\ \A q \in Paths : y.d[q] = dest[q] \/ (q \in ps /\ y.d[q] = DirCopy)
    BY <1>1, <2>2, MkdirAllGives
  <2>4. dest' = y.d
    BY <1>2 DEF ps
  <2> HIDE DEF y
  <2> QED
    BY <2>1, <2>3, <2>4 DEF Others
<1>3. ASSUME List[p].kind \in {"sym", "link"}, dest' = Remove(Parents(p).d, p).d
      PROVE  IsDest(dest') /\ Apart(dest') /\ Others(p, dest') /\ ~Plain(p)
  <2> DEFINE m == Parents(p)
             y == Remove(m.d, p)
  <2>1. IsDest(m.d) /\ Apart(m.d) /\ Others(p, m.d)
    BY ParentsGives
  <2>2. dest' = y.d
    BY <1>3
  <2> HIDE DEF m
  <2>3. IsDest(y.d) /\ Apart(y.d) /\ \A q \in Paths : q # p => y.d[q] = m.d[q]
    BY <2>1, RemoveGives
  <2> HIDE DEF y
  <2>4. Others(p, dest')
    BY <2>1, <2>2, <2>3, OthersAfter
  <2>5. ~Plain(p)
    <3>1. op.sess \in 1..Len(lists) /\ p \in DOMAIN lists[op.sess] /\ List = lists[op.sess]
      BY <1>1, ListIs
    <3> QED
      BY <1>1, <1>3, <3>1, EntriesAre
  <2> QED
    BY <2>2, <2>3, <2>4, <2>5
<1> QED
  BY <1>2, <1>3 DEF StopsShort

-----------------------------------------------------------------------------
(* What a step does to the destination. *)

AtNothing == UNCHANGED dest

AtAnEntry(p) ==
  /\ AtEntry(p) /\ Writable(p) /\ IsDest(dest') /\ Apart(dest') /\ Others(p, dest')
  /\ Plain(p) /\ dest'[p].data = Torn /\ dest'[p] # dest[p] =>
       p \in op'.told \/ op'.result = "killed"

AtTheEnd ==
  /\ op.pc = "tar" /\ dest' = Bury(dest, Tombstones(List))
  /\ IsDest(dest') /\ Apart(dest')

\* What the actions at an entry, the end of the process and the end of a tar do to
\* the destination.
LEMMA ReadEntryTouches ==
  ASSUME TInv, NEW p \in Paths, ReadEntry(p)
  PROVE  AtNothing \/ AtAnEntry(p)
<1>1. AtEntry(p) /\ op.pc = "tar" /\ p \in InTar(List)
  BY DEF ReadEntry, AtEntry
<1>2. CASE ~Writable(p)
  BY <1>2 DEF ReadEntry, Outcome, AtNothing
<1>3. CASE Writable(p)
  <2> DEFINE x == Extract(p)
  <2>1. dest' = x.d
    BY <1>3 DEF ReadEntry
  <2>2. /\ IsDest(x.d) /\ Apart(x.d) /\ Others(p, x.d)
        /\ Plain(p) => x.d[p] = dest[p] \/ x.d[p].data # Torn
    BY <1>1, ExtractGives
  <2> HIDE DEF x
  <2>3. AtAnEntry(p)
    BY <1>1, <1>3, <2>1, <2>2 DEF AtAnEntry
  <2> QED
    BY <2>3
<1> QED
  BY <1>2, <1>3

\* ... a wrong hash
LEMMA EntryDamagedTouches ==
  ASSUME TInv, NEW p \in Paths, EntryDamaged(p)
  PROVE  AtNothing \/ AtAnEntry(p)
<1>1. AtEntry(p)
  BY DEF EntryDamaged
<1>2. op \in Op
  BY DEF TInv, Work
<1>3. CASE UNCHANGED dest
  BY <1>3 DEF AtNothing
<1>4. CASE Writable(p) /\ CanBegin(p) /\ \E told \in {{}, {p}} : DiscardPartial(p, told) /\ OnDamage(op.head, told)
  <2>1. PICK told \in {{}, {p}} : DiscardPartial(p, told) /\ OnDamage(op.head, told)
    BY <1>4
  <2>2. /\ IsDest(dest') /\ Apart(dest') /\ Others(p, dest')
        /\ Plain(p) => p \in told \/ dest'[p] = Nothing
    BY <1>4, <2>1, DiscardGives
  <2>3. op'.told = op.told \cup told
    BY <1>2, <2>1 DEF OnDamage, Op
  <2>4. Plain(p) /\ dest'[p].data = Torn => p \in op'.told
    BY <2>2, <2>3, CopyTypes
  <2> QED
    BY <1>1, <1>4, <2>2, <2>4 DEF AtAnEntry
<1>5. CASE Writable(p) /\ dest' = Parents(p).d
  <2> DEFINE m == Parents(p)
  <2>1. IsDest(m.d) /\ Apart(m.d) /\ Others(p, m.d) /\ m.d[p] = dest[p]
    BY ParentsGives
  <2>2. dest' = m.d
    BY <1>5
  <2> HIDE DEF m
  <2>3. AtAnEntry(p)
    BY <1>1, <1>5, <2>1, <2>2 DEF AtAnEntry
  <2> QED
    BY <2>3
<1> QED
  BY <1>3, <1>4, <1>5 DEF EntryDamaged

\* ... an error of the destination
LEMMA EntryFailsTouches ==
  ASSUME TInv, NEW p \in Paths, EntryFails(p)
  PROVE  AtNothing \/ AtAnEntry(p)
<1>1. AtEntry(p) /\ Writable(p)
  BY DEF EntryFails
<1>2. op \in Op
  BY DEF TInv, Work
<1>3. CASE StopsShort(p)
  BY <1>1, <1>3, StopsShortGives DEF AtAnEntry
<1>4. CASE /\ CanBegin(p)
           /\ \E told \in {{}, {p}} :
                /\ DiscardPartial(p, told)
                /\ op' = [op EXCEPT !.pc = "idle", !.result = "failed", !.told = @ \cup told]
  <2>1. PICK told \in {{}, {p}} : 
             /\ DiscardPartial(p, told)
             /\ op' = [op EXCEPT !.pc = "idle", !.result = "failed", !.told = @ \cup told]
    BY <1>4
  <2>2. /\ IsDest(dest') /\ Apart(dest') /\ Others(p, dest')
        /\ Plain(p) => p \in told \/ dest'[p] = Nothing
    BY <1>4, <2>1, DiscardGives
  <2>3. op'.told = op.told \cup told
    BY <1>2, <2>1 DEF Op
  <2>4. Plain(p) /\ dest'[p].data = Torn => p \in op'.told
    BY <2>2, <2>3, CopyTypes
  <2> QED
    BY <1>1, <2>2, <2>4 DEF AtAnEntry
<1> QED
  BY <1>3, <1>4 DEF EntryFails

\* ... the end of the process
LEMMA KillTouches ==
  ASSUME TInv, Kill
  PROVE  AtNothing \/ \E p \in Paths : AtAnEntry(p)
<1>1. op'.result = "killed"
  BY DEF Kill, Finish, TInv, Work, Op
<1>2. CASE UNCHANGED dest
  BY <1>2 DEF AtNothing
<1>3. ASSUME NEW p \in Paths, AtEntry(p), Writable(p), CanBegin(p), dest' = Begun(p)
      PROVE  AtAnEntry(p)
  BY <1>1, <1>3, BegunGives DEF AtAnEntry
<1>4. ASSUME NEW p \in Paths, AtEntry(p), Writable(p), StopsShort(p)
      PROVE  AtAnEntry(p)
  BY <1>4, StopsShortGives DEF AtAnEntry
<1> QED
  BY <1>2, <1>3, <1>4 DEF Kill

\* ... and the tombstones.
LEMMA TarReadTouches ==
  ASSUME TInv, TarRead
  PROVE  AtTheEnd
<1>1. op.pc = "tar" /\ dest' = Bury(dest, Tombstones(List))
  BY DEF TarRead
<1>2. op.sess \in 1..Len(lists) /\ lists[op.sess] \in FileLists
  BY <1>1 DEF TInv, Work, Written, Sessions
<1>3. Tombstones(List) \in SUBSET Paths
  BY <1>2 DEF Tombstones, List, FileLists
<1>4. IsDest(dest) /\ Apart(dest)
  BY DEF TInv
<1> DEFINE e == Bury(dest, Tombstones(List))
<1>5. IsDest(e) /\ Apart(e)
  BY <1>3, <1>4, BuryGives
<1> HIDE DEF e
<1> QED
  BY <1>1, <1>5 DEF e, AtTheEnd

-----------------------------------------------------------------------------
(* Types. *)

\* No restore is one, too.
LEMMA IdleIs == Idle \in Op
<1>1. Chain[1] \in Tapes /\ 0 \in 0..MaxSessions
  BY ChainIs, CopyTypes
<1> QED
  BY <1>1 DEF Idle, Op, PCs, Modes, Results

\* What the head is at.
LEMMA FoundIs ==
  ASSUME TInv, op.pc \in {"index", "swap"}
  PROVE  /\ op.cur \in Tapes /\ Under = files[op.cur] /\ Under \in Seq(Seg) /\ Len(Under) \in Nat
         /\ op.head \in Nat \ {0}
         /\ Found.kind \in {"index", "tar"} =>
              op.head \in 1..Len(Under) /\ Found = Under[op.head] /\ Found.run \in 1..Len(lists)
         /\ Found.kind = "pointer" => op.head \in 1..Len(Under) /\ Found = Under[op.head]
<1>1. op.cur \in Tapes /\ op.head \in Nat \ {0}
  BY DEF TInv, Work, Op
<1>2. Under = files[op.cur] /\ Under \in Seq(Seg) /\ Len(Under) \in Nat
  BY <1>1 DEF TInv, Written, Cassettes, Under
<1>3. \A i \in 1..Len(Under) : Under[i].kind \in {"index", "tar"} => Under[i].run \in 1..Len(lists)
  BY <1>1, <1>2 DEF TInv, Written, Cassettes
<1>4. Found.kind # "empty" => op.head \in 1..Len(Under) /\ Found = Under[op.head]
  BY <1>1, <1>2, KindsOfSegs DEF Found
<1> QED
  BY <1>1, <1>2, <1>3, <1>4

\* Finish, Go and OnDamage change what they say, and nothing else of the restore.
LEMMA FinishGives ==
  ASSUME op \in Op, NEW r \in Results, Finish(r)
  PROVE  /\ op' \in Op /\ op'.pc = "idle" /\ op'.result = r
         /\ op'.mode = op.mode /\ op'.cur = op.cur /\ op'.head = op.head /\ op'.sess = op.sess
         /\ op'.entry = op.entry /\ op'.want = op.want /\ op'.todo = op.todo /\ op'.first = op.first
         /\ op'.asked = op.asked /\ op'.missed = op.missed /\ op'.told = op.told
BY DEF Finish, Op, PCs, Results

\* ... Go
LEMMA GoGives ==
  ASSUME op \in Op, NEW pc \in PCs, Go(pc)
  PROVE  /\ op' \in Op /\ op'.pc = pc /\ op'.result = op.result
         /\ op'.mode = op.mode /\ op'.cur = op.cur /\ op'.head = op.head /\ op'.sess = op.sess
         /\ op'.entry = op.entry /\ op'.want = op.want /\ op'.todo = op.todo /\ op'.first = op.first
         /\ op'.asked = op.asked /\ op'.missed = op.missed /\ op'.told = op.told
BY DEF Go, Op

\* ... OnDamage
LEMMA OnDamageGives ==
  ASSUME op \in Op, NEW head \in Nat, NEW told \in SUBSET Paths, OnDamage(head, told)
  PROVE  /\ op' \in Op /\ op'.told = op.told \cup told
         /\ op.mode = "selective" => op'.pc = "idle" /\ op'.result = "failed" /\ op'.head = op.head
         /\ op.mode # "selective" => op'.pc = "damaged" /\ op'.result = op.result /\ op'.head = head
         /\ op'.mode = op.mode /\ op'.cur = op.cur /\ op'.sess = op.sess
         /\ op'.entry = op.entry /\ op'.want = op.want /\ op'.todo = op.todo /\ op'.first = op.first
         /\ op'.asked = op.asked /\ op'.missed = op.missed
<1> DEFINE o == [op EXCEPT !.told = @ \cup told]
<1>1. /\ o \in Op /\ o.told = op.told \cup told /\ o.pc = op.pc /\ o.result = op.result
      /\ o.mode = op.mode /\ o.cur = op.cur /\ o.head = op.head /\ o.sess = op.sess
      /\ o.entry = op.entry /\ o.want = op.want /\ o.todo = op.todo /\ o.first = op.first
      /\ o.asked = op.asked /\ o.missed = op.missed
  BY DEF Op
<1>2. op' = IF op.mode = "selective" THEN [o EXCEPT !.pc = "idle", !.result = "failed"]
                                     ELSE [o EXCEPT !.pc = "damaged", !.head = head]
  BY DEF OnDamage
<1> HIDE DEF o
<1>3. CASE op.mode = "selective"
  <2>1. op' = [o EXCEPT !.pc = "idle", !.result = "failed"]
    BY <1>2, <1>3
  <2> QED
    BY <1>1, <1>3, <2>1 DEF Op, PCs, Results
<1>4. CASE op.mode # "selective"
  <2>1. op' = [o EXCEPT !.pc = "damaged", !.head = head]
    BY <1>2, <1>4
  <2> QED
    BY <1>1, <1>4, <2>1 DEF Op, PCs
<1> QED
  BY <1>3, <1>4

\* A step that ends a restore, and one that leaves its request and its copies alone.
LEMMA EndKeepsWork ==
  ASSUME TInv, UNCHANGED lists, op' \in Op, op'.pc = "idle", op'.result \notin {"running"},
         op'.todo = op.todo, op'.mode = op.mode, op'.want = op.want, op'.asked = op.asked
  PROVE  Work'
BY DEF TInv, Work, Reading

\* ... one that goes on with the session or the cassette
LEMMA GoOnKeepsWork ==
  ASSUME TInv, UNCHANGED lists, op' \in Op, Reading, op'.result = op.result,
         op'.pc \in {"index", "tar", "damaged", "swap"}, op'.head > 0,
         op'.pc = "tar" => op'.sess \in 1..Len(lists),
         op'.pc = "damaged" => op.mode # "selective", op'.pc = "swap" => op.mode = "full",
         op'.todo \subseteq op.todo, op'.mode = op.mode, op'.want = op.want, op'.asked = op.asked,
         op.asked # {} => op.want # {}
  PROVE  Work'
BY DEF TInv, Work, Reading

\* ... and one that goes on with the next copy.
LEMMA NextKeepsWork ==
  ASSUME TInv, UNCHANGED lists, op' \in Op, Reading, op'.result = op.result,
         op'.pc = "next", op.mode = "smart",
         op'.todo \subseteq op.todo, op'.mode = op.mode, op'.want \subseteq op.want, op'.asked = op.asked
  PROVE  Work'
BY DEF TInv, Work, Reading

\* The types of a restore at work.
LEMMA OpIs ==
  ASSUME TInv
  PROVE  /\ op \in Op /\ op.head \in Nat /\ op.entry \in Nat /\ op.sess \in 0..MaxSessions
         /\ op.mode \in Modes /\ op.pc \in PCs /\ op.result \in Results /\ op.cur \in Tapes
         /\ op.want \in SUBSET Paths /\ op.asked \in SUBSET Paths
         /\ op.pc \in {"index", "tar", "damaged", "swap", "next"} => Reading
         /\ op.pc \in {"index", "tar", "damaged", "swap"} => op.head > 0
         /\ op.pc \in {"index", "tar", "damaged", "swap"} /\ op.asked # {} => op.want # {}
         /\ Reading => op.mode \in {"full", "selective", "smart"}
BY DEF TInv, Work, Op, Reading, Modes

\* A restore that begins looks for all that was asked for.
LEMMA BeginKeepsWork ==
  ASSUME TInv, UNCHANGED lists, op' \in Op, op'.result = IF op'.pc = "idle" THEN "failed" ELSE "running",
         op'.pc \in {"idle", "index", "next"}, op'.mode \in {"full", "selective", "smart"},
         op'.pc = "index" => op'.head > 0,
         op'.pc = "next" => op'.mode = "smart",
         op'.todo \subseteq 1..Len(lists), op'.want = op'.asked, op'.mode = "full" => op'.asked = {}
  PROVE  Work'
BY DEF Work, Reading

\* A restore starts with the destination as it is.
LEMMA StartKeepsWork ==
  ASSUME TInv, \/ \E t \in Tapes : StartFull(t)
               \/ \E t \in Tapes, ps \in Requests :
                    StartSmart(t, ps) \/ \E k \in DOMAIN lists : StartSelective(t, k, ps)
  PROVE  Work' /\ op'.pc # "tar" /\ op'.told = {} /\ op'.want = op'.asked
         /\ op'.result \in {"running", "failed"}
         /\ UNCHANGED << written, dest >> /\ before' = dest /\ tries' \in 0..MaxRestores
<1>1. Requests \subseteq SUBSET Paths /\ MaxRestores \in Nat
  BY RestoreAssumption
<1>2. DOMAIN lists = 1..Len(lists) /\ Len(lists) \in 0..MaxSessions
  BY DEF TInv, Written, Sessions
<1>3. tries \in 0..MaxRestores /\ Idle \in Op
  BY IdleIs DEF TInv
<1>4. /\ Idle.want = {} /\ Idle.asked = {} /\ Idle.todo = {} /\ Idle.told = {}
  BY DEF Idle
<1>5. ASSUME NEW t \in Tapes, StartFull(t)
      PROVE  /\ op' = [Idle EXCEPT !.pc = "index", !.mode = "full", !.cur = t, !.first = t, !.head = 2,
                                   !.result = "running"]
             /\ UNCHANGED << written, dest >> /\ before' = dest
             /\ tries' = tries + 1 /\ tries < MaxRestores
  BY <1>5 DEF StartFull, Start
<1>6. ASSUME NEW t \in Tapes, StartFull(t) PROVE /\ Work' /\ op'.pc # "tar" /\ op'.told = {} /\ op'.want = op'.asked
                                                 /\ op'.result \in {"running", "failed"}
  <2>1. /\ op' = [Idle EXCEPT !.pc = "index", !.mode = "full", !.cur = t, !.first = t, !.head = 2,
                              !.result = "running"]
        /\ UNCHANGED lists
    BY <1>5, <1>6 DEF written
  <2>2. /\ op' \in Op /\ op'.pc = "index" /\ op'.mode = "full" /\ op'.head = 2 /\ op'.result = "running"
        /\ op'.todo = {} /\ op'.want = {} /\ op'.asked = {} /\ op'.told = {}
    BY <1>3, <1>4, <2>1 DEF Op, PCs, Modes, Results
  <2>3. op'.todo \subseteq 1..Len(lists)
    BY <2>2
  <2>4. UNCHANGED lists
    BY <2>1
  <2>5. op'.want = op'.asked
    BY <2>2
  <2>6. Work'
    BY <2>2, <2>3, <2>4, <2>5, BeginKeepsWork
  <2> QED
    BY <2>2, <2>6
<1>7. ASSUME NEW t \in Tapes, NEW ps \in Requests, StartSmart(t, ps)
      PROVE  /\ Work' /\ op'.pc # "tar" /\ op'.told = {} /\ op'.want = op'.asked
             /\ op'.result \in {"running", "failed"}
             /\ UNCHANGED << written, dest >> /\ before' = dest
             /\ tries' = tries + 1 /\ tries < MaxRestores
  <2> DEFINE todo == { k \in UNION { Listed(p) : p \in ps } : NumOn(t, k) # {} }
  <2>1. todo \in SUBSET (1..Len(lists))
    BY <1>2 DEF Listed
  <2>2. op' = [Idle EXCEPT !.pc = "next", !.mode = "smart", !.cur = t, !.want = ps, !.asked = ps,
                           !.result = "running", !.todo = todo]
    BY <1>7 DEF StartSmart, Start
  <2>3. /\ UNCHANGED << written, dest >> /\ before' = dest
        /\ tries' = tries + 1 /\ tries < MaxRestores
    BY <1>7 DEF StartSmart, Start
  <2> HIDE DEF todo
  <2>4. UNCHANGED lists
    BY <2>3 DEF written
  <2>5. 1..Len(lists) \subseteq 1..MaxSessions
    BY <1>2, CopyTypes
  <2>6. todo \in SUBSET (1..MaxSessions) /\ ps \in SUBSET Paths
    BY <1>1, <2>1, <2>5
  <2>7. /\ op' \in Op /\ op'.pc = "next" /\ op'.mode = "smart" /\ op'.result = "running"
        /\ op'.todo = todo /\ op'.want = ps /\ op'.asked = ps /\ op'.told = {}
    BY <1>3, <1>4, <2>2, <2>6 DEF Op, PCs, Modes, Results
  <2>8. Work'
    BY <2>1, <2>4, <2>7, BeginKeepsWork
  <2> QED
    BY <2>3, <2>7, <2>8
<1>8. ASSUME NEW t \in Tapes, NEW ps \in Requests, NEW k \in DOMAIN lists, StartSelective(t, k, ps)
      PROVE  /\ Work' /\ op'.pc # "tar" /\ op'.told = {} /\ op'.want = op'.asked
             /\ op'.result \in {"running", "failed"}
             /\ UNCHANGED << written, dest >> /\ before' = dest
             /\ tries' = tries + 1 /\ tries < MaxRestores
  <2> DEFINE o == [Idle EXCEPT !.mode = "selective", !.cur = t, !.want = ps, !.asked = ps]
  <2>1. o \in Op /\ o.todo = {} /\ o.told = {} /\ o.mode = "selective" /\ o.want = ps /\ o.asked = ps
    BY <1>1, <1>3, <1>4 DEF Op, Modes
  <2>2. \/ \E n \in NumOn(t, k) : Start([o EXCEPT !.pc = "index", !.head = 2 * n, !.result = "running"])
        \/ Start([o EXCEPT !.pc = "idle", !.result = "failed"])
    BY <1>8 DEF StartSelective
  <2> HIDE DEF o
  <2>3. ASSUME NEW n \in NumOn(t, k), Start([o EXCEPT !.pc = "index", !.head = 2 * n, !.result = "running"])
        PROVE  /\ op' \in Op /\ op'.pc = "index" /\ op'.result = "running" /\ op'.head > 0
               /\ op'.mode = o.mode /\ op'.todo = o.todo /\ op'.told = o.told
               /\ op'.want = o.want /\ op'.asked = o.asked
               /\ UNCHANGED << written, dest >> /\ before' = dest
               /\ tries' = tries + 1 /\ tries < MaxRestores
    <3>1. n \in Nat \ {0}
      BY <2>3, CopyTypes DEF NumOn
    <3>2. 2 * n \in Nat /\ 2 * n > 0
      BY <3>1
    <3>3. /\ op' = [o EXCEPT !.pc = "index", !.head = 2 * n, !.result = "running"]
          /\ UNCHANGED << written, dest >> /\ before' = dest
          /\ tries' = tries + 1 /\ tries < MaxRestores
      BY <2>3 DEF Start
    <3> QED
      BY <2>1, <3>2, <3>3 DEF Op, PCs, Results
  <2>4. ASSUME Start([o EXCEPT !.pc = "idle", !.result = "failed"])
        PROVE  /\ op' \in Op /\ op'.pc = "idle" /\ op'.result = "failed"
               /\ op'.mode = o.mode /\ op'.todo = o.todo /\ op'.told = o.told
               /\ op'.want = o.want /\ op'.asked = o.asked
               /\ UNCHANGED << written, dest >> /\ before' = dest
               /\ tries' = tries + 1 /\ tries < MaxRestores
    <3>1. /\ op' = [o EXCEPT !.pc = "idle", !.result = "failed"]
          /\ UNCHANGED << written, dest >> /\ before' = dest
          /\ tries' = tries + 1 /\ tries < MaxRestores
      BY <2>4 DEF Start
    <3> QED
      BY <2>1, <3>1 DEF Op, PCs, Results
  <2>5. /\ op' \in Op /\ op'.result = (IF op'.pc = "idle" THEN "failed" ELSE "running")
        /\ op'.pc \in {"idle", "index"} /\ (op'.pc = "index" => op'.head > 0)
        /\ op'.mode = o.mode /\ op'.todo = o.todo /\ op'.told = o.told
        /\ op'.want = o.want /\ op'.asked = o.asked
        /\ UNCHANGED << written, dest >> /\ before' = dest
        /\ tries' = tries + 1 /\ tries < MaxRestores
    BY <2>2, <2>3, <2>4
  <2>6. UNCHANGED lists
    BY <2>5 DEF written
  <2>7. Work'
    BY <2>1, <2>5, <2>6, BeginKeepsWork
  <2> QED
    BY <2>1, <2>5, <2>7
<1>9. tries < MaxRestores /\ tries' = tries + 1 => tries' \in 0..MaxRestores
  BY <1>1, <1>3
<1> QED
  BY <1>5, <1>6, <1>7, <1>8, <1>9, Zenon


-----------------------------------------------------------------------------
(* What every step of a restore keeps. *)

Goes ==
  /\ UNCHANGED << written, before, tries >> /\ Work' /\ Reading
  /\ op'.asked = op.asked /\ op'.want \subseteq op.want /\ op.told \subseteq op'.told
  /\ op'.mode = op.mode /\ op'.first = op.first

\* A restore ends.
LEMMA EndGoes ==
  ASSUME TInv, Reading, UNCHANGED << written, before, tries >>,
         NEW r \in Results \ {"running"}, Finish(r)
  PROVE  Goes /\ op'.pc = "idle"
<1>1. op \in Op /\ r \in Results /\ UNCHANGED lists
  BY OpIs DEF written
<1>2. /\ op' \in Op /\ op'.pc = "idle" /\ op'.result = r /\ op'.mode = op.mode
      /\ op'.want = op.want /\ op'.todo = op.todo /\ op'.first = op.first
      /\ op'.asked = op.asked /\ op'.told = op.told
  BY <1>1, FinishGives
<1>3. Work'
  BY <1>1, <1>2, EndKeepsWork
<1> QED
  BY <1>2, <1>3 DEF Goes

\* A restore meets damage.
LEMMA DamageGoes ==
  ASSUME TInv, op.pc \in {"index", "tar"}, UNCHANGED << written, before, tries >>,
         NEW head \in Nat, head > 0, NEW told \in SUBSET Paths, OnDamage(head, told)
  PROVE  Goes /\ op'.pc \in {"idle", "damaged"}
<1>1. op \in Op /\ UNCHANGED lists /\ Reading /\ (op.asked # {} => op.want # {})
  BY OpIs DEF written
<1>2. /\ op' \in Op /\ op'.told = op.told \cup told
      /\ op.mode = "selective" => op'.pc = "idle" /\ op'.result = "failed"
      /\ op.mode # "selective" => op'.pc = "damaged" /\ op'.result = op.result /\ op'.head = head
      /\ op'.mode = op.mode /\ op'.want = op.want /\ op'.todo = op.todo /\ op'.first = op.first
      /\ op'.asked = op.asked
  BY <1>1, OnDamageGives
<1>3. CASE op.mode = "selective"
  <2>1. Work'
    BY <1>1, <1>2, <1>3, EndKeepsWork
  <2> QED
    BY <1>1, <1>2, <1>3, <2>1 DEF Goes
<1>4. CASE op.mode # "selective"
  <2>1. Work'
    BY <1>1, <1>2, <1>4, GoOnKeepsWork
  <2> QED
    BY <1>1, <1>2, <1>4, <2>1 DEF Goes
<1> QED
  BY <1>3, <1>4

\* An index is read: the tar behind it is next.
LEMMA ReadIndexGoes ==
  ASSUME TInv, ReadIndex
  PROVE  Goes /\ op'.pc = "tar" /\ op'.entry = 1 /\ op'.sess = Found.run /\ Found = Under[op.head]
              /\ Found.kind = "index" /\ op'.head = op.head + 1 /\ op'.want = op.want
              /\ op'.todo = op.todo /\ op'.cur = op.cur /\ op'.missed = op.missed
<1>1. /\ op.pc = "index" /\ UNCHANGED << written, dest, before, tries >> /\ Found.kind = "index"
      /\ op' = [op EXCEPT !.pc = "tar", !.sess = Found.run, !.entry = 1, !.head = @ + 1]
  BY DEF ReadIndex
<1>2. /\ op \in Op /\ Reading /\ UNCHANGED lists /\ (op.asked # {} => op.want # {})
  BY <1>1, OpIs DEF written
<1>3. /\ op.head \in Nat \ {0} /\ Found.run \in 1..Len(lists) /\ Found = Under[op.head]
  BY <1>1, FoundIs
<1>4. 1..Len(lists) \subseteq 0..MaxSessions /\ op.head + 1 \in Nat /\ op.head + 1 > 0
  BY <1>3, CopyTypes DEF TInv, Written, Sessions
<1>5. /\ op' \in Op /\ op'.pc = "tar" /\ op'.sess = Found.run /\ op'.entry = 1 /\ op'.head = op.head + 1
      /\ op'.result = op.result /\ op'.todo = op.todo /\ op'.mode = op.mode /\ op'.want = op.want
      /\ op'.asked = op.asked /\ op'.told = op.told /\ op'.first = op.first
      /\ op'.cur = op.cur /\ op'.missed = op.missed
  BY <1>1, <1>2, <1>3, <1>4 DEF Op, PCs
<1>6. Work'
  BY <1>2, <1>3, <1>4, <1>5, GoOnKeepsWork
<1> QED
  BY <1>1, <1>2, <1>3, <1>5, <1>6 DEF Goes

\* What else is found where an index should be leaves the destination alone.
LEMMA AtAnIndexGoes ==
  ASSUME TInv, IndexDamaged \/ ReadEOD \/ ReadPointer \/ ReadFails
  PROVE  Goes /\ op'.pc # "tar" /\ AtNothing
<1>1. op.pc = "index" /\ UNCHANGED << written, dest, before, tries >>
  BY DEF IndexDamaged, ReadEOD, ReadPointer, ReadFails
<1>2. /\ op \in Op /\ Reading /\ op.head \in Nat /\ op.head > 0 /\ UNCHANGED lists
      /\ (op.asked # {} => op.want # {})
  BY <1>1, OpIs DEF written
<1>3. {"ok", "failed", "noCopy", "killed"} = Results \ {"running", "none"}
  BY DEF Results
<1>4. CASE IndexDamaged
  <2>1. OnDamage(op.head + 1, {}) /\ op.head + 1 \in Nat /\ op.head + 1 > 0 /\ {} \in SUBSET Paths
    BY <1>2, <1>4 DEF IndexDamaged
  <2> QED
    BY <1>1, <2>1, DamageGoes DEF AtNothing
<1>5. CASE \E r \in {"ok", "failed"} : Finish(r)
  <2>1. PICK r \in {"ok", "failed"} : Finish(r)
    BY <1>5
  <2>2. r \in Results \ {"running"}
    BY <2>1, <1>3
  <2> QED
    BY <1>1, <1>2, <2>1, <2>2, EndGoes DEF AtNothing
<1>6. CASE op.mode = "full" /\ Go("swap")
  <2>1. "swap" \in PCs
    BY DEF PCs
  <2>2. /\ op' \in Op /\ op'.pc = "swap" /\ op'.result = op.result
        /\ op'.mode = op.mode /\ op'.head = op.head /\ op'.todo = op.todo
        /\ op'.want = op.want /\ op'.asked = op.asked /\ op'.told = op.told /\ op'.first = op.first
    BY <1>2, <1>6, <2>1, GoGives
  <2>3. Work'
    BY <1>2, <1>6, <2>2, GoOnKeepsWork
  <2> QED
    BY <1>1, <1>2, <2>2, <2>3 DEF Goes, AtNothing
<1>7. ReadEOD \/ ReadFails => \E r \in {"ok", "failed"} : Finish(r)
  BY DEF ReadEOD, ReadFails
<1>8. ReadPointer => (\E r \in {"ok", "failed"} : Finish(r)) \/ (op.mode = "full" /\ Go("swap"))
  BY DEF ReadPointer
<1> QED
  BY <1>4, <1>5, <1>6, <1>7, <1>8

\* At an entry something is looked for still.
LEMMA AtEntryIs ==
  ASSUME TInv, NEW p \in Paths, AtEntry(p)
  PROVE  /\ op.pc = "tar" /\ op \in Op /\ Reading /\ op.head \in Nat /\ op.head > 0
         /\ op.asked # {} => op.want # {}
BY OpIs DEF AtEntry

\* An entry is read: the next one is next, or the destination has refused it.
LEMMA ReadEntryGoes ==
  ASSUME TInv, NEW p \in Paths, ReadEntry(p)
  PROVE  /\ Goes /\ (AtNothing \/ AtAnEntry(p))
         /\ op'.pc \in {"tar", "idle"} /\ op'.want = op.want
         /\ op'.pc = "idle" => op'.result = "failed"
         /\ op'.pc = "tar" => /\ op'.entry = p + 1 /\ op'.sess = op.sess /\ op'.head = op.head
                              /\ op'.todo = op.todo /\ op'.cur = op.cur /\ op'.missed = op.missed
                              /\ Writable(p) => Extract(p).ok /\ dest' = Extract(p).d
                              /\ ~Writable(p) => dest' = dest
<1>1. AtEntry(p) /\ UNCHANGED << written, before, tries >>
  BY DEF ReadEntry
<1>2. /\ op.pc = "tar" /\ op \in Op /\ Reading /\ op.head \in Nat /\ op.head > 0 /\ UNCHANGED lists
      /\ op.asked # {} => op.want # {}
  BY <1>1, AtEntryIs DEF written
<1>3. AtNothing \/ AtAnEntry(p)
  BY ReadEntryTouches
<1> DEFINE x == IF Writable(p) THEN Extract(p) ELSE Outcome(TRUE, dest)
<1>4. dest' = x.d /\ IF x.ok THEN op' = [op EXCEPT !.entry = p + 1] ELSE Finish("failed")
  BY DEF ReadEntry
<1>5. (Writable(p) => x = Extract(p)) /\ (~Writable(p) => x.ok /\ x.d = dest)
  BY DEF Outcome
<1> HIDE DEF x
<1>6. CASE x.ok
  <2>1. p + 1 \in Nat
    BY PathsAre
  <2>2. op' = [op EXCEPT !.entry = p + 1]
    BY <1>4, <1>6
  <2>3. /\ op' \in Op /\ op'.pc = "tar" /\ op'.sess = op.sess /\ op'.entry = p + 1 /\ op'.head = op.head
        /\ op'.result = op.result /\ op'.todo = op.todo /\ op'.mode = op.mode /\ op'.want = op.want
        /\ op'.asked = op.asked /\ op'.told = op.told /\ op'.first = op.first
        /\ op'.cur = op.cur /\ op'.missed = op.missed
    BY <1>2, <2>1, <2>2 DEF Op, PCs
  <2>4. op.sess \in 1..Len(lists)
    BY <1>2 DEF TInv, Work
  <2>5. Work'
    BY <1>2, <2>3, <2>4, GoOnKeepsWork
  <2>6. Goes
    BY <1>1, <1>2, <2>3, <2>5 DEF Goes
  <2> QED
    BY <1>3, <1>4, <1>5, <1>6, <2>3, <2>6
<1>7. CASE ~x.ok
  <2>1. Finish("failed") /\ "failed" \in Results \ {"running"} /\ "failed" \in Results
    BY <1>4, <1>7 DEF Results
  <2>2. Goes /\ op'.pc = "idle"
    BY <1>1, <1>2, <2>1, EndGoes
  <2>3. op'.want = op.want /\ op'.result = "failed"
    BY <1>2, <2>1, FinishGives
  <2> QED
    BY <1>3, <2>2, <2>3
<1> QED
  BY <1>6, <1>7

\* What else may happen at an entry ends the session.
LEMMA AtAnEntryGoes ==
  ASSUME TInv, NEW p \in Paths, EntryDamaged(p) \/ EntryFails(p) \/ EntryMissing(p) \/ TarUnreadable(p)
  PROVE  Goes /\ op'.pc # "tar" /\ (AtNothing \/ AtAnEntry(p))
<1>1. AtEntry(p) /\ UNCHANGED << written, before, tries >>
  BY DEF EntryDamaged, EntryFails, EntryMissing, TarUnreadable
<1>2. /\ op.pc = "tar" /\ op \in Op /\ Reading /\ op.head \in Nat /\ op.head > 0 /\ UNCHANGED lists
      /\ op.asked # {} => op.want # {}
  BY <1>1, AtEntryIs DEF written
<1>3. AtNothing \/ AtAnEntry(p)
  BY EntryDamagedTouches, EntryFailsTouches DEF EntryMissing, TarUnreadable, AtNothing
<1>4. CASE Finish("failed")
  <2>1. "failed" \in Results \ {"running"}
    BY DEF Results
  <2> QED
    BY <1>1, <1>2, <1>3, <1>4, <2>1, EndGoes
<1>5. CASE \E head \in {op.head, op.head + 1} : \E told \in {{}, {p}} : OnDamage(head, told)
  <2>1. PICK head \in {op.head, op.head + 1} : \E told \in {{}, {p}} : OnDamage(head, told)
    BY <1>5
  <2>2. PICK told \in {{}, {p}} : OnDamage(head, told)
    BY <2>1
  <2>3. head \in Nat /\ head > 0 /\ told \in SUBSET Paths
    BY <1>2, <2>1, <2>2
  <2> QED
    BY <1>1, <1>2, <1>3, <2>2, <2>3, DamageGoes
<1>6. CASE \E told \in {{}, {p}} :
             op' = [op EXCEPT !.pc = "idle", !.result = "failed", !.told = @ \cup told]
  <2>1. PICK told \in {{}, {p}} :
             op' = [op EXCEPT !.pc = "idle", !.result = "failed", !.told = @ \cup told]
    BY <1>6
  <2>2. told \in SUBSET Paths
    BY <2>1
  <2>3. /\ op' \in Op /\ op'.pc = "idle" /\ op'.result = "failed"
        /\ op'.todo = op.todo /\ op'.mode = op.mode /\ op'.want = op.want
        /\ op'.asked = op.asked /\ op'.told = op.told \cup told /\ op'.first = op.first
    BY <1>2, <2>1, <2>2 DEF Op, PCs, Results
  <2>4. Work'
    BY <1>2, <2>3, EndKeepsWork
  <2> QED
    BY <1>1, <1>2, <1>3, <2>3, <2>4 DEF Goes
<1>7. EntryMissing(p) => \E head \in {op.head, op.head + 1} : \E told \in {{}, {p}} : OnDamage(head, told)
  BY DEF EntryMissing
<1>8. TarUnreadable(p) => Finish("failed")
  BY DEF TarUnreadable
<1>9. EntryFails(p) => \/ Finish("failed")
                       \/ \E told \in {{}, {p}} :
                            op' = [op EXCEPT !.pc = "idle", !.result = "failed", !.told = @ \cup told]
  BY DEF EntryFails
<1>10. EntryDamaged(p) =>
         \/ Finish("failed")
         \/ \E head \in {op.head, op.head + 1} : \E told \in {{}, {p}} : OnDamage(head, told)
  BY DEF EntryDamaged
<1> QED
  BY <1>4, <1>5, <1>6, <1>7, <1>8, <1>9, <1>10

\* A tar has been read: every mode goes its way.
LEMMA TarReadGoes ==
  ASSUME TInv, TarRead
  PROVE  /\ Goes /\ op'.pc # "tar" /\ op'.todo = op.todo /\ op'.cur = op.cur /\ op'.missed = op.missed
         /\ op.mode = "full" => /\ op'.pc = "index" /\ op'.head = op.head + 1 /\ op'.want = op.want
                                /\ op'.result = op.result
         /\ op.mode = "selective" => op'.pc = "idle" /\ op'.want = op.want
         /\ op.mode = "smart" => op'.pc = "next" /\ op'.want = DropRestored(op.want) /\ op'.result = op.result
<1>1. /\ op.pc = "tar" /\ UNCHANGED << written, before, tries >>
      /\ op' = CASE op.mode = "full" -> [op EXCEPT !.pc = "index", !.head = @ + 1]
             [] op.mode = "selective" -> [op EXCEPT !.pc = "idle", !.result = "ok"]
             [] OTHER -> [op EXCEPT !.pc = "next", !.want = DropRestored(@)]
  BY DEF TarRead
<1>2. /\ op \in Op /\ Reading /\ UNCHANGED lists /\ op.head \in Nat /\ op.head > 0
      /\ op.asked # {} => op.want # {}
      /\ op.mode \in {"full", "selective", "smart"} /\ op.want \in SUBSET Paths
  BY <1>1, OpIs DEF written
<1>3. CASE op.mode = "full"
  <2>1. op' = [op EXCEPT !.pc = "index", !.head = @ + 1] /\ op.head + 1 \in Nat /\ op.head + 1 > 0
    BY <1>1, <1>2, <1>3
  <2>2. /\ op' \in Op /\ op'.pc = "index" /\ op'.head = op.head + 1
        /\ op'.result = op.result /\ op'.todo = op.todo /\ op'.mode = op.mode /\ op'.want = op.want
        /\ op'.asked = op.asked /\ op'.told = op.told /\ op'.first = op.first
        /\ op'.cur = op.cur /\ op'.missed = op.missed
    BY <1>2, <2>1 DEF Op, PCs
  <2>3. Work'
    BY <1>2, <1>3, <2>1, <2>2, GoOnKeepsWork
  <2> QED
    BY <1>1, <1>2, <1>3, <2>2, <2>3 DEF Goes
<1>4. CASE op.mode = "selective"
  <2>1. op' = [op EXCEPT !.pc = "idle", !.result = "ok"]
    BY <1>1, <1>4
  <2>2. /\ op' \in Op /\ op'.pc = "idle" /\ op'.result = "ok"
        /\ op'.todo = op.todo /\ op'.mode = op.mode /\ op'.want = op.want
        /\ op'.asked = op.asked /\ op'.told = op.told /\ op'.first = op.first
        /\ op'.cur = op.cur /\ op'.missed = op.missed
    BY <1>2, <2>1 DEF Op, PCs, Results
  <2>3. Work'
    BY <1>2, <1>4, <2>2, EndKeepsWork
  <2> QED
    BY <1>1, <1>2, <1>4, <2>2, <2>3 DEF Goes
<1>5. CASE op.mode = "smart"
  <2> DEFINE want == DropRestored(op.want)
  <2>1. want \subseteq op.want /\ want \in SUBSET Paths
    BY <1>2 DEF DropRestored
  <2>2. op' = [op EXCEPT !.pc = "next", !.want = want]
    BY <1>1, <1>5
  <2> HIDE DEF want
  <2>3. /\ op' \in Op /\ op'.pc = "next" /\ op'.want = want
        /\ op'.result = op.result /\ op'.todo = op.todo /\ op'.mode = op.mode
        /\ op'.asked = op.asked /\ op'.told = op.told /\ op'.first = op.first
        /\ op'.cur = op.cur /\ op'.missed = op.missed
    BY <1>2, <2>1, <2>2 DEF Op, PCs
  <2>4. Work'
    BY <1>2, <1>5, <2>1, <2>3, NextKeepsWork
  <2> QED
    BY <1>1, <1>2, <1>5, <2>1, <2>3, <2>4 DEF Goes, want
<1> QED
  BY <1>2, <1>3, <1>4, <1>5

\* Between sessions the destination stays as it is.
LEMMA BetweenGoes ==
  ASSUME TInv, SkipDamaged \/ SkipCopy \/ SmartEnds
  PROVE  Goes /\ op'.pc # "tar" /\ AtNothing
<1>1. op.pc \in {"damaged", "next"} /\ UNCHANGED << written, dest, before, tries >>
  BY DEF SkipDamaged, SkipCopy, SmartEnds
<1>2. /\ op \in Op /\ Reading /\ op.head \in Nat /\ UNCHANGED lists
      /\ op.pc = "damaged" => op.head > 0 /\ (op.asked # {} => op.want # {})
      /\ op.want \subseteq op.want
  BY <1>1, OpIs DEF written
<1>3. CASE SkipDamaged
  <2>1. PICK n \in 0..2 : op' = [op EXCEPT !.pc = "index", !.head = op.head + n]
    BY <1>3 DEF SkipDamaged
  <2>2. op.pc = "damaged" /\ op.head + n \in Nat /\ op.head + n > 0
    BY <1>2, <1>3, <2>1 DEF SkipDamaged
  <2>3. /\ op' \in Op /\ op'.pc = "index" /\ op'.head = op.head + n
        /\ op'.result = op.result /\ op'.todo = op.todo /\ op'.mode = op.mode /\ op'.want = op.want
        /\ op'.asked = op.asked /\ op'.told = op.told /\ op'.first = op.first
    BY <1>2, <2>1, <2>2 DEF Op, PCs
  <2>4. Work'
    BY <1>2, <2>2, <2>3, GoOnKeepsWork
  <2> QED
    BY <1>1, <1>2, <2>3, <2>4 DEF Goes, AtNothing
<1>4. CASE SkipCopy
  <2>1. op.mode = "smart" /\ Go("next") /\ "next" \in PCs
    BY <1>4 DEF SkipCopy, PCs
  <2>2. /\ op' \in Op /\ op'.pc = "next" /\ op'.result = op.result
        /\ op'.todo = op.todo /\ op'.mode = op.mode /\ op'.want = op.want
        /\ op'.asked = op.asked /\ op'.told = op.told /\ op'.first = op.first
    BY <1>2, <2>1, GoGives
  <2>3. Work'
    BY <1>2, <2>1, <2>2, NextKeepsWork
  <2> QED
    BY <1>1, <1>2, <2>2, <2>3 DEF Goes, AtNothing
<1>5. CASE SmartEnds
  <2>1. PICK r \in {"ok", "noCopy"} : Finish(r)
    BY <1>5 DEF SmartEnds
  <2>2. r \in Results \ {"running"}
    BY <2>1 DEF Results
  <2> QED
    BY <1>1, <1>2, <2>1, <2>2, EndGoes DEF AtNothing
<1> QED
  BY <1>3, <1>4, <1>5

\* A copy is tried once.
LEMMA NextCopyGoes ==
  ASSUME TInv, NEW k \in DOMAIN lists, NextCopy(k)
  PROVE  /\ Goes /\ op'.pc \in {"index", "next"} /\ AtNothing /\ op'.want = op.want
         /\ op'.todo = op.todo \ {k} /\ op'.cur = op.cur /\ op'.result = op.result
         /\ op'.pc = "index" => /\ op'.missed = op.missed
                                /\ \E n \in NumOn(op.cur, k) : op'.head = 2 * n
         /\ op'.pc = "next" => op'.missed = op.missed \cup {k}
<1>1. /\ op.pc = "next" /\ op.want # {} /\ k \in op.todo /\ UNCHANGED << written, dest, before, tries >>
      /\ \/ \E n \in NumOn(op.cur, k) :
              op' = [op EXCEPT !.pc = "index", !.head = 2 * n, !.todo = @ \ {k}]
         \/ op' = [op EXCEPT !.todo = @ \ {k}, !.missed = @ \cup {k}]
  BY DEF NextCopy
<1>2. /\ op \in Op /\ Reading /\ UNCHANGED lists /\ op.want \subseteq op.want
      /\ op.todo \ {k} \subseteq op.todo
  BY <1>1, OpIs DEF written
<1>3. op.mode = "smart" /\ k \in 1..MaxSessions
  BY <1>1 DEF TInv, Work, Op
<1>4. CASE \E n \in NumOn(op.cur, k) :
              op' = [op EXCEPT !.pc = "index", !.head = 2 * n, !.todo = @ \ {k}]
  <2>1. PICK n \in NumOn(op.cur, k) :
              op' = [op EXCEPT !.pc = "index", !.head = 2 * n, !.todo = @ \ {k}]
    BY <1>4
  <2>2. n \in Nat \ {0}
    BY <2>1, CopyTypes DEF NumOn
  <2>3. 2 * n \in Nat /\ 2 * n > 0
    BY <2>2
  <2>4. /\ op' \in Op /\ op'.pc = "index" /\ op'.head = 2 * n
        /\ op'.result = op.result /\ op'.todo = op.todo \ {k} /\ op'.mode = op.mode /\ op'.want = op.want
        /\ op'.asked = op.asked /\ op'.told = op.told /\ op'.first = op.first
        /\ op'.cur = op.cur /\ op'.missed = op.missed
    BY <1>2, <2>1, <2>3 DEF Op, PCs
  <2>5. Work'
    BY <1>1, <1>2, <2>3, <2>4, GoOnKeepsWork
  <2> QED
    BY <1>1, <1>2, <2>1, <2>4, <2>5 DEF Goes, AtNothing
<1>5. CASE op' = [op EXCEPT !.todo = @ \ {k}, !.missed = @ \cup {k}]
  <2>1. /\ op' \in Op /\ op'.pc = "next"
        /\ op'.result = op.result /\ op'.todo = op.todo \ {k} /\ op'.mode = op.mode /\ op'.want = op.want
        /\ op'.asked = op.asked /\ op'.told = op.told /\ op'.first = op.first
        /\ op'.cur = op.cur /\ op'.missed = op.missed \cup {k}
    BY <1>1, <1>2, <1>3, <1>5 DEF Op, PCs
  <2>2. Work'
    BY <1>2, <1>3, <2>1, NextKeepsWork
  <2> QED
    BY <1>1, <1>2, <2>1, <2>2 DEF Goes, AtNothing
<1> QED
  BY <1>1, <1>4, <1>5

\* Only the cassette with the name of the pointer is read on.
LEMMA FollowChainGoes ==
  ASSUME TInv, NEW t \in Tapes, FollowChain(t)
  PROVE  /\ Goes /\ op'.pc \in {"index", "idle"} /\ AtNothing
         /\ op'.pc = "index" => /\ op'.cur = t /\ op'.head = 2 /\ op'.result = op.result
                                /\ LabelOf(t) = Found.name /\ op'.want = op.want
         /\ op'.pc = "idle" => op'.result = "failed"
<1>1. /\ op.pc = "swap" /\ UNCHANGED << written, dest, before, tries >>
      /\ \/ LabelOf(t) = Found.name /\ op' = [op EXCEPT !.pc = "index", !.cur = t, !.head = 2]
         \/ Finish("failed")
  BY DEF FollowChain
<1>2. /\ op \in Op /\ Reading /\ UNCHANGED lists /\ (op.asked # {} => op.want # {})
      /\ "failed" \in Results \ {"running"}
  BY <1>1, OpIs DEF written, Results
<1>3. CASE LabelOf(t) = Found.name /\ op' = [op EXCEPT !.pc = "index", !.cur = t, !.head = 2]
  <2>1. /\ op' \in Op /\ op'.pc = "index" /\ op'.head = 2 /\ op'.cur = t
        /\ op'.result = op.result /\ op'.todo = op.todo /\ op'.mode = op.mode /\ op'.want = op.want
        /\ op'.asked = op.asked /\ op'.told = op.told /\ op'.first = op.first
    BY <1>2, <1>3 DEF Op, PCs
  <2>2. Work'
    BY <1>2, <2>1, GoOnKeepsWork
  <2> QED
    BY <1>1, <1>2, <1>3, <2>1, <2>2 DEF Goes, AtNothing
<1>4. CASE Finish("failed")
  <2>1. Goes /\ op'.pc = "idle"
    BY <1>1, <1>2, <1>4, EndGoes
  <2>2. op'.result = "failed"
    BY <1>2, <1>4, FinishGives DEF Results
  <2> QED
    BY <1>1, <2>1, <2>2 DEF AtNothing
<1> QED
  BY <1>1, <1>3, <1>4

\* A restore that is killed has ended.
LEMMA KillGoes ==
  ASSUME TInv, Kill
  PROVE  Goes /\ op'.pc # "tar" /\ op'.result = "killed"
<1> DEFINE o == [op EXCEPT !.pc = "idle", !.head = 0, !.sess = 0, !.entry = 0, !.want = {}, !.todo = {},
                          !.result = "killed"]
<1>1. op.pc \notin {"build", "idle"} /\ UNCHANGED << written, before, tries >> /\ op' = o
  BY DEF Kill
<1>2. op \in Op /\ op.pc \in {"index", "tar", "damaged", "swap", "next"} /\ Reading
  BY <1>1, OpIs DEF PCs
<1>3. /\ o \in Op /\ o.pc = "idle" /\ o.result = "killed" /\ o.want = {} /\ o.todo = {}
      /\ o.mode = op.mode /\ o.first = op.first /\ o.asked = op.asked /\ o.told = op.told
  <2>1. "idle" \in PCs /\ "killed" \in Results /\ 0 \in 0..MaxSessions /\ 0 \in Nat
    BY RestoreAssumption DEF PCs, Results
  <2>2. /\ o.pc = "idle" /\ o.result = "killed" /\ o.want = {} /\ o.todo = {}
        /\ o.mode = op.mode /\ o.first = op.first /\ o.asked = op.asked /\ o.told = op.told
    BY <1>2 DEF Op
  <2>3. o \in Op
    BY <1>2, <2>1 DEF Op
  <2> QED
    BY <2>2, <2>3
<1>4. op.mode = "full" => op.asked = {}
  BY DEF TInv, Work
<1>5. Work'
  BY <1>1, <1>3, <1>4 DEF Work, Reading, written
<1> QED
  BY <1>1, <1>2, <1>3, <1>5 DEF Goes

\* Every step of a restore: what was written stays, the request stays, and at the
\* destination it is at an entry, at the end of a tar, or nowhere.
LEMMA StepGoes ==
  ASSUME TInv, Step \/ Kill
  PROVE  /\ Goes
         /\ AtNothing \/ AtTheEnd \/ \E p \in Paths : AtAnEntry(p)
         /\ op'.pc = "tar" => ReadIndex \/ \E p \in Paths : ReadEntry(p)
<1>1. CASE ReadIndex
  BY <1>1, ReadIndexGoes DEF ReadIndex, AtNothing
<1>2. CASE IndexDamaged \/ ReadEOD \/ ReadPointer \/ ReadFails
  BY <1>2, AtAnIndexGoes
<1>3. CASE \E p \in Paths : ReadEntry(p)
  BY <1>3, ReadEntryGoes
<1>4. CASE \E p \in Paths : EntryDamaged(p) \/ EntryFails(p) \/ EntryMissing(p) \/ TarUnreadable(p)
  BY <1>4, AtAnEntryGoes
<1>5. CASE TarRead
  BY <1>5, TarReadGoes, TarReadTouches
<1>6. CASE SkipDamaged \/ SkipCopy \/ SmartEnds
  BY <1>6, BetweenGoes
<1>7. CASE \E k \in DOMAIN lists : NextCopy(k)
  BY <1>7, NextCopyGoes
<1>8. CASE \E t \in Tapes : FollowChain(t)
  BY <1>8, FollowChainGoes
<1>9. CASE Kill
  BY <1>9, KillGoes, KillTouches
<1> QED
  BY <1>1, <1>2, <1>3, <1>4, <1>5, <1>6, <1>7, <1>8, <1>9, Zenon DEF Step

-----------------------------------------------------------------------------
(* The types, and what is written. *)

\* What was written stays what it is when it is left alone.
LEMMA WrittenStays ==
  ASSUME Written, UNCHANGED written
  PROVE  Written' /\ \A p : Plain(p)' <=> Plain(p)
<1>1. /\ fs' = fs /\ past' = past /\ lists' = lists /\ damage' = damage /\ files' = files
  BY DEF written
<1>2. IsTree(fs)'
  BY <1>1 DEF Written, IsTree
<1>3. Sessions'
  BY <1>1 DEF Written, Sessions, IsTree, Tells, InTar
<1>4. Cassettes'
  BY <1>1 DEF Written, Cassettes
<1>5. \A p : Plain(p)' <=> Plain(p)
  BY <1>1 DEF Plain
<1> QED
  BY <1>2, <1>3, <1>4, <1>5 DEF Written

\* With one more session fewer paths are plain.
LEMMA WriteKeepsApart ==
  ASSUME IsTree(fs), Sessions, Apart(dest), NEW move \in BOOLEAN, WriteSession(move)
  PROVE  Apart(dest)' /\ \A p \in Paths : Plain(p)' => Plain(p)
<1>1. /\ \A k \in 1..Len(lists) : past'[k] = past[k]
      /\ Len(lists) \in Nat /\ Len(lists') = Len(lists) + 1
      /\ dest' = dest
  BY WriteKeepsSessions DEF WriteSession
<1>2. DOMAIN past = 1..Len(lists) /\ DOMAIN past' = 1..(Len(lists) + 1)
  BY <1>1, WriteKeepsSessions DEF Sessions
<1>3. \A p \in Paths : Plain(p)' => Plain(p)
  BY <1>1, <1>2 DEF Plain
<1> QED
  BY <1>1, <1>3 DEF Apart

\* The types hold at first ...
LEMMA InitIsTyped == Init => TInv
<1> SUFFICES ASSUME Init PROVE TInv
  OBVIOUS
<1>1. IsTree(fs)
  BY FirstTreeGives DEF Init
<1>2. Sessions
  <2>1. /\ past = << >> /\ lists = << >> /\ damage = << >> /\ MaxSessions \in Nat
    BY CopyTypes DEF Init
  <2> QED
    BY <2>1 DEF Sessions
<1>3. Cassettes
  <2> DEFINE n(t) == CHOOSE n \in DOMAIN Chain : Chain[n] = t
  <2>1. ASSUME NEW t \in Tapes
        PROVE  /\ << Label(n(t)), Empty >> \in Seq(Seg) /\ Label(n(t)).kind = "label"
    <3>1. n(t) \in 1..Len(Chain)
      BY ChainIs
    <3> HIDE DEF n
    <3>2. n(t) \in Nat
      BY <3>1, ChainIs
    <3> QED
      BY <3>2 DEF Label, Empty, Blocks, NoSession, Seg, Kinds
  <2>2. files = [t \in Tapes |-> << Label(n(t)), Empty >>]
    BY DEF Init
  <2> HIDE DEF n
  <2>3. Empty.kind = "empty"
    BY DEF Empty, Blocks
  <2> QED
    BY <2>1, <2>2, <2>3 DEF Cassettes
<1>4. IsDest(dest) /\ Apart(dest) /\ before \in [Paths -> Copy]
  <2>1. /\ dest = [p \in Paths |-> Nothing] /\ before = dest
    BY DEF Init
  <2>2. \A p \in Paths : dest[p] = Nothing
    BY <2>1
  <2> QED
    BY <2>1, <2>2, CopyTypes DEF IsDest, Apart
<1>5. op = Idle /\ lists = << >> /\ tries = 0 /\ edits = 0
  BY DEF Init
<1>6. Work
  BY <1>5, IdleIs DEF Work, Reading, Idle
<1>7. 0 \in 0..MaxEdits /\ 0 \in 0..MaxRestores
  BY RestoreAssumption
<1> QED
  BY <1>1, <1>2, <1>3, <1>4, <1>5, <1>6, <1>7 DEF TInv, Written

\* ... after an edit
LEMMA BuildIsTyped ==
  ASSUME TInv, NEW p \in Paths, NEW e \in Edits, Edit(p, e)
  PROVE  TInv' /\ UNCHANGED << past, lists, damage, files, dest, before, tries, op >>
<1>1. /\ UNCHANGED << past, lists, damage, files, dest, before, tries, op >>
      /\ edits < MaxEdits /\ edits' = edits + 1
  BY DEF Edit
<1>2. IsTree(fs')
  BY EditGives DEF TInv
<1>3. edits' \in 0..MaxEdits
  BY <1>1, RestoreAssumption DEF TInv
<1>4. Sessions'
  BY <1>1 DEF TInv, Written, Sessions, IsTree, Tells, InTar
<1>5. Cassettes'
  BY <1>1 DEF TInv, Written, Cassettes
<1>6. IsDest(dest') /\ Apart(dest)'
  BY <1>1 DEF TInv, Apart, Plain
<1>7. Work'
  BY <1>1 DEF TInv, Work, Reading
<1>8. IsTree(fs)'
  BY <1>2 DEF IsTree
<1>9. IsDest(dest)'
  BY <1>6 DEF IsDest
<1> QED
  BY <1>1, <1>3, <1>4, <1>5, <1>6, <1>7, <1>8, <1>9 DEF TInv, Written

\* ... after a session was written
LEMMA WriteIsTyped ==
  ASSUME TInv, NEW move \in BOOLEAN, WriteSession(move)
  PROVE  TInv' /\ UNCHANGED << fs, dest, before, tries, op >> /\ op = Idle
<1>1. /\ UNCHANGED << fs, dest, before, tries, op >> /\ op.pc = "build" /\ edits' = 0
  BY DEF WriteSession
<1>2. op = Idle /\ Work
  BY <1>1 DEF TInv, Work
<1>3. Sessions' /\ Cassettes'
  BY WriteKeepsSessions, WriteKeepsCassettes DEF TInv, Written
<1>4. IsTree(fs)' /\ IsDest(dest)' /\ before' \in [Paths -> Copy] /\ tries' \in 0..MaxRestores
  BY <1>1 DEF TInv, Written, IsTree, IsDest
<1>5. Apart(dest)'
  BY WriteKeepsApart DEF TInv, Written
<1>6. Work'
  <2>1. op' = Idle
    BY <1>1, <1>2
  <2>2. Idle \in Op /\ Idle.todo = {} /\ Idle.want = {} /\ Idle.asked = {} /\ Idle.pc = "build"
        /\ Idle.result = "none" /\ Idle.mode = "none"
    BY IdleIs DEF Idle
  <2> QED
    BY <2>1, <2>2 DEF Work, Reading
<1>7. edits' \in 0..MaxEdits
  BY <1>1, RestoreAssumption
<1> QED
  BY <1>1, <1>2, <1>3, <1>4, <1>5, <1>6, <1>7 DEF TInv, Written

\* ... after a step of a restore
LEMMA GoesIsTyped ==
  ASSUME TInv, UNCHANGED written, edits' = edits, Work', tries' \in 0..MaxRestores,
         before' \in [Paths -> Copy], IsDest(dest'), Apart(dest')
  PROVE  TInv'
<1>1. Written' /\ \A p : Plain(p)' <=> Plain(p)
  BY WrittenStays DEF TInv
<1>2. IsDest(dest)' /\ Apart(dest)'
  BY <1>1 DEF IsDest, Apart
<1> QED
  BY <1>1, <1>2 DEF TInv

\* ... and after every step.
LEMMA NextIsTyped == TInv /\ [Next]_vars => TInv'
<1> SUFFICES ASSUME TInv, [Next]_vars PROVE TInv'
  OBVIOUS
<1>1. IsDest(dest) /\ Apart(dest) /\ before \in [Paths -> Copy] /\ dest \in [Paths -> Copy]
      /\ tries \in 0..MaxRestores
  BY DEF TInv, IsDest
<1>2. CASE Build
  BY <1>2, BuildIsTyped DEF Build
<1>3. CASE \E move \in BOOLEAN : WriteSession(move)
  BY <1>3, WriteIsTyped
<1>4. CASE \/ \E t \in Tapes : StartFull(t)
           \/ \E t \in Tapes, ps \in Requests :
                StartSmart(t, ps) \/ \E k \in DOMAIN lists : StartSelective(t, k, ps)
  <2>1. /\ Work' /\ UNCHANGED << written, dest >> /\ before' = dest /\ tries' \in 0..MaxRestores
    BY <1>4, StartKeepsWork
  <2>2. /\ UNCHANGED written /\ edits' = edits /\ dest' = dest
    BY <2>1 DEF written
  <2> QED
    BY <1>1, <2>1, <2>2, GoesIsTyped
<1>5. CASE Step \/ Kill
  <2>1. Goes /\ (AtNothing \/ AtTheEnd \/ \E p \in Paths : AtAnEntry(p))
    BY <1>5, StepGoes
  <2>2. IsDest(dest') /\ Apart(dest')
    BY <1>1, <2>1 DEF AtNothing, AtTheEnd, AtAnEntry
  <2>3. /\ UNCHANGED written /\ edits' = edits /\ Work' /\ before' = before /\ tries' = tries
    BY <2>1 DEF Goes, written
  <2> QED
    BY <1>1, <2>2, <2>3, GoesIsTyped
<1>6. CASE UNCHANGED vars
  <2>1. /\ UNCHANGED written /\ edits' = edits /\ before' = before /\ tries' = tries /\ dest' = dest
        /\ op' = op /\ lists' = lists
    BY <1>6 DEF vars, written
  <2>2. Work'
    BY <2>1 DEF TInv, Work, Reading
  <2> QED
    BY <1>1, <2>1, <2>2, GoesIsTyped
<1> QED
  BY <1>2, <1>3, <1>4, <1>5, <1>6 DEF Next

\* TypeOK: what was written are trees and lists, and an inode of the destination
\* has one contents, whatever has been restored onto it, whole or in part.
THEOREM TypesHold == Spec => []TypeOK
<1>1. TInv => TypeOK
  <2> SUFFICES ASSUME TInv PROVE TypeOK
    OBVIOUS
  <2>1. /\ IsTree(fs) /\ Sessions /\ Cassettes /\ IsDest(dest) /\ op \in Op
        /\ edits \in 0..MaxEdits /\ before \in [Paths -> Copy] /\ tries \in 0..MaxRestores
    BY DEF TInv, Written, Work
  <2>2. \A k \in DOMAIN lists : past[k] \in [Paths -> Node] /\ IsFileList(lists[k])
    <3>1. ASSUME NEW k \in DOMAIN lists PROVE past[k] \in [Paths -> Node] /\ lists[k] \in FileLists
      BY <2>1, <3>1 DEF Sessions
    <3> QED
      BY <3>1 DEF FileLists, IsFileList
  <2>3. \A t \in Tapes : \A i \in DOMAIN files[t] : files[t][i] \in Seg
    BY <2>1 DEF Cassettes
  <2> QED
    BY <2>1, <2>2, <2>3 DEF TypeOK, IsTree, IsDest, Sessions
<1> QED
  BY <1>1, InitIsTyped, NextIsTyped, PTL DEF Spec

-----------------------------------------------------------------------------
(* Files that are partly restored, and what was not asked for. *)

\* What is looked for was asked for.
LEMMA IncludesAsked ==
  ASSUME op.want \subseteq op.asked, op.asked # {}, op.want # {}, NEW p \in Paths, Includes(op.want, p)
  PROVE  Includes(op.asked, p)
BY DEF Includes

\* Nothing has been read of a session that begins.
LEMMA BeginIsCopied ==
  ASSUME TInv, ReadIndex
  PROVE  Copied'
<1>1. /\ Goes /\ op'.pc = "tar" /\ op'.entry = 1 /\ op'.sess = Found.run
      /\ damage[Found.run].kind # "index"
  BY ReadIndexGoes DEF ReadIndex
<1>2. damage' = damage /\ lists' = lists
  BY <1>1 DEF Goes, written
<1>3. Found.run \in 1..Len(lists)
  BY FoundIs, ReadIndexGoes DEF ReadIndex
<1>4. lists[Found.run] \in FileLists
  BY <1>3 DEF TInv, Written, Sessions
<1>5. \A p \in InTar(lists[Found.run]) : ~(p < 1)
  <2>1. InTar(lists[Found.run]) \subseteq Paths
    BY <1>4 DEF InTar, FileLists
  <2>2. \A p \in Nat \ {0} : ~(p < 1)
    OBVIOUS
  <2> QED
    BY <2>1, <2>2, PathsAre
<1>6. List' = lists[Found.run]
  BY <1>1, <1>2 DEF List
<1>7. damage'[op'.sess].kind # "index"
  BY <1>1, <1>2
<1>8. \A p \in InTar(List') : ~(p < op'.entry)
  BY <1>1, <1>5, <1>6
<1> QED
  BY <1>7, <1>8 DEF Copied, InTar

\* An entry that was read is at the destination, and takes none of the others away.
LEMMA EntryIsCopied ==
  ASSUME TInv, Copied, NEW e \in Paths, ReadEntry(e), op'.pc = "tar"
  PROVE  Copied'
<1>1. /\ Goes /\ (AtNothing \/ AtAnEntry(e)) /\ op'.want = op.want /\ op'.entry = e + 1 /\ op'.sess = op.sess
      /\ Writable(e) => Extract(e).ok /\ dest' = Extract(e).d
  BY ReadEntryGoes
<1>2. UNCHANGED written /\ damage' = damage /\ lists' = lists
  BY <1>1 DEF Goes, written
<1>3. List' = List
  BY <1>1, <1>2 DEF List
<1>4. /\ op.pc = "tar" /\ e \in InTar(List) /\ ~Hit(e, "hash") /\ ~Hit(e, "missing") /\ ~Hit(e, "header")
      /\ \A q \in InTar(List) : q >= op.entry => e <= q
  BY DEF ReadEntry, AtEntry
<1>5. /\ op.sess \in 1..Len(lists) /\ List = lists[op.sess] /\ Sessions
      /\ damage[op.sess].kind # "index" /\ op.entry \in Nat
  BY <1>4, ListIs, OpIs DEF TInv, Written, Copied
<1>6. damage[op.sess] \in Damage /\ (damage[op.sess] # Sound => damage[op.sess].kind # "none")
  BY <1>5 DEF Sessions
<1>7. damage[op.sess].at # e \/ damage[op.sess] = Sound
  <2> DEFINE d == damage[op.sess]
  <2>1. d \in Damage /\ (d # Sound => d.kind # "none") /\ d.kind # "index"
    BY <1>5, <1>6
  <2>2. /\ d # [kind |-> "hash", at |-> e] /\ d # [kind |-> "missing", at |-> e]
        /\ d # [kind |-> "header", at |-> e]
    BY <1>4 DEF Hit
  <2> HIDE DEF d
  <2>3. d.at # e \/ d = Sound
    BY <2>1, <2>2 DEF Damage
  <2> QED
    BY <2>3 DEF d
<1>8. \A p \in Paths : Plain(p)' <=> Plain(p)
  BY <1>2, WrittenStays DEF TInv
<1>9. \A p \in InTar(List) : p \in Paths /\ p \in DOMAIN lists[op.sess] /\ List[p].kind \in {"dir", "reg", "sym", "link"}
  BY <1>4, ListIs
<1>10. ASSUME NEW p \in InTar(List), p < op'.entry, Plain(p), Includes(op.want, p)
       PROVE  Has(dest', p, List[p]) 
  <2>1. p < op.entry \/ p = e
    <3>1. p < e + 1 /\ p \in Nat /\ e \in Nat /\ op.entry \in Nat
      BY <1>1, <1>5, <1>9, <1>10, PathsAre
    <3>2. p >= op.entry => e <= p
      BY <1>4, <1>10
    <3> QED
      BY <3>1, <3>2
  <2>2. CASE p = e
    <3>1. Writable(e)
      BY <1>10, <2>2 DEF Writable
    <3>2. Has(Extract(e).d, e, List[e])
      BY <1>1, <1>4, <1>10, <2>2, <3>1, ExtractGives
    <3> QED
      BY <1>1, <2>2, <3>1, <3>2
  <2>3. CASE p # e /\ p < op.entry
    <3>1. Has(dest, p, List[p])
      BY <1>4, <1>10, <2>3, IsAsIsHas DEF Copied
    <3>2. dest'[p] = dest[p] \/ (p \in Up[e] /\ dest'[p] = DirCopy)
      BY <1>1, <1>9, <1>10, <2>3 DEF AtNothing, AtAnEntry, Others
    <3>3. p \in Up[e] => List[p].kind = "dir"
      BY <1>5, <1>9, EntriesAre, UpAreDirs
    <3>4. CASE dest'[p] = dest[p]
      BY <3>1, <3>4 DEF Has
    <3>5. CASE p \in Up[e] /\ dest'[p] = DirCopy
      BY <3>3, <3>5, CopyTypes DEF Has
    <3> QED
      BY <3>2, <3>4, <3>5
  <2> QED
    BY <2>1, <2>2, <2>3
<1>11. ASSUME NEW p \in InTar(List), p < op'.entry
       PROVE  damage[op.sess].at # p \/ damage[op.sess] = Sound
  <2>1. p < op.entry \/ p = e
    <3>1. p < e + 1 /\ p \in Nat /\ e \in Nat /\ op.entry \in Nat
      BY <1>1, <1>5, <1>9, <1>11, PathsAre
    <3>2. p >= op.entry => e <= p
      BY <1>4, <1>11
    <3> QED
      BY <3>1, <3>2
  <2> QED
    BY <1>4, <1>7, <2>1 DEF Copied
<1>12. damage'[op'.sess] = damage[op.sess]
  BY <1>1, <1>2
<1>13. \A p \in InTar(List') : p < op'.entry =>
         /\ damage'[op'.sess].at # p \/ damage'[op'.sess] = Sound
         /\ Plain(p)' /\ Includes(op'.want, p) => IsAs(p, List[p])'
  <2> SUFFICES ASSUME NEW p \in InTar(List'), p < op'.entry
               PROVE  /\ damage'[op'.sess].at # p \/ damage'[op'.sess] = Sound
                      /\ Plain(p)' /\ Includes(op'.want, p) => IsAs(p, List[p])'
    OBVIOUS
  <2>1. p \in InTar(List)
    BY <1>3
  <2>2. damage'[op'.sess].at # p \/ damage'[op'.sess] = Sound
    BY <1>11, <1>12, <2>1
  <2>3. ASSUME Plain(p)', Includes(op'.want, p) PROVE IsAs(p, List[p])'
    <3>1. Has(dest', p, List[p])
      BY <1>1, <1>8, <1>9, <1>10, <2>1, <2>3
    <3> QED
      BY <1>3, <3>1 DEF IsAs, Has
  <2> QED
    BY <2>2, <2>3
<1> QED
  BY <1>5, <1>12, <1>13 DEF Copied, InTar

\* No step but the end of the process leaves a partial file unnamed.
LEMMA StepLeavesNone ==
  ASSUME TInv, NoTornFiles, Step \/ Kill
  PROVE  NoTornFiles'
<1>1. Goes /\ (AtNothing \/ AtTheEnd \/ \E p \in Paths : AtAnEntry(p))
  BY StepGoes
<1>2. UNCHANGED written /\ before' = before /\ op.told \subseteq op'.told /\ op.result = "running"
  BY <1>1 DEF Goes, TInv, Work
<1>3. \A p \in Paths : Plain(p)' <=> Plain(p)
  BY <1>2, WrittenStays DEF TInv
<1>4. ASSUME NEW p \in Paths, dest'[p].data = Torn, before[p].data # Torn, Plain(p)
      PROVE  op'.result = "killed" \/ p \in op'.told
  <2>1. CASE dest'[p] = dest[p]
    BY <1>2, <1>4, <2>1 DEF NoTornFiles
  <2>2. CASE AtTheEnd /\ dest'[p] # dest[p]
    <3>1. op.pc = "tar" /\ op.sess \in 1..Len(lists) /\ dest' = Bury(dest, Tombstones(List))
      BY <2>2 DEF AtTheEnd, TInv, Work
    <3>2. Tombstones(List) \in SUBSET Paths
      BY <3>1 DEF Tombstones, List, TInv, Written, Sessions, FileLists
    <3>3. dest'[p] = Nothing
      BY <1>4, <2>2, <3>1, <3>2, BuryGives DEF TInv
    <3> QED
      BY <1>4, <3>3, CopyTypes
  <2>3. ASSUME NEW e \in Paths, AtAnEntry(e), dest'[p] # dest[p]
        PROVE  op'.result = "killed" \/ p \in op'.told
    <3>1. CASE p = e
      BY <1>4, <2>3, <3>1 DEF AtAnEntry
    <3>2. CASE p # e
      BY <1>4, <2>3, <3>2, CopyTypes DEF AtAnEntry, Others
    <3> QED
      BY <3>1, <3>2
  <2> QED
    BY <1>1, <2>1, <2>2, <2>3 DEF AtNothing
<1>5. NoTornFiles' = (\A p \in Paths : dest'[p].data = Torn /\ before'[p].data # Torn /\ Plain(p)' =>
                        op'.result = "killed" \/ p \in op'.told)
  BY DEF NoTornFiles, Torn
<1> QED
  BY <1>2, <1>3, <1>4, <1>5

\* A step changes what was asked for and the directories on the way there.
LEMMA StepChangesRequested ==
  ASSUME TInv, OnlyRequestedChange, Step \/ Kill
  PROVE  OnlyRequestedChange'
<1>1. Goes /\ (AtNothing \/ AtTheEnd \/ \E p \in Paths : AtAnEntry(p))
  BY StepGoes
<1>2. UNCHANGED written /\ lists' = lists /\ before' = before /\ op'.asked = op.asked /\ Reading
  BY <1>1 DEF Goes, written
<1>3. \A p \in Paths : Plain(p)' <=> Plain(p)
  BY <1>2, WrittenStays DEF TInv
<1>4. \A p : OwnerOfAsked(p)' <=> OwnerOfAsked(p)
  BY <1>2 DEF OwnerOfAsked, Includes
<1>5. op.want \subseteq op.asked /\ (op.asked = {} => op.want = {})
  BY DEF TInv, Work
<1>6. ASSUME NEW p \in Paths, Plain(p), op.asked # {}, dest'[p] # before[p]
      PROVE  \/ Includes(op.asked, p)
             \/ /\ dest'[p].kind = "dir"
                /\ \E q \in Paths : p \in Up[q] /\ (q \in op.asked \/ OwnerOfAsked(q))
  <2>1. CASE dest'[p] = dest[p]
    BY <1>6, <2>1 DEF OnlyRequestedChange
  <2>2. CASE AtTheEnd /\ dest'[p] # dest[p]
    <3>1. op.pc = "tar" /\ op.sess \in 1..Len(lists) /\ dest' = Bury(dest, Tombstones(List))
      BY <2>2 DEF AtTheEnd, TInv, Work
    <3>2. Tombstones(List) \in SUBSET Paths
      BY <3>1 DEF Tombstones, List, TInv, Written, Sessions, FileLists
    <3>3. p \in Tombstones(List)
      BY <1>6, <2>2, <3>1, <3>2, BuryGives DEF TInv
    <3>4. op.want # {}
      BY <1>6, <3>1, OpIs
    <3>5. p \in op.want
      BY <3>3, <3>4 DEF Tombstones
    <3> QED
      BY <1>5, <3>5 DEF Includes
  <2>3. ASSUME NEW e \in Paths, AtAnEntry(e), dest'[p] # dest[p]
        PROVE  \/ Includes(op.asked, p)
               \/ /\ dest'[p].kind = "dir"
                  /\ \E q \in Paths : p \in Up[q] /\ (q \in op.asked \/ OwnerOfAsked(q))
    <3>1. op.pc = "tar" /\ e \in InTar(List) /\ Writable(e) /\ Others(e, dest')
      BY <2>3 DEF AtAnEntry, AtEntry
    <3>2. op.want # {} /\ op.sess \in 1..Len(lists) /\ List = lists[op.sess] /\ Sessions
      BY <1>6, <3>1, OpIs, ListIs DEF TInv, Written
    <3>3. op.sess \in DOMAIN lists
      BY <3>2 DEF Sessions
    <3>4. \A q \in DOMAIN List : q \in Paths
      BY <3>2, EntriesAre
    <3>5. Includes(op.want, e) \/ (OwnerOfAsked(e) /\ ~Plain(e))
      <4>1. ASSUME NEW q \in DOMAIN List, List[q].kind = "link", List[q].to = e, Includes(op.want, q)
            PROVE  OwnerOfAsked(e) /\ ~Plain(e)
        <5>1. Includes(op.asked, q)
          BY <1>5, <1>6, <3>2, <3>4, <4>1, IncludesAsked
        <5>2. ~Plain(e)
          BY <3>2, <4>1, EntriesAre
        <5> QED
          BY <3>2, <3>3, <4>1, <5>1, <5>2 DEF OwnerOfAsked
      <4> QED
        BY <3>1, <4>1 DEF Writable
    <3>6. CASE p = e
      BY <1>5, <1>6, <3>2, <3>5, <3>6, IncludesAsked
    <3>7. CASE p # e
      <4>1. p \in Up[e] /\ dest'[p] = DirCopy
        BY <1>6, <2>3, <3>1, <3>7 DEF Others
      <4>2. dest'[p].kind = "dir"
        BY <4>1, CopyTypes
      <4>3. CASE OwnerOfAsked(e)
        BY <4>1, <4>2, <4>3
      <4>4. CASE e \in op.want
        BY <1>5, <4>1, <4>2, <4>4
      <4>5. CASE Up[e] \cap op.want # {}
        <5>1. PICK u \in Up[e] : u \in op.want
          BY <4>5
        <5>2. u \in Paths /\ u \in op.asked
          BY <1>5, <5>1, UpAreDirs
        <5>3. p = u \/ p \in Up[u] \/ u \in Up[p]
          BY <4>1, <5>1, UpIsALine
        <5> QED
          BY <4>2, <5>2, <5>3 DEF Includes
      <4> QED
        BY <3>2, <3>5, <4>3, <4>4, <4>5 DEF Includes
    <3> QED
      BY <3>6, <3>7
  <2> QED
    BY <1>1, <2>1, <2>2, <2>3 DEF AtNothing
<1>7. OnlyRequestedChange' =
        (op'.asked # {} => \A p \in Paths : Plain(p)' /\ dest'[p] # before'[p] =>
            \/ Includes(op'.asked, p)
            \/ /\ dest'[p].kind = "dir"
               /\ \E q \in Paths : p \in Up[q] /\ (q \in op'.asked \/ OwnerOfAsked(q)'))
  BY DEF OnlyRequestedChange, Includes
<1> QED
  BY <1>2, <1>3, <1>4, <1>6, <1>7

\* At first nothing has been read ...
LEMMA InitIsCopied == Init => AInv
<1> SUFFICES ASSUME Init PROVE AInv
  OBVIOUS
<1>1. TInv
  BY InitIsTyped
<1>2. op.pc = "build" /\ op.asked = {} /\ before = dest
  BY DEF Init, Idle
<1> QED
  BY <1>1, <1>2 DEF AInv, Copied, NoTornFiles, OnlyRequestedChange

\* ... and every step keeps that what was read is there.
LEMMA NextIsCopied == AInv /\ [Next]_vars => AInv'
<1> SUFFICES ASSUME AInv, [Next]_vars PROVE AInv'
  OBVIOUS
<1>1. TInv /\ Copied /\ NoTornFiles /\ OnlyRequestedChange /\ TInv'
  BY NextIsTyped DEF AInv
<1>2. ASSUME UNCHANGED << past, lists, damage, files, dest, before, op >>
      PROVE  Copied' /\ NoTornFiles' /\ OnlyRequestedChange'
  <2>1. UNCHANGED << past, lists, damage, dest, before, op >>
    BY <1>2
  <2>2. \A p \in Paths : Plain(p)' <=> Plain(p)
    BY <2>1 DEF Plain
  <2>3. Copied'
    BY <1>1, <2>1 DEF Copied, InTar, List, IsAs, Plain, Includes
  <2>4. NoTornFiles'
    BY <1>1, <2>1, <2>2 DEF NoTornFiles, Torn
  <2>5. OnlyRequestedChange'
    BY <1>1, <2>1 DEF OnlyRequestedChange, Plain, Includes, OwnerOfAsked
  <2> QED
    BY <2>3, <2>4, <2>5
<1>3. CASE Build
  <2>1. UNCHANGED << past, lists, damage, files, dest, before, op >>
    BY <1>1, <1>3, BuildIsTyped DEF Build
  <2>2. Copied' /\ NoTornFiles' /\ OnlyRequestedChange'
    BY <1>2, <2>1
  <2> QED
    BY <1>1, <2>2 DEF AInv
<1>4. CASE \E move \in BOOLEAN : WriteSession(move)
  <2>1. PICK move \in BOOLEAN : WriteSession(move)
    BY <1>4
  <2>2. op = Idle /\ op' = op /\ dest' = dest /\ before' = before
    BY <1>1, <2>1, WriteIsTyped
  <2>3. op'.pc = "build" /\ op'.asked = {}
    BY <2>2 DEF Idle
  <2>4. \A p \in Paths : Plain(p)' => Plain(p)
    BY <1>1, <2>1, WriteKeepsApart DEF TInv, Written
  <2>5. NoTornFiles'
    BY <1>1, <2>2, <2>4 DEF NoTornFiles, Torn
  <2> QED
    BY <1>1, <2>3, <2>5 DEF AInv, Copied, OnlyRequestedChange
<1>5. CASE \/ \E t \in Tapes : StartFull(t)
           \/ \E t \in Tapes, ps \in Requests :
                StartSmart(t, ps) \/ \E k \in DOMAIN lists : StartSelective(t, k, ps)
  <2>1. op'.pc # "tar" /\ dest' = dest /\ before' = dest
    BY <1>1, <1>5, StartKeepsWork
  <2>2. NoTornFiles' /\ OnlyRequestedChange'
    BY <2>1 DEF NoTornFiles, OnlyRequestedChange
  <2> QED
    BY <1>1, <2>1, <2>2 DEF AInv, Copied
<1>6. CASE Step \/ Kill
  <2>1. op'.pc = "tar" => ReadIndex \/ \E p \in Paths : ReadEntry(p)
    BY <1>1, <1>6, StepGoes
  <2>2. Copied'
    <3>1. op'.pc # "tar" => Copied'
      BY DEF Copied
    <3> QED
      BY <1>1, <2>1, <3>1, BeginIsCopied, EntryIsCopied
  <2> QED
    BY <1>1, <1>6, <2>2, StepLeavesNone, StepChangesRequested DEF AInv
<1>7. CASE UNCHANGED vars
  <2>1. UNCHANGED << past, lists, damage, files, dest, before, op >>
    BY <1>7 DEF vars
  <2> QED
    BY <1>1, <1>2, <2>1 DEF AInv
<1> QED
  BY <1>3, <1>4, <1>5, <1>6, <1>7 DEF Next

\* NoTornFiles: whichever entries are damaged or refused, and however often removing
\* what was begun fails, a plain file that is only partly restored is one the log
\* names or one of a restore that was killed (discardPartial, decoder.go:361-423).
THEOREM NoTornFilesLeft == Spec => []NoTornFiles
<1>1. AInv => NoTornFiles
  BY DEF AInv
<1> QED
  BY <1>1, InitIsCopied, NextIsCopied, PTL DEF Spec

\* OnlyRequestedChange: a restore of some paths changes no other plain path, but makes
\* directories above them and above the owners of links among them, in whichever
\* sessions and however it ends (newWriteFilter, decoder.go:180-213; applyTombstones,
\* usecase.go:392-409).
THEOREM OnlyTheRequestedChanges == Spec => []OnlyRequestedChange
<1>1. AInv => OnlyRequestedChange
  BY DEF AInv
<1> QED
  BY <1>1, InitIsCopied, NextIsCopied, PTL DEF Spec

-----------------------------------------------------------------------------
(* Smart takes the newest copy. *)

\* While nothing is written Newer is about the destination and the restore only.
LEMMA NewerIsIn ==
  ASSUME UNCHANGED written
  PROVE  Newer' = NewerIn(dest', op')
<1>1. /\ past' = past /\ lists' = lists /\ damage' = damage /\ files' = files
  BY DEF written
<1> QED
  BY <1>1 DEF Newer, NewerIn, Copies, Whole, Listed, NumOn, AtWork, Lone, Taken, Has, Plain

\* Only a smart restore that goes on, or that ends well, has to be looked at.
LEMMA OthersAreNewer ==
  ASSUME UNCHANGED written, op'.mode # "smart" \/ op'.result \in {"none", "failed", "noCopy", "killed"}
  PROVE  Newer'
BY NewerIsIn DEF NewerIn

\* A number on a cassette is that of an index there.
LEMMA NumOnIs ==
  ASSUME TInv, NEW t \in Tapes, NEW k, NEW n \in NumOn(t, k)
  PROVE  /\ n \in Nat \ {0} /\ 2 * n \in 1..Len(files[t])
         /\ files[t][2 * n].kind = "index" /\ files[t][2 * n].run = k
         /\ k \in 1..Len(lists)
<1>1. /\ n \in 1..MaxSessions /\ 2 * n <= Len(files[t])
      /\ files[t][2 * n].kind = "index" /\ files[t][2 * n].run = k
  BY DEF NumOn
<1>2. n \in Nat \ {0} /\ Len(files[t]) \in Nat
  BY <1>1, CopyTypes DEF TInv, Written, Cassettes
<1>3. 2 * n \in 1..Len(files[t])
  BY <1>1, <1>2
<1> QED
  BY <1>1, <1>2, <1>3 DEF TInv, Written, Cassettes

\* Copies are sound, found, and on the cassette.
LEMMA CopiesAre ==
  ASSUME TInv, NEW o, NEW p, NEW k \in Copies(o, p)
  PROVE  /\ k \in 1..Len(lists) /\ k \in Nat /\ k # 0 /\ k \notin o.missed /\ damage[k] = Sound
         /\ p \in DOMAIN lists[k] /\ NumOn(o.cur, k) # {}
<1>1. k \in DOMAIN lists /\ damage[k] = Sound /\ k \notin o.missed /\ k \in Listed(p) /\ NumOn(o.cur, k) # {}
  BY DEF Copies, Whole
<1>2. DOMAIN lists = 1..Len(lists) /\ Len(lists) \in Nat
  BY CopyTypes DEF TInv, Written, Sessions
<1> QED
  BY <1>1, <1>2 DEF Listed

\* An entry of the tar does not touch what has been taken before.
LEMMA TakenStays ==
  ASSUME TInv, AtNothing \/ \E e \in Paths : AtAnEntry(e),
         NEW p \in op.asked \ op.want, Plain(p), Lone(op, p),
         NEW k \in 1..Len(lists), p \in DOMAIN lists[k], Has(dest, p, lists[k][p])
  PROVE  Has(dest', p, lists[k][p])
<1>1. p \in Paths /\ lists[k][p].kind \in {"dir", "reg", "sym", "link", "dead"}
      /\ (p \in Dirs => lists[k][p].kind \in {"dir", "dead"})
  BY EntriesAre DEF TInv, Written
<1>2. CASE dest'[p] = dest[p]
  BY <1>2 DEF Has
<1>3. ASSUME NEW e \in Paths, AtAnEntry(e), dest'[p] # dest[p]
      PROVE  p \in Dirs /\ dest'[p] = DirCopy
  <2>1. op.pc = "tar" /\ e \in InTar(List) /\ Writable(e) /\ Others(e, dest')
    BY <1>3 DEF AtAnEntry, AtEntry
  <2>2. op.asked # {} /\ op.want # {} /\ op.want \subseteq op.asked
    BY <2>1, OpIs DEF TInv, Work
  <2>3. CASE p = e
    <3>1. ~Includes(op.want, p)
      BY <2>2 DEF Includes, Lone
    <3>2. PICK q \in DOMAIN List : List[q].kind = "link" /\ List[q].to = p
      BY <2>1, <2>3, <3>1 DEF Writable
    <3>3. ~Plain(p)
      BY <2>1, <3>2, ListIs, EntriesAre DEF TInv, Written
    <3> QED
      BY <3>3
  <2>4. CASE p # e
    BY <1>1, <1>3, <2>1, <2>4, UpAreDirs DEF Others
  <2> QED
    BY <2>3, <2>4
<1>4. CASE p \in Dirs /\ dest'[p] = DirCopy
  BY <1>1, <1>4, CopyTypes DEF Has
<1> QED
  BY <1>2, <1>3, <1>4 DEF AtNothing

\* A step that stays with its session, or leaves one that is no copy.
LEMMA NewerStays ==
  ASSUME TInv, Newer, UNCHANGED written, AtNothing \/ \E e \in Paths : AtAnEntry(e),
         op.mode = "smart", op.result = "running",
         op'.mode = op.mode, op'.cur = op.cur, op'.want = op.want, op'.asked = op.asked,
         op'.todo = op.todo, op'.missed = op.missed, op'.result = op.result \/ op.want = {},
         op'.pc = "index" => op'.head = op.head /\ op.pc = "index",
         op'.pc = "tar" => op.pc \in {"index", "tar"},
         op'.pc \in {"index", "tar"} => AtWork(op') = AtWork(op),
         op'.pc \notin {"index", "tar"} =>
           \A p \in op.want : AtWork(op) \notin Copies(op, p)
  PROVE  Newer'
<1>1. NewerIn(dest, op)
  BY DEF Newer
<1>2. \A p : Copies(op', p) = Copies(op, p) /\ (Lone(op', p) <=> Lone(op, p))
  BY DEF Copies, Lone
<1>3. \A p \in op.asked \ op.want : Plain(p) /\ Lone(op, p) => Taken(dest', p, Copies(op, p), op.todo)
  <2> SUFFICES ASSUME NEW p \in op.asked \ op.want, Plain(p), Lone(op, p)
               PROVE  Taken(dest', p, Copies(op, p), op.todo)
    OBVIOUS
  <2>1. PICK k \in Copies(op, p) : /\ Has(dest, p, lists[k][p]) /\ k \notin op.todo
                                   /\ \A j \in Copies(op, p) : j <= k
    BY <1>1 DEF NewerIn, Taken
  <2>2. Has(dest', p, lists[k][p])
    BY <2>1, CopiesAre, TakenStays
  <2> QED
    BY <2>1, <2>2 DEF Taken
<1>4. \A p \in op.want : \A k \in Copies(op, p) :
        k \in op.todo \/ (k = AtWork(op) /\ op'.pc \in {"index", "tar"})
  BY <1>1 DEF NewerIn
<1>5. NewerIn(dest', op')
  BY <1>1, <1>2, <1>3, <1>4 DEF NewerIn
<1> QED
  BY <1>5, NewerIsIn

\* A smart restore begins with all copies still to come.
LEMMA StartIsNewer ==
  ASSUME TInv, \/ \E t \in Tapes : StartFull(t)
               \/ \E t \in Tapes, ps \in Requests :
                    StartSmart(t, ps) \/ \E k \in DOMAIN lists : StartSelective(t, k, ps)
  PROVE  Newer'
<1>1. UNCHANGED written
  BY StartKeepsWork
<1>2. ASSUME NEW t \in Tapes, StartFull(t) PROVE Newer'
  <2>1. op' = [Idle EXCEPT !.pc = "index", !.mode = "full", !.cur = t, !.first = t, !.head = 2,
                           !.result = "running"]
    BY <1>2 DEF StartFull, Start
  <2>2. op'.mode # "smart"
    BY <2>1 DEF Idle
  <2> QED
    BY <1>1, <2>2, OthersAreNewer
<1>3. ASSUME NEW t \in Tapes, NEW ps \in Requests, NEW k \in DOMAIN lists, StartSelective(t, k, ps)
      PROVE  Newer'
  <2>1. op'.mode = "selective"
    BY <1>3, ZenonT(60) DEF StartSelective, Start, Idle
  <2> QED
    BY <1>1, <2>1, OthersAreNewer
<1>4. ASSUME NEW t \in Tapes, NEW ps \in Requests, StartSmart(t, ps) PROVE Newer'
  <2> DEFINE todo == { k \in UNION { Listed(p) : p \in ps } : NumOn(t, k) # {} }
  <2>1. op' = [Idle EXCEPT !.pc = "next", !.mode = "smart", !.cur = t, !.want = ps, !.asked = ps,
                           !.result = "running", !.todo = todo]
    BY <1>4 DEF StartSmart, Start
  <2>2. \A k : k \in todo <=> NumOn(t, k) # {} /\ \E p \in ps : k \in Listed(p)
    BY DEF Listed
  <2> HIDE DEF todo
  <2>3. /\ op'.pc = "next" /\ op'.mode = "smart" /\ op'.result = "running" /\ op'.cur = t
        /\ op'.want = ps /\ op'.asked = ps /\ op'.todo = todo /\ op'.missed = {}
    BY <2>1 DEF Idle
  <2>4. \A p \in ps : \A k \in Copies(op', p) : k \in todo
    BY <2>2, <2>3 DEF Copies
  <2>5. \A k \in todo : NumOn(t, k) # {}
    BY <2>2
  <2>6. NewerIn(dest', op')
    BY <2>3, <2>4, <2>5 DEF NewerIn
  <2> QED
    BY <1>1, <2>6, NewerIsIn
<1> QED
  BY <1>2, <1>3, <1>4, Zenon

\* The tar of a session has been read: what it lists is taken.
LEMMA TarReadIsNewer ==
  ASSUME AInv, Newer, TarRead
  PROVE  Newer'
<1>1. TInv /\ Copied /\ NewerIn(dest, op) /\ op.pc = "tar" /\ dest' = Bury(dest, Tombstones(List))
      /\ \A p \in InTar(List) : p < op.entry
  BY DEF AInv, Newer, TarRead
<1>2. /\ Goes /\ op'.todo = op.todo /\ op'.cur = op.cur /\ op'.missed = op.missed
      /\ op.mode = "smart" => op'.pc = "next" /\ op'.want = DropRestored(op.want) /\ op'.result = op.result
  BY <1>1, TarReadGoes
<1>3. UNCHANGED written /\ op'.mode = op.mode /\ op'.asked = op.asked /\ op.result = "running"
  BY <1>1, <1>2 DEF Goes, TInv, Work
<1>4. CASE op.mode # "smart"
  BY <1>3, <1>4, OthersAreNewer
<1>5. CASE op.mode = "smart"
  <2> DEFINE s == op.sess
  <2>1. s \in 1..Len(lists) /\ List = lists[s] /\ Sessions /\ IsDest(dest)
    BY <1>1 DEF TInv, Written, Work, List
  <2>2. s \notin op.missed /\ NumOn(op.cur, s) # {} /\ (\A k \in op.todo : k < s) /\ AtWork(op) = s
    BY <1>1, <1>3, <1>5 DEF NewerIn, AtWork
  <2>3. damage[s] = Sound
    <3>1. /\ damage[s].kind # "index"
          /\ \A p \in InTar(List) : damage[s].at # p \/ damage[s] = Sound
      BY <1>1 DEF Copied
    <3>2. damage[s] # Sound => damage[s].kind = "index" \/ damage[s].at \in InTar(lists[s])
      BY <2>1 DEF Sessions
    <3> QED
      BY <2>1, <3>1, <3>2
  <2>4. \A p : Copies(op', p) = Copies(op, p) /\ (Lone(op', p) <=> Lone(op, p))
    BY <1>2, <1>3 DEF Copies, Lone
  <2>5. op'.want = op.want \ DOMAIN List /\ op.want \subseteq op.asked
    BY <1>1, <1>2, <1>5 DEF DropRestored, TInv, Work
  <2>6. \A p \in op'.want : \A k \in Copies(op, p) : k \in op.todo
    <3> SUFFICES ASSUME NEW p \in op'.want, NEW k \in Copies(op, p) PROVE k \in op.todo
      OBVIOUS
    <3>1. k \in op.todo \/ k = s
      BY <1>1, <1>3, <1>5, <2>2, <2>5 DEF NewerIn
    <3>2. k # s
      BY <1>1, <2>1, <2>5, CopiesAre
    <3> QED
      BY <3>1, <3>2
  <2>7. Tombstones(List) \in SUBSET Paths /\ op.asked \subseteq Paths
    BY <1>1, <2>1, OpIs DEF Tombstones, Sessions, FileLists
  <2>8. \A p \in Paths : p \notin Tombstones(List) => dest'[p] = dest[p]
    BY <1>1, <2>1, <2>7, BuryGives
  <2>9. \A p \in Tombstones(List) : p \notin Dirs => dest'[p] = Nothing
    BY <1>1, <2>1, <2>7, BuryGives
  <2>10. ASSUME NEW p \in op.asked, p \notin op.want, Plain(p), Lone(op, p)
         PROVE  Taken(dest', p, Copies(op, p), op.todo)
    <3>1. PICK k \in Copies(op, p) : /\ Has(dest, p, lists[k][p]) /\ k \notin op.todo
                                      /\ \A j \in Copies(op, p) : j <= k
      BY <1>1, <1>3, <1>5, <2>10 DEF NewerIn, Taken
    <3>2. op.want # {}
      BY <1>1, <2>10, OpIs
    <3>3. dest'[p] = dest[p]
      BY <2>7, <2>8, <2>10, <3>2 DEF Tombstones
    <3>4. Has(dest', p, lists[k][p])
      BY <3>1, <3>3 DEF Has
    <3> QED
      BY <3>1, <3>4 DEF Taken
  <2>11. ASSUME NEW p \in op.want, p \in DOMAIN List, Plain(p)
         PROVE  Taken(dest', p, Copies(op, p), op.todo)
    <3>1. s \in Copies(op, p)
      BY <2>1, <2>2, <2>3, <2>11 DEF Copies, Whole, Listed, Sessions
    <3>2. \A j \in Copies(op, p) : j <= s
      <4> SUFFICES ASSUME NEW j \in Copies(op, p) PROVE j <= s
        OBVIOUS
      <4>1. j \in op.todo \/ j = s
        BY <1>1, <1>3, <1>5, <2>2, <2>11 DEF NewerIn
      <4>2. j \in Nat /\ s \in Nat
        BY <1>1, <2>1, <3>1, CopiesAre
      <4> QED
        BY <2>2, <4>1, <4>2
    <3>3. s \notin op.todo
      <4>1. s \in Nat
        BY <1>1, <3>1, CopiesAre
      <4> QED
        BY <2>2, <4>1
    <3>4. p \in Paths
      BY <2>5, <2>7, <2>11
    <3>5. CASE lists[s][p].kind = "dead"
      <4>1. p \in Tombstones(List)
        BY <2>1, <2>11, <3>5 DEF Tombstones
      <4> QED
        BY <2>9, <3>1, <3>2, <3>3, <3>5, <4>1 DEF Taken, Has
    <3>6. CASE lists[s][p].kind # "dead"
      <4>1. p \in InTar(List) /\ p < op.entry /\ p \notin Tombstones(List)
        BY <1>1, <2>1, <2>11, <3>6 DEF InTar, Tombstones
      <4>2. Has(dest, p, lists[s][p])
        BY <1>1, <2>1, <2>11, <4>1, IsAsIsHas DEF Copied, Includes
      <4>3. Has(dest', p, lists[s][p])
        BY <2>8, <3>4, <4>1, <4>2 DEF Has
      <4> QED
        BY <3>1, <3>2, <3>3, <4>3 DEF Taken
    <3> QED
      BY <3>5, <3>6
  <2>12. \A p \in op'.asked \ op'.want : Plain(p) /\ Lone(op', p) =>
           Taken(dest', p, Copies(op', p), op'.todo)
    <3> SUFFICES ASSUME NEW p \in op.asked, p \notin op'.want, Plain(p), Lone(op, p)
                 PROVE  Taken(dest', p, Copies(op, p), op.todo)
      BY <1>2, <1>3, <2>4
    <3>1. p \notin op.want \/ (p \in op.want /\ p \in DOMAIN List)
      BY <2>5
    <3> QED
      BY <2>10, <2>11, <3>1
  <2>13. \A k \in op'.todo : NumOn(op'.cur, k) # {} /\ k \notin op'.missed
    BY <1>1, <1>2, <1>3, <1>5 DEF NewerIn
  <2>14. op'.pc = "next" /\ op'.result = "running"
    BY <1>2, <1>3, <1>5
  <2>15. \A p \in op'.want : \A k \in Copies(op', p) : k \in op'.todo \/ k = AtWork(op')
    BY <1>2, <2>4, <2>6
  <2>16. NewerIn(dest', op')
    BY <2>12, <2>13, <2>14, <2>15 DEF NewerIn
  <2> QED
    BY <1>3, <2>16, NewerIsIn
<1> QED
  BY <1>4, <1>5

\* The newest copy left is taken, or missed: no newer one is left to come.
LEMMA NextCopyIsNewer ==
  ASSUME TInv, Newer, NEW s \in DOMAIN lists, NextCopy(s)
  PROVE  Newer'
<1>1. /\ Goes /\ op'.pc \in {"index", "next"} /\ AtNothing /\ op'.want = op.want
      /\ op'.todo = op.todo \ {s} /\ op'.cur = op.cur /\ op'.result = op.result
      /\ op'.pc = "index" => /\ op'.missed = op.missed
                             /\ \E n \in NumOn(op.cur, s) : op'.head = 2 * n
      /\ op'.pc = "next" => op'.missed = op.missed \cup {s}
  BY NextCopyGoes
<1>2. UNCHANGED written /\ op'.mode = op.mode /\ op'.asked = op.asked /\ op.result = "running"
      /\ op.mode = "smart" /\ op.pc = "next" /\ s \in op.todo /\ (\A j \in op.todo : j <= s)
      /\ dest' = dest /\ op.cur \in Tapes /\ op.todo \subseteq Nat /\ s \in Nat
  <2>1. s \in op.todo /\ (\A j \in op.todo : j <= s) /\ op.pc = "next"
    BY DEF NextCopy, Newest
  <2>2. op.todo \subseteq 1..MaxSessions /\ op.cur \in Tapes
    BY DEF TInv, Work, Op
  <2>3. op.todo \subseteq Nat
    BY <2>2, CopyTypes
  <2>4. op.mode = "smart" /\ op.result = "running"
    BY <1>1, <2>1 DEF Goes, TInv, Work
  <2> QED
    BY <1>1, <2>1, <2>2, <2>3, <2>4 DEF Goes, AtNothing
<1>3. NewerIn(dest, op) /\ AtWork(op) = 0
  BY <1>2 DEF Newer, AtWork
<1>4. /\ \A k \in op.todo : NumOn(op.cur, k) # {} /\ k \notin op.missed
      /\ \A p \in op.want : \A k \in Copies(op, p) : k \in op.todo \/ k = 0
      /\ \A p \in op.asked \ op.want : Plain(p) /\ Lone(op, p) => Taken(dest, p, Copies(op, p), op.todo)
  BY <1>2, <1>3 DEF NewerIn
<1>5. \A p : \A k \in Copies(op, p) : k # 0
  BY CopiesAre
<1>6. \A p : Copies(op', p) \subseteq Copies(op, p) /\ (Lone(op', p) <=> Lone(op, p))
  BY <1>1, <1>2 DEF Copies, Lone
<1>7. \A p \in op'.asked \ op'.want : Plain(p) /\ Lone(op', p) =>
        Taken(dest', p, Copies(op', p), op'.todo)
  <2> SUFFICES ASSUME NEW p \in op.asked \ op.want, Plain(p), Lone(op, p)
               PROVE  Taken(dest, p, Copies(op', p), op'.todo)
    BY <1>1, <1>2, <1>6
  <2>1. PICK k \in Copies(op, p) : /\ Has(dest, p, lists[k][p]) /\ k \notin op.todo
                                   /\ \A j \in Copies(op, p) : j <= k
    BY <1>4 DEF Taken
  <2>2. k # s /\ k \notin op'.todo
    BY <1>1, <1>2, <2>1
  <2>3. k \in Copies(op', p)
    BY <1>1, <2>1, <2>2 DEF Copies
  <2> QED
    BY <1>6, <2>1, <2>2, <2>3 DEF Taken
<1>8. CASE op'.pc = "index"
  <2>1. PICK n \in NumOn(op.cur, s) : op'.head = 2 * n
    BY <1>1, <1>8
  <2>2. op'.head \in 1..Len(files[op'.cur]) /\ files[op'.cur][op'.head].kind = "index"
        /\ AtWork(op') = s
    BY <1>1, <1>2, <1>8, <2>1, NumOnIs DEF AtWork
  <2>3. AtWork(op') \notin op'.missed /\ NumOn(op'.cur, AtWork(op')) # {}
    BY <1>1, <1>2, <1>4, <1>8, <2>2
  <2>4. \A k \in op'.todo : k < AtWork(op')
    BY <1>1, <1>2, <2>2
  <2>5. \A k \in op'.todo : NumOn(op'.cur, k) # {} /\ k \notin op'.missed
    BY <1>1, <1>4, <1>8
  <2>6. \A p \in op'.want : \A k \in Copies(op', p) : k \in op'.todo \/ k = AtWork(op')
    BY <1>1, <1>4, <1>5, <1>6, <2>2
  <2>7. NewerIn(dest', op')
    BY <1>1, <1>2, <1>7, <1>8, <2>2, <2>3, <2>4, <2>5, <2>6 DEF NewerIn
  <2> QED
    BY <1>2, <2>7, NewerIsIn
<1>9. CASE op'.pc = "next"
  <2>1. \A k \in op'.todo : NumOn(op'.cur, k) # {} /\ k \notin op'.missed
    BY <1>1, <1>4, <1>9
  <2>2. \A p : s \notin Copies(op', p)
    BY <1>1, <1>9 DEF Copies
  <2>3. \A p \in op'.want : \A k \in Copies(op', p) : k \in op'.todo
    BY <1>1, <1>4, <1>5, <1>6, <2>2
  <2>4. NewerIn(dest', op')
    BY <1>1, <1>2, <1>7, <1>9, <2>1, <2>3 DEF NewerIn
  <2> QED
    BY <1>2, <2>4, NewerIsIn
<1> QED
  BY <1>1, <1>8, <1>9

\* Damage that is noticed: what is damaged is no copy.
LEMMA DamageIsNewer ==
  ASSUME TInv, Newer, UNCHANGED written, AtNothing \/ \E e \in Paths : AtAnEntry(e),
         op.mode = "smart", Reading, NEW head \in Nat, NEW told \in SUBSET Paths, OnDamage(head, told),
         \A p \in op.want : AtWork(op) \notin Copies(op, p)
  PROVE  Newer'
<1>1. op \in Op /\ op.result = "running"
  BY DEF TInv, Work
<1>2. /\ op'.pc = "damaged" /\ op'.result = op.result
      /\ op'.mode = op.mode /\ op'.cur = op.cur /\ op'.want = op.want /\ op'.todo = op.todo
      /\ op'.asked = op.asked /\ op'.missed = op.missed
  BY <1>1, OnDamageGives
<1> QED
  BY <1>1, <1>2, NewerStays

\* A restore that fails promises nothing.
LEMMA FailedIsNewer ==
  ASSUME TInv, UNCHANGED written, NEW r \in {"failed", "noCopy", "killed"}, Finish(r)
  PROVE  Newer'
<1>1. op \in Op /\ r \in Results
  BY DEF TInv, Work, Results
<1>2. op'.result = r
  BY <1>1, FinishGives
<1> QED
  BY <1>2, OthersAreNewer

\* A copy with an index that cannot be read is none.
LEMMA ReadIndexIsNewer ==
  ASSUME TInv, Newer, op.mode = "smart", ReadIndex \/ IndexDamaged \/ ReadEOD \/ ReadPointer \/ ReadFails
  PROVE  Newer'
<1>1. op.pc = "index" /\ UNCHANGED written /\ dest' = dest /\ AtNothing
  BY DEF ReadIndex, IndexDamaged, ReadEOD, ReadPointer, ReadFails, AtNothing
<1>2. Reading /\ op.result = "running" /\ op.head \in Nat /\ op \in Op /\ op.cur \in Tapes
  BY <1>1, OpIs DEF TInv, Work
<1>3. op.head \in 1..Len(Under) /\ Under[op.head].kind = "index" /\ AtWork(op) = Under[op.head].run
  BY <1>1, <1>2 DEF Newer, NewerIn, AtWork, Under
<1>4. Len(Under) \in Nat
  BY <1>1, FoundIs
<1>5. Found = Under[op.head]
  BY <1>2, <1>3, <1>4 DEF Found
<1>6. CASE ReadIndex
  <2>1. /\ Goes /\ op'.pc = "tar" /\ op'.sess = Found.run /\ op'.want = op.want
        /\ op'.todo = op.todo /\ op'.cur = op.cur /\ op'.missed = op.missed
    BY <1>6, ReadIndexGoes
  <2>2. op'.mode = op.mode /\ op'.asked = op.asked /\ op'.result = op.result
    BY <1>2, <2>1 DEF Goes, Work, Reading
  <2>3. AtWork(op') = AtWork(op)
    BY <1>3, <1>5, <2>1 DEF AtWork
  <2> QED
    BY <1>1, <1>2, <2>1, <2>2, <2>3, NewerStays
<1>7. CASE IndexDamaged
  <2>1. OnDamage(op.head + 1, {}) /\ op.head + 1 \in Nat /\ {} \in SUBSET Paths
    BY <1>2, <1>7 DEF IndexDamaged
  <2>2. damage[AtWork(op)].kind = "index"
    BY <1>3, <1>5, <1>7 DEF IndexDamaged
  <2>3. \A p \in op.want : AtWork(op) \notin Copies(op, p)
    BY <2>2 DEF Copies, Whole, Sound
  <2> QED
    BY <1>1, <1>2, <2>1, <2>3, DamageIsNewer
<1>8. CASE ReadEOD \/ ReadPointer \/ ReadFails
  <2>1. Finish("failed")
    BY <1>8 DEF ReadEOD, ReadPointer, ReadFails
  <2> QED
    BY <1>1, <2>1, FailedIsNewer
<1> QED
  BY <1>6, <1>7, <1>8

\* Neither is one with an entry that cannot be read.
LEMMA EntryIsNewer ==
  ASSUME TInv, Newer, op.mode = "smart", NEW e \in Paths,
         ReadEntry(e) \/ EntryDamaged(e) \/ EntryFails(e) \/ EntryMissing(e) \/ TarUnreadable(e)
  PROVE  Newer'
<1>1. AtEntry(e) /\ UNCHANGED written
  BY DEF ReadEntry, EntryDamaged, EntryFails, EntryMissing, TarUnreadable
<1>2. /\ op.pc = "tar" /\ op \in Op /\ Reading /\ op.head \in Nat /\ op.result = "running"
      /\ AtWork(op) = op.sess
  BY <1>1, AtEntryIs DEF TInv, Work, AtWork
<1>3. AtNothing \/ \E p \in Paths : AtAnEntry(p)
  BY ReadEntryTouches, AtAnEntryGoes
<1>4. CASE ReadEntry(e)
  <2>1. /\ Goes /\ op'.pc \in {"tar", "idle"} /\ op'.want = op.want
        /\ op'.pc = "idle" => op'.result = "failed"
        /\ op'.pc = "tar" => /\ op'.sess = op.sess
                             /\ op'.todo = op.todo /\ op'.cur = op.cur /\ op'.missed = op.missed
    BY <1>4, ReadEntryGoes
  <2>2. CASE op'.pc = "idle"
    BY <1>1, <2>1, <2>2, OthersAreNewer
  <2>3. CASE op'.pc = "tar"
    <3>1. op'.mode = op.mode /\ op'.asked = op.asked /\ op'.result = op.result /\ AtWork(op') = AtWork(op)
      BY <1>2, <2>1, <2>3 DEF Goes, Work, Reading, AtWork
    <3> QED
      BY <1>1, <1>2, <1>3, <2>1, <2>3, <3>1, NewerStays
  <2> QED
    BY <2>1, <2>2, <2>3
<1>5. ASSUME Hit(e, "hash") \/ Hit(e, "missing"), NEW head \in Nat, NEW told \in SUBSET Paths,
             OnDamage(head, told)
      PROVE  Newer'
  <2>1. damage[op.sess] # Sound
    BY <1>5 DEF Hit, Sound
  <2>2. \A p \in op.want : AtWork(op) \notin Copies(op, p)
    BY <1>2, <2>1 DEF Copies, Whole
  <2> QED
    BY <1>1, <1>2, <1>3, <1>5, <2>2, DamageIsNewer
<1>6. CASE Finish("failed")
  BY <1>1, <1>6, FailedIsNewer
<1>7. CASE EntryDamaged(e)
  <2>1. Hit(e, "hash") /\ op.head \in Nat /\ {} \in SUBSET Paths /\ {e} \in SUBSET Paths
    BY <1>2, <1>7 DEF EntryDamaged
  <2>2. OnDamage(op.head, {}) \/ OnDamage(op.head, {e}) \/ Finish("failed")
    BY <1>7 DEF EntryDamaged
  <2> QED
    BY <1>5, <1>6, <2>1, <2>2
<1>8. CASE EntryMissing(e)
  <2>1. Hit(e, "missing") /\ op.head + 1 \in Nat /\ {} \in SUBSET Paths /\ OnDamage(op.head + 1, {})
    BY <1>2, <1>8 DEF EntryMissing
  <2> QED
    BY <1>5, <2>1
<1>9. CASE EntryFails(e)
  <2>1. CASE \E told \in {{}, {e}} :
               op' = [op EXCEPT !.pc = "idle", !.result = "failed", !.told = @ \cup told]
    <3>1. op'.result = "failed"
      BY <1>2, <2>1 DEF Op
    <3> QED
      BY <1>1, <3>1, OthersAreNewer
  <2> QED
    BY <1>6, <1>9, <2>1 DEF EntryFails
<1>10. CASE TarUnreadable(e)
  BY <1>6, <1>10 DEF TarUnreadable
<1> QED
  BY <1>4, <1>7, <1>8, <1>9, <1>10

\* No step takes an older copy than it could ...
LEMMA StepIsNewer ==
  ASSUME AInv, Newer, Step \/ Kill
  PROVE  Newer'
<1>1. TInv
  BY DEF AInv
<1>2. UNCHANGED written /\ op'.mode = op.mode /\ op.result = "running" /\ op \in Op
  BY <1>1, StepGoes DEF Goes, TInv, Work
<1>3. CASE op.mode # "smart"
  BY <1>2, <1>3, OthersAreNewer
<1>4. CASE op.mode = "smart"
  <2>1. CASE ReadIndex \/ IndexDamaged \/ ReadEOD \/ ReadPointer \/ ReadFails
    BY <1>1, <1>4, <2>1, ReadIndexIsNewer
  <2>2. CASE \E p \in Paths :
               ReadEntry(p) \/ EntryDamaged(p) \/ EntryFails(p) \/ EntryMissing(p) \/ TarUnreadable(p)
    BY <1>1, <1>4, <2>2, EntryIsNewer
  <2>3. CASE TarRead
    BY <2>3, TarReadIsNewer
  <2>4. CASE SkipCopy
    <3>1. op.pc = "damaged" /\ Go("next") /\ "next" \in PCs /\ AtNothing
      BY <2>4 DEF SkipCopy, PCs, AtNothing
    <3>2. /\ op'.pc = "next" /\ op'.result = op.result /\ op'.cur = op.cur /\ op'.missed = op.missed
          /\ op'.todo = op.todo /\ op'.mode = op.mode /\ op'.want = op.want /\ op'.asked = op.asked
      BY <1>2, <3>1, GoGives
    <3>3. \A p \in op.want : AtWork(op) \notin Copies(op, p)
      BY <1>1, <3>1, CopiesAre DEF AtWork
    <3> QED
      BY <1>1, <1>2, <1>4, <3>1, <3>2, <3>3, NewerStays
  <2>5. CASE SmartEnds
    <3>1. CASE op.want # {}
      <4>1. Finish("noCopy")
        BY <2>5, <3>1 DEF SmartEnds
      <4> QED
        BY <1>1, <1>2, <4>1, FailedIsNewer
    <3>2. CASE op.want = {}
      <4>1. op.pc = "next" /\ Finish("ok") /\ AtNothing /\ "ok" \in Results
        BY <2>5, <3>2 DEF SmartEnds, AtNothing, Results
      <4>2. /\ op'.pc = "idle" /\ op'.cur = op.cur /\ op'.missed = op.missed
            /\ op'.todo = op.todo /\ op'.mode = op.mode /\ op'.want = op.want /\ op'.asked = op.asked
        BY <1>2, <4>1, FinishGives
      <4> QED
        BY <1>1, <1>2, <1>4, <3>2, <4>1, <4>2, NewerStays
    <3> QED
      BY <3>1, <3>2
  <2>6. CASE \E k \in DOMAIN lists : NextCopy(k)
    BY <1>1, <2>6, NextCopyIsNewer
  <2>7. ~SkipDamaged /\ \A t \in Tapes : ~FollowChain(t)
    BY <1>1, <1>4 DEF SkipDamaged, FollowChain, TInv, Work
  <2>8. CASE Kill
    <3>1. UNCHANGED written /\ op'.result = "killed"
      BY <1>1, <2>8, KillGoes DEF Goes
    <3> QED
      BY <1>1, <3>1, OthersAreNewer
  <2> QED
    BY <2>1, <2>2, <2>3, <2>4, <2>5, <2>6, <2>7, <2>8 DEF Step
<1> QED
  BY <1>3, <1>4

\* ... nor Init ...
LEMMA InitIsNewer == Init => Newer
BY DEF Init, Idle, Newer, NewerIn

\* ... nor any other.
LEMMA NextIsNewer == AInv /\ Newer /\ [Next]_vars => Newer'
<1> SUFFICES ASSUME AInv, Newer, [Next]_vars PROVE Newer'
  OBVIOUS
<1>1. TInv
  BY DEF AInv
<1>2. CASE Build \/ \E move \in BOOLEAN : WriteSession(move)
  <2>1. op.pc = "build" /\ op' = op
    BY <1>2 DEF Build, Edit, WriteSession
  <2>2. op'.mode = "none"
    BY <1>1, <2>1 DEF TInv, Work, Idle
  <2> QED
    BY <2>2 DEF Newer, NewerIn
<1>3. CASE \/ \E t \in Tapes : StartFull(t)
           \/ \E t \in Tapes, ps \in Requests :
                StartSmart(t, ps) \/ \E k \in DOMAIN lists : StartSelective(t, k, ps)
  BY <1>1, <1>3, StartIsNewer
<1>4. CASE Step \/ Kill
  BY <1>4, StepIsNewer
<1>5. CASE UNCHANGED vars
  <2>1. UNCHANGED written /\ dest' = dest /\ op' = op
    BY <1>5 DEF vars, written
  <2> QED
    BY <2>1, NewerIsIn DEF Newer
<1> QED
  BY <1>2, <1>3, <1>4, <1>5 DEF Next

\* SmartTakesNewest: what a smart restore that ended well has put at a path is the
\* newest copy on the cassette that is neither damaged nor missed, also when other
\* paths have their newest copies elsewhere (usecase.go:206-209, 288-293).
THEOREM SmartTakesTheNewest == Spec => []SmartTakesNewest
<1>1. TInv /\ Newer => SmartTakesNewest
  <2> SUFFICES ASSUME TInv, Newer, op.mode = "smart", op.result = "ok",
                      NEW p \in op.asked, Plain(p), Lone(op, p)
               PROVE  AsLast(p, { k \in Whole \ op.missed : NumOn(op.cur, k) # {} })
    BY DEF SmartTakesNewest, Lone
  <2> DEFINE ks == { k \in Whole \ op.missed : NumOn(op.cur, k) # {} }
  <2>1. Taken(dest, p, Copies(op, p), op.todo)
    BY DEF Newer, NewerIn
  <2>2. PICK k \in Copies(op, p) : Has(dest, p, lists[k][p]) /\ \A j \in Copies(op, p) : j <= k
    BY <2>1 DEF Taken
  <2>3. Copies(op, p) = ks \cap Listed(p)
    BY DEF Copies
  <2> HIDE DEF ks
  <2>4. ASSUME NEW j \in ks \cap Listed(p), \A i \in ks \cap Listed(p) : i <= j
        PROVE  IsAs(p, lists[j][p])
    <3>1. j = k
      BY <2>2, <2>3, <2>4, CopiesAre
    <3> QED
      BY <2>2, <3>1, IsAsIsHas
  <2>5. AsLast(p, ks)
    BY <2>4 DEF AsLast
  <2> QED
    BY <2>5 DEF ks
<1>2. AInv => TInv
  BY DEF AInv
<1> QED
  BY <1>1, <1>2, InitIsCopied, NextIsCopied, InitIsNewer, NextIsNewer, PTL DEF Spec

-----------------------------------------------------------------------------
(* Full follows the sessions: the layout of the cassettes ... *)

\* Cassettes have sessions, or none.
LEMMA SessionsOnIs ==
  ASSUME Cassettes, NEW t \in Tapes
  PROVE  SessionsOn(t) \in Nat /\ Len(files[t]) \in Nat /\ Len(files[t]) >= 2
<1>1. Len(files[t]) \in Nat /\ Len(files[t]) >= 2
  BY DEF Cassettes
<1> QED
  BY <1>1, Halves DEF SessionsOn

\* Cassette m gets session Now, when n is the one in use.
Grows(n, m) ==
  /\ n \in 1..Len(Chain) /\ m \in 1..Len(Chain) /\ m \in {n, n + 1}
  /\ n = 1 \/ SessionsOn(Chain[n]) > 0
  /\ m # n => SessionsOn(Chain[n]) > 0
  /\ \A j \in 1..Len(Chain) : j > n => SessionsOn(Chain[j]) = 0

Grown(t) ==
  LET c == SessionsOn(t) IN
  /\ SessionsOn(t)' = c + 1 /\ Len(files'[t]) = 2 * c + 5
  /\ \A i \in 1..(2 * c + 1) : files'[t][i] = files[t][i]
  /\ files'[t][2 * c + 2].kind = "index" /\ files'[t][2 * c + 2].run = Now
  /\ files'[t][2 * c + 4].kind = "empty"

Kept(t) ==
  /\ SessionsOn(t)' = SessionsOn(t) /\ Len(files'[t]) = Len(files[t])
  /\ \A i \in 1..(2 * SessionsOn(t) + 1) : files'[t][i] = files[t][i]

PointsTo(t, m) ==
  LET eod == files'[t][2 * SessionsOn(t) + 2] IN eod.kind = "pointer" /\ eod.name = m

\* A session is written behind the last one, on the cassette in use or the next.
LEMMA WriteGrows ==
  ASSUME Cassettes, Sessions, Layout, NEW move \in BOOLEAN, WriteSession(move)
  PROVE  \E n, m \in 1..Len(Chain) :
           /\ Grows(n, m) /\ Grown(Chain[m])
           /\ \A j \in 1..Len(Chain) : j # m => Kept(Chain[j]) /\ (j # n => files'[Chain[j]] = files[Chain[j]])
           /\ m # n => PointsTo(Chain[n], m)
<1>1. Len(lists) \in Nat
  BY DEF Sessions
<1>2. PICK n \in 1..Len(Chain) : SessionWritten(move, n)
  BY <1>1, WriteSessionGives
<1> DEFINE m == IF move THEN n + 1 ELSE n
           t == Chain[m]
<1>3. /\ n \in InUse /\ \A j \in InUse : j <= n
      /\ move => n + 1 \in 1..Len(Chain) /\ SessionsOn(Chain[n]) > 0 /\ IsLeft(Chain[n], n + 1)
      /\ IsWritten(t, IF move THEN 0 ELSE SessionsOn(t))
      /\ \A u \in Tapes : u # t /\ (move => u # Chain[n]) => files'[u] = files[u]
  BY <1>2 DEF SessionWritten
<1>4. /\ DOMAIN Chain = 1..Len(Chain) /\ Len(Chain) \in Nat \ {0}
      /\ \A i \in 1..Len(Chain) : Chain[i] \in Tapes
      /\ \A i, j \in 1..Len(Chain) : Chain[i] = Chain[j] => i = j
  BY ChainIs
<1>5. \A u \in Tapes : SessionsOn(u) \in Nat /\ Len(files[u]) \in Nat /\ Len(files[u]) >= 2
  BY SessionsOnIs
<1>6. Grows(n, m)
  <2>1. m \in 1..Len(Chain) /\ m \in {n, n + 1} /\ (m # n => SessionsOn(Chain[n]) > 0)
    BY <1>3
  <2>2. n = 1 \/ SessionsOn(Chain[n]) > 0
    BY <1>3 DEF InUse
  <2>3. ASSUME NEW j \in 1..Len(Chain), j > n PROVE SessionsOn(Chain[j]) = 0
    <3>1. j \notin InUse
      BY <1>3, <2>3
    <3>2. ~(SessionsOn(Chain[j]) > 0) /\ SessionsOn(Chain[j]) \in Nat
      BY <1>4, <1>5, <3>1 DEF InUse
    <3> QED
      BY <3>2
  <2> QED
    BY <2>1, <2>2, <2>3 DEF Grows
<1>7. m \in 1..Len(Chain) /\ (move => m # n) /\ (~move => m = n) /\ (move => m = n + 1)
  BY <1>3
<1> HIDE DEF m
<1>8. t \in Tapes /\ SessionsOn(t) \in Nat
  BY <1>4, <1>5, <1>7
<1>9. IsWritten(t, SessionsOn(t))
  <2>1. CASE ~move
    BY <1>3, <2>1
  <2>2. CASE move
    <3>1. m > n
      BY <1>7, <2>2
    <3>2. SessionsOn(t) = 0
      BY <1>6, <1>7, <3>1 DEF Grows
    <3> QED
      BY <1>3, <2>2, <3>2
  <2> QED
    BY <2>1, <2>2
<1>10. Grown(t)
  <2> HIDE DEF t
  <2> DEFINE c == SessionsOn(t)
  <2>1. c \in Nat /\ IsWritten(t, c)
    BY <1>8, <1>9
  <2> HIDE DEF c
  <2>2. Len(files'[t]) = 2 * c + 5
    BY <2>1 DEF IsWritten
  <2>3. (Len(files'[t]) - 2) \div 2 = c + 1
    <3>1. c + 1 \in Nat /\ Len(files'[t]) = 2 * (c + 1) + 3
      BY <2>1, <2>2
    <3> QED
      BY <3>1, Halves
  <2>4. SessionsOn(t)' = c + 1
    BY <2>3 DEF SessionsOn
  <2> QED
    BY <2>1, <2>2, <2>4 DEF IsWritten, Grown, c
<1>11. move => Kept(Chain[n]) /\ PointsTo(Chain[n], m)
  <2> SUFFICES ASSUME move PROVE Kept(Chain[n]) /\ PointsTo(Chain[n], m)
    OBVIOUS
  <2> DEFINE u == Chain[n]
  <2>1. u \in Tapes /\ SessionsOn(u) \in Nat /\ SessionsOn(u) > 0 /\ IsLeft(u, m) /\ Stacked(u)
    BY <1>3, <1>4, <1>5, <1>7 DEF Layout
  <2> HIDE DEF u
  <2>2. Len(files[u]) = 2 * SessionsOn(u) + 3 /\ Len(files'[u]) = Len(files[u])
    BY <2>1 DEF Stacked, IsLeft
  <2>3. Len(files[u]) - 2 = 2 * SessionsOn(u) + 1 /\ Len(files[u]) - 1 = 2 * SessionsOn(u) + 2
    BY <2>1, <2>2
  <2>4. SessionsOn(u)' = SessionsOn(u)
    BY <2>2 DEF SessionsOn
  <2> QED
    BY <2>1, <2>2, <2>3, <2>4 DEF IsLeft, Kept, PointsTo, u
<1>12. ASSUME NEW j \in 1..Len(Chain), j # m
       PROVE  Kept(Chain[j]) /\ (j # n => files'[Chain[j]] = files[Chain[j]])
  <2>1. CASE j = n
    BY <1>7, <1>11, <1>12, <2>1
  <2>2. CASE j # n
    <3>1. Chain[j] \in Tapes /\ Chain[j] # t /\ Chain[j] # Chain[n]
      BY <1>4, <1>7, <1>12, <2>2
    <3>2. files'[Chain[j]] = files[Chain[j]]
      BY <1>3, <3>1
    <3> QED
      BY <2>2, <3>2 DEF Kept, SessionsOn
  <2> QED
    BY <2>1, <2>2
<1>13. m # n => PointsTo(Chain[n], m)
  BY <1>7, <1>11
<1> QED
  BY <1>6, <1>7, <1>10, <1>12, <1>13

\* The layout stays what it is.
LEMMA WriteKeepsLayout ==
  ASSUME Cassettes, Sessions, Layout, NEW move \in BOOLEAN, WriteSession(move)
  PROVE  Layout'
<1>1. Len(lists) \in Nat /\ Len(lists') = Len(lists) + 1 /\ Now = Len(lists) + 1
  BY DEF Sessions, WriteSession, Now
<1>2. PICK n, m \in 1..Len(Chain) :
           /\ Grows(n, m) /\ Grown(Chain[m])
           /\ \A j \in 1..Len(Chain) : j # m => Kept(Chain[j]) /\ (j # n => files'[Chain[j]] = files[Chain[j]])
           /\ m # n => PointsTo(Chain[n], m)
  BY WriteGrows
<1>3. \A i \in 1..Len(Chain) : /\ Chain[i] \in Tapes /\ SessionsOn(Chain[i]) \in Nat
                               /\ Len(files[Chain[i]]) \in Nat /\ Len(files[Chain[i]]) >= 2
  BY ChainIs, SessionsOnIs
<1>4. \A i \in 1..Len(Chain) :
        /\ files[Chain[i]][1].name = i /\ Stacked(Chain[i])
        /\ SessionsOn(Chain[i]) > 0 => Linked(i)
  BY DEF Layout
<1>5. /\ n \in 1..Len(Chain) /\ m \in 1..Len(Chain) /\ m \in {n, n + 1}
      /\ n = 1 \/ SessionsOn(Chain[n]) > 0
      /\ m # n => SessionsOn(Chain[n]) > 0
      /\ \A j \in 1..Len(Chain) : j > n => SessionsOn(Chain[j]) = 0
      /\ Len(Chain) \in Nat
  BY <1>2, ChainIs DEF Grows
<1>6. \A j \in 1..Len(Chain) : j # m => SessionsOn(Chain[j])' = SessionsOn(Chain[j])
  BY <1>2 DEF Kept
<1>7. SessionsOn(Chain[m])' = SessionsOn(Chain[m]) + 1
  BY <1>2 DEF Grown
\* The label, and the sessions one behind the other.
<1>8. ASSUME NEW i \in 1..Len(Chain)
      PROVE  files'[Chain[i]][1].name = i /\ Stacked(Chain[i])'
             /\ (SessionsOn(Chain[i]) > 0 => First(Chain[i])' = First(Chain[i]))
             /\ (i = m /\ SessionsOn(Chain[i]) = 0 => First(Chain[i])' = Now)
             /\ (i = m => Last(Chain[i])' = Now)
  <2> DEFINE u == Chain[i]
             c == SessionsOn(u)
  <2>1. c \in Nat /\ Len(files[u]) \in Nat /\ files[u][1].name = i /\ Stacked(u)
    BY <1>3, <1>4
  <2>2. /\ Len(files[u]) = IF c = 0 THEN 2 ELSE 2 * c + 3
        /\ \A j \in 1..c : files[u][2 * j].kind = "index" /\ files[u][2 * j].run = First(u) + j - 1
    BY <2>1 DEF Stacked
  <2>3. /\ i = m => SessionsOn(u)' = c + 1 /\ Len(files'[u]) = 2 * c + 5
                    /\ files'[u][2 * c + 2].kind = "index" /\ files'[u][2 * c + 2].run = Now
        /\ i # m => SessionsOn(u)' = c /\ Len(files'[u]) = Len(files[u])
        /\ \A j \in 1..(2 * c + 1) : files'[u][j] = files[u][j]
    BY <1>2 DEF Grown, Kept
  <2>4. i = m /\ c > 0 => First(u) + c = Now
    <3> SUFFICES ASSUME i = m, c > 0 PROVE First(u) + c = Now
      OBVIOUS
    <3>1. m = n
      BY <1>5
    <3>2. ~(m + 1 \in 1..Len(Chain) /\ SessionsOn(Chain[m + 1]) > 0)
      BY <1>3, <1>5, <3>1
    <3>3. Linked(m)
      BY <1>4
    <3>4. First(u) + c - 1 = Len(lists)
      BY <3>2, <3>3 DEF Linked, Last
    <3>5. First(u) \in Nat
      <4>1. Len(files[u]) = 2 * c + 3 /\ 2 \in 1..Len(files[u]) /\ u \in Tapes
        BY <1>3, <2>1, <2>2
      <4>2. files[u][2] \in Seg
        BY <4>1 DEF Cassettes
      <4> QED
        BY <4>2 DEF First, Seg
    <3> QED
      BY <1>1, <2>1, <3>4, <3>5, SMTT(60)
  <2> HIDE DEF c
  <2>5. files'[u][1].name = i
    <3>1. 1 \in 1..(2 * c + 1)
      BY <2>1
    <3> QED
      BY <2>1, <2>3, <3>1
  <2>6. c > 0 => First(u)' = First(u)
    <3>1. c > 0 => 2 \in 1..(2 * c + 1)
      BY <2>1
    <3> QED
      BY <2>3, <3>1 DEF First
  <2>7. i = m /\ c = 0 => First(u)' = Now
    BY <2>3 DEF First
  <2>8. Stacked(u)'
    <3> DEFINE d == SessionsOn(u)'
    <3>1. Len(files'[u]) = IF d = 0 THEN 2 ELSE 2 * d + 3
      <4>1. CASE i = m
        <5>1. d = c + 1 /\ Len(files'[u]) = 2 * c + 5
          BY <2>3, <4>1
        <5> HIDE DEF d
        <5> QED
          BY <2>1, <5>1
      <4>2. CASE i # m
        <5>1. d = c /\ Len(files'[u]) = Len(files[u])
          BY <2>3, <4>2
        <5> QED
          BY <2>2, <5>1
      <4> QED
        BY <4>1, <4>2
    <3>2. ASSUME NEW j \in 1..d
          PROVE  files'[u][2 * j].kind = "index" /\ files'[u][2 * j].run = First(u)' + j - 1
      <4>1. CASE j \in 1..c
        <5>1. 2 * j \in 1..(2 * c + 1) /\ c > 0
          BY <2>1, <4>1
        <5>2. files'[u][2 * j] = files[u][2 * j]
          BY <2>3, <5>1
        <5> QED
          BY <2>2, <2>6, <4>1, <5>1, <5>2
      <4>2. CASE j = c + 1 /\ i = m
        <5>1. 2 * j = 2 * c + 2
          BY <2>1, <4>2
        <5>2. files'[u][2 * j].kind = "index" /\ files'[u][2 * j].run = Now
          BY <2>3, <4>2, <5>1
        <5>3. Now = First(u)' + c
          BY <1>1, <2>1, <2>4, <2>6, <2>7, <4>2
        <5> QED
          BY <1>1, <2>1, <4>2, <5>2, <5>3
      <4>3. j \in 1..c \/ (j = c + 1 /\ i = m)
        BY <2>1, <2>3, <3>2
      <4> QED
        BY <4>1, <4>2, <4>3
    <3> HIDE DEF d
    <3>3. /\ Len(files'[u]) = IF d = 0 THEN 2 ELSE 2 * d + 3
          /\ \A j \in 1..d : files'[u][2 * j].kind = "index" /\ files'[u][2 * j].run = First(u)' + j - 1
      BY <3>1, <3>2
    <3> QED
      BY <3>3 DEF Stacked, d
  <2>9. i = m => Last(u)' = Now
    <3>1. i = m => First(u)' + c = Now /\ SessionsOn(u)' = c + 1
      <4>1. c = 0 \/ c > 0
        BY <2>1
      <4> QED
        BY <1>1, <2>1, <2>3, <2>4, <2>6, <2>7, <4>1
    <3>2. i = m => First(u)' \in Int
      <4>1. CASE i = m
        <5>1. files' \in [Tapes -> Seq(Seg)] /\ u \in Tapes
          BY <1>3, WriteKeepsCassettes DEF Cassettes
        <5>2. 2 \in 1..Len(files'[u])
          BY <2>1, <2>3, <4>1
        <5>3. files'[u] \in Seq(Seg)
          BY <5>1
        <5>4. files'[u][2] \in Seg
          BY <5>2, <5>3
        <5>5. First(u)' = files'[u][2].run
          BY DEF First
        <5> QED
          BY <5>4, <5>5 DEF Seg
      <4> QED
        BY <4>1
    <3>3. Last(u)' = First(u)' + SessionsOn(u)' - 1
      BY DEF Last
    <3> QED
      BY <2>1, <3>1, <3>2, <3>3
  <2> QED
    BY <2>5, <2>6, <2>7, <2>8, <2>9 DEF c
\* Cassettes before one in use are in use.
<1>9. \A a, b \in 1..Len(Chain) : a <= b /\ SessionsOn(Chain[b]) > 0 => SessionsOn(Chain[a]) > 0
  BY DEF Layout
<1>10. \A a \in 1..Len(Chain) : a < n => SessionsOn(Chain[a]) > 0 /\ SessionsOn(Chain[n]) > 0
  <2> SUFFICES ASSUME NEW a \in 1..Len(Chain), a < n PROVE SessionsOn(Chain[a]) > 0 /\ SessionsOn(Chain[n]) > 0
    OBVIOUS
  <2>1. n # 1 /\ a <= n
    BY <1>5
  <2> QED
    BY <1>5, <1>9, <2>1
<1>11. \A a \in 1..Len(Chain) : SessionsOn(Chain[a]) > 0 => SessionsOn(Chain[a])' > 0
  BY <1>3, <1>6, <1>7
<1>12. SessionsOn(Chain[m])' > 0
  BY <1>3, <1>5, <1>7
<1>13. \A a, b \in 1..Len(Chain) : a <= b /\ SessionsOn(Chain[b])' > 0 => SessionsOn(Chain[a])' > 0
  <2> SUFFICES ASSUME NEW a \in 1..Len(Chain), NEW b \in 1..Len(Chain), a <= b, SessionsOn(Chain[b])' > 0
               PROVE  SessionsOn(Chain[a])' > 0
    OBVIOUS
  <2>1. CASE a = m
    BY <1>12, <2>1
  <2>2. CASE b = m /\ a # m
    <3>1. a < n \/ (a = n /\ m # n)
      BY <1>5, <2>2
    <3>2. SessionsOn(Chain[a]) > 0
      BY <1>5, <1>10, <3>1
    <3> QED
      BY <1>11, <3>2
  <2>3. CASE b # m
    <3>1. SessionsOn(Chain[b]) > 0
      BY <1>6, <2>3
    <3>2. SessionsOn(Chain[a]) > 0
      BY <1>9, <3>1
    <3> QED
      BY <1>11, <3>2
  <2> QED
    BY <2>1, <2>2, <2>3
\* One cassette goes on where the other ended.
<1>14. \A i \in 1..Len(Chain) : i # m /\ SessionsOn(Chain[i]) > 0 =>
         First(Chain[i])' = First(Chain[i]) /\ Last(Chain[i])' = Last(Chain[i])
  BY <1>6, <1>8 DEF Last
<1>15. Linked(m)'
  <2> DEFINE t == Chain[m]
  <2>1. SessionsOn(t) \in Nat /\ SessionsOn(t)' = SessionsOn(t) + 1 /\ Last(t)' = Now
        /\ (SessionsOn(t) > 0 => First(t)' = First(t)) /\ (SessionsOn(t) = 0 => First(t)' = Now)
    BY <1>3, <1>5, <1>7, <1>8
  <2>2. ~(m + 1 \in 1..Len(Chain) /\ SessionsOn(Chain[m + 1])' > 0)
    <3> SUFFICES ASSUME m + 1 \in 1..Len(Chain) PROVE ~(SessionsOn(Chain[m + 1])' > 0)
      OBVIOUS
    <3>1. m + 1 > n /\ m + 1 # m
      BY <1>5
    <3>2. SessionsOn(Chain[m + 1])' = 0
      BY <1>5, <1>6, <3>1
    <3> QED
      BY <3>2
  <2>3. files'[t][2 * SessionsOn(t)' + 2].kind = "empty"
    <3>1. 2 * SessionsOn(t)' + 2 = 2 * SessionsOn(t) + 4
      BY <2>1
    <3>2. files'[t][2 * SessionsOn(t) + 4].kind = "empty"
      BY <1>2 DEF Grown
    <3> QED
      BY <3>1, <3>2
  <2>4. m = 1 => First(t)' = 1
    <3> SUFFICES ASSUME m = 1 PROVE First(t)' = 1
      OBVIOUS
    <3>1. CASE SessionsOn(t) = 0
      <4>1. Len(lists) = 0
        BY <3>1 DEF Layout
      <4> QED
        BY <1>1, <2>1, <3>1, <4>1
    <3>2. CASE SessionsOn(t) > 0
      <4>1. Linked(m)
        BY <1>4, <1>5, <3>2
      <4> QED
        BY <2>1, <3>2, <4>1 DEF Linked
    <3> QED
      BY <2>1, <3>1, <3>2
  <2>5. m > 1 => First(t)' = Last(Chain[m - 1])' + 1
    <3> SUFFICES ASSUME m > 1 PROVE First(t)' = Last(Chain[m - 1])' + 1
      OBVIOUS
    <3>1. m - 1 \in 1..Len(Chain) /\ m - 1 # m /\ m - 1 <= m
      BY <1>5
    <3>2. CASE SessionsOn(t) > 0
      <4>1. Linked(m)
        BY <1>4, <1>5, <3>2
      <4>2. SessionsOn(Chain[m - 1]) > 0
        BY <1>5, <1>9, <3>1, <3>2
      <4>3. Last(Chain[m - 1])' = Last(Chain[m - 1])
        BY <1>14, <3>1, <4>2
      <4> QED
        BY <2>1, <3>2, <4>1, <4>3 DEF Linked
    <3>3. CASE SessionsOn(t) = 0
      <4>1. m = n + 1 /\ m # n /\ m - 1 = n
        BY <1>5, <3>3
      <4>2. Linked(n)
        BY <1>4, <1>5, <4>1
      <4>3. ~(n + 1 \in 1..Len(Chain) /\ SessionsOn(Chain[n + 1]) > 0)
        BY <3>3, <4>1
      <4>4. Last(Chain[n]) = Len(lists)
        BY <4>2, <4>3 DEF Linked
      <4>5. Last(Chain[n])' = Last(Chain[n])
        BY <1>5, <1>14, <4>1
      <4> QED
        BY <1>1, <2>1, <3>3, <4>1, <4>4, <4>5
    <3> QED
      BY <2>1, <3>2, <3>3
  <2> HIDE DEF t
  <2>6. Last(t)' = Len(lists')
    BY <1>1, <2>1
  <2> QED
    BY <2>2, <2>3, <2>4, <2>5, <2>6 DEF Linked, t
<1>16. ASSUME NEW i \in 1..Len(Chain), i # m, SessionsOn(Chain[i])' > 0
       PROVE  Linked(i)'
  <2> DEFINE u == Chain[i]
  <2>1. SessionsOn(u) > 0 /\ SessionsOn(u)' = SessionsOn(u) /\ SessionsOn(u) \in Nat
    BY <1>3, <1>6, <1>16
  <2>2. Linked(i)
    BY <1>4, <2>1
  <2>3. First(u)' = First(u)
    BY <1>14, <1>16, <2>1
  <2>4. i <= n
    BY <1>5, <2>1
  <2>5. i > 1 => First(u)' = Last(Chain[i - 1])' + 1
    <3> SUFFICES ASSUME i > 1 PROVE First(u)' = Last(Chain[i - 1])' + 1
      OBVIOUS
    <3>1. i - 1 \in 1..Len(Chain) /\ i - 1 <= i /\ i - 1 # m
      BY <1>5, <2>4
    <3>2. SessionsOn(Chain[i - 1]) > 0
      BY <1>9, <2>1, <3>1
    <3>3. Last(Chain[i - 1])' = Last(Chain[i - 1])
      BY <1>14, <3>1, <3>2
    <3> QED
      BY <2>2, <2>3, <3>3 DEF Linked
  <2>6. i = 1 => First(u)' = 1
    BY <2>2, <2>3 DEF Linked
  <2>7. /\ i + 1 \in 1..Len(Chain) /\ SessionsOn(Chain[i + 1])' > 0
        /\ files'[u][2 * SessionsOn(u)' + 2].kind = "pointer"
        /\ files'[u][2 * SessionsOn(u)' + 2].name = i + 1
    <3>1. CASE i = n
      <4>1. m = n + 1 /\ PointsTo(u, m)
        BY <1>2, <1>5, <1>16, <3>1
      <4> QED
        BY <1>5, <1>12, <2>1, <3>1, <4>1 DEF PointsTo
    <3>2. CASE i < n
      <4>1. i + 1 \in 1..Len(Chain) /\ i + 1 <= n
        BY <1>5, <3>2
      <4>2. SessionsOn(Chain[n]) > 0
        BY <1>10, <3>2
      <4>3. SessionsOn(Chain[i + 1]) > 0
        BY <1>5, <1>9, <4>1, <4>2
      <4>4. files[u][2 * SessionsOn(u) + 2].kind = "pointer" /\ files[u][2 * SessionsOn(u) + 2].name = i + 1
        BY <2>2, <4>1, <4>3 DEF Linked
      <4>5. files'[u] = files[u]
        BY <1>2, <1>5, <1>16, <3>2
      <4> QED
        BY <1>11, <2>1, <4>1, <4>3, <4>4, <4>5
    <3> QED
      BY <1>5, <2>4, <3>1, <3>2
  <2> HIDE DEF u
  <2> QED
    BY <2>5, <2>6, <2>7 DEF Linked, u
<1>17. SessionsOn(Chain[1])' > 0
  <2>1. 1 \in 1..Len(Chain) /\ 1 <= m
    BY <1>5
  <2> QED
    BY <1>5, <1>12, <1>13, <2>1
<1>18. \A i \in 1..Len(Chain) :
         /\ files'[Chain[i]][1].name = i /\ Stacked(Chain[i])'
         /\ SessionsOn(Chain[i])' > 0 => Linked(i)'
  BY <1>8, <1>15, <1>16
<1>19. SessionsOn(Chain[1])' # 0
  BY <1>17
<1> QED
  BY <1>13, <1>18, <1>19 DEF Layout

\* A file that the new list leaves out is in the list before it as it is.
LEMMA WriteKeepsFresh ==
  ASSUME IsTree(fs), Sessions, Fresh, NEW move \in BOOLEAN, WriteSession(move)
  PROVE  Fresh'
<1>1. /\ Sessions' /\ Len(lists') = Len(lists) + 1 /\ Len(lists) \in Nat
      /\ past'[Len(lists')] = fs /\ lists'[Len(lists')] = Scan
      /\ \A k \in 1..Len(lists) : past'[k] = past[k] /\ lists'[k] = lists[k]
  BY WriteKeepsSessions
<1>2. DOMAIN lists = 1..Len(lists) /\ DOMAIN lists' = 1..(Len(lists) + 1)
  BY <1>1 DEF Sessions
<1>3. \A p : \A k \in 1..Len(lists) : k \in Listed(p)' <=> k \in Listed(p)
  BY <1>1, <1>2 DEF Listed
<1>4. ASSUME NEW k \in 1..Len(lists), NEW p \in Paths,
             past[k][p].kind = "reg", \A q \in Paths : q # p => past[k][q] # past[k][p]
      PROVE  \E j \in {k - 1, k} \cap Listed(p)' :
               /\ k \in Listed(p)' => j = k
               /\ lists'[j][p].kind = "reg" /\ lists'[j][p].at = past[k][p].at /\ lists'[j][p].of = past[k][p].of
  <2>1. PICK j \in {k - 1, k} \cap Listed(p) :
               /\ k \in Listed(p) => j = k
               /\ lists[j][p].kind = "reg" /\ lists[j][p].at = past[k][p].at /\ lists[j][p].of = past[k][p].of
    BY <1>4 DEF Fresh
  <2>2. j \in 1..Len(lists)
    BY <1>2, <2>1 DEF Listed
  <2>3. lists'[j] = lists[j] /\ j \in Listed(p)' /\ (k \in Listed(p)' <=> k \in Listed(p))
    BY <1>1, <1>3, <2>1, <2>2
  <2> QED
    BY <2>1, <2>3
<1> DEFINE n == Len(lists) + 1
<1>5. ASSUME NEW p \in Paths, fs[p].kind = "reg", \A q \in Paths : q # p => fs[q] # fs[p]
      PROVE  \E j \in {n - 1, n} \cap Listed(p)' :
               /\ n \in Listed(p)' => j = n
               /\ lists'[j][p].kind = "reg" /\ lists'[j][p].at = fs[p].at /\ lists'[j][p].of = fs[p].of
  <2>1. fs[p] # None
    BY <1>5, NodeTypes
  <2>2. EntryOf(p).kind = "reg" /\ EntryOf(p).at = fs[p].at /\ EntryOf(p).of = fs[p].of
    BY <1>5, <2>1, EntryOfGives
  <2>3. \/ p \in DOMAIN Scan /\ Scan[p] = EntryOf(p)
        \/ /\ p \notin DOMAIN Scan
           /\ lists # << >> /\ p \in DOMAIN lists[Len(lists)]
           /\ lists[Len(lists)][p] = EntryOf(p)
    BY <1>5, ScanGives
  <2>4. n \in Listed(p)' <=> p \in DOMAIN Scan
    BY <1>1, <1>2 DEF Listed
  <2>5. CASE p \in DOMAIN Scan /\ Scan[p] = EntryOf(p)
    BY <1>1, <2>2, <2>4, <2>5
  <2>6. CASE p \notin DOMAIN Scan /\ lists # << >> /\ p \in DOMAIN lists[Len(lists)]
             /\ lists[Len(lists)][p] = EntryOf(p)
    <3>1. Len(lists) # 0
      BY <2>6 DEF Sessions
    <3>2. Len(lists) \in 1..Len(lists) /\ n - 1 = Len(lists)
      BY <1>1, <3>1
    <3>3. Len(lists) \in Listed(p) /\ lists'[Len(lists)] = lists[Len(lists)]
      BY <1>1, <1>2, <2>6, <3>2 DEF Listed
    <3>4. Len(lists) \in Listed(p)'
      BY <1>3, <3>2, <3>3
    <3> QED
      BY <2>2, <2>4, <2>6, <3>2, <3>3, <3>4
  <2> QED
    BY <2>3, <2>5, <2>6
<1>6. ASSUME NEW k \in 1..Len(lists'), NEW p \in Paths,
             past'[k][p].kind = "reg", \A q \in Paths : q # p => past'[k][q] # past'[k][p]
      PROVE  \E j \in {k - 1, k} \cap Listed(p)' :
               /\ k \in Listed(p)' => j = k
               /\ lists'[j][p].kind = "reg" /\ lists'[j][p].at = past'[k][p].at /\ lists'[j][p].of = past'[k][p].of
  <2>1. k \in 1..Len(lists) \/ k = n
    BY <1>1, <1>6
  <2>2. CASE k \in 1..Len(lists)
    <3>1. past'[k] = past[k]
      BY <1>1, <2>2
    <3>2. /\ past[k][p].kind = "reg" /\ \A q \in Paths : q # p => past[k][q] # past[k][p]
      BY <1>6, <3>1
    <3>3. \E j \in {k - 1, k} \cap Listed(p)' :
               /\ k \in Listed(p)' => j = k
               /\ lists'[j][p].kind = "reg" /\ lists'[j][p].at = past[k][p].at /\ lists'[j][p].of = past[k][p].of
      BY <1>4, <2>2, <3>2
    <3> QED
      BY <3>1, <3>3
  <2>3. CASE k = n
    <3>1. past'[k] = fs
      BY <1>1, <2>3
    <3> HIDE DEF n
    <3>2. fs[p].kind = "reg" /\ \A q \in Paths : q # p => fs[q] # fs[p]
      BY <1>6, <3>1
    <3>3. \E j \in {n - 1, n} \cap Listed(p)' :
               /\ n \in Listed(p)' => j = n
               /\ lists'[j][p].kind = "reg" /\ lists'[j][p].at = fs[p].at /\ lists'[j][p].of = fs[p].of
      BY <1>5, <3>2
    <3> QED
      BY <2>3, <3>1, <3>3
  <2> QED
    BY <2>1, <2>2, <2>3
<1> QED
  BY <1>6 DEF Fresh

\* What was written is in order.
Ordered == Layout /\ Fresh

\* Empty cassettes are in order ...
LEMMA InitIsOrdered == Init => Ordered
<1> SUFFICES ASSUME Init PROVE Ordered
  OBVIOUS
<1> DEFINE label(t) == CHOOSE n \in DOMAIN Chain : Chain[n] = t
<1>1. /\ lists = << >> /\ Len(lists) = 0
      /\ files = [t \in Tapes |-> << Label(label(t)), Empty >>]
  BY DEF Init
<1>2. ASSUME NEW n \in 1..Len(Chain)
      PROVE  /\ Chain[n] \in Tapes /\ label(Chain[n]) = n
  BY ChainIs
<1> HIDE DEF label
<1>3. ASSUME NEW n \in 1..Len(Chain)
      PROVE  /\ Len(files[Chain[n]]) = 2 /\ files[Chain[n]][1].name = n
             /\ SessionsOn(Chain[n]) = 0
  <2>1. files[Chain[n]] = << Label(n), Empty >>
    BY <1>1, <1>2
  <2>2. Len(files[Chain[n]]) = 2 /\ files[Chain[n]][1] = Label(n)
    BY <2>1
  <2> QED
    BY <2>2, Halves DEF SessionsOn, Label, Blocks
<1>4. ASSUME NEW n \in 1..Len(Chain) PROVE Stacked(Chain[n])
  <2>1. 1..SessionsOn(Chain[n]) = {}
    BY <1>3
  <2> QED
    BY <1>3, <2>1 DEF Stacked
<1>5. \A n \in 1..Len(Chain) : ~(SessionsOn(Chain[n]) > 0)
  BY <1>3
<1>6. Layout
  BY <1>1, <1>3, <1>4, <1>5 DEF Layout
<1>7. Fresh
  BY <1>1 DEF Fresh
<1> QED
  BY <1>6, <1>7 DEF Ordered

\* ... stay so while nothing is written ...
LEMMA OrderedStays ==
  ASSUME Ordered, UNCHANGED << past, lists, files >>
  PROVE  Ordered'
<1>1. files' = files /\ lists' = lists
  OBVIOUS
<1>2. \A t : SessionsOn(t)' = SessionsOn(t) /\ First(t)' = First(t)
  BY <1>1 DEF SessionsOn, First
<1>3. \A t : Last(t)' = Last(t) /\ (Stacked(t)' <=> Stacked(t))
  BY <1>1, <1>2 DEF Last, Stacked
<1>4. \A n : Linked(n)' <=> Linked(n)
  BY <1>1, <1>2, <1>3 DEF Linked
<1>5. Layout'
  BY <1>1, <1>2, <1>3, <1>4 DEF Ordered, Layout
<1>6. Fresh'
  BY DEF Ordered, Fresh, Listed
<1> QED
  BY <1>5, <1>6 DEF Ordered

\* ... and in every step.
LEMMA NextIsOrdered == TInv /\ Ordered /\ [Next]_vars => Ordered'
<1> SUFFICES ASSUME TInv, Ordered, [Next]_vars PROVE Ordered'
  OBVIOUS
<1>1. CASE \E move \in BOOLEAN : WriteSession(move)
  <2>1. IsTree(fs) /\ Sessions /\ Cassettes /\ Layout /\ Fresh
    BY DEF TInv, Written, Ordered
  <2> QED
    BY <1>1, <2>1, WriteKeepsLayout, WriteKeepsFresh DEF Ordered
<1>2. CASE UNCHANGED << past, lists, files >>
  BY <1>2, OrderedStays
<1>3. Build => UNCHANGED << past, lists, files >>
  BY DEF Build, Edit
<1>4. CASE \/ \E t \in Tapes : StartFull(t)
           \/ \E t \in Tapes, ps \in Requests :
                StartSmart(t, ps) \/ \E k \in DOMAIN lists : StartSelective(t, k, ps)
  <2>1. UNCHANGED written
    BY <1>4, StartKeepsWork
  <2> QED
    BY <1>2, <2>1 DEF written
<1>5. CASE Step \/ Kill
  <2>1. UNCHANGED written
    BY <1>5, StepGoes DEF Goes
  <2> QED
    BY <1>2, <2>1 DEF written
<1>6. UNCHANGED vars => UNCHANGED << past, lists, files >>
  BY DEF vars
<1> QED
  BY <1>1, <1>2, <1>3, <1>4, <1>5, <1>6 DEF Next

-----------------------------------------------------------------------------
(* ... and the restore that follows it. *)

\* While nothing is written InOrder is about the destination and the restore only.
LEMMA InOrderIsIn ==
  ASSUME UNCHANGED written
  PROVE  /\ InOrder' = InOrderIn(dest', op') /\ (Whole' = Whole) /\ lists' = lists /\ files' = files
         /\ \A t : SessionsOn(t)' = SessionsOn(t) /\ First(t)' = First(t)
<1>1. /\ past' = past /\ lists' = lists /\ damage' = damage /\ files' = files
  BY DEF written
<1>2. Whole' = Whole
  BY <1>1 DEF Whole
<1>3. \A t : SessionsOn(t)' = SessionsOn(t) /\ First(t)' = First(t)
  BY <1>1 DEF SessionsOn, First
<1>4. InOrder' = InOrderIn(dest', op')
  BY <1>1 DEF InOrder, InOrderIn, SessionsOn, First, Last, Restored, LastIn, Listed, Has, Plain, InTar, Whole
<1> QED
  BY <1>1, <1>2, <1>3, <1>4

\* Only a full restore of undamaged cassettes from the first on has to be looked at.
Full == op.mode = "full" /\ op.first = Chain[1] /\ Whole = DOMAIN lists /\ op.result = "running"

\* Of other restores InOrder says nothing.
LEMMA OthersInOrder ==
  ASSUME UNCHANGED written,
         \/ op'.mode # "full" \/ op'.first # Chain[1] \/ Whole # DOMAIN lists
         \/ op'.result \in {"none", "failed", "noCopy", "killed"}
  PROVE  InOrder'
BY InOrderIsIn DEF InOrderIn

\* The sessions of a cassette, and what is behind them.
LEMMA CassetteIs ==
  ASSUME TInv, Ordered, NEW t \in Tapes, SessionsOn(t) > 0
  PROVE  /\ SessionsOn(t) \in Nat /\ First(t) \in Nat /\ Last(t) \in Nat
         /\ \E n \in 1..Len(Chain) : t = Chain[n] /\ Linked(n)
         /\ \A j \in 1..(SessionsOn(t) + 1) :
              /\ 2 * j \in 1..Len(files[t])
              /\ j <= SessionsOn(t) => files[t][2 * j].kind = "index" /\ files[t][2 * j].run = First(t) + j - 1
              /\ j = SessionsOn(t) + 1 => files[t][2 * j].kind \in {"pointer", "empty"}
<1>1. PICK n \in 1..Len(Chain) : t = Chain[n]
  BY ChainIs
<1>2. Linked(n) /\ Stacked(t) /\ Cassettes
  BY <1>1 DEF Ordered, Layout, TInv, Written
<1>3. SessionsOn(t) \in Nat
  BY <1>2, SessionsOnIs
<1>4. Len(files[t]) = 2 * SessionsOn(t) + 3
  BY <1>2, <1>3 DEF Stacked
<1>5. files[t][2 * (SessionsOn(t) + 1)].kind \in {"pointer", "empty"}
  <2>1. 2 * (SessionsOn(t) + 1) = 2 * SessionsOn(t) + 2
    BY <1>3
  <2> QED
    BY <1>1, <1>2, <2>1 DEF Linked
<1>6. First(t) \in Nat
  <2>1. 2 \in 1..Len(files[t]) /\ files[t] \in Seq(Seg)
    BY <1>2, <1>3, <1>4 DEF Cassettes
  <2>2. files[t][2] \in Seg
    BY <2>1
  <2> QED
    BY <2>2 DEF First, Seg
<1>7. Last(t) \in Nat
  BY <1>3, <1>6 DEF Last
<1>8. ASSUME NEW j \in 1..(SessionsOn(t) + 1)
      PROVE  /\ 2 * j \in 1..Len(files[t])
             /\ j <= SessionsOn(t) => files[t][2 * j].kind = "index" /\ files[t][2 * j].run = First(t) + j - 1
             /\ j = SessionsOn(t) + 1 => files[t][2 * j].kind \in {"pointer", "empty"}
  <2>1. 2 * j \in 1..Len(files[t])
    BY <1>3, <1>4
  <2>2. j <= SessionsOn(t) => j \in 1..SessionsOn(t)
    BY <1>3
  <2> QED
    BY <1>2, <1>5, <2>1, <2>2 DEF Stacked
<1> QED
  BY <1>1, <1>2, <1>3, <1>6, <1>7, <1>8

\* What is at the destination as the lists have it stays so in a directory that is made.
LEMMA LastStays ==
  ASSUME TInv, NEW p \in Paths, NEW d, NEW e, e[p] = d[p] \/ (p \in Dirs /\ e[p] = DirCopy),
         NEW ks, LastIn(d, p, ks)
  PROVE  LastIn(e, p, ks)
<1> SUFFICES ASSUME NEW k \in ks \cap Listed(p), \A j \in ks \cap Listed(p) : j <= k
             PROVE  Has(e, p, lists[k][p])
  BY DEF LastIn
<1>1. Has(d, p, lists[k][p])
  BY DEF LastIn
<1>2. k \in 1..Len(lists) /\ p \in DOMAIN lists[k]
  BY DEF Listed, TInv, Written, Sessions
<1>3. p \in Dirs => lists[k][p].kind \in {"dir", "dead"}
  BY <1>2, EntriesAre DEF TInv, Written
<1>4. CASE e[p] = d[p]
  BY <1>1, <1>4 DEF Has
<1>5. CASE p \in Dirs /\ e[p] = DirCopy
  BY <1>3, <1>5, CopyTypes DEF Has
<1> QED
  BY <1>4, <1>5

\* A full restore of the first cassette begins at session 1.
LEMMA StartIsInOrder ==
  ASSUME TInv, Ordered,
         \/ \E t \in Tapes : StartFull(t)
         \/ \E t \in Tapes, ps \in Requests :
              StartSmart(t, ps) \/ \E k \in DOMAIN lists : StartSelective(t, k, ps)
  PROVE  InOrder'
<1>1. UNCHANGED written
  BY StartKeepsWork
<1>2. ASSUME NEW t \in Tapes, StartFull(t) PROVE InOrder'
  <2>1. /\ op' = [Idle EXCEPT !.pc = "index", !.mode = "full", !.cur = t, !.first = t, !.head = 2,
                             !.result = "running"]
        /\ lists # << >>
    BY <1>2 DEF StartFull, Start
  <2>2. /\ op'.pc = "index" /\ op'.cur = t /\ op'.first = t /\ op'.head = 2
    BY <2>1 DEF Idle
  <2>3. CASE t # Chain[1]
    BY <1>1, <2>2, <2>3, OthersInOrder
  <2>4. CASE t = Chain[1]
    <3>1. Len(lists) # 0
      BY <2>1 DEF TInv, Written, Sessions
    <3>2. SessionsOn(t) \in Nat /\ SessionsOn(t) # 0
      BY <2>4, <3>1, SessionsOnIs DEF TInv, Written, Ordered, Layout
    <3>3. SessionsOn(t) > 0 /\ 1 \in 1..Len(Chain)
      BY <3>2, ChainIs
    <3>4. First(t) = 1
      BY <2>4, <3>3 DEF Ordered, Layout, Linked
    <3>5. 1 \in 1..(SessionsOn(t) + 1) /\ 2 = 2 * 1 /\ First(t) + 1 - 2 = 0 /\ 1..0 = {}
      BY <3>2, <3>4
    <3>6. Restored(dest', 0)
      BY <3>5 DEF Restored, LastIn
    <3>7. \E j \in 1..(SessionsOn(t) + 1) : op'.head = 2 * j /\ Restored(dest', First(t) + j - 2)
      BY <2>2, <3>5, <3>6
    <3>8. InOrderIn(dest', op')
      BY <2>2, <3>3, <3>7 DEF InOrderIn
    <3> QED
      BY <1>1, <3>8, InOrderIsIn
  <2> QED
    BY <2>3, <2>4
<1>3. ASSUME NEW t \in Tapes, NEW ps \in Requests, NEW k \in DOMAIN lists, StartSelective(t, k, ps)
      PROVE  InOrder'
  <2>1. op'.mode = "selective"
    BY <1>3, ZenonT(60) DEF StartSelective, Start, Idle
  <2> QED
    BY <1>1, <2>1, OthersInOrder
<1>4. ASSUME NEW t \in Tapes, NEW ps \in Requests, StartSmart(t, ps) PROVE InOrder'
  <2>1. op'.mode = "smart"
    BY <1>4 DEF StartSmart, Start, Idle
  <2> QED
    BY <1>1, <2>1, OthersInOrder
<1> QED
  BY <1>2, <1>3, <1>4, Zenon

\* The next index is that of the next session, or the cassette ends.
LEMMA ReadIndexIsInOrder ==
  ASSUME TInv, Ordered, InOrder, Full, ReadIndex \/ IndexDamaged \/ ReadEOD \/ ReadPointer \/ ReadFails
  PROVE  InOrder'
<1>1. /\ op.pc = "index" /\ UNCHANGED written /\ dest' = dest
      /\ op.mode = "full" /\ op.first = Chain[1] /\ Whole = DOMAIN lists /\ op.result = "running"
  BY DEF ReadIndex, IndexDamaged, ReadEOD, ReadPointer, ReadFails, Full
<1>2. op \in Op /\ op.cur \in Tapes /\ Reading
  BY <1>1, OpIs
<1> DEFINE t == op.cur
           c == SessionsOn(t)
<1>3. c > 0 /\ \E j \in 1..(c + 1) : op.head = 2 * j /\ Restored(dest, First(t) + j - 2)
  BY <1>1 DEF InOrder, InOrderIn
<1>4. PICK j \in 1..(c + 1) : op.head = 2 * j /\ Restored(dest, First(t) + j - 2)
  BY <1>3
<1>5. /\ c \in Nat /\ First(t) \in Nat
      /\ 2 * j \in 1..Len(files[t])
      /\ j <= c => files[t][2 * j].kind = "index" /\ files[t][2 * j].run = First(t) + j - 1
      /\ j = c + 1 => files[t][2 * j].kind \in {"pointer", "empty"}
  <2>1. t \in Tapes /\ SessionsOn(t) > 0
    BY <1>2, <1>3
  <2>2. /\ SessionsOn(t) \in Nat /\ First(t) \in Nat
        /\ \A i \in 1..(SessionsOn(t) + 1) :
             /\ 2 * i \in 1..Len(files[t])
             /\ i <= SessionsOn(t) => files[t][2 * i].kind = "index" /\ files[t][2 * i].run = First(t) + i - 1
             /\ i = SessionsOn(t) + 1 => files[t][2 * i].kind \in {"pointer", "empty"}
    <3> HIDE DEF t
    <3> QED
      BY <2>1, CassetteIs, Zenon
  <2> QED
    BY <1>4, <2>2
<1>6. Len(Under) \in Nat /\ op.head \in Nat /\ Under = files[t]
  BY <1>1, FoundIs
<1> HIDE DEF c
<1>7. j <= c \/ j = c + 1
  BY <1>5
<1>8. Found = files[t][2 * j] /\ op.head \in 1..Len(Under)
  BY <1>4, <1>5, <1>6, <1>7 DEF Found
<1>9. \A k \in 1..Len(lists) : damage[k] = Sound /\ damage[k].kind # "index"
  <2>1. DOMAIN lists = 1..Len(lists)
    BY DEF TInv, Written, Sessions
  <2>2. \A k \in 1..Len(lists) : damage[k] = Sound
    BY <1>1, <2>1 DEF Whole
  <2> QED
    BY <2>2 DEF Sound
<1>10. CASE ReadIndex
  <2>1. /\ Goes /\ op'.pc = "tar" /\ op'.sess = Found.run /\ op'.entry = 1
        /\ Found.kind = "index" /\ op'.head = op.head + 1 /\ op'.cur = op.cur
    BY <1>10, ReadIndexGoes
  <2>2. j \in 1..c /\ op'.sess = First(t) + j - 1
    BY <1>5, <1>7, <1>8, <2>1
  <2>3. op'.head = 2 * j + 1 /\ op'.sess - 1 = First(t) + j - 2
    BY <1>4, <1>5, <2>1, <2>2
  <2>4. Restored(dest', op'.sess - 1)
    BY <1>1, <1>4, <2>3
  <2>5. \A p \in Paths : Plain(p) /\ (p \in InTar(lists[op'.sess]) => p >= op'.entry) =>
              LastIn(dest', p, 1..(op'.sess - 1))
    BY <2>4 DEF Restored
  <2>6. \E i \in 1..c : op'.head = 2 * i + 1 /\ op'.sess = First(t) + i - 1
    BY <2>2, <2>3
  <2>7. InOrderIn(dest', op')
    BY <1>3, <2>1, <2>5, <2>6 DEF InOrderIn, c
  <2> QED
    BY <1>1, <2>7, InOrderIsIn
<1>11. CASE IndexDamaged
  <2>1. Found.kind # "tar"
    BY <1>5, <1>7, <1>8
  <2>2. Found.kind = "index" /\ damage[Found.run].kind = "index"
    BY <1>11, <2>1 DEF IndexDamaged
  <2>3. Found.run \in 1..Len(lists)
    BY <1>1, <2>2, FoundIs
  <2> QED
    BY <1>9, <2>2, <2>3
<1>12. ASSUME Found.kind \in {"empty", "pointer"} PROVE j = c + 1 /\ Restored(dest', Last(t)) /\ op.head = 2 * c + 2
  <2>1. j = c + 1
    BY <1>5, <1>7, <1>8, <1>12
  <2>2. First(t) + j - 2 = Last(t) /\ op.head = 2 * c + 2
    BY <1>4, <1>5, <2>1 DEF Last, c
  <2> QED
    BY <1>1, <1>4, <2>1, <2>2
<1>13. ASSUME Found.kind \in {"empty", "pointer"}, Finish("ok") PROVE InOrder'
  <2>1. op'.pc = "idle" /\ op'.cur = op.cur
    BY <1>2, <1>13, FinishGives DEF Results
  <2>2. Restored(dest', Last(t))
    BY <1>12, <1>13
  <2>3. InOrderIn(dest', op')
    BY <1>3, <2>1, <2>2 DEF InOrderIn, c
  <2> QED
    BY <1>1, <2>3, InOrderIsIn
<1>14. CASE ReadEOD
  BY <1>1, <1>13, <1>14 DEF ReadEOD
<1>15. CASE ReadPointer
  <2>1. Found.kind = "pointer" /\ (Go("swap") \/ Finish("ok"))
    BY <1>1, <1>15 DEF ReadPointer
  <2>2. CASE Go("swap")
    <3>1. op'.pc = "swap" /\ op'.cur = op.cur /\ op'.head = op.head
      BY <1>2, <2>2, GoGives DEF PCs
    <3>2. /\ op'.head = 2 * c + 2 /\ Restored(dest', Last(t))
          /\ files[t][op'.head].kind = "pointer"
      BY <1>4, <1>8, <1>12, <2>1, <3>1
    <3>3. InOrderIn(dest', op')
      BY <1>3, <3>1, <3>2 DEF InOrderIn, c
    <3> QED
      BY <1>1, <3>3, InOrderIsIn
  <2> QED
    BY <1>13, <2>1, <2>2
<1>16. CASE ReadFails
  <2>1. op'.result = "failed"
    BY <1>2, <1>16, FinishGives DEF ReadFails, Results
  <2> QED
    BY <1>1, <2>1, OthersInOrder
<1> QED
  BY <1>10, <1>11, <1>14, <1>15, <1>16

\* An entry that is read is of the session after those that are restored.
LEMMA EntryIsInOrder ==
  ASSUME TInv, Ordered, InOrder, Full, NEW e \in Paths,
         ReadEntry(e) \/ EntryDamaged(e) \/ EntryFails(e) \/ EntryMissing(e) \/ TarUnreadable(e)
  PROVE  InOrder'
<1>1. /\ AtEntry(e) /\ UNCHANGED written
      /\ op.mode = "full" /\ op.first = Chain[1] /\ Whole = DOMAIN lists /\ op.result = "running"
  BY DEF ReadEntry, EntryDamaged, EntryFails, EntryMissing, TarUnreadable, Full
<1>2. /\ op.pc = "tar" /\ op \in Op /\ op.cur \in Tapes /\ op.entry \in Nat
      /\ op.sess \in 1..Len(lists) /\ List = lists[op.sess]
      /\ e \in InTar(List) /\ e >= op.entry
  BY <1>1, AtEntryIs, OpIs DEF AtEntry, TInv, Work, List
<1>3. damage[op.sess] = Sound
  BY <1>1, <1>2 DEF Whole, TInv, Written, Sessions
<1>4. ~Hit(e, "hash") /\ ~Hit(e, "missing") /\ ~Hit(e, "header")
  BY <1>3 DEF Hit, Sound
<1>5. CASE ReadEntry(e)
  <2>1. /\ Goes /\ (AtNothing \/ AtAnEntry(e)) /\ op'.pc \in {"tar", "idle"}
        /\ op'.pc = "idle" => op'.result = "failed"
        /\ op'.pc = "tar" => /\ op'.entry = e + 1 /\ op'.sess = op.sess /\ op'.head = op.head
                             /\ op'.cur = op.cur
    BY <1>5, ReadEntryGoes
  <2>2. CASE op'.pc = "idle"
    BY <1>1, <2>1, <2>2, OthersInOrder
  <2>3. CASE op'.pc = "tar"
    <3>1. /\ SessionsOn(op.cur) > 0
          /\ \E j \in 1..SessionsOn(op.cur) : op.head = 2 * j + 1 /\ op.sess = First(op.cur) + j - 1
          /\ \A p \in Paths : Plain(p) /\ (p \in InTar(lists[op.sess]) => p >= op.entry) =>
               LastIn(dest, p, 1..(op.sess - 1))
      BY <1>1, <1>2 DEF InOrder, InOrderIn
    <3>2. ASSUME NEW p \in Paths, Plain(p), p \in InTar(lists[op.sess]) => p >= e + 1
          PROVE  LastIn(dest', p, 1..(op.sess - 1))
      <4>1. p # e /\ (p \in InTar(lists[op.sess]) => p >= op.entry)
        <5>1. p \in Nat /\ e \in Nat
          BY PathsAre
        <5> QED
          BY <1>2, <3>2, <5>1
      <4>2. LastIn(dest, p, 1..(op.sess - 1))
        BY <3>1, <3>2, <4>1
      <4>3. dest'[p] = dest[p] \/ (p \in Dirs /\ dest'[p] = DirCopy)
        BY <2>1, <3>2, <4>1, UpAreDirs DEF AtNothing, AtAnEntry, Others
      <4> QED
        BY <4>2, <4>3, LastStays
    <3>3. \A p \in Paths : Plain(p) /\ (p \in InTar(lists[op'.sess]) => p >= op'.entry) =>
            LastIn(dest', p, 1..(op'.sess - 1))
      BY <2>1, <2>3, <3>2
    <3>4. InOrderIn(dest', op')
      BY <2>1, <2>3, <3>1, <3>3 DEF InOrderIn
    <3> QED
      BY <1>1, <3>4, InOrderIsIn
  <2> QED
    BY <2>1, <2>2, <2>3
<1>6. CASE EntryFails(e)
  <2>1. op'.result = "failed"
    BY <1>2, <1>6, FinishGives DEF EntryFails, Op, Results
  <2> QED
    BY <1>1, <2>1, OthersInOrder
<1>7. ~EntryDamaged(e) /\ ~EntryMissing(e) /\ ~TarUnreadable(e)
  BY <1>4 DEF EntryDamaged, EntryMissing, TarUnreadable
<1> QED
  BY <1>5, <1>6, <1>7

\* A session that was read to its end and tombstones is restored.
LEMMA TarReadIsInOrder ==
  ASSUME AInv, Ordered, InOrder, Full, TarRead
  PROVE  InOrder'
<1>1. /\ TInv /\ Copied /\ op.pc = "tar" /\ dest' = Bury(dest, Tombstones(List))
      /\ \A p \in InTar(List) : p < op.entry
      /\ op.mode = "full" /\ op.first = Chain[1] /\ Whole = DOMAIN lists /\ op.result = "running"
  BY DEF AInv, TarRead, Full
<1>2. Goes /\ op'.pc = "index" /\ op'.head = op.head + 1 /\ op'.cur = op.cur /\ UNCHANGED written
  BY <1>1, TarReadGoes DEF Goes
<1>3. /\ op.sess \in 1..Len(lists) /\ List = lists[op.sess] /\ Sessions /\ IsDest(dest)
      /\ op.want = {} /\ op.cur \in Tapes
  BY <1>1, OpIs DEF TInv, Written, Work, List
<1> DEFINE t == op.cur
           c == SessionsOn(t)
           s == op.sess
<1>4. /\ c > 0
      /\ \E j \in 1..c : op.head = 2 * j + 1 /\ s = First(t) + j - 1
      /\ \A p \in Paths : Plain(p) /\ (p \in InTar(lists[s]) => p >= op.entry) =>
           LastIn(dest, p, 1..(s - 1))
  BY <1>1 DEF InOrder, InOrderIn
<1>5. PICK j \in 1..c : op.head = 2 * j + 1 /\ s = First(t) + j - 1
  BY <1>4
<1>6. c \in Nat /\ First(t) \in Nat
  BY <1>1, <1>3, <1>4, CassetteIs
<1>7. j + 1 \in 1..(c + 1) /\ op'.head = 2 * (j + 1) /\ First(t) + (j + 1) - 2 = s
  BY <1>2, <1>5, <1>6
<1>8. Tombstones(List) \in SUBSET Paths
  BY <1>1, <1>3 DEF Tombstones, Sessions, FileLists
<1>9. \A p \in Paths : p \notin Tombstones(List) => dest'[p] = dest[p]
  BY <1>1, <1>3, <1>8, BuryGives
<1>10. \A p \in Tombstones(List) : p \notin Dirs => dest'[p] = Nothing
  BY <1>1, <1>3, <1>8, BuryGives
<1>11. ASSUME NEW p \in Paths, Plain(p) PROVE LastIn(dest', p, 1..s)
  <2>1. CASE p \in DOMAIN List
    <3>1. Has(dest', p, lists[s][p])
      <4>1. CASE lists[s][p].kind = "dead"
        <5>1. p \in Tombstones(List)
          BY <1>3, <2>1, <4>1 DEF Tombstones
        <5> QED
          BY <1>10, <4>1, <5>1 DEF Has
      <4>2. CASE lists[s][p].kind # "dead"
        <5>1. p \in InTar(List) /\ p < op.entry /\ p \notin Tombstones(List)
          BY <1>1, <1>3, <2>1, <4>2 DEF InTar, Tombstones
        <5>2. Has(dest, p, lists[s][p])
          BY <1>1, <1>3, <1>11, <5>1, IsAsIsHas DEF Copied, Includes
        <5> QED
          BY <1>9, <5>1, <5>2 DEF Has
      <4> QED
        BY <4>1, <4>2
    <3>2. s \in 1..s /\ s \in Listed(p)
      BY <1>3, <2>1 DEF Listed, Sessions
    <3>3. \A k \in 1..s : s <= k => k = s
      BY <1>3
    <3> QED
      BY <3>1, <3>2, <3>3 DEF LastIn
  <2>2. CASE p \notin DOMAIN List
    <3>1. p \notin InTar(lists[s]) /\ p \notin Tombstones(List)
      BY <1>3, <2>2 DEF InTar, Tombstones
    <3>2. LastIn(dest, p, 1..(s - 1))
      BY <1>4, <1>11, <3>1
    <3>3. LastIn(dest', p, 1..(s - 1))
      BY <1>1, <1>9, <3>1, <3>2, LastStays
    <3>4. s \notin Listed(p)
      BY <1>3, <2>2 DEF Listed
    <3>5. (1..s) \cap Listed(p) = (1..(s - 1)) \cap Listed(p)
      <4>1. s \in Nat
        BY <1>3
      <4>2. 1..s = (1..(s - 1)) \cup {s} \/ s = 0
        BY <4>1
      <4> QED
        BY <1>3, <3>4, <4>1, <4>2
    <3> QED
      BY <3>3, <3>5 DEF LastIn
  <2> QED
    BY <2>1, <2>2
<1>12. Restored(dest', s)
  BY <1>11 DEF Restored
<1>13. \E i \in 1..(c + 1) : op'.head = 2 * i /\ Restored(dest', First(t) + i - 2)
  BY <1>7, <1>12
<1>14. InOrderIn(dest', op')
  BY <1>2, <1>4, <1>13 DEF InOrderIn
<1> QED
  BY <1>2, <1>14, InOrderIsIn

\* The next cassette goes on with the next session.
LEMMA FollowIsInOrder ==
  ASSUME TInv, Ordered, InOrder, Full, NEW u \in Tapes, FollowChain(u)
  PROVE  InOrder'
<1>1. /\ Goes /\ op'.pc \in {"index", "idle"} /\ AtNothing
      /\ op'.pc = "index" => /\ op'.cur = u /\ op'.head = 2
                             /\ LabelOf(u) = Found.name
      /\ op'.pc = "idle" => op'.result = "failed"
  BY FollowChainGoes
<1>2. UNCHANGED written /\ dest' = dest /\ op.pc = "swap" /\ op.cur \in Tapes
  BY <1>1, OpIs DEF Goes, AtNothing, FollowChain
<1>3. CASE op'.pc = "idle"
  BY <1>1, <1>2, <1>3, OthersInOrder
<1>4. CASE op'.pc = "index"
  <2> DEFINE t == op.cur
             c == SessionsOn(t)
  <2>1. /\ c > 0 /\ op.head = 2 * c + 2 /\ files[t][op.head].kind = "pointer" /\ Restored(dest, Last(t))
    BY <1>2 DEF InOrder, InOrderIn, Full
  <2>2. PICK n \in 1..Len(Chain) : t = Chain[n] /\ Linked(n)
    BY <1>2, <2>1, CassetteIs
  <2>3. /\ n + 1 \in 1..Len(Chain) /\ SessionsOn(Chain[n + 1]) > 0
        /\ files[t][op.head].name = n + 1
    BY <2>1, <2>2 DEF Linked
  <2>4. c \in Nat /\ 2 * (c + 1) \in 1..Len(files[t]) /\ Last(t) \in Nat
    <3>1. c \in Nat /\ Last(t) \in Nat /\ \A j \in 1..(c + 1) : 2 * j \in 1..Len(files[t])
      BY <1>2, <2>1, CassetteIs, ZenonT(60)
    <3>2. c + 1 \in 1..(c + 1)
      BY <3>1
    <3> HIDE DEF c
    <3> QED
      BY <3>1, <3>2
  <2>5. op.head \in 1..Len(files[t])
    BY <2>1, <2>4
  <2>6. Found = files[t][op.head]
    <3>1. Under = files[t] /\ Len(Under) \in Nat
      BY <1>2, FoundIs
    <3> QED
      BY <2>1, <2>5, <3>1 DEF Found
  <2>7. PICK m \in 1..Len(Chain) : u = Chain[m]
    BY ChainIs
  <2>8. m = n + 1
    BY <1>1, <1>4, <2>3, <2>6, <2>7 DEF LabelOf, Ordered, Layout
  <2>9. SessionsOn(u) > 0 /\ Linked(m) /\ m > 1 /\ Chain[m - 1] = t
    BY <2>2, <2>3, <2>7, <2>8 DEF Ordered, Layout
  <2>10. First(u) = Last(t) + 1
    BY <2>7, <2>9 DEF Linked
  <2>11. SessionsOn(u) \in Nat
    BY <2>9, CassetteIs
  <2>12. 1 \in 1..(SessionsOn(u) + 1) /\ First(u) + 1 - 2 = Last(t)
    BY <2>4, <2>10, <2>11
  <2>13. Restored(dest', First(u) + 1 - 2) /\ op'.head = 2 * 1
    BY <1>1, <1>2, <1>4, <2>1, <2>12
  <2>14. \E i \in 1..(SessionsOn(u) + 1) : op'.head = 2 * i /\ Restored(dest', First(u) + i - 2)
    BY <2>12, <2>13
  <2>15. InOrderIn(dest', op')
    BY <1>1, <1>4, <2>9, <2>14 DEF InOrderIn
  <2> QED
    BY <1>2, <2>15, InOrderIsIn
<1> QED
  BY <1>1, <1>3, <1>4

\* Every step of a full restore follows the sessions ...
LEMMA StepIsInOrder ==
  ASSUME AInv, Ordered, InOrder, Step \/ Kill
  PROVE  InOrder'
<1>1. TInv
  BY DEF AInv
<1>2. /\ UNCHANGED written /\ op'.mode = op.mode /\ op'.first = op.first /\ op.result = "running"
      /\ op \in Op
  BY <1>1, StepGoes DEF Goes, TInv, Work
<1>3. CASE ~Full
  BY <1>2, <1>3, OthersInOrder DEF Full
<1>4. CASE Full
  <2>1. op.mode = "full" /\ op.pc # "damaged" /\ op.pc # "next"
    BY <1>1, <1>4 DEF Full, InOrder, InOrderIn, TInv, Work
  <2>2. CASE ReadIndex \/ IndexDamaged \/ ReadEOD \/ ReadPointer \/ ReadFails
    BY <1>1, <1>4, <2>2, ReadIndexIsInOrder
  <2>3. CASE \E p \in Paths :
               ReadEntry(p) \/ EntryDamaged(p) \/ EntryFails(p) \/ EntryMissing(p) \/ TarUnreadable(p)
    BY <1>1, <1>4, <2>3, EntryIsInOrder
  <2>4. CASE TarRead
    BY <1>4, <2>4, TarReadIsInOrder
  <2>5. ~SkipDamaged /\ ~SkipCopy /\ ~SmartEnds /\ \A k \in DOMAIN lists : ~NextCopy(k)
    BY <2>1 DEF SkipDamaged, SkipCopy, SmartEnds, NextCopy
  <2>6. CASE \E t \in Tapes : FollowChain(t)
    BY <1>1, <1>4, <2>6, FollowIsInOrder
  <2>7. CASE Kill
    <3>1. op'.result = "killed"
      BY <1>1, <2>7, KillGoes
    <3> QED
      BY <1>2, <3>1, OthersInOrder
  <2> QED
    BY <2>2, <2>3, <2>4, <2>5, <2>6, <2>7 DEF Step
<1> QED
  BY <1>3, <1>4

\* ... Init is before all of them ...
LEMMA InitIsInOrder == Init => InOrder
BY DEF Init, Idle, InOrder, InOrderIn

\* ... and so do all steps.
LEMMA NextIsInOrder == AInv /\ Ordered /\ InOrder /\ [Next]_vars => InOrder'
<1> SUFFICES ASSUME AInv, Ordered, InOrder, [Next]_vars PROVE InOrder'
  OBVIOUS
<1>1. TInv
  BY DEF AInv
<1>2. CASE Build \/ \E move \in BOOLEAN : WriteSession(move)
  <2>1. op.pc = "build" /\ op' = op
    BY <1>2 DEF Build, Edit, WriteSession
  <2>2. op'.mode = "none"
    BY <1>1, <2>1 DEF TInv, Work, Idle
  <2> QED
    BY <2>2 DEF InOrder, InOrderIn
<1>3. CASE \/ \E t \in Tapes : StartFull(t)
           \/ \E t \in Tapes, ps \in Requests :
                StartSmart(t, ps) \/ \E k \in DOMAIN lists : StartSelective(t, k, ps)
  BY <1>1, <1>3, StartIsInOrder
<1>4. CASE Step \/ Kill
  BY <1>4, StepIsInOrder
<1>5. CASE UNCHANGED vars
  <2>1. UNCHANGED written /\ dest' = dest /\ op' = op
    BY <1>5 DEF vars, written
  <2> QED
    BY <2>1, InOrderIsIn DEF InOrder
<1> QED
  BY <1>2, <1>3, <1>4, <1>5 DEF Next

\* The cassette a full restore ended well on has the last session.
LEMMA DoneAtTheLast ==
  ASSUME TInv, Ordered, InOrder, FullDone, Whole = DOMAIN lists
  PROVE  Restored(dest, Len(lists)) /\ Len(lists) > 0
<1>1. op.mode = "full" /\ op.result = "ok" /\ op.first = Chain[1] /\ op.cur \in Tapes
  BY OpIs DEF FullDone
<1>2. SessionsOn(op.cur) > 0 /\ op.pc = "idle"
  <2>1. op.pc \in {"index", "tar", "swap", "idle"} /\ SessionsOn(op.cur) > 0
    BY <1>1 DEF InOrder, InOrderIn
  <2>2. ~Reading
    BY <1>1 DEF TInv, Work
  <2> QED
    BY <2>1, <2>2 DEF Reading
<1>3. Restored(dest, Last(op.cur))
  BY <1>1, <1>2 DEF InOrder, InOrderIn
<1>4. PICK n \in 1..Len(Chain) : op.cur = Chain[n] /\ Linked(n)
  BY <1>1, <1>2, CassetteIs
<1>5. ~(n + 1 \in 1..Len(Chain) /\ SessionsOn(Chain[n + 1]) > 0)
  <2> SUFFICES ASSUME n + 1 \in 1..Len(Chain), SessionsOn(Chain[n + 1]) > 0 PROVE FALSE
    OBVIOUS
  <2>1. n + 1 \in InUse /\ n + 1 # n /\ op.cur # Chain[n + 1]
    BY <1>4, ChainIs DEF InUse
  <2>2. PICK m \in InUse : m > n + 1 /\ op.cur = Chain[m]
    BY <2>1 DEF FullDone
  <2>3. m \in 1..Len(Chain) /\ m # n
    BY <2>2, ChainIs DEF InUse
  <2> QED
    BY <1>4, <2>2, <2>3, ChainIs
<1>6. Last(op.cur) = Len(lists)
  BY <1>4, <1>5 DEF Linked
<1>7. Last(op.cur) > 0
  <2>1. SessionsOn(op.cur) \in Nat /\ First(op.cur) \in Nat
    BY <1>1, <1>2, CassetteIs
  <2>2. 1 \in 1..SessionsOn(op.cur)
    BY <1>2, <2>1
  <2>3. 2 * 1 \in 1..Len(files[op.cur]) /\ files[op.cur][2 * 1].kind = "index"
    <3>1. Stacked(op.cur) /\ Len(files[op.cur]) >= 2 /\ Len(files[op.cur]) \in Nat
      BY <1>1, <1>4, SessionsOnIs DEF Ordered, Layout, TInv, Written
    <3> QED
      BY <2>2, <3>1 DEF Stacked
  <2>4. files[op.cur][2].run \in 1..Len(lists)
    BY <1>1, <2>3 DEF TInv, Written, Cassettes
  <2>5. First(op.cur) > 0
    BY <2>1, <2>4 DEF First
  <2> QED
    BY <1>2, <2>1, <2>5 DEF Last
<1> QED
  BY <1>3, <1>6, <1>7

\* FullRestoresLast: a full restore that ended well, from the first cassette to the
\* last and all of them sound, has left what the last list that has a path says, and
\* of every file that still is the contents of the last session (usecase.go:81-141,
\* chain.go).
THEOREM FullRestoresTheLast == Spec => []FullRestoresLast
<1>1. TInv /\ Ordered /\ InOrder => FullRestoresLast
  <2> SUFFICES ASSUME TInv, Ordered, InOrder, FullDone, Whole = DOMAIN lists,
                      NEW p \in Paths, Plain(p)
               PROVE  /\ AsLast(p, Whole)
                      /\ past[Len(past)][p].kind = "reg" => dest[p].data = past[Len(past)][p]
    BY DEF FullRestoresLast
  <2>1. /\ DOMAIN lists = 1..Len(lists) /\ Whole = 1..Len(lists) /\ Len(lists) \in Nat
        /\ Len(past) = Len(lists) /\ DOMAIN past = 1..Len(past)
        /\ \A k \in 1..Len(lists) : past[k] \in [Paths -> Node]
    BY DEF TInv, Written, Sessions
  <2>2. LastIn(dest, p, 1..Len(lists)) /\ Len(lists) > 0
    BY DoneAtTheLast DEF Restored
  <2>3. AsLast(p, Whole)
    BY <2>1, <2>2, IsAsIsHas DEF AsLast, LastIn
  <2>4. ASSUME past[Len(past)][p].kind = "reg" PROVE dest[p].data = past[Len(past)][p]
    <3> DEFINE k == Len(past)
    <3>1. k # 0
      BY <2>1, <2>2
    <3>2. k \in 1..Len(lists) /\ k \in DOMAIN past
      BY <2>1, <3>1
    <3>3. \A q \in Paths : q # p => past[k][q] # past[k][p]
      BY <2>4, <3>2 DEF Plain
    <3>4. PICK j \in {k - 1, k} \cap Listed(p) :
            /\ k \in Listed(p) => j = k
            /\ lists[j][p].kind = "reg" /\ lists[j][p].at = past[k][p].at /\ lists[j][p].of = past[k][p].of
      BY <2>4, <3>2, <3>3 DEF Ordered, Fresh
    <3>5. j \in (1..Len(lists)) \cap Listed(p) /\ \A i \in (1..Len(lists)) \cap Listed(p) : i <= j
      <4>1. j \in 1..Len(lists) /\ Listed(p) \subseteq 1..Len(lists)
        BY <2>1 DEF Listed
      <4>2. k = Len(lists) /\ (j = k \/ (j = k - 1 /\ k \notin Listed(p)))
        BY <2>1, <3>4
      <4>3. ASSUME NEW i \in (1..Len(lists)) \cap Listed(p) PROVE i <= j
        <5>1. i \in 1..Len(lists) /\ i \in Listed(p) /\ k = Len(lists)
          BY <2>1
        <5>2. j = k \/ (j = k - 1 /\ i # k)
          BY <4>2, <5>1
        <5>3. k \in Nat /\ i \in 1..k
          BY <2>1, <5>1
        <5> HIDE DEF k
        <5>4. CASE j = k
          BY <5>3, <5>4
        <5>5. CASE j = k - 1 /\ i # k
          BY <5>3, <5>5
        <5> QED
          BY <5>2, <5>4, <5>5
      <4> QED
        BY <4>1, <4>3
    <3>6. Has(dest, p, lists[j][p])
      BY <2>2, <3>5 DEF LastIn
    <3>7. dest[p].data = [kind |-> "reg", at |-> past[k][p].at, of |-> past[k][p].of]
      BY <3>4, <3>6 DEF Has
    <3>8. past[k][p] \in Node
      BY <2>1, <3>2
    <3> QED
      BY <2>4, <3>7, <3>8, NodeTypes
  <2> QED
    BY <2>3, <2>4
<1>2. AInv => TInv
  BY DEF AInv
<1> QED
  BY <1>1, <1>2, InitIsCopied, NextIsCopied, InitIsOrdered, NextIsOrdered, InitIsInOrder, NextIsInOrder,
     PTL DEF Spec
=============================================================================
