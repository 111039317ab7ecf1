--------------------------- MODULE FileTapeProofs ---------------------------
(***************************************************************************)
(* Theorems about a tape in a file, for every limit, block size and number *)
(* of sessions, reads, formats, failed writes and kills.                   *)
(***************************************************************************)
EXTENDS FileTape, FiniteSetTheorems, SequenceTheorems, WellFoundedInduction, TLAPS

-----------------------------------------------------------------------------
(* Numbers. *)

LEMMA LessOnNat ==
  \E R : IsWellFoundedOn(R, Nat) /\ \A x, y \in Nat : x < y => <<x, y>> \in R
<1> DEFINE R == OpToRel(<, Nat)
<1>1. IsWellFoundedOn(R, Nat)
  BY NatLessThanWellFounded
<1>2. \A x, y \in Nat : x < y => <<x, y>> \in R
  BY DEF OpToRel
<1> HIDE DEF R
<1> QED
  BY <1>1, <1>2, Zenon

\* A set of numbers that is not empty has a least one, and only one.
LEMMA Least ==
  ASSUME NEW S \in SUBSET Nat, S # {}
  PROVE  /\ Min(S) \in S
         /\ \A j \in S : Min(S) <= j
<1>1. PICK R : IsWellFoundedOn(R, Nat) /\ \A x, y \in Nat : x < y => <<x, y>> \in R
  BY LessOnNat
<1>2. IsWellFoundedOn(R, Nat) /\ S \subseteq Nat
  BY <1>1
<1>3. \E k \in S : \A j \in S : ~(<<j, k>> \in R)
  BY <1>2, WFMin, Zenon
<1>4. PICK k \in S : \A j \in S : ~(<<j, k>> \in R)
  BY <1>3, Zenon
<1>5. \A j \in S : ~(j < k)
  BY <1>1, <1>2, <1>4, Zenon
<1>6. \A j \in S : k <= j
  BY <1>2, <1>5
<1> QED
  BY <1>6 DEF Min

\* What holds of 0 and of the next number holds of all.
LEMMA AllNumbers ==
  ASSUME NEW S, 0 \in S, \A n \in Nat : n \in S => n + 1 \in S
  PROVE  Nat \subseteq S
<1> DEFINE B == Nat \ S
<1>1. CASE B = {}
  BY <1>1
<1>2. CASE B # {}
  <2>1. Min(B) \in B /\ \A j \in B : Min(B) <= j
    BY <1>2, Least
  <2> HIDE DEF B
  <2>2. PICK m \in B : \A j \in B : m <= j
    BY <2>1
  <2>3. m \in Nat /\ m # 0 /\ m \notin S
    BY <2>2 DEF B
  <2>4. m - 1 \in Nat /\ m - 1 \notin B
    BY <2>2, <2>3
  <2> QED
    BY <2>3, <2>4 DEF B
<1> QED
  BY <1>1, <1>2

-----------------------------------------------------------------------------
(* Sequences joined to one. *)

\* g joins the first sequences of s, one more at each place.
Joins(g, s) ==
  g = [i \in 1..Len(s) |-> IF i = 1 THEN s[i] ELSE g[i - 1] \o s[i]]

LEMMA JoinsExists ==
  ASSUME NEW s, Len(s) \in Nat
  PROVE  \E g : Joins(g, s)
<1> DEFINE Upto(n, g) == g = [i \in 1..n |-> IF i = 1 THEN s[i] ELSE g[i - 1] \o s[i]]
           S == {n \in Nat : \E g : Upto(n, g)}
<1>1. 0 \in S
  <2>1. \A i \in 1..0 : FALSE
    OBVIOUS
  <2>2. Upto(0, <<>>)
    BY <2>1
  <2> QED
    BY <2>2
<1>2. ASSUME NEW n \in Nat, n \in S PROVE n + 1 \in S
  <2>1. PICK g : Upto(n, g)
    BY <1>2
  <2> DEFINE h == [i \in 1..(n + 1) |->
                     IF i <= n THEN g[i] ELSE IF i = 1 THEN s[i] ELSE g[i - 1] \o s[i]]
             k == [i \in 1..(n + 1) |-> IF i = 1 THEN s[i] ELSE h[i - 1] \o s[i]]
  <2>2. ASSUME NEW i \in 1..(n + 1) PROVE h[i] = k[i]
    <3>1. CASE i <= n
      <4>1. i \in 1..n /\ (i # 1 => i - 1 \in 1..(n + 1) /\ i - 1 <= n)
        BY <3>1
      <4>2. g[i] = IF i = 1 THEN s[i] ELSE g[i - 1] \o s[i]
        BY <2>1, <4>1
      <4> QED
        BY <4>1, <4>2
    <3>2. CASE ~(i <= n)
      <4>1. i = n + 1 /\ (i # 1 => i - 1 \in 1..(n + 1) /\ i - 1 <= n)
        BY <3>2
      <4> QED
        BY <3>2, <4>1
    <3> QED
      BY <3>1, <3>2
  <2>3. h = k
    BY <2>2
  <2>4. Upto(n + 1, h)
    BY <2>3
  <2> HIDE DEF h, Upto
  <2>5. n + 1 \in Nat /\ \E g2 : Upto(n + 1, g2)
    BY <2>4
  <2> QED
    BY <2>5
<1> HIDE DEF S
<1>3. Len(s) \in S
  BY <1>1, <1>2, AllNumbers
<1> QED
  BY <1>3 DEF S, Joins

LEMMA JoinsAgree ==
  ASSUME NEW s, NEW g, Joins(g, s), Len(s) \in Nat,
         NEW t, NEW h, Joins(h, t), Len(t) \in Nat, Len(s) <= Len(t),
         \A i \in 1..Len(s) : s[i] = t[i]
  PROVE  \A i \in 1..Len(s) : g[i] = h[i]
<1> DEFINE n == Len(s)
           S == {m \in Nat : m \in 1..n => g[m] = h[m]}
<1>1. 0 \in S
  OBVIOUS
<1>2. ASSUME NEW m \in Nat, m \in S PROVE m + 1 \in S
  <2>1. SUFFICES ASSUME m + 1 \in 1..n PROVE g[m + 1] = h[m + 1]
    OBVIOUS
  <2>2. m + 1 \in 1..Len(s) /\ m + 1 \in 1..Len(t) /\ s[m + 1] = t[m + 1] /\ (m + 1) - 1 = m
    BY <2>1
  <2>3. /\ g[m + 1] = IF m + 1 = 1 THEN s[m + 1] ELSE g[m] \o s[m + 1]
        /\ h[m + 1] = IF m + 1 = 1 THEN t[m + 1] ELSE h[m] \o t[m + 1]
    BY <2>2, ZenonT(60) DEF Joins
  <2>4. m + 1 # 1 => m \in 1..n
    BY <2>1
  <2> QED
    BY <1>2, <2>2, <2>3, <2>4
<1> HIDE DEF S
<1>3. \A m \in Nat : m \in S
  BY <1>1, <1>2, AllNumbers
<1> QED
  BY <1>3 DEF S

LEMMA FlattenIs ==
  ASSUME NEW s, Len(s) \in Nat \ {0}
  PROVE  \E g : Joins(g, s) /\ FlattenSeq(s) = g[Len(s)]
<1> DEFINE g == CHOOSE g : Joins(g, s)
<1>1. Joins(g, s)
  BY JoinsExists
<1>2. FlattenSeq(s) = g[Len(s)]
  BY DEF FlattenSeq, Joins
<1> HIDE DEF g
<1> QED
  BY <1>1, <1>2

LEMMA FlattenType ==
  ASSUME NEW S, NEW s \in Seq(Seq(S))
  PROVE  FlattenSeq(s) \in Seq(S)
<1>1. CASE s = <<>>
  BY <1>1 DEF FlattenSeq
<1>2. CASE s # <<>>
  <2>1. Len(s) \in Nat \ {0} /\ \A i \in 1..Len(s) : s[i] \in Seq(S)
    BY <1>2
  <2>2. PICK g : Joins(g, s) /\ FlattenSeq(s) = g[Len(s)]
    BY <2>1, FlattenIs
  <2> DEFINE N == {m \in Nat : m \in 1..Len(s) => g[m] \in Seq(S)}
  <2>3. 0 \in N
    OBVIOUS
  <2>4. ASSUME NEW m \in Nat, m \in N PROVE m + 1 \in N
    <3>1. SUFFICES ASSUME m + 1 \in 1..Len(s) PROVE g[m + 1] \in Seq(S)
      OBVIOUS
    <3>2. g[m + 1] = IF m + 1 = 1 THEN s[m + 1] ELSE g[(m + 1) - 1] \o s[m + 1]
      BY <2>2, <3>1 DEF Joins
    <3>3. (m + 1) - 1 = m /\ (m + 1 # 1 => m \in 1..Len(s))
      BY <2>1, <3>1
    <3>4. s[m + 1] \in Seq(S)
      BY <2>1, <3>1
    <3> QED
      BY <2>4, <3>2, <3>3, <3>4, ConcatProperties
  <2> HIDE DEF N
  <2>5. Len(s) \in N
    BY <2>1, <2>3, <2>4, AllNumbers
  <2> QED
    BY <2>1, <2>2, <2>5 DEF N
<1> QED
  BY <1>1, <1>2

\* One more sequence is joined at the end.
LEMMA FlattenAppend ==
  ASSUME NEW S, NEW s \in Seq(Seq(S)), NEW e \in Seq(S)
  PROVE  FlattenSeq(Append(s, e)) = FlattenSeq(s) \o e
<1> DEFINE t == Append(s, e)
           n == Len(s)
<1>1. /\ Len(t) = n + 1 /\ n \in Nat /\ t[n + 1] = e
      /\ \A i \in 1..n : t[i] = s[i]
  OBVIOUS
<1> HIDE DEF t
<1>2. PICK h : Joins(h, t) /\ FlattenSeq(t) = h[Len(t)]
  BY <1>1, FlattenIs
<1>3. h[n + 1] = IF n + 1 = 1 THEN e ELSE h[n] \o e
  <2>1. n + 1 \in 1..Len(t) /\ (n + 1) - 1 = n
    BY <1>1
  <2>2. h[n + 1] = IF n + 1 = 1 THEN t[n + 1] ELSE h[(n + 1) - 1] \o t[n + 1]
    BY <1>2, <2>1 DEF Joins
  <2> QED
    BY <1>1, <2>1, <2>2
<1>4. CASE n = 0
  <2>1. s = <<>>
    BY <1>4
  <2>2. FlattenSeq(s) = <<>>
    BY <2>1 DEF FlattenSeq
  <2> QED
    BY <1>1, <1>2, <1>3, <1>4, <2>2, ConcatEmptySeq DEF t
<1>5. CASE n # 0
  <2>1. PICK g : Joins(g, s) /\ FlattenSeq(s) = g[n]
    BY <1>1, <1>5, FlattenIs
  <2>2. Len(s) \in Nat /\ Len(t) \in Nat /\ Len(s) <= Len(t)
        /\ \A i \in 1..Len(s) : s[i] = t[i]
    BY <1>1
  <2>3. \A i \in 1..Len(s) : g[i] = h[i]
    BY <1>2, <2>1, <2>2, JoinsAgree
  <2>4. g[n] = h[n]
    BY <1>1, <1>5, <2>3
  <2> QED
    BY <1>1, <1>2, <1>3, <1>5, <2>1, <2>4 DEF t
<1> QED
  BY <1>4, <1>5

-----------------------------------------------------------------------------
(* What records cost of the capacity. *)

UsageIn(f, n) == MapThenSumSet(LAMBDA i : Cost(f[i]), 1..n)

CostOf(f, S) ==
  Cardinality({i \in S : f[i] = Mark}) + BlockSize * Cardinality({i \in S : f[i] # Mark})

LEMMA UsageIsIn == \A n : UsageUpTo(n) = UsageIn(file, n)
  BY DEF UsageUpTo, UsageIn

LEMMA UsageOfSize == UsageUpTo(size) = UsageIn(file, size)
  BY UsageIsIn

LEMMA CostType == \A r : Cost(r) \in Nat
  BY FileTapeAssumption DEF Cost

LEMMA CostOfType ==
  ASSUME NEW f, NEW S, IsFiniteSet(S)
  PROVE  CostOf(f, S) \in Nat
<1> DEFINE M == {i \in S : f[i] = Mark}
           D == {i \in S : f[i] # Mark}
<1>1. M \in SUBSET S /\ D \in SUBSET S
  OBVIOUS
<1> HIDE DEF M, D
<1>2. Cardinality(M) \in Nat /\ Cardinality(D) \in Nat
  BY <1>1, FS_Subset, FS_CardinalityType
<1>3. BlockSize * Cardinality(D) \in Nat
  BY <1>2, FileTapeAssumption
<1>4. Cardinality(M) + BlockSize * Cardinality(D) \in Nat
  BY <1>2, <1>3
<1> QED
  BY <1>4 DEF CostOf, M, D

LEMMA CostOfMore ==
  ASSUME NEW f, NEW S, IsFiniteSet(S), NEW x \in S
  PROVE  CostOf(f, S) = Cost(f[x]) + CostOf(f, S \ {x})
<1> DEFINE M == {i \in S : f[i] = Mark}
           D == {i \in S : f[i] # Mark}
           R == S \ {x}
           m == Cardinality({i \in R : f[i] = Mark})
           d == Cardinality({i \in R : f[i] # Mark})
<1>1. M \in SUBSET S /\ D \in SUBSET S
  OBVIOUS
<1>2. IsFiniteSet(M) /\ IsFiniteSet(D) /\ Cardinality(M) \in Nat /\ Cardinality(D) \in Nat
  BY <1>1, FS_Subset, FS_CardinalityType
<1>3. {i \in R : f[i] = Mark} = M \ {x} /\ {i \in R : f[i] # Mark} = D \ {x}
  OBVIOUS
<1>4. CostOf(f, S) = Cardinality(M) + BlockSize * Cardinality(D) /\ CostOf(f, R) = m + BlockSize * d
  BY DEF CostOf
<1>5. BlockSize \in Nat
  BY FileTapeAssumption
<1>6. CASE f[x] = Mark
  <2>1. x \in M /\ x \notin D
    BY <1>6
  <2> HIDE DEF M, D
  <2>2. m = Cardinality(M) - 1 /\ d = Cardinality(D)
    BY <1>2, <1>3, <2>1, FS_RemoveElement
  <2> HIDE DEF m, d, R
  <2>3. BlockSize * d \in Nat
    BY <1>2, <1>5, <2>2
  <2>4. CostOf(f, S) = 1 + CostOf(f, R)
    BY <1>2, <1>4, <2>2, <2>3
  <2> QED
    BY <1>6, <2>4 DEF Cost, R
<1>7. CASE f[x] # Mark
  <2>1. x \notin M /\ x \in D
    BY <1>7
  <2> HIDE DEF M, D
  <2>2. m = Cardinality(M) /\ d = Cardinality(D) - 1 /\ d \in Nat
    <3>1. m = Cardinality(M) /\ d = Cardinality(D) - 1
      BY <1>2, <1>3, <2>1, FS_RemoveElement
    <3>2. d \in Nat
      BY <1>2, <1>3, <2>1, FS_RemoveElement, FS_CardinalityType
    <3> QED
      BY <3>1, <3>2
  <2>3. Cardinality(D) = d + 1
    BY <1>2, <2>2
  <2>4. m \in Nat
    BY <1>2, <2>2
  <2> HIDE DEF m, d, R
  <2>5. BlockSize * (d + 1) = BlockSize * d + BlockSize /\ BlockSize * d \in Nat
    BY <1>5, <2>2
  <2>6. CostOf(f, S) = BlockSize + CostOf(f, R)
    BY <1>4, <1>5, <2>2, <2>3, <2>4, <2>5
  <2> QED
    BY <1>7, <2>6 DEF Cost, R
<1> QED
  BY <1>6, <1>7

LEMMA CostOfNothing == \A f : CostOf(f, {}) = 0
<1> SUFFICES ASSUME NEW f PROVE CostOf(f, {}) = 0
  OBVIOUS
<1>1. {i \in {} : f[i] = Mark} = {} /\ {i \in {} : f[i] # Mark} = {}
  OBVIOUS
<1>2. CostOf(f, {}) = 0 + BlockSize * 0
  BY <1>1, FS_EmptySet DEF CostOf
<1> QED
  BY <1>2, FileTapeAssumption

\* The sum does not depend on the order in which the fold takes the records.
LEMMA UsageIs ==
  ASSUME NEW f, NEW n \in Nat
  PROVE  UsageIn(f, n) = CostOf(f, 1..n)
<1> DEFINE S == 1..n
           Sums(g) == g = [s \in SUBSET S |->
                             IF s = {} THEN 0
                             ELSE Cost(f[CHOOSE x \in s : TRUE]) + g[s \ {CHOOSE x \in s : TRUE}]]
           c == [s \in SUBSET S |-> CostOf(f, s)]
           k == [s \in SUBSET S |->
                   IF s = {} THEN 0
                   ELSE Cost(f[CHOOSE x \in s : TRUE]) + c[s \ {CHOOSE x \in s : TRUE}]]
<1>1. \A s \in SUBSET S : IsFiniteSet(s)
  <2>1. IsFiniteSet(S)
    BY FS_Interval
  <2> HIDE DEF S
  <2> QED
    BY <2>1, FS_Subset
<1>2. ASSUME NEW s \in SUBSET S PROVE c[s] = k[s]
  <2>1. CASE s = {}
    BY <2>1, CostOfNothing
  <2>2. CASE s # {}
    <3> DEFINE x == CHOOSE x \in s : TRUE
    <3>1. x \in s /\ s \ {x} \in SUBSET S
      BY <2>2
    <3> HIDE DEF x, S
    <3>2. CostOf(f, s) = Cost(f[x]) + CostOf(f, s \ {x})
      BY <1>1, <3>1, CostOfMore
    <3> QED
      BY <2>2, <3>1, <3>2 DEF x
  <2> QED
    BY <2>1, <2>2
<1>3. c = k
  BY <1>2
<1>4. Sums(c)
  BY <1>3
<1>5. ASSUME NEW g, Sums(g) PROVE g[S] = CostOf(f, S)
  <2> DEFINE N == {m \in Nat : \A s \in SUBSET S : Cardinality(s) = m => g[s] = CostOf(f, s)}
  <2>1. 0 \in N
    <3>1. ASSUME NEW s \in SUBSET S, Cardinality(s) = 0 PROVE g[s] = CostOf(f, s)
      <4>1. s = {}
        BY <1>1, <3>1, FS_EmptySet
      <4> QED
        BY <1>5, <4>1, CostOfNothing
    <3> QED
      BY <3>1
  <2>2. ASSUME NEW m \in Nat, m \in N PROVE m + 1 \in N
    <3>1. ASSUME NEW s \in SUBSET S, Cardinality(s) = m + 1 PROVE g[s] = CostOf(f, s)
      <4> DEFINE x == CHOOSE x \in s : TRUE
      <4>1. s # {}
        BY <3>1, FS_EmptySet
      <4>2. x \in s /\ s \ {x} \in SUBSET S
        BY <4>1
      <4>3. g[s] = Cost(f[x]) + g[s \ {x}]
        BY <1>5, <4>1
      <4> HIDE DEF x
      <4>4. Cardinality(s \ {x}) = m
        BY <1>1, <3>1, <4>2, FS_RemoveElement
      <4>5. g[s \ {x}] = CostOf(f, s \ {x})
        BY <2>2, <4>2, <4>4
      <4>6. CostOf(f, s) = Cost(f[x]) + CostOf(f, s \ {x})
        BY <1>1, <4>2, CostOfMore
      <4> QED
        BY <4>3, <4>5, <4>6
    <3>2. m + 1 \in Nat
      OBVIOUS
    <3> QED
      BY <3>1, <3>2
  <2> HIDE DEF N
  <2>3. \A m \in Nat : m \in N
    BY <2>1, <2>2, AllNumbers
  <2>4. Cardinality(S) \in Nat
    BY <1>1, FS_CardinalityType
  <2> QED
    BY <2>3, <2>4 DEF N
<1>6. UsageIn(f, n) = (CHOOSE g : Sums(g))[S]
  BY DEF UsageIn, MapThenSumSet, MapThenFoldSet
<1> DEFINE g == CHOOSE g : Sums(g)
<1>7. Sums(g)
  <2> HIDE DEF c, Sums
  <2> QED
    BY <1>4
<1> HIDE DEF g, Sums
<1>8. g[S] = CostOf(f, S)
  BY <1>5, <1>7
<1> QED
  BY <1>6, <1>8 DEF g

\* One record more costs its own ...
LEMMA UsageStep ==
  ASSUME NEW f, NEW n \in Nat
  PROVE  /\ UsageIn(f, n) \in Nat
         /\ UsageIn(f, n + 1) = UsageIn(f, n) + Cost(f[n + 1])
<1> DEFINE m == n + 1
           S == 1..m
<1>1. IsFiniteSet(1..n) /\ IsFiniteSet(S)
  BY FS_Interval
<1>2. m \in Nat /\ m \in S /\ S \ {m} = 1..n
  OBVIOUS
<1> HIDE DEF S
<1>3. CostOf(f, S) = Cost(f[m]) + CostOf(f, S \ {m})
  BY <1>1, <1>2, CostOfMore
<1>4. CostOf(f, 1..n) \in Nat
  BY <1>1, CostOfType
<1>5. Cost(f[m]) \in Nat
  BY CostType
<1> HIDE DEF m
<1>6. UsageIn(f, n) = CostOf(f, 1..n) /\ UsageIn(f, m) = CostOf(f, S)
  BY <1>2, UsageIs DEF S
<1>7. UsageIn(f, m) = UsageIn(f, n) + Cost(f[m])
  <2>1. CostOf(f, S) = Cost(f[m]) + CostOf(f, 1..n)
    BY <1>2, <1>3
  <2>2. \A x, y \in Nat : x + y = y + x
    OBVIOUS
  <2> QED
    BY <1>4, <1>5, <1>6, <2>1, <2>2
<1> QED
  BY <1>4, <1>6, <1>7 DEF m

\* ... the usage depends on the records alone, and grows with them.
LEMMA UsageSame ==
  ASSUME NEW f, NEW g, NEW n \in Nat, \A i \in 1..n : f[i] = g[i]
  PROVE  UsageIn(f, n) = UsageIn(g, n)
<1>1. /\ {i \in 1..n : f[i] = Mark} = {i \in 1..n : g[i] = Mark}
      /\ {i \in 1..n : f[i] # Mark} = {i \in 1..n : g[i] # Mark}
  OBVIOUS
<1> QED
  BY <1>1, UsageIs DEF CostOf

LEMMA UsageGrows ==
  ASSUME NEW f, NEW n \in Nat, NEW m \in Nat
  PROVE  UsageIn(f, n) <= UsageIn(f, n + m)
<1> DEFINE N == {k \in Nat : UsageIn(f, n) <= UsageIn(f, n + k)}
<1>1. 0 \in N
  BY UsageStep
<1>2. ASSUME NEW k \in Nat, k \in N PROVE k + 1 \in N
  <2>1. n + k \in Nat /\ n + (k + 1) = (n + k) + 1
    OBVIOUS
  <2>2. /\ UsageIn(f, n + k) \in Nat /\ UsageIn(f, n) \in Nat
        /\ UsageIn(f, n + (k + 1)) = UsageIn(f, n + k) + Cost(f[(n + k) + 1])
    BY <2>1, UsageStep
  <2> QED
    BY <1>2, <2>2, CostType
<1> HIDE DEF N
<1>3. m \in N
  BY <1>1, <1>2, AllNumbers
<1> QED
  BY <1>3 DEF N

-----------------------------------------------------------------------------
(* The records of the file and the descriptor's idea of them. *)

Whole == Blocks \cup {Mark}
Rec == Whole \cup Torn
Tails == {<<>>, <<Short>>, <<Long>>}

\* A torn record is the last one, and the only one the descriptor may not
\* know of; the head is behind none.
Records ==
  /\ file \in Seq(Rec)
  /\ \A i \in 1..Len(file) : file[i] \in Torn => i = Len(file)

Head0 ==
  /\ size \in 0..Len(file) /\ pos \in 0..size
  /\ \A i \in 1..pos : file[i] \notin Torn
  /\ size < Len(file) => Len(file) = size + 1 /\ file[Len(file)] \in Torn

Desc == Records /\ Head0

LEMMA RecFacts ==
  /\ Mark \notin Blocks /\ Label \in Blocks /\ Label # Mark
  /\ \A r \in Whole : r \notin Torn
  /\ Short # Long /\ Short # Mark /\ Long # Mark
<1>1. \A r \in Whole : r[1] \in {"mark", "data"}
  BY DEF Whole, Blocks, Mark, Label, Index, Tar
<1>2. \A r \in Torn : r[1] = "torn"
  BY DEF Torn, Short, Long
<1>3. \A r \in Blocks : r[1] = "data"
  BY DEF Blocks, Label, Index, Tar
<1>4. Mark[1] = "mark" /\ Short[1] = "torn" /\ Long[1] = "torn" /\ Short[2] = "short" /\ Long[2] = "long"
  BY DEF Mark, Short, Long
<1>5. Label \in Blocks
  BY DEF Blocks
<1>6. Mark \notin Blocks
  BY <1>3, <1>4
<1>7. \A r \in Whole : r \notin Torn
  BY <1>1, <1>2
<1>8. Short # Long /\ Short # Mark /\ Long # Mark
  BY <1>4
<1> QED
  BY <1>5, <1>6, <1>7, <1>8

LEMMA TailFacts ==
  ASSUME NEW r \in Tails
  PROVE  /\ r \in Seq(Rec) /\ Len(r) \in 0..1
         /\ Len(r) = 0 => r = <<>>
         /\ Len(r) = 1 => r[1] \in Torn /\ r \in {<<Short>>, <<Long>>}
<1>1. Short \in Torn /\ Long \in Torn /\ Torn \subseteq Rec
  BY DEF Torn, Rec
<1>2. CASE r = <<>>
  BY <1>2
<1>3. CASE r = <<Short>>
  BY <1>1, <1>3
<1>4. CASE r = <<Long>>
  BY <1>1, <1>4
<1> QED
  BY <1>2, <1>3, <1>4 DEF Tails

\* Whole records with something torn behind them, or nothing.
LEMMA Built ==
  ASSUME NEW f \in Seq(Whole), NEW r \in Tails
  PROVE  /\ f \o r \in Seq(Rec)
         /\ Len(f \o r) = Len(f) + Len(r) /\ Len(r) \in 0..1 /\ Len(f) \in Nat
         /\ \A i \in 1..Len(f) : (f \o r)[i] = f[i] /\ (f \o r)[i] \in Whole /\ (f \o r)[i] \notin Torn
         /\ \A i \in 1..Len(f \o r) : i > Len(f) => i = Len(f \o r) /\ (f \o r)[i] \in Torn
<1>1. f \in Seq(Rec)
  BY SeqMonotonic DEF Rec
<1>2. r \in Seq(Rec) /\ Len(r) \in 0..1 /\ (Len(r) = 1 => r[1] \in Torn)
  BY TailFacts
<1>3. /\ f \o r \in Seq(Rec) /\ Len(f \o r) = Len(f) + Len(r) /\ Len(f) \in Nat
      /\ \A i \in 1..(Len(f) + Len(r)) : (f \o r)[i] = IF i <= Len(f) THEN f[i] ELSE r[i - Len(f)]
  BY <1>1, <1>2, ConcatProperties
<1>4. ASSUME NEW i \in 1..Len(f)
      PROVE  (f \o r)[i] = f[i] /\ (f \o r)[i] \in Whole /\ (f \o r)[i] \notin Torn
  <2>1. (f \o r)[i] = f[i] /\ f[i] \in Whole
    BY <1>2, <1>3
  <2> QED
    BY <2>1, RecFacts
<1>5. ASSUME NEW i \in 1..Len(f \o r), i > Len(f)
      PROVE  i = Len(f \o r) /\ (f \o r)[i] \in Torn
  <2>1. Len(r) = 1 /\ i = Len(f) + 1
    BY <1>2, <1>3, <1>5
  <2> QED
    BY <1>2, <1>3, <2>1
<1> QED
  BY <1>2, <1>3, <1>4, <1>5

LEMMA RestIs ==
  ASSUME Desc
  PROVE  /\ Rest \in Tails /\ Kept \in Tails
         /\ Kept # <<>> => pos = size /\ Kept = Rest /\ file[Len(file)] \in Torn /\ Len(file) > 0
<1>1. Len(file) \in Nat /\ size \in Nat /\ size <= Len(file) /\ file \in Seq(Rec)
  BY DEF Desc, Records, Head0
<1>2. CASE size = Len(file)
  <2>1. Rest = <<>>
    BY <1>1, <1>2, SubSeqEmpty DEF Rest
  <2> QED
    BY <2>1 DEF Kept, Tails
<1>3. CASE size < Len(file)
  <2>1. Len(file) = size + 1 /\ file[size + 1] \in Torn
    BY <1>3 DEF Desc, Head0
  <2>2. Rest = <<file[size + 1]>>
    <3>1. \A i \in (size + 1)..(size + 1) : file[i] \in Rec
      BY <1>1, <2>1
    <3>2. Len(Rest) = 1 /\ Rest[1] = file[size + 1] /\ Rest \in Seq(Rec)
      BY <1>1, <2>1, <3>1, SubSeqProperties DEF Rest
    <3>3. file[size + 1] \in Rec
      BY <1>1, <3>1
    <3> QED
      BY <3>2, <3>3
  <2> QED
    BY <1>1, <2>1, <2>2 DEF Kept, Tails, Torn, Desc, Head0
<1> QED
  BY <1>1, <1>2, <1>3

\* What is before the head.
LEMMA Before ==
  ASSUME Desc
  PROVE  /\ SubSeq(file, 1, pos) \in Seq(Whole) /\ Len(SubSeq(file, 1, pos)) = pos
         /\ \A i \in 1..pos : SubSeq(file, 1, pos)[i] = file[i]
         /\ pos \in Nat
<1>1. /\ pos \in Nat /\ file \in Seq(Rec) /\ pos <= Len(file)
      /\ \A i \in 1..pos : file[i] \in Rec /\ file[i] \notin Torn
  BY DEF Desc, Records, Head0
<1>2. \A i \in 1..pos : file[i] \in Whole
  BY <1>1 DEF Rec
<1> QED
  BY <1>1, <1>2, SubSeqProperties

\* A file of whole records up to the size, the head anywhere in it.
LEMMA BuiltDesc ==
  ASSUME NEW f \in Seq(Whole), NEW r \in Tails,
         file' = f \o r, size' = Len(f), pos' \in 0..Len(f)
  PROVE  Desc'
<1> DEFINE g == f \o r
<1>1. /\ g \in Seq(Rec)
      /\ Len(g) = Len(f) + Len(r) /\ Len(r) \in 0..1 /\ Len(f) \in Nat
      /\ \A i \in 1..Len(f) : g[i] \notin Torn
      /\ \A i \in 1..Len(g) : i > Len(f) => i = Len(g) /\ g[i] \in Torn
  BY Built
<1>2. file' = g
  OBVIOUS
<1> HIDE DEF g
<1>3. Records'
  BY <1>1, <1>2 DEF Records
<1>4. Head0'
  BY <1>1, <1>2 DEF Head0
<1> QED
  BY <1>3, <1>4 DEF Desc

LEMMA AppendedIs ==
  ASSUME Desc, NEW rec \in Whole
  PROVE  /\ Appended(rec) \in Seq(Whole) /\ Len(Appended(rec)) = pos + 1
         /\ Appended(rec)[pos + 1] = rec
         /\ \A i \in 1..pos : Appended(rec)[i] = file[i]
<1> DEFINE b == SubSeq(file, 1, pos)
<1>1. b \in Seq(Whole) /\ Len(b) = pos /\ pos \in Nat /\ \A i \in 1..pos : b[i] = file[i]
  BY Before
<1> HIDE DEF b
<1>2. /\ Append(b, rec) \in Seq(Whole) /\ Len(Append(b, rec)) = pos + 1
      /\ Append(b, rec)[pos + 1] = rec /\ \A i \in 1..pos : Append(b, rec)[i] = b[i]
  BY <1>1
<1> QED
  BY <1>1, <1>2 DEF Appended, b

\* A write that succeeds.
LEMMA WroteWhole ==
  ASSUME Desc, NEW rec \in Whole, AppendWhole(rec)
  PROVE  /\ Desc'
         /\ \E r \in Tails : /\ file' = Appended(rec) \o r
                             /\ r # <<>> => Rest # <<>> /\ pos = size
         /\ pos' = pos + 1 /\ size' = pos + 1 /\ out' = <<"ok">>
<1>1. PICK r \in AfterWhole(rec, Kept) : file' = Appended(rec) \o r
  BY DEF AppendWhole
<1>2. r \in Tails /\ (r # <<>> => Rest # <<>> /\ pos = size)
  BY RestIs DEF AfterWhole, Tails
<1>3. /\ Appended(rec) \in Seq(Whole) /\ Len(Appended(rec)) = pos + 1 /\ pos \in Nat
  BY AppendedIs, Before
<1>4. pos' = pos + 1 /\ size' = pos + 1 /\ out' = <<"ok">>
  BY <1>3 DEF AppendWhole
<1>5. Desc'
  <2>1. size' = Len(Appended(rec)) /\ pos' \in 0..Len(Appended(rec))
    BY <1>3, <1>4
  <2> QED
    BY <1>1, <1>2, <1>3, <2>1, BuiltDesc
<1> QED
  BY <1>1, <1>2, <1>4, <1>5

\* A write that the host fails.
LEMMA WroteNot ==
  ASSUME Desc, NEW rec \in Whole, AppendFails(rec)
  PROVE  /\ Desc'
         /\ \/ file' = file /\ size' = size
            \/ size' = pos /\ \E r \in Tails : file' = SubSeq(file, 1, pos) \o r
         /\ pos' = pos /\ out' = <<"error">>
<1>1. pos' = pos /\ out' = <<"error">>
  BY DEF AppendFails
<1>2. CASE file' = file /\ size' = size
  BY <1>1, <1>2 DEF Desc, Records, Head0
<1>3. CASE size' = pos /\ \E r \in AfterPart(rec, Kept) : file' = SubSeq(file, 1, pos) \o r
  <2>1. PICK r \in AfterPart(rec, Kept) : file' = SubSeq(file, 1, pos) \o r
    BY <1>3
  <2>2. r \in Tails
    BY RestIs DEF AfterPart, Tails
  <2>3. SubSeq(file, 1, pos) \in Seq(Whole) /\ Len(SubSeq(file, 1, pos)) = pos /\ pos \in Nat
    BY Before
  <2>4. Desc'
    <3> DEFINE f == SubSeq(file, 1, pos)
    <3>1. f \in Seq(Whole) /\ file' = f \o r /\ size' = Len(f) /\ pos' \in 0..Len(f)
      BY <1>1, <1>3, <2>1, <2>3
    <3> HIDE DEF f
    <3> QED
      BY <2>2, <3>1, BuiltDesc
  <2> QED
    BY <1>1, <1>3, <2>1, <2>2, <2>4
<1> QED
  BY <1>2, <1>3 DEF AppendFails

\* What can be read.
ReadableIn(f, n) ==
  LET torn == {i \in 1..n : f[i] \in Torn}
  IN  IF torn = {} THEN n ELSE Min(torn) - 1

LEMMA ReadableIs ==
  ASSUME NEW f, NEW n \in Nat, \A i \in 1..n : f[i] \in Torn => i = n
  PROVE  ReadableIn(f, n) = IF n > 0 /\ f[n] \in Torn THEN n - 1 ELSE n
<1> DEFINE torn == {i \in 1..n : f[i] \in Torn}
<1>1. CASE torn = {}
  BY <1>1 DEF ReadableIn
<1>2. CASE torn # {}
  <2>1. torn = {n} /\ n > 0 /\ f[n] \in Torn
    BY <1>2
  <2>2. torn \in SUBSET Nat
    OBVIOUS
  <2> HIDE DEF torn
  <2>3. Min(torn) = n
    BY <1>2, <2>1, <2>2, Least
  <2> QED
    BY <1>2, <2>1, <2>3 DEF ReadableIn, torn
<1> QED
  BY <1>1, <1>2

LEMMA ReadableFacts ==
  ASSUME Desc
  PROVE  /\ \A n \in 0..Len(file) : Readable(n) = IF n > 0 /\ file[n] \in Torn THEN n - 1 ELSE n
         /\ Readable(size) \in 0..size /\ pos <= Readable(size)
         /\ Readable(Len(file)) = Readable(size)
<1>1. \A n : Readable(n) = ReadableIn(file, n)
  BY DEF Readable, ReadableIn
<1>2. Len(file) \in Nat /\ size \in 0..Len(file) /\ pos \in 0..size
  BY DEF Desc, Records, Head0
<1>3. ASSUME NEW n \in 0..Len(file)
      PROVE  Readable(n) = IF n > 0 /\ file[n] \in Torn THEN n - 1 ELSE n
  <2>1. \A i \in 1..n : file[i] \in Torn => i = n
    BY <1>2 DEF Desc, Records
  <2> QED
    BY <1>1, <2>1, ReadableIs
<1>4. Readable(size) = IF size > 0 /\ file[size] \in Torn THEN size - 1 ELSE size
  BY <1>2, <1>3
<1>5. pos <= Readable(size)
  BY <1>2, <1>4 DEF Desc, Head0
<1>6. Readable(Len(file)) = Readable(size)
  <2>1. CASE size = Len(file)
    BY <2>1
  <2>2. CASE size < Len(file)
    <3>1. Len(file) = size + 1 /\ file[Len(file)] \in Torn
      BY <2>2 DEF Desc, Head0
    <3>2. size > 0 => file[size] \notin Torn
      BY <1>2, <3>1 DEF Desc, Records
    <3>3. Readable(Len(file)) = Len(file) - 1
      BY <1>2, <1>3, <3>1
    <3> QED
      BY <1>2, <1>4, <3>1, <3>2, <3>3
  <2> QED
    BY <1>2, <2>1, <2>2
<1> QED
  BY <1>2, <1>3, <1>4, <1>5, <1>6

-----------------------------------------------------------------------------
(* Reading and spacing. *)

LEMMA CountsDiffer ==
  ASSUME NEW S \in SUBSET Nat, IsFiniteSet(S), NEW i \in S, NEW j \in S
  PROVE  /\ Cardinality({k \in S : k <= i}) = Cardinality({k \in S : k <= j}) => i = j
         /\ Cardinality({k \in S : k >= i}) = Cardinality({k \in S : k >= j}) => i = j
<1>1. ASSUME NEW a \in S, NEW b \in S, a < b
      PROVE  /\ Cardinality({k \in S : k <= a}) # Cardinality({k \in S : k <= b})
             /\ Cardinality({k \in S : k >= a}) # Cardinality({k \in S : k >= b})
  <2> DEFINE la == {k \in S : k <= a}
             lb == {k \in S : k <= b}
             ga == {k \in S : k >= a}
             gb == {k \in S : k >= b}
  <2>1. a \in Nat /\ b \in Nat
    OBVIOUS
  <2>2. /\ la \in SUBSET lb /\ gb \in SUBSET ga
        /\ lb \in SUBSET S /\ ga \in SUBSET S
        /\ b \in lb /\ b \notin la /\ a \in ga /\ a \notin gb
    <3>0. \A k \in S : k \in Nat
      OBVIOUS
    <3>1. ASSUME NEW k \in la PROVE k \in lb
      <4>1. k \in S /\ k \in Nat /\ k <= a
        BY <3>0
      <4> QED
        BY <1>1, <2>1, <4>1
    <3>2. ASSUME NEW k \in gb PROVE k \in ga
      <4>1. k \in S /\ k \in Nat /\ k >= b
        BY <3>0
      <4> QED
        BY <1>1, <2>1, <4>1
    <3>3. b \in lb /\ b \notin la /\ a \in ga /\ a \notin gb
      BY <1>1, <2>1
    <3> QED
      BY <3>1, <3>2, <3>3
  <2> HIDE DEF la, lb, ga, gb
  <2>3. IsFiniteSet(lb) /\ IsFiniteSet(ga)
    BY <2>2, FS_Subset
  <2>4. Cardinality(la) # Cardinality(lb)
    BY <2>2, <2>3, FS_Subset
  <2>5. Cardinality(gb) # Cardinality(ga)
    BY <2>2, <2>3, FS_Subset
  <2> QED
    BY <2>4, <2>5 DEF la, lb, ga, gb
<1>2. i \in Nat /\ j \in Nat
  OBVIOUS
<1>3. CASE i < j
  BY <1>1, <1>3
<1>4. CASE j < i
  BY <1>1, <1>4
<1> QED
  BY <1>2, <1>3, <1>4

MarksFrom(a) == {i \in (a + 1)..Readable(size) : file[i] = Mark}
MarksBack(a) == {i \in 1..a : file[i] = Mark}

LEMMA MarksFinite ==
  ASSUME NEW a \in Nat, Readable(size) \in Nat
  PROVE  /\ IsFiniteSet(MarksFrom(a)) /\ MarksFrom(a) \in SUBSET Nat
         /\ IsFiniteSet(MarksBack(a)) /\ MarksBack(a) \in SUBSET Nat
<1>1. IsFiniteSet((a + 1)..Readable(size)) /\ IsFiniteSet(1..a)
  BY FS_Interval
<1>2. MarksFrom(a) \in SUBSET ((a + 1)..Readable(size)) /\ MarksBack(a) \in SUBSET (1..a)
  BY DEF MarksFrom, MarksBack
<1>3. IsFiniteSet(MarksFrom(a)) /\ IsFiniteSet(MarksBack(a))
  BY <1>1, <1>2, FS_Subset
<1>4. MarksFrom(a) \in SUBSET Nat /\ MarksBack(a) \in SUBSET Nat
  BY <1>2
<1> QED
  BY <1>3, <1>4

\* The place behind the n-th mark: the only one with n marks up to it.
LEMMA NthMarkIs ==
  ASSUME Desc, NEW a \in Nat, NEW n
  PROVE  /\ NthMark(a, n) # 0 =>
              /\ NthMark(a, n) \in MarksFrom(a)
              /\ Cardinality({j \in MarksFrom(a) : j <= NthMark(a, n)}) = n
         /\ \A i \in MarksFrom(a) :
              Cardinality({j \in MarksFrom(a) : j <= i}) = n => NthMark(a, n) = i
<1> DEFINE nth == {i \in MarksFrom(a) : Cardinality({j \in MarksFrom(a) : j <= i}) = n}
<1>1. Readable(size) \in Nat
  BY ReadableFacts DEF Desc, Head0
<1>2. IsFiniteSet(MarksFrom(a)) /\ MarksFrom(a) \in SUBSET Nat
  BY <1>1, MarksFinite
<1>3. NthMark(a, n) = IF nth = {} THEN 0 ELSE Min(nth)
  BY DEF NthMark, MarksFrom
<1>4. nth \in SUBSET Nat
  BY <1>2
<1>5. nth # {} => Min(nth) \in nth
  <2> HIDE DEF nth
  <2> QED
    BY <1>4, Least
<1>6. \A i, j \in nth : i = j
  BY <1>2, CountsDiffer
<1> QED
  BY <1>3, <1>5, <1>6

LEMMA NthMarkBackIs ==
  ASSUME Desc, NEW n
  PROVE  /\ NthMarkBack(n) # 0 =>
              /\ NthMarkBack(n) \in MarksBack(pos)
              /\ Cardinality({j \in MarksBack(pos) : j >= NthMarkBack(n)}) = n
         /\ \A i \in MarksBack(pos) :
              Cardinality({j \in MarksBack(pos) : j >= i}) = n => NthMarkBack(n) = i
<1> DEFINE nth == {i \in MarksBack(pos) : Cardinality({j \in MarksBack(pos) : j >= i}) = n}
<1>1. Readable(size) \in Nat /\ pos \in Nat
  BY ReadableFacts DEF Desc, Head0
<1>2. IsFiniteSet(MarksBack(pos)) /\ MarksBack(pos) \in SUBSET Nat
  BY <1>1, MarksFinite
<1>3. NthMarkBack(n) = IF nth = {} THEN 0 ELSE Min(nth)
  BY DEF NthMarkBack, MarksBack
<1>4. nth \in SUBSET Nat
  BY <1>2
<1>5. nth # {} => Min(nth) \in nth
  <2> HIDE DEF nth
  <2> QED
    BY <1>4, Least
<1>6. \A i, j \in nth : i = j
  BY <1>2, CountsDiffer
<1> QED
  BY <1>3, <1>5, <1>6

\* The head moves over what can be read.
LEMMA Moved ==
  ASSUME Desc, UNCHANGED <<file, size>>, pos' \in 0..Readable(size)
  PROVE  Desc'
<1>1. /\ Readable(size) = IF size > 0 /\ file[size] \in Torn THEN size - 1 ELSE size
      /\ size \in 0..Len(file) /\ Len(file) \in Nat
  BY ReadableFacts DEF Desc, Head0, Records
<1>2. pos' \in 0..size
  BY <1>1
<1>3. \A i \in 1..pos' : file[i] \notin Torn
  BY <1>1, <1>2 DEF Desc, Head0, Records
<1>4. Records'
  BY DEF Desc, Records
<1>5. Head0'
  BY <1>2, <1>3 DEF Desc, Head0
<1> QED
  BY <1>4, <1>5 DEF Desc

Outs == {<<"none">>, <<"ok">>, <<"eof">>, <<"full">>, <<"error">>} \cup Blocks

LEMMA ReadBlockIs ==
  ASSUME Desc, ReadBlock
  PROVE  /\ Desc' /\ out' \in Outs
         /\ UNCHANGED <<file, size, capacity, used>>
         /\ \/ pos' = pos /\ out' \in {<<"eof">>, <<"error">>} /\ pos = Readable(size)
               /\ (out' = <<"eof">> => pos = size)
            \/ /\ pos < Readable(size) /\ pos' = pos + 1 /\ file[pos + 1] \in Whole
               /\ out' = IF file[pos + 1] = Mark THEN <<"eof">> ELSE file[pos + 1]
<1>1. UNCHANGED <<file, size, capacity, used>>
  BY DEF ReadBlock
<1>2. /\ pos \in Nat /\ size \in Nat /\ Readable(size) \in 0..size /\ pos <= Readable(size)
      /\ pos <= size /\ size <= Len(file) /\ Len(file) \in Nat /\ file \in Seq(Rec)
      /\ Readable(size) = IF size > 0 /\ file[size] \in Torn THEN size - 1 ELSE size
  BY ReadableFacts DEF Desc, Head0, Records
<1>3. CASE pos >= size \/ Readable(size) = pos
  <2>1. pos' = pos /\ out' \in {<<"eof">>, <<"error">>} /\ pos = Readable(size)
        /\ (out' = <<"eof">> => pos = size)
    BY <1>2, <1>3 DEF ReadBlock
  <2>2. Desc'
    BY <1>1, <1>2, <2>1, Moved
  <2> QED
    BY <1>1, <2>1, <2>2 DEF Outs
<1>4. CASE ~(pos >= size) /\ Readable(size) # pos
  <2>1. /\ pos' = pos + 1 /\ pos < Readable(size)
        /\ out' = IF file[pos + 1] = Mark THEN <<"eof">> ELSE file[pos + 1]
    BY <1>2, <1>4 DEF ReadBlock
  <2>2. file[pos + 1] \in Rec /\ file[pos + 1] \notin Torn
    BY <1>2, <2>1 DEF Desc, Records
  <2>3. file[pos + 1] \in Whole
    BY <2>2 DEF Rec
  <2>4. Desc'
    BY <1>1, <1>2, <2>1, Moved
  <2> QED
    BY <1>1, <2>1, <2>3, <2>4 DEF Outs, Whole
<1> QED
  BY <1>3, <1>4

LEMMA SpacingIs ==
  ASSUME Desc, NEW n,
         ForwardFilemarks(n) \/ BackwardFilemarks(n) \/ RewindTape
  PROVE  /\ Desc' /\ out' \in {<<"ok">>, <<"error">>}
         /\ UNCHANGED <<file, size, capacity, used>>
         /\ out' = <<"error">> => pos' = pos
<1>1. /\ pos \in Nat /\ Readable(size) \in Nat /\ pos <= Readable(size)
      /\ 0 \in 0..Readable(size)
  BY ReadableFacts DEF Desc, Head0
<1>2. UNCHANGED <<file, size, capacity, used>> /\ out' \in {<<"ok">>, <<"error">>}
  BY DEF ForwardFilemarks, BackwardFilemarks, RewindTape, MoveTo
<1>3. <<"ok">> # <<"error">>
  OBVIOUS
<1>4. CASE RewindTape
  BY <1>1, <1>2, <1>3, <1>4, Moved DEF RewindTape
<1>5. CASE ForwardFilemarks(n)
  <2> DEFINE i == NthMark(pos, n)
  <2>1. i # 0 => i \in MarksFrom(pos)
    BY <1>1, NthMarkIs
  <2>2. i # 0 => i \in 0..Readable(size)
    BY <1>1, <2>1 DEF MarksFrom
  <2>3. pos' = (IF i = 0 THEN pos ELSE i) /\ (out' = <<"error">> => i = 0)
    BY <1>3, <1>5 DEF ForwardFilemarks, MoveTo
  <2> HIDE DEF i
  <2>4. pos' \in 0..Readable(size)
    BY <1>1, <2>2, <2>3
  <2> QED
    BY <1>2, <2>3, <2>4, Moved
<1>6. CASE BackwardFilemarks(n)
  <2> DEFINE i == NthMarkBack(n)
  <2>1. i # 0 => i \in MarksBack(pos)
    BY NthMarkBackIs
  <2>2. i # 0 => i \in 0..Readable(size)
    BY <1>1, <2>1 DEF MarksBack
  <2>3. pos' = (IF i = 0 THEN pos ELSE i) /\ (out' = <<"error">> => i = 0)
    BY <1>3, <1>6 DEF BackwardFilemarks, MoveTo
  <2> HIDE DEF i
  <2>4. pos' \in 0..Readable(size)
    BY <1>1, <2>2, <2>3
  <2> QED
    BY <1>2, <2>3, <2>4, Moved
<1> QED
  BY <1>4, <1>5, <1>6

LEMMA TapeStepIs ==
  ASSUME Desc, TapeStep
  PROVE  /\ Desc' /\ out' \in Outs
         /\ UNCHANGED <<file, size, capacity, used>>
         /\ out' = <<"error">> => pos' = pos
<1>1. CASE Op.op \in {"rewind", "forward", "backward"}
  <2>1. RewindTape \/ ForwardFilemarks(Op.n) \/ BackwardFilemarks(Op.n)
    BY <1>1 DEF TapeStep
  <2> QED
    BY <2>1, SpacingIs DEF Outs
<1>2. CASE Op.op \notin {"rewind", "forward", "backward"}
  <2>1. ReadBlock
    BY <1>2 DEF TapeStep
  <2>2. \A b \in Whole : b # <<"error">>
    BY DEF Whole, Blocks, Mark, Label, Index, Tar
  <2> QED
    BY <2>1, <2>2, ReadBlockIs
<1> QED
  BY <1>1, <1>2

-----------------------------------------------------------------------------
(* Programs. *)

Operations ==
  [op : {"rewind", "forward", "backward", "write", "block", "file"}, n : Nat, rec : Whole]

LEMMA OpsAre ==
  /\ Rewind \in Operations /\ ReadOne \in Operations /\ ReadFile \in Operations
  /\ \A n \in Nat : Forward(n) \in Operations /\ Backward(n) \in Operations
  /\ \A r \in Whole : Write(r) \in Operations
<1>1. Mark \in Whole
  BY DEF Whole
<1> QED
  BY <1>1 DEF Operations, Rewind, ReadOne, ReadFile, Forward, Backward, Write

LEMMA WriteAllIs ==
  ASSUME NEW f \in Seq(Whole)
  PROVE  /\ WriteAll(f) \in Seq(Operations) /\ Len(WriteAll(f)) = Len(f)
         /\ \A i \in 1..Len(f) : WriteAll(f)[i] = Write(f[i])
<1>1. DOMAIN f = 1..Len(f) /\ Len(f) \in Nat /\ \A i \in 1..Len(f) : f[i] \in Whole
  OBVIOUS
<1>2. \A i \in 1..Len(f) : Write(f[i]) \in Operations
  BY <1>1, OpsAre
<1>3. WriteAll(f) = [i \in 1..Len(f) |-> Write(f[i])]
  BY <1>1 DEF WriteAll
<1> QED
  BY <1>1, <1>2, <1>3

LEMMA CloseIs ==
  /\ closeEOD = WriteAll(<<Mark, Mark>>) /\ closeEOD \in Seq(Operations) /\ Len(closeEOD) = 2
  /\ <<Mark, Mark>> \in Seq(Whole)
<1>1. Mark \in Whole
  BY DEF Whole
<1>2. <<Mark, Mark>> \in Seq(Whole)
  BY <1>1
<1>3. WriteAll(<<Mark, Mark>>) = closeEOD
  BY DEF WriteAll, closeEOD
<1> QED
  BY <1>1, <1>2, <1>3, OpsAre DEF closeEOD

\* A session as the tape has it.
LEMMA SegmentsAre ==
  ASSUME NEW s \in Sessions
  PROVE  /\ Segments(s) \in Seq(Whole) /\ Len(Segments(s)) = s.tar + 3
         /\ s.tar \in 1..MaxTar /\ s.id \in 1..MaxRuns
         /\ Segments(s)[1] = Index(s.id) /\ Segments(s)[2] = Mark
         /\ \A k \in 1..s.tar : Segments(s)[k + 2] = Tar(s.id, k)
         /\ Segments(s)[s.tar + 3] = Mark
<1>1. s.id \in 1..MaxRuns /\ s.tar \in 1..MaxTar /\ MaxRuns \in Nat /\ MaxTar \in Nat
  BY FileTapeAssumption DEF Sessions
<1>2. Mark \in Whole /\ Index(s.id) \in Whole /\ \A k \in 1..s.tar : Tar(s.id, k) \in Whole
  <2>1. \A k \in 1..s.tar : k \in 1..MaxTar
    BY <1>1
  <2> QED
    BY <1>1, <2>1 DEF Whole, Blocks
<1> DEFINE a == <<Index(s.id), Mark>>
           b == [k \in 1..s.tar |-> Tar(s.id, k)]
           c == <<Mark>>
<1>3. a \in Seq(Whole) /\ Len(a) = 2 /\ a[1] = Index(s.id) /\ a[2] = Mark
  BY <1>2
<1>4. b \in Seq(Whole) /\ Len(b) = s.tar /\ \A k \in 1..s.tar : b[k] = Tar(s.id, k)
  BY <1>1, <1>2
<1>5. c \in Seq(Whole) /\ Len(c) = 1 /\ c[1] = Mark
  BY <1>2
<1>6. Segments(s) = (a \o b) \o c
  BY DEF Segments
<1> DEFINE d == a \o b
<1> HIDE DEF a, b, c
<1>7. /\ d \in Seq(Whole) /\ Len(d) = s.tar + 2
      /\ \A i \in 1..(s.tar + 2) : d[i] = IF i <= 2 THEN a[i] ELSE b[i - 2]
  <2>1. /\ d \in Seq(Whole) /\ Len(d) = Len(a) + Len(b)
        /\ \A i \in 1..(Len(a) + Len(b)) : d[i] = IF i <= Len(a) THEN a[i] ELSE b[i - Len(a)]
    BY <1>3, <1>4, ConcatProperties
  <2>2. Len(a) + Len(b) = s.tar + 2
    BY <1>1, <1>3, <1>4
  <2> QED
    BY <1>3, <2>1, <2>2
<1> HIDE DEF d
<1>8. /\ d \o c \in Seq(Whole) /\ Len(d \o c) = s.tar + 3
      /\ \A i \in 1..(s.tar + 3) :
           (d \o c)[i] = IF i <= s.tar + 2 THEN d[i] ELSE c[i - (s.tar + 2)]
  <2>1. /\ d \o c \in Seq(Whole) /\ Len(d \o c) = Len(d) + Len(c)
        /\ \A i \in 1..(Len(d) + Len(c)) :
             (d \o c)[i] = IF i <= Len(d) THEN d[i] ELSE c[i - Len(d)]
    BY <1>5, <1>7, ConcatProperties
  <2>2. Len(d) + Len(c) = s.tar + 3
    BY <1>1, <1>5, <1>7
  <2> QED
    BY <1>7, <2>1, <2>2
<1>9. /\ (d \o c)[1] = Index(s.id) /\ (d \o c)[2] = Mark
      /\ (d \o c)[s.tar + 3] = Mark
  <2>1. /\ 1 \in 1..(s.tar + 3) /\ 2 \in 1..(s.tar + 3) /\ s.tar + 3 \in 1..(s.tar + 3)
        /\ 1 <= s.tar + 2 /\ 2 <= s.tar + 2 /\ ~(s.tar + 3 <= s.tar + 2)
        /\ 1 \in 1..(s.tar + 2) /\ 2 \in 1..(s.tar + 2) /\ (s.tar + 3) - (s.tar + 2) = 1
    BY <1>1
  <2> QED
    BY <1>3, <1>5, <1>7, <1>8, <2>1
<1>10. ASSUME NEW k \in 1..s.tar PROVE (d \o c)[k + 2] = Tar(s.id, k)
  <2>1. k + 2 \in 1..(s.tar + 2) /\ k + 2 \in 1..(s.tar + 3) /\ ~(k + 2 <= 2) /\ (k + 2) - 2 = k
        /\ k + 2 <= s.tar + 2
    BY <1>1
  <2>2. (d \o c)[k + 2] = d[k + 2]
    BY <1>8, <2>1
  <2> QED
    BY <1>1, <1>4, <1>7, <2>1, <2>2
<1> QED
  BY <1>1, <1>6, <1>8, <1>9, <1>10 DEF d

Attempts == [id : Nat, tar : Nat]

LEMMA ProgramTypes ==
  ASSUME done \in Seq(Attempts)
  PROVE  /\ seekWritePosition \in Seq(Operations) /\ Len(seekWritePosition) = 2
         /\ prevJobConfigHash \in Seq(Operations)
         /\ restoreEOD \in Seq(Operations) /\ restoreEOD # <<>>
         /\ FormatProgram \in Seq(Operations) /\ FormatProgram # <<>>
         /\ \A i \in Nat \ {0} : ReadProgram(i) \in Seq(Operations) /\ ReadProgram(i) # <<>>
         /\ \A s \in Sessions : WritePart(s) \in Seq(Operations)
<1>1. Len(done) \in Nat /\ 2 * Len(done) + 1 \in Nat
  OBVIOUS
<1>2. Rewind \in Operations /\ Forward(2 * Len(done) + 1) \in Operations
  BY <1>1, OpsAre
<1>3. seekWritePosition \in Seq(Operations) /\ Len(seekWritePosition) = 2
  BY <1>2 DEF seekWritePosition
<1>4. Backward(3) \in Operations /\ ReadFile \in Operations /\ Forward(1) \in Operations
  BY OpsAre
<1>5. prevJobConfigHash \in Seq(Operations)
  BY <1>4 DEF prevJobConfigHash
<1>6. restoreEOD \in Seq(Operations) /\ restoreEOD # <<>>
  <2>1. restoreEOD \in Seq(Operations) /\ Len(restoreEOD) = Len(seekWritePosition) + Len(closeEOD)
    BY <1>3, CloseIs, ConcatProperties DEF restoreEOD
  <2>2. Len(closeEOD) = 2
    BY CloseIs
  <2> HIDE DEF restoreEOD
  <2>3. Len(restoreEOD) = 4
    BY <1>3, <2>1, <2>2
  <2> QED
    BY <2>1, <2>3, EmptySeq
<1>7. FormatProgram \in Seq(Operations) /\ FormatProgram # <<>>
  <2>1. Label \in Whole
    BY DEF Whole, Blocks
  <2> DEFINE p == <<Rewind, ReadOne, Rewind, Write(Label)>>
  <2>2. p \in Seq(Operations) /\ Len(p) = 4
    BY <2>1, OpsAre
  <2> HIDE DEF p
  <2>3. p \o closeEOD \in Seq(Operations) /\ Len(p \o closeEOD) = Len(p) + Len(closeEOD)
    BY <2>2, CloseIs, ConcatProperties
  <2>4. Len(closeEOD) = 2
    BY CloseIs
  <2>6. Len(p \o closeEOD) = 6
    BY <2>2, <2>3, <2>4
  <2>5. p \o closeEOD # <<>>
    BY <2>6
  <2> QED
    BY <2>3, <2>5 DEF FormatProgram, p
<1>8. ASSUME NEW i \in Nat \ {0} PROVE ReadProgram(i) \in Seq(Operations) /\ ReadProgram(i) # <<>>
  <2>1. 2 * i - 1 \in Nat
    OBVIOUS
  <2>2. Forward(2 * i - 1) \in Operations
    BY <2>1, OpsAre
  <2> QED
    BY <2>2, OpsAre DEF ReadProgram
<1>9. ASSUME NEW s \in Sessions PROVE WritePart(s) \in Seq(Operations)
  <2>1. WriteAll(Segments(s)) \in Seq(Operations)
    BY SegmentsAre, WriteAllIs
  <2> QED
    BY <2>1, CloseIs, ConcatProperties DEF WritePart
<1> QED
  BY <1>3, <1>5, <1>6, <1>7, <1>8, <1>9

-----------------------------------------------------------------------------
(* The descriptor and its account, whatever the programs do. *)

Counters == [run : Nat, read : Nat, format : Nat, fail : Nat, kill : Nat]

Kinds ==
  /\ open \in BOOLEAN /\ labelled \in BOOLEAN /\ settled \in BOOLEAN
  /\ capacity \in Limits \cup {0} /\ used \in Nat /\ out \in Outs
  /\ task \in Tasks \cup {"none"} /\ todo \in Seq(Operations)
  /\ task # "none" => open /\ todo # <<>>
  /\ done \in Seq(Attempts)
  /\ count \in Counters

\* A descriptor with a limit never has less on its account than the records
\* cost, and not more as long as no write failed half-way.
Account ==
  open /\ capacity > 0 =>
    /\ UsageIn(file, size) <= used
    /\ count.fail = 0 => used = UsageIn(file, size)

DInv == Kinds /\ Desc /\ Account

LEMMA NumbersOK == ASSUME Kinds PROVE capacity \in Nat
BY FileTapeAssumption DEF Kinds

LEMMA DInit == Init => DInv
<1> SUFFICES ASSUME Init PROVE DInv
  OBVIOUS
<1>1. Desc
  BY DEF Init, Desc, Records, Head0
<1>2. Kinds
  <2>1. count \in Counters
    BY DEF Init, Counters
  <2>2. <<"none">> \in Outs /\ <<>> \in Seq(Operations) /\ <<>> \in Seq(Attempts)
    BY DEF Outs
  <2> QED
    BY <2>1, <2>2 DEF Init, Kinds
<1>3. Account
  BY DEF Init, Account
<1> QED
  BY <1>1, <1>2, <1>3 DEF DInv

\* Steps that leave the tape alone.
LEMMA SameTape ==
  ASSUME DInv, UNCHANGED <<file, pos, size>>
  PROVE  /\ Desc'
         /\ UNCHANGED <<open, capacity, used>> /\ count'.fail = count.fail => Account'
<1>1. Desc'
  BY DEF DInv, Desc, Records, Head0
<1> QED
  BY <1>1 DEF DInv, Account

LEMMA CountedIs ==
  ASSUME count \in Counters, NEW what \in {"run", "read", "format", "kill"}, NEW max, Counted(what, max)
  PROVE  /\ count' \in Counters /\ count'.fail = count.fail
         /\ what = "run" => count'.run = count.run + 1 /\ count.run < max
         /\ what # "run" => count'.run = count.run
BY DEF Counters, Counted

LEMMA OpenStep ==
  ASSUME DInv, NEW limit \in Limits, OpenTape(limit) PROVE DInv'
<1>1. /\ size \in Nat /\ Len(file) \in Nat /\ limit \in Nat /\ file \in Seq(Rec)
  BY FileTapeAssumption DEF DInv, Desc, Records, Head0
<1>2. CASE limit > 0 /\ UsageFails(Len(file))
  <2>1. /\ UNCHANGED <<file, open, pos, size, capacity, used, task, todo, done, labelled, settled, count>>
        /\ out' = <<"error">>
    BY <1>2 DEF OpenTape
  <2>2. Kinds'
    BY <2>1 DEF DInv, Kinds, Outs
  <2> QED
    BY <2>1, <2>2, SameTape DEF DInv
<1>3. CASE ~(limit > 0 /\ UsageFails(Len(file)))
  <2>1. /\ UNCHANGED <<file, task, todo, done, labelled, settled, count>>
        /\ open' = TRUE /\ pos' = 0 /\ size' = Len(file) /\ capacity' = limit
        /\ used' = (IF limit > 0 THEN UsageUpTo(Len(file)) ELSE 0) /\ out' = <<"ok">>
        /\ ~open
    BY <1>3 DEF OpenTape
  <2>2. UsageUpTo(Len(file)) = UsageIn(file, Len(file)) /\ UsageIn(file, Len(file)) \in Nat
    BY <1>1, UsageIsIn, UsageStep
  <2>3. Kinds'
    BY <2>1, <2>2 DEF DInv, Kinds, Outs
  <2>4. Desc'
    BY <1>1, <2>1 DEF DInv, Desc, Records, Head0
  <2>5. Account'
    BY <1>1, <2>1, <2>2 DEF Account
  <2> QED
    BY <2>3, <2>4, <2>5 DEF DInv
<1> QED
  BY <1>2, <1>3

LEMMA KillStep == ASSUME DInv, Kill PROVE DInv'
<1>1. UNCHANGED <<file, pos, size, capacity, used, out, done, labelled, settled>>
      /\ open' = FALSE /\ task' = "none" /\ todo' = <<>>
  BY DEF Kill
<1>2. count' \in Counters
  BY CountedIs DEF Kill, DInv, Kinds
<1>3. Kinds'
  <2>1. FALSE \in BOOLEAN /\ <<>> \in Seq(Operations)
    OBVIOUS
  <2> QED
    BY <1>1, <1>2, <2>1 DEF DInv, Kinds
<1>4. Desc' /\ Account'
  BY <1>1, SameTape DEF Account
<1> QED
  BY <1>3, <1>4 DEF DInv

LEMMA StartIs ==
  ASSUME DInv, NEW t \in Tasks, NEW p \in Seq(Operations), p # <<>>, Start(t, p),
         count' \in Counters, count'.fail = count.fail
  PROVE  DInv' /\ task = "none"
<1>1. /\ UNCHANGED <<file, open, pos, size, capacity, used, out, done, labelled, settled>>
      /\ open /\ task' = t /\ todo' = p /\ task = "none"
  BY DEF Start, tapeVars
<1>2. Kinds'
  BY <1>1 DEF DInv, Kinds, Tasks
<1> QED
  BY <1>1, <1>2, SameTape DEF DInv

LEMMA StartFormatStep == ASSUME DInv, StartFormat PROVE DInv'
<1>1. count' \in Counters /\ count'.fail = count.fail
  BY CountedIs DEF StartFormat, DInv, Kinds
<1>2. FormatProgram \in Seq(Operations) /\ FormatProgram # <<>>
  BY ProgramTypes DEF DInv, Kinds
<1> QED
  BY <1>1, <1>2, StartIs DEF StartFormat, Tasks

LEMMA StartReadStep == ASSUME DInv, StartRead PROVE DInv'
<1>1. count' \in Counters /\ count'.fail = count.fail
  BY CountedIs DEF StartRead, DInv, Kinds
<1>2. PICK i \in DOMAIN done : Start("read", ReadProgram(i))
  BY DEF StartRead
<1>3. i \in Nat \ {0} /\ done \in Seq(Attempts)
  BY DEF DInv, Kinds
<1>4. ReadProgram(i) \in Seq(Operations) /\ ReadProgram(i) # <<>>
  BY <1>3, ProgramTypes
<1> QED
  BY <1>1, <1>2, <1>4, StartIs DEF Tasks

\* What a backup is going to do.
LEMMA BackupStarts ==
  ASSUME DInv, StartBackup
  PROVE  /\ labelled /\ count' \in Counters /\ count'.fail = count.fail
         /\ count'.run = count.run + 1
         /\ \E tar \in 1..MaxTar :
              /\ [id |-> count'.run, tar |-> tar] \in Sessions
              /\ Start("backup", seekWritePosition \o prevJobConfigHash
                                   \o WritePart([id |-> count'.run, tar |-> tar]))
<1>1. /\ labelled /\ count' \in Counters /\ count'.fail = count.fail
      /\ count'.run = count.run + 1 /\ count.run < MaxRuns /\ count.run \in Nat
  BY CountedIs DEF StartBackup, DInv, Kinds, Counters
<1>2. PICK tar \in 1..MaxTar :
        Start("backup", seekWritePosition \o prevJobConfigHash
                          \o WritePart([id |-> count.run + 1, tar |-> tar]))
  BY DEF StartBackup
<1>3. count.run + 1 \in 1..MaxRuns
  BY <1>1, FileTapeAssumption
<1>4. [id |-> count.run + 1, tar |-> tar] \in Sessions
  BY <1>3 DEF Sessions
<1> QED
  BY <1>1, <1>2, <1>4

LEMMA StartBackupStep == ASSUME DInv, StartBackup PROVE DInv'
<1>1. count' \in Counters /\ count'.fail = count.fail
  BY BackupStarts
<1>2. PICK tar \in 1..MaxTar :
        /\ [id |-> count'.run, tar |-> tar] \in Sessions
        /\ Start("backup", seekWritePosition \o prevJobConfigHash
                             \o WritePart([id |-> count'.run, tar |-> tar]))
  BY BackupStarts
<1> DEFINE w == WritePart([id |-> count'.run, tar |-> tar])
           p == seekWritePosition \o prevJobConfigHash
<1>3. w \in Seq(Operations) /\ seekWritePosition \in Seq(Operations)
      /\ Len(seekWritePosition) = 2 /\ prevJobConfigHash \in Seq(Operations)
  BY <1>2, ProgramTypes DEF DInv, Kinds
<1>4. p \in Seq(Operations) /\ Len(p) = 2 + Len(prevJobConfigHash)
  <2>1. p \in Seq(Operations) /\ Len(p) = Len(seekWritePosition) + Len(prevJobConfigHash)
    BY <1>3, ConcatProperties
  <2> HIDE DEF p
  <2> QED
    BY <1>3, <2>1
<1> HIDE DEF w, p
<1>5. p \o w \in Seq(Operations) /\ Len(p \o w) # 0
  <2>1. p \o w \in Seq(Operations) /\ Len(p \o w) = Len(p) + Len(w)
    BY <1>3, <1>4, ConcatProperties
  <2> QED
    BY <1>3, <1>4, <2>1
<1>6. p \o w # <<>>
  BY <1>5
<1>7. Start("backup", p \o w)
  BY <1>2 DEF p, w
<1> QED
  BY <1>1, <1>5, <1>6, <1>7, StartIs DEF Tasks

LEMMA OpIs ==
  ASSUME Kinds, task # "none"
  PROVE  /\ Op \in Operations /\ Op = todo[1] /\ Op.rec \in Whole
         /\ Tail(todo) \in Seq(Operations) /\ Len(todo) \in Nat \ {0}
         /\ Len(Tail(todo)) = Len(todo) - 1
         /\ \A i \in 1..(Len(todo) - 1) : Tail(todo)[i] = todo[i + 1]
<1>1. todo \in Seq(Operations) /\ todo # <<>>
  BY DEF Kinds
<1>2. /\ Tail(todo) \in Seq(Operations) /\ Len(Tail(todo)) = Len(todo) - 1
      /\ \A i \in 1..Len(Tail(todo)) : Tail(todo)[i] = todo[i + 1]
      /\ Len(todo) \in Nat \ {0} /\ Head(todo) \in Operations
  BY <1>1, HeadTailProperties, EmptySeq
<1>3. Head(todo) = todo[1]
  BY <1>1
<1> QED
  BY <1>2, <1>3 DEF Op, Operations

LEMMA AttemptType == ASSUME Kinds PROVE Attempt \in Attempts
<1> DEFINE S == {k \in 1..MaxTar : Tar(count.run, k) \in ToSet(file)}
<1>1. IsFiniteSet(1..MaxTar) /\ S \in SUBSET (1..MaxTar)
  BY FS_Interval, FileTapeAssumption
<1> HIDE DEF S
<1>2. Cardinality(S) \in Nat
  BY <1>1, FS_Subset, FS_CardinalityType
<1>3. count.run \in Nat
  BY DEF Kinds, Counters
<1> QED
  BY <1>2, <1>3 DEF Attempt, Attempts, S

\* The program that is left when the look back ends.
LEMMA LookBackLeaves ==
  ASSUME Kinds, LookBackEnds
  PROVE  todo' \in Seq(Operations) /\ todo' # <<>>
<1> DEFINE k == CASE Op = Backward(3) -> 4 [] Op = ReadFile -> 3 [] OTHER -> 2
           rest == SubSeq(todo, k, Len(todo))
<1>1. seekWritePosition \in Seq(Operations) /\ Len(seekWritePosition) = 2 /\ todo \in Seq(Operations)
  BY ProgramTypes DEF Kinds
<1>2. k \in {2, 3, 4}
  OBVIOUS
<1>3. todo' = seekWritePosition \o rest
  BY DEF LookBackEnds
<1> HIDE DEF k
<1>4. rest \in Seq(Operations)
  <2>1. \A i \in k..Len(todo) : todo[i] \in Operations
    BY <1>1, <1>2
  <2> QED
    BY <1>1, <1>2, <2>1, SubSeqProperties
<1> HIDE DEF rest
<1>5. seekWritePosition \o rest \in Seq(Operations)
      /\ Len(seekWritePosition \o rest) = Len(seekWritePosition) + Len(rest)
  BY <1>1, <1>4, ConcatProperties
<1>6. todo' \in Seq(Operations) /\ Len(todo') # 0
  BY <1>1, <1>3, <1>4, <1>5
<1> QED
  BY <1>6

\* What the program does after an operation.
Goes ==
  \/ Advance /\ (Len(todo) = 1 => Op.op = "file" /\ out' # <<"eof">>)
  \/ Finish
  \/ GiveUp
  \/ LookBackEnds
  \/ Touch /\ Len(todo) # 1 /\ todo' = Tail(todo) /\ UNCHANGED <<task, done, count>>
  \/ /\ Touch /\ done' = done /\ count' \in Counters
     /\ \/ task' = "undo" /\ todo' = restoreEOD
        \/ task' = "none" /\ todo' = <<>>

LEMMA GoesOn ==
  ASSUME Kinds, task # "none", Goes, open' = open,
         capacity' = capacity, used' \in Nat, out' \in Outs
  PROVE  Kinds'
<1> USE DEF Kinds
<1>1. open /\ open' \in BOOLEAN /\ labelled \in BOOLEAN /\ settled \in BOOLEAN
      /\ capacity' \in Limits \cup {0}
  OBVIOUS
<1>2. Tail(todo) \in Seq(Operations) /\ Len(todo) \in Nat \ {0} /\ Len(Tail(todo)) = Len(todo) - 1
  BY OpIs
<1>3. Len(todo) # 1 => Tail(todo) # <<>>
  <2>1. Len(todo) # 1 => Len(Tail(todo)) # 0
    BY <1>2
  <2> QED
    BY <2>1
<1>4. restoreEOD \in Seq(Operations) /\ restoreEOD # <<>> /\ <<>> \in Seq(Operations)
  BY ProgramTypes
<1>5. CASE Advance /\ (Len(todo) = 1 => Op.op = "file" /\ out' # <<"eof">>)
  <2>1. UNCHANGED <<task, done, labelled, settled, count>>
    BY <1>5 DEF Advance
  <2>2. todo' \in Seq(Operations) /\ todo' # <<>>
    BY <1>2, <1>3, <1>5 DEF Advance
  <2> QED
    BY <1>1, <2>1, <2>2
<1>6. CASE Finish
  <2>1. Attempt \in Attempts
    BY AttemptType
  <2>2. done' \in Seq(Attempts)
    BY <1>6, <2>1 DEF Finish
  <2>3. settled' \in BOOLEAN /\ labelled' \in BOOLEAN /\ task' = "none" /\ todo' = <<>> /\ count' = count
    BY <1>1, <1>6 DEF Finish
  <2> QED
    BY <1>1, <1>4, <2>2, <2>3
<1>7. CASE GiveUp
  <2>1. UNCHANGED <<done, labelled, settled, count>>
    BY <1>7 DEF GiveUp
  <2>2. (task' = "undo" /\ todo' = restoreEOD) \/ (task' = "none" /\ todo' = <<>>)
    BY <1>7 DEF GiveUp
  <2> QED
    BY <1>1, <1>4, <2>1, <2>2 DEF Tasks
<1>8. CASE Touch /\ Len(todo) # 1 /\ todo' = Tail(todo) /\ UNCHANGED <<task, done, count>>
  <2>1. settled' \in BOOLEAN /\ labelled' \in BOOLEAN
    BY <1>1, <1>8 DEF Touch
  <2> QED
    BY <1>1, <1>2, <1>3, <1>8, <2>1
<1>9. CASE /\ Touch /\ done' = done /\ count' \in Counters
           /\ \/ task' = "undo" /\ todo' = restoreEOD
              \/ task' = "none" /\ todo' = <<>>
  <2>1. settled' \in BOOLEAN /\ labelled' \in BOOLEAN
    BY <1>1, <1>9 DEF Touch
  <2> QED
    BY <1>1, <1>4, <1>9, <2>1 DEF Tasks
<1>10. CASE LookBackEnds
  <2>1. UNCHANGED <<task, done, labelled, settled, count>>
    BY <1>10 DEF LookBackEnds
  <2> QED
    BY <1>1, <1>10, <2>1, LookBackLeaves
<1> QED
  BY <1>5, <1>6, <1>7, <1>8, <1>9, <1>10 DEF Goes

\* The account before and after a write.
LEMMA BaseIs ==
  ASSUME DInv, open, capacity > 0
  PROVE  /\ Base \in Nat /\ UsageIn(file, pos) <= Base /\ UsageIn(file, pos) \in Nat
         /\ count.fail = 0 => Base = UsageIn(file, pos)
<1>1. pos \in Nat /\ size \in Nat /\ pos <= size /\ used \in Nat
  BY DEF DInv, Kinds, Desc, Head0
<1>2. UsageUpTo(pos) = UsageIn(file, pos) /\ UsageIn(file, pos) \in Nat
  BY <1>1, UsageIsIn, UsageStep
<1>3. CASE pos < size
  BY <1>1, <1>2, <1>3 DEF Base
<1>4. CASE ~(pos < size)
  <2>1. pos = size /\ Base = used
    BY <1>1, <1>4 DEF Base
  <2> QED
    BY <1>1, <1>2, <2>1 DEF DInv, Account
<1> QED
  BY <1>3, <1>4

LEMMA WroteUsage ==
  ASSUME DInv, open, capacity > 0, NEW rec \in Whole, AppendWhole(rec)
  PROVE  /\ used' \in Nat /\ used' <= capacity
         /\ UsageIn(file', size') <= used'
         /\ count.fail = 0 => used' = UsageIn(file', size')
<1>1. Desc /\ pos \in Nat
  BY DEF DInv, Desc, Head0
<1>2. /\ Base \in Nat /\ UsageIn(file, pos) <= Base /\ UsageIn(file, pos) \in Nat
      /\ count.fail = 0 => Base = UsageIn(file, pos)
  BY BaseIs
<1>3. PICK r \in Tails : file' = Appended(rec) \o r
  BY <1>1, WroteWhole
<1>4. size' = pos + 1
  BY <1>1, WroteWhole
<1>5. /\ Appended(rec) \in Seq(Whole) /\ Len(Appended(rec)) = pos + 1
      /\ Appended(rec)[pos + 1] = rec /\ \A i \in 1..pos : Appended(rec)[i] = file[i]
  BY <1>1, AppendedIs
<1>6. \A i \in 1..Len(Appended(rec)) : file'[i] = Appended(rec)[i]
  BY <1>3, <1>5, Built
<1>7. file'[pos + 1] = rec /\ \A i \in 1..pos : file'[i] = file[i]
  <2>1. pos + 1 \in 1..(pos + 1) /\ \A i \in 1..pos : i \in 1..(pos + 1)
    BY <1>1
  <2> QED
    BY <1>5, <1>6, <2>1
<1>8. UsageIn(file', pos) = UsageIn(file, pos)
  BY <1>1, <1>7, UsageSame
<1>9. UsageIn(file', pos + 1) = UsageIn(file, pos) + Cost(rec)
  BY <1>1, <1>7, <1>8, UsageStep
<1>10. used' = Base + Cost(rec) /\ Base + Cost(rec) <= capacity /\ Cost(rec) \in Nat
  BY CostType, NumbersOK DEF AppendWhole, Fits, DInv
<1> HIDE DEF Base
<1> QED
  BY <1>2, <1>4, <1>9, <1>10

LEMMA WriteGoesOnStep == ASSUME DInv, WriteGoesOn PROVE DInv'
<1>1. Kinds /\ task # "none" /\ open' = open /\ AppendWhole(Op.rec) /\ Desc /\ open
  BY DEF WriteGoesOn, DInv, Kinds
<1>2. Op.rec \in Whole
  BY <1>1, OpIs
<1>3. Desc' /\ out' = <<"ok">>
  BY <1>1, <1>2, WroteWhole
<1>4. capacity' = capacity
  BY <1>1 DEF AppendWhole
<1>5. used' \in Nat
  <2>1. CASE capacity > 0
    BY <1>1, <1>2, <2>1, WroteUsage
  <2>2. CASE ~(capacity > 0)
    BY <1>1, <2>2 DEF AppendWhole, Kinds
  <2> QED
    BY <2>1, <2>2
<1>6. Goes /\ count' = count
  BY DEF WriteGoesOn, Goes, Finish
<1>7. Kinds'
  BY <1>1, <1>3, <1>4, <1>5, <1>6, GoesOn DEF Outs
<1>8. Account'
  <2>1. SUFFICES ASSUME capacity > 0 PROVE Account'
    BY <1>4 DEF Account
  <2> QED
    BY <1>1, <1>2, <1>6, <2>1, WroteUsage DEF Account
<1> QED
  BY <1>3, <1>7, <1>8 DEF DInv

LEMMA WriteFullStep == ASSUME DInv, WriteFull PROVE DInv'
<1>1. Kinds /\ task # "none" /\ open' = open /\ Goes /\ count' = count
  BY DEF WriteFull, DInv, Goes, GiveUp
<1>2. UNCHANGED <<file, pos, size, capacity, used>> /\ out' = <<"full">>
  BY DEF WriteFull, AppendFull
<1>3. Kinds'
  BY <1>1, <1>2, GoesOn DEF Outs, Kinds
<1> QED
  BY <1>1, <1>2, <1>3, SameTape DEF DInv

LEMMA WriteFailsStep == ASSUME DInv, WriteFails PROVE DInv' /\ count'.fail # 0
<1>1. /\ Kinds /\ task # "none" /\ open' = open /\ Desc /\ open /\ AppendFails(Op.rec)
      /\ capacity' = capacity /\ used' = used /\ done' = done /\ Touch
      /\ count' = [count EXCEPT !.fail = @ + 1]
  BY DEF WriteFails, AppendFails, DInv, Kinds
<1>2. count' \in Counters /\ count'.fail = count.fail + 1 /\ count.fail \in Nat
  BY <1>1 DEF Kinds, Counters
<1>3. Goes
  BY <1>1, <1>2 DEF WriteFails, Goes
<1>4. Op.rec \in Whole
  BY <1>1, OpIs
<1>5. /\ Desc' /\ out' = <<"error">>
      /\ \/ file' = file /\ size' = size
         \/ size' = pos /\ \E r \in Tails : file' = SubSeq(file, 1, pos) \o r
  BY <1>1, <1>4, WroteNot
<1>6. Kinds'
  BY <1>1, <1>3, <1>5, GoesOn DEF Kinds, Outs
<1>7. pos \in Nat /\ size \in Nat /\ pos <= size /\ used \in Nat
  BY <1>1 DEF Kinds, Desc, Head0
<1>8. capacity > 0 => UsageIn(file', size') <= used'
  <2>1. SUFFICES ASSUME capacity > 0 PROVE UsageIn(file', size') <= used
    BY <1>1
  <2>2. UsageIn(file, size) <= used
    BY <1>1, <2>1 DEF DInv, Account
  <2>3. CASE file' = file /\ size' = size
    BY <2>2, <2>3
  <2>4. CASE size' = pos /\ \E r \in Tails : file' = SubSeq(file, 1, pos) \o r
    <3>1. PICK r \in Tails : file' = SubSeq(file, 1, pos) \o r
      BY <2>4
    <3>2. /\ SubSeq(file, 1, pos) \in Seq(Whole) /\ Len(SubSeq(file, 1, pos)) = pos
          /\ \A i \in 1..pos : SubSeq(file, 1, pos)[i] = file[i]
      BY <1>1, Before
    <3>3. \A i \in 1..pos : file'[i] = file[i]
      BY <3>1, <3>2, Built
    <3>4. UsageIn(file', pos) = UsageIn(file, pos)
      BY <1>7, <3>3, UsageSame
    <3>5. UsageIn(file, pos) <= UsageIn(file, size)
      <4>1. size - pos \in Nat /\ pos + (size - pos) = size
        BY <1>7
      <4> QED
        BY <1>7, <4>1, UsageGrows
    <3>6. UsageIn(file, pos) \in Nat /\ UsageIn(file, size) \in Nat
      BY <1>7, UsageStep
    <3> QED
      BY <1>7, <2>2, <2>4, <3>4, <3>5, <3>6
  <2> QED
    BY <1>5, <2>3, <2>4
<1>9. Account' /\ count'.fail # 0
  BY <1>1, <1>2, <1>8 DEF Account
<1> QED
  BY <1>5, <1>6, <1>9 DEF DInv

LEMMA MoveOrReadStep == ASSUME DInv, MoveOrRead PROVE DInv'
<1>1. Kinds /\ task # "none" /\ open' = open /\ Desc /\ TapeStep
  BY DEF MoveOrRead, DInv
<1>2. /\ Desc' /\ out' \in Outs
      /\ UNCHANGED <<file, size, capacity, used>>
  BY <1>1, TapeStepIs
<1>3. Goes /\ count' = count
  BY DEF MoveOrRead, Goes, Advance, Finish, GiveUp, LookBackEnds
<1>4. Kinds'
  BY <1>1, <1>2, <1>3, GoesOn DEF Kinds
<1>5. Account'
  BY <1>1, <1>2, <1>3 DEF DInv, Account
<1> QED
  BY <1>2, <1>4, <1>5 DEF DInv

LEMMA DedupGivesUpStep == ASSUME DInv, DedupGivesUp PROVE DInv'
<1>1. UNCHANGED <<file, open, pos, size, capacity, used, out, task, done, labelled, settled, count>>
  BY DEF DedupGivesUp, LookBackEnds, tapeVars
<1>2. todo' \in Seq(Operations) /\ todo' # <<>>
  BY LookBackLeaves DEF DInv, DedupGivesUp
<1>3. Kinds'
  BY <1>1, <1>2 DEF DInv, Kinds, DedupGivesUp, LooksBack
<1> QED
  BY <1>1, <1>3, SameTape DEF DInv

LEMMA DStep == DInv /\ [Next]_vars => DInv'
<1> SUFFICES ASSUME DInv, [Next]_vars PROVE DInv'
  OBVIOUS
<1>1. CASE UNCHANGED vars
  <2>1. Kinds'
    BY <1>1 DEF DInv, Kinds, vars
  <2> QED
    BY <1>1, <2>1, SameTape DEF DInv, vars
<1>2. CASE Next
  BY <1>2, OpenStep, KillStep, StartFormatStep, StartBackupStep, StartReadStep, WriteGoesOnStep,
     WriteFullStep, WriteFailsStep, MoveOrReadStep, DedupGivesUpStep DEF Next
<1> QED
  BY <1>1, <1>2

LEMMA DInvariant == Spec => []DInv
<1> QED
  BY DInit, DStep, PTL DEF Spec

\* A tape opened with a limit takes a write only when the records then fit,
\* and refuses one only when they would not as long as no write failed:
\* appendLocked counts the tail it is going to cut off neither twice nor at
\* all (filetape appendLocked, usageUpTo, OpenCapacity).
THEOREM LimitIsKept == Spec => CapacityKept
<1> DEFINE Kept2 ==
      capacity > 0 =>
        /\ WriteGoesOn => UsageUpTo(size)' <= capacity
        /\ (WriteFull /\ count.fail = 0) => UsageUpTo(pos) + Cost(Op.rec) > capacity
<1>1. ASSUME DInv, [Next]_vars PROVE [Kept2]_vars
  <2>1. SUFFICES ASSUME capacity > 0 PROVE Kept2
    OBVIOUS
  <2>2. ASSUME WriteGoesOn PROVE UsageUpTo(size)' <= capacity
    <3>1. task # "none" /\ Kinds /\ open /\ AppendWhole(Op.rec)
      BY <1>1, <2>2 DEF WriteGoesOn, DInv, Kinds
    <3>2. Op.rec \in Whole
      BY <3>1, OpIs
    <3>3. used' \in Nat /\ used' <= capacity /\ UsageIn(file', size') <= used'
      BY <1>1, <2>1, <3>1, <3>2, WroteUsage
    <3>4. UsageUpTo(size)' = UsageIn(file', size')
      <4>1. (UsageUpTo(size) = UsageIn(file, size))'
        BY UsageOfSize, PTL
      <4> QED
        BY <4>1
    <3>5. size' \in Nat /\ UsageIn(file', size') \in Nat
      <4>1. size' \in Nat
        BY <1>1, DStep DEF DInv, Desc, Head0
      <4> QED
        BY <4>1, UsageStep
    <3>6. capacity \in Nat
      BY <3>1, NumbersOK
    <3> QED
      BY <3>3, <3>4, <3>5, <3>6
  <2>3. ASSUME WriteFull, count.fail = 0 PROVE UsageUpTo(pos) + Cost(Op.rec) > capacity
    <3>1. task # "none" /\ Kinds /\ open /\ ~Fits(Op.rec)
      BY <1>1, <2>3 DEF WriteFull, AppendFull, DInv, Kinds
    <3>2. Base = UsageIn(file, pos) /\ Base \in Nat
      BY <1>1, <2>1, <2>3, <3>1, BaseIs
    <3>3. Cost(Op.rec) \in Nat /\ capacity \in Nat
      BY <3>1, CostType, NumbersOK
    <3>4. ~(Base + Cost(Op.rec) <= capacity)
      BY <3>1 DEF Fits
    <3> QED
      BY <3>2, <3>3, <3>4, UsageIsIn
  <2> QED
    BY <2>2, <2>3
<1>2. QED
  BY <1>1, DInvariant, PTL DEF Spec, CapacityKept

-----------------------------------------------------------------------------
(* The file implements the tape. *)

Items == SubSeq(file, 1, Readable(size))

LEMMA ReadableHere ==
  Desc => Readable(size) = IF size > 0 /\ file[size] \in Torn THEN size - 1 ELSE size
BY ReadableFacts DEF Desc, Head0

LEMMA ItemsAre ==
  ASSUME Desc
  PROVE  /\ Items \in Seq(Whole) /\ Len(Items) = Readable(size) /\ DOMAIN Items = 1..Readable(size)
         /\ \A i \in 1..Readable(size) : Items[i] = file[i]
         /\ Readable(size) \in Nat /\ pos \in 0..Readable(size)
         /\ SubSeq(Items, 1, pos) = SubSeq(file, 1, pos)
<1>1. /\ Readable(size) \in 0..size /\ pos <= Readable(size) /\ size \in 0..Len(file)
      /\ Readable(size) = IF size > 0 /\ file[size] \in Torn THEN size - 1 ELSE size
      /\ pos \in Nat /\ file \in Seq(Rec) /\ Len(file) \in Nat
  BY ReadableFacts DEF Desc, Head0, Records
<1>2. \A i \in 1..Readable(size) : file[i] \in Whole
  <2>1. ASSUME NEW i \in 1..Readable(size) PROVE file[i] \in Whole
    <3>1. i \in 1..Len(file) /\ file[i] \in Rec
      BY <1>1
    <3>2. file[i] \notin Torn
      BY <1>1, <3>1 DEF Desc, Records
    <3> QED
      BY <3>1, <3>2 DEF Rec
  <2> QED
    BY <2>1
<1>3. /\ Items \in Seq(Whole) /\ Len(Items) = Readable(size)
      /\ \A i \in 1..Readable(size) : Items[i] = file[i]
  BY <1>1, <1>2, SubSeqProperties DEF Items
<1>4. SubSeq(Items, 1, pos) = SubSeq(file, 1, pos)
  <2>1. \A i \in 1..pos : Items[i] = file[i] /\ Items[i] \in Whole
    BY <1>1, <1>2, <1>3
  <2>2. /\ SubSeq(Items, 1, pos) \in Seq(Whole) /\ Len(SubSeq(Items, 1, pos)) = pos
        /\ \A i \in 1..pos : SubSeq(Items, 1, pos)[i] = Items[i]
    BY <1>1, <2>1, SubSeqProperties
  <2>3. /\ SubSeq(file, 1, pos) \in Seq(Whole) /\ Len(SubSeq(file, 1, pos)) = pos
        /\ \A i \in 1..pos : SubSeq(file, 1, pos)[i] = file[i]
    BY Before
  <2> QED
    BY <2>1, <2>2, <2>3, SeqEqual
<1> QED
  BY <1>1, <1>3, <1>4

LEMMA SameItems ==
  ASSUME UNCHANGED <<file, size>>
  PROVE  Items' = Items
BY DEF Items, Readable

LEMMA ItemsOpen == T!Spec <=> T!Init /\ [][T!Next]_<<Items, pos, out>>
BY DEF T!Spec, T!vars, Items

\* The operations of the tape, over the records that can be read.
LEMMA Refuses ==
  ASSUME Items' = Items, pos' = pos, out' \in {<<"full">>, <<"error">>}
  PROVE  T!Next
BY DEF T!Next, T!WriteRefused, Items

LEMMA OpenMaps == ASSUME DInv, NEW limit \in Limits, OpenTape(limit) PROVE T!Next
<1>1. CASE limit > 0 /\ UsageFails(Len(file))
  BY <1>1, SameItems, Refuses DEF OpenTape
<1>2. CASE ~(limit > 0 /\ UsageFails(Len(file)))
  <2>1. file' = file /\ pos' = 0 /\ size' = Len(file) /\ out' = <<"ok">>
    BY <1>2 DEF OpenTape
  <2>2. Readable(size)' = Readable(Len(file))
    BY <2>1 DEF Readable
  <2>3. Items' = Items
    BY <2>1, <2>2, ReadableFacts DEF Items, DInv
  <2> QED
    BY <2>1, <2>3 DEF T!Next, T!Rewind, Items
<1> QED
  BY <1>1, <1>2

\* A file cut at the head, or with one record written there, and something
\* torn behind it: what can be read is the whole records.
LEMMA BuiltItems ==
  ASSUME Desc', NEW f \in Seq(Whole), NEW r \in Tails, file' = f \o r, size' = Len(f)
  PROVE  Items' = f
<1>1. /\ file' \in Seq(Rec) /\ Len(f) \in Nat
      /\ \A i \in 1..Len(f) : file'[i] = f[i] /\ file'[i] \notin Torn
  BY Built
<1>2. Readable(size)' = Len(f)
  <2>1. (Desc => Readable(size) = IF size > 0 /\ file[size] \in Torn THEN size - 1 ELSE size)'
    BY ReadableHere, PTL
  <2> QED
    BY <1>1, <2>1
<1>3. Items' = SubSeq(file', 1, Len(f))
  BY <1>2 DEF Items
<1>4. \A i \in 1..Len(f) : file'[i] \in Whole
  BY <1>1
<1>5. /\ Items' \in Seq(Whole) /\ Len(Items') = Len(f)
      /\ \A i \in 1..Len(f) : Items'[i] = f[i]
  BY <1>1, <1>3, <1>4, SubSeqProperties
<1> QED
  BY <1>5, SeqEqual

LEMMA WriteMaps ==
  ASSUME DInv, WriteGoesOn, DInv' PROVE T!Next
<1>1. Kinds /\ task # "none" /\ AppendWhole(Op.rec) /\ Desc /\ Desc'
  BY DEF WriteGoesOn, DInv
<1>2. Op.rec \in Whole
  BY <1>1, OpIs
<1>3. PICK r \in Tails : file' = Appended(Op.rec) \o r
  BY <1>1, <1>2, WroteWhole
<1>4. size' = pos + 1 /\ pos' = pos + 1 /\ out' = <<"ok">>
  BY <1>1, <1>2, WroteWhole
<1>5. Appended(Op.rec) \in Seq(Whole) /\ Len(Appended(Op.rec)) = pos + 1
  BY <1>1, <1>2, AppendedIs
<1>6. Items' = Append(SubSeq(Items, 1, pos), Op.rec)
  BY <1>1, <1>3, <1>4, <1>5, BuiltItems, ItemsAre DEF Appended
<1>7. T!Write(Op.rec)
  BY <1>4, <1>6 DEF T!Write, Items
<1> QED
  BY <1>2, <1>7 DEF T!Next, Whole

LEMMA FullMaps == ASSUME WriteFull PROVE T!Next
BY SameItems, Refuses DEF WriteFull, AppendFull

LEMMA FailMaps ==
  ASSUME DInv, WriteFails, DInv' PROVE T!Next
<1>1. Kinds /\ task # "none" /\ AppendFails(Op.rec) /\ Desc /\ Desc'
  BY DEF WriteFails, DInv
<1>2. Op.rec \in Whole
  BY <1>1, OpIs
<1>3. /\ pos' = pos /\ out' = <<"error">>
      /\ \/ file' = file /\ size' = size
         \/ size' = pos /\ \E r \in Tails : file' = SubSeq(file, 1, pos) \o r
  BY <1>1, <1>2, WroteNot
<1>4. CASE file' = file /\ size' = size
  BY <1>3, <1>4, SameItems, Refuses
<1>5. CASE size' = pos /\ \E r \in Tails : file' = SubSeq(file, 1, pos) \o r
  <2>1. PICK r \in Tails : file' = SubSeq(file, 1, pos) \o r
    BY <1>5
  <2>2. SubSeq(file, 1, pos) \in Seq(Whole) /\ Len(SubSeq(file, 1, pos)) = pos
    BY <1>1, Before
  <2>3. Items' = SubSeq(Items, 1, pos)
    <3> DEFINE f == SubSeq(file, 1, pos)
    <3>1. f \in Seq(Whole) /\ file' = f \o r /\ size' = Len(f)
      BY <1>5, <2>1, <2>2
    <3>2. SubSeq(Items, 1, pos) = f
      BY <1>1, ItemsAre
    <3> HIDE DEF f
    <3> QED
      BY <1>1, <3>1, <3>2, BuiltItems
  <2>4. T!WriteSpoils
    BY <1>3, <2>3 DEF T!WriteSpoils, Items
  <2> QED
    BY <2>4 DEF T!Next
<1> QED
  BY <1>3, <1>4, <1>5

LEMMA ReadMaps == ASSUME Desc, ReadBlock PROVE T!Next
<1>1. Items' = Items
  BY SameItems DEF ReadBlock
<1>2. /\ Len(Items) = Readable(size) /\ Readable(size) \in Nat /\ pos \in 0..Readable(size)
      /\ \A i \in 1..Readable(size) : Items[i] = file[i]
  BY ItemsAre
<1>3. CASE pos' = pos /\ out' \in {<<"eof">>, <<"error">>} /\ pos = Readable(size)
  <2>1. ~(pos < Len(Items))
    BY <1>2, <1>3
  <2>2. T!ReadBlock
    BY <1>1, <1>3, <2>1 DEF T!ReadBlock, Items
  <2> QED
    BY <2>2 DEF T!Next
<1>4. CASE /\ pos < Readable(size) /\ pos' = pos + 1
           /\ out' = IF file[pos + 1] = Mark THEN <<"eof">> ELSE file[pos + 1]
  <2>1. pos < Len(Items) /\ Items[pos + 1] = file[pos + 1]
    BY <1>2, <1>4
  <2>2. T!ReadBlock
    BY <1>1, <1>4, <2>1 DEF T!ReadBlock, Items
  <2> QED
    BY <2>2 DEF T!Next
<1> QED
  BY <1>3, <1>4, ReadBlockIs

LEMMA SameCardinality == \A S : T!Cardinality(S) = Cardinality(S)
BY DEF T!Cardinality, Cardinality, T!IsFiniteSet, IsFiniteSet

LEMMA SpaceMaps ==
  ASSUME Desc, NEW n, ForwardFilemarks(n) \/ BackwardFilemarks(n) \/ RewindTape
  PROVE  T!Next
<1>1. Items' = Items
  BY SameItems DEF ForwardFilemarks, BackwardFilemarks, RewindTape, MoveTo
<1>2. /\ Len(Items) = Readable(size) /\ Readable(size) \in Nat /\ pos \in 0..Readable(size)
      /\ \A i \in 1..Readable(size) : Items[i] = file[i]
      /\ DOMAIN Items = 1..Readable(size)
  BY ItemsAre
<1>3. T!MarkPositions = {i \in 1..Readable(size) : file[i] = Mark}
  BY <1>2 DEF T!MarkPositions, Items
<1>4. /\ {i \in T!MarkPositions : i > pos} = MarksFrom(pos)
      /\ {i \in T!MarkPositions : i <= pos} = MarksBack(pos)
  <2>1. ASSUME NEW i PROVE i \in {j \in T!MarkPositions : j > pos} <=> i \in MarksFrom(pos)
    BY <1>2, <1>3 DEF MarksFrom
  <2>2. ASSUME NEW i PROVE i \in {j \in T!MarkPositions : j <= pos} <=> i \in MarksBack(pos)
    BY <1>2, <1>3 DEF MarksBack
  <2> QED
    BY <2>1, <2>2
<1>5. /\ IsFiniteSet(MarksFrom(pos)) /\ IsFiniteSet(MarksBack(pos))
      /\ MarksFrom(pos) \in SUBSET Nat /\ MarksBack(pos) \in SUBSET Nat
  BY <1>2, MarksFinite
<1>6. CASE RewindTape
  BY <1>1, <1>6 DEF RewindTape, T!Next, T!Rewind, Items
<1>7. ASSUME NEW i, MoveTo(i), i = 0 PROVE T!Next
  BY <1>1, <1>7, Refuses DEF MoveTo
<1>8. ASSUME ForwardFilemarks(n), NthMark(pos, n) # 0 PROVE T!Next
  <2> DEFINE i == NthMark(pos, n)
             S == MarksFrom(pos)
  <2>1. i \in S /\ Cardinality({j \in S : j <= i}) = n
    BY <1>2, <1>8, NthMarkIs
  <2>2. \A k \in S : Cardinality({j \in S : j <= k}) = n => k = i
    <3>1. pos \in Nat
      BY <1>2
    <3> QED
      BY <3>1, NthMarkIs
  <2> HIDE DEF i
  <2>3. n \in Nat /\ n <= Cardinality(S) /\ n > 0 /\ Cardinality(S) <= Len(Items)
    <3>1. {j \in S : j <= i} \in SUBSET S /\ i \in {j \in S : j <= i} /\ S \in SUBSET (1..Readable(size))
      BY <1>2, <1>5, <2>1 DEF MarksFrom
    <3>2. IsFiniteSet(1..Readable(size)) /\ Cardinality(1..Readable(size)) = Readable(size)
      BY <1>2, FS_Interval
    <3> DEFINE U == {j \in S : j <= i}
    <3> HIDE DEF U, S
    <3>3. Cardinality(U) \in Nat /\ Cardinality(U) <= Cardinality(S) /\ Cardinality(U) # 0
      BY <1>5, <3>1, FS_Subset, FS_CardinalityType, FS_EmptySet DEF U, S
    <3>4. Cardinality(S) <= Readable(size) /\ Cardinality(S) \in Nat
      BY <1>5, <3>1, <3>2, FS_Subset, FS_CardinalityType DEF S
    <3> QED
      BY <1>2, <2>1, <3>3, <3>4 DEF U
  <2>4. T!Ahead(n) = i
    <3> DEFINE M == {j \in T!MarkPositions : j > pos}
    <3>1. M = S
      BY <1>4
    <3>2. T!Ahead(n) = IF T!Cardinality(M) < n THEN 0
                       ELSE CHOOSE k \in M : T!Cardinality({j \in M : j <= k}) = n
      BY DEF T!Ahead
    <3>3. Cardinality(S) \in Nat
      BY <1>5, FS_CardinalityType
    <3> HIDE DEF S, M
    <3>4. ~(T!Cardinality(M) < n)
      BY <2>3, <3>1, <3>3, SameCardinality
    <3>5. i \in M /\ T!Cardinality({j \in M : j <= i}) = n
      BY <2>1, <3>1, SameCardinality
    <3>6. \A k \in M : T!Cardinality({j \in M : j <= k}) = n => k = i
      BY <2>2, <3>1, SameCardinality
    <3> QED
      BY <3>2, <3>4, <3>5, <3>6
  <2>5. T!ForwardFilemarks(n)
    BY <1>1, <1>8, <2>4 DEF T!ForwardFilemarks, T!SpaceTo, ForwardFilemarks, MoveTo, Items, i
  <2>6. n \in 1..(Len(Items) + 1)
    BY <1>2, <1>5, <2>3, FS_CardinalityType
  <2> QED
    BY <2>5, <2>6 DEF T!Next, Items
<1>9. ASSUME BackwardFilemarks(n), NthMarkBack(n) # 0 PROVE T!Next
  <2> DEFINE i == NthMarkBack(n)
             S == MarksBack(pos)
  <2>1. i \in S /\ Cardinality({j \in S : j >= i}) = n
    BY <1>9, NthMarkBackIs
  <2>2. \A k \in S : Cardinality({j \in S : j >= k}) = n => k = i
    BY NthMarkBackIs
  <2> HIDE DEF i
  <2>3. n \in Nat /\ n <= Cardinality(S) /\ n > 0 /\ Cardinality(S) <= Len(Items)
    <3>1. {j \in S : j >= i} \in SUBSET S /\ i \in {j \in S : j >= i} /\ S \in SUBSET (1..Readable(size))
      BY <1>2, <1>5, <2>1 DEF MarksBack
    <3>2. IsFiniteSet(1..Readable(size)) /\ Cardinality(1..Readable(size)) = Readable(size)
      BY <1>2, FS_Interval
    <3> DEFINE U == {j \in S : j >= i}
    <3> HIDE DEF U, S
    <3>3. Cardinality(U) \in Nat /\ Cardinality(U) <= Cardinality(S) /\ Cardinality(U) # 0
      BY <1>5, <3>1, FS_Subset, FS_CardinalityType, FS_EmptySet DEF U, S
    <3>4. Cardinality(S) <= Readable(size) /\ Cardinality(S) \in Nat
      BY <1>5, <3>1, <3>2, FS_Subset, FS_CardinalityType DEF S
    <3> QED
      BY <1>2, <2>1, <3>3, <3>4 DEF U
  <2>4. T!Behind(n) = i
    <3> DEFINE M == {j \in T!MarkPositions : j <= pos}
    <3>1. M = S
      BY <1>4
    <3>2. T!Behind(n) = IF T!Cardinality(M) < n THEN 0
                       ELSE CHOOSE k \in M : T!Cardinality({j \in M : j >= k}) = n
      BY DEF T!Behind
    <3>3. Cardinality(S) \in Nat
      BY <1>5, FS_CardinalityType
    <3> HIDE DEF S, M
    <3>4. ~(T!Cardinality(M) < n)
      BY <2>3, <3>1, <3>3, SameCardinality
    <3>5. i \in M /\ T!Cardinality({j \in M : j >= i}) = n
      BY <2>1, <3>1, SameCardinality
    <3>6. \A k \in M : T!Cardinality({j \in M : j >= k}) = n => k = i
      BY <2>2, <3>1, SameCardinality
    <3> QED
      BY <3>2, <3>4, <3>5, <3>6
  <2>5. T!BackwardFilemarks(n)
    BY <1>1, <1>9, <2>4 DEF T!BackwardFilemarks, T!SpaceTo, BackwardFilemarks, MoveTo, Items, i
  <2>6. n \in 1..(Len(Items) + 1)
    BY <1>2, <1>5, <2>3, FS_CardinalityType
  <2> QED
    BY <2>5, <2>6 DEF T!Next, Items
<1> QED
  BY <1>6, <1>7, <1>8, <1>9 DEF ForwardFilemarks, BackwardFilemarks

LEMMA MoveOrReadMaps == ASSUME DInv, MoveOrRead PROVE T!Next
<1>1. CASE Op.op \in {"rewind", "forward", "backward"}
  <2>1. RewindTape \/ ForwardFilemarks(Op.n) \/ BackwardFilemarks(Op.n)
    BY <1>1 DEF MoveOrRead, TapeStep
  <2> QED
    BY <2>1, SpaceMaps DEF DInv
<1>2. CASE Op.op \notin {"rewind", "forward", "backward"}
  <2>1. ReadBlock
    BY <1>2 DEF MoveOrRead, TapeStep
  <2> QED
    BY <2>1, ReadMaps DEF DInv
<1> QED
  BY <1>1, <1>2

LEMMA StepMaps == DInv /\ DInv' /\ [Next]_vars => [T!Next]_<<Items, pos, out>>
<1> SUFFICES ASSUME DInv, DInv', [Next]_vars PROVE T!Next \/ UNCHANGED <<Items, pos, out>>
  OBVIOUS
<1>1. CASE UNCHANGED <<file, size, pos, out>>
  BY <1>1, SameItems
<1>2. CASE Kill \/ StartFormat \/ StartBackup \/ StartRead \/ DedupGivesUp \/ UNCHANGED vars
  <2>1. UNCHANGED <<file, size, pos, out>>
    BY <1>2 DEF Kill, StartFormat, StartBackup, StartRead, Start, DedupGivesUp, tapeVars, vars
  <2> QED
    BY <1>1, <2>1
<1> QED
  BY <1>2, OpenMaps, WriteMaps, FullMaps, FailMaps, MoveOrReadMaps DEF Next

\* A tape in a file keeps the promise of port.Tape, in the form of the double
\* that the use cases are tested against, whatever fails and whenever the
\* process dies (filetape against internal/port/tape.go and FakeTape).
THEOREM FileIsATape == Spec => ImplementsTape
<1>1. Init => T!Init
  <2>1. SUFFICES ASSUME Init PROVE T!Init
    OBVIOUS
  <2>2. DInv /\ file = <<>> /\ size = 0 /\ pos = 0 /\ out = <<"none">>
    BY <2>1, DInit DEF Init
  <2>3. Len(Items) = 0 /\ Items \in Seq(Whole)
    BY <2>2, ItemsAre, ReadableFacts DEF DInv
  <2> QED
    BY <2>2, <2>3 DEF T!Init, Items
<1>2. DInv /\ DInv' /\ [Next]_vars => [T!Next]_<<Items, pos, out>>
  BY StepMaps
<1> QED
  BY <1>1, <1>2, DInvariant, ItemsOpen, PTL DEF Spec, ImplementsTape

-----------------------------------------------------------------------------
(* The sessions on the tape, and what a program at work relies on.         *)
(*                                                                         *)
(* That the sessions are kept is not inductive: a part is written where    *)
(* the head is, and it is the program that has put it there.  Course says  *)
(* for each program where the head is at each of its operations, and what  *)
(* it has written so far.                                                  *)

\* A label and the sessions d.
Com(d) == <<Label, Mark>> \o FlattenSeq([i \in DOMAIN d |-> Segments(d[i])])

Part(s) == Segments(s) \o <<Mark, Mark>>
Begin == <<Label, Mark, Mark>>

Then(x, q) == <<x>> \o q
Jump == Forward(2 * Len(done) + 1)
LookBack(q) == Then(Backward(3), Then(ReadFile, Then(Forward(1), q)))
Program(look, recs) == IF look THEN LookBack(WriteAll(recs)) ELSE WriteAll(recs)

\* The head p is behind b and the first j of recs, which it has written into
\* the file f; the program t is going to write the others.
WritesIn(b, recs, t, p, f, z) ==
  \E j \in 0..(Len(recs) - 1) :
    /\ t = WriteAll(SubSeq(recs, j + 1, Len(recs)))
    /\ p = Len(b) + j
    /\ SubSeq(f, 1, p) = b \o SubSeq(recs, 1, j)
    /\ j > 0 => z = p

Writes(b, recs) == WritesIn(b, recs, todo, pos, file, size)

\* On the way to the place behind the sessions, before a look back or with
\* none to come; a backup that goes there again has seen the sessions.
Seeks(recs) ==
  \E look \in BOOLEAN :
    /\ look => done # <<>>
    /\ (task = "backup" /\ done # <<>> /\ ~look) => Len(Com(done)) <= size
    /\ \/ todo = Then(Rewind, Then(Jump, Program(look, recs)))
       \/ todo = Then(Jump, Program(look, recs)) /\ pos = 0

\* Where the last session begins.
LastStart == Len(Com(done)) - Len(Segments(done[Len(done)]))

\* Looking back at the last session.
Looks(recs) ==
  /\ done # <<>> /\ Len(Com(done)) <= size
  /\ \/ todo = LookBack(WriteAll(recs)) /\ pos = Len(Com(done))
     \/ /\ todo = Then(ReadFile, Then(Forward(1), WriteAll(recs)))
        /\ pos \in {LastStart, LastStart + 1}
     \/ todo = Then(Forward(1), WriteAll(recs)) /\ pos = LastStart + 2

Behind(recs) == Seeks(recs) \/ Looks(recs) \/ Writes(Com(done), recs)

Formats ==
  \/ todo = Then(Rewind, Then(ReadOne, Then(Rewind, WriteAll(Begin))))
  \/ todo = Then(ReadOne, Then(Rewind, WriteAll(Begin)))
  \/ todo = Then(Rewind, WriteAll(Begin))
  \/ Writes(<<>>, Begin)

Course ==
  /\ task = "format" => Formats
  /\ task = "backup" =>
       \E tar \in 1..MaxTar : Behind(Part([id |-> count.run, tar |-> tar]))
  /\ task = "undo" => Behind(<<Mark, Mark>>)
  /\ task = "read" => \A i \in 1..Len(todo) : todo[i].op # "write"
  /\ task \in {"backup", "undo"} => labelled

\* The sessions have the numbers of earlier attempts.
Numbered ==
  /\ done \in Seq(Sessions) /\ count.run <= MaxRuns
  /\ \A i \in 1..Len(done) : done[i].id <= count.run /\ (task = "backup" => done[i].id < count.run)
  /\ task = "backup" => count.run > 0

\* Something torn is the remains of a write that failed.
Honest == count.fail = 0 => \A i \in 1..Len(file) : file[i] \notin Torn

PInv ==
  /\ SessionsKept /\ SettledTapeIsWhole /\ (settled => labelled)
  /\ Honest /\ Numbered /\ Course

LEMMA ThenIs ==
  ASSUME NEW x \in Operations, NEW q \in Seq(Operations)
  PROVE  /\ Then(x, q) \in Seq(Operations) /\ Len(Then(x, q)) = Len(q) + 1
         /\ Head(Then(x, q)) = x /\ Tail(Then(x, q)) = q /\ Then(x, q)[1] = x
         /\ \A i \in 1..Len(q) : Then(x, q)[i + 1] = q[i]
<1> DEFINE t == <<x>> \o q
<1>1. <<x>> \in Seq(Operations) /\ Len(<<x>>) = 1 /\ <<x>>[1] = x /\ Len(q) \in Nat
  OBVIOUS
<1>2. /\ t \in Seq(Operations) /\ Len(t) = Len(<<x>>) + Len(q)
      /\ \A i \in 1..(Len(<<x>>) + Len(q)) : t[i] = IF i <= Len(<<x>>) THEN <<x>>[i] ELSE q[i - Len(<<x>>)]
  BY <1>1, ConcatProperties
<1> HIDE DEF t
<1>3. Len(t) = Len(q) + 1 /\ \A i \in 1..(Len(q) + 1) : t[i] = IF i <= 1 THEN x ELSE q[i - 1]
  BY <1>1, <1>2
<1>4. t[1] = x /\ t # <<>>
  <2>1. 1 \in 1..(Len(q) + 1)
    BY <1>1
  <2>2. Len(t) # 0
    BY <1>1, <1>3
  <2> QED
    BY <1>3, <2>1, <2>2
<1>5. Head(t) = x
  BY <1>2, <1>4
<1>6. /\ Tail(t) \in Seq(Operations) /\ Len(Tail(t)) = Len(t) - 1
      /\ \A i \in 1..Len(Tail(t)) : Tail(t)[i] = t[i + 1]
  BY <1>2, <1>4, HeadTailProperties
<1>7. Len(Tail(t)) = Len(q) /\ \A i \in 1..Len(q) : Tail(t)[i] = q[i]
  <2>1. Len(Tail(t)) = Len(q)
    BY <1>1, <1>3, <1>6
  <2>2. ASSUME NEW i \in 1..Len(q) PROVE Tail(t)[i] = q[i]
    <3>1. i + 1 \in 1..(Len(q) + 1) /\ ~(i + 1 <= 1) /\ (i + 1) - 1 = i
      BY <1>1
    <3>2. t[i + 1] = q[(i + 1) - 1]
      BY <1>3, <3>1
    <3>3. Tail(t)[i] = t[i + 1]
      BY <1>6, <2>1
    <3> QED
      BY <3>1, <3>2, <3>3
  <2> QED
    BY <2>1, <2>2
<1>8. Tail(t) = q
  BY <1>6, <1>7, SeqEqual
<1>9. \A i \in 1..Len(q) : t[i + 1] = q[i]
  BY <1>6, <1>7
<1> QED
  BY <1>2, <1>3, <1>4, <1>5, <1>8, <1>9 DEF Then, t

LEMMA PrefixIs ==
  ASSUME NEW S, NEW s \in Seq(S), NEW t \in Seq(S)
  PROVE  IsPrefix(s, t) <=> Len(s) <= Len(t) /\ \A i \in 1..Len(s) : s[i] = t[i]
<1>1. Len(s) \in Nat /\ Len(t) \in Nat /\ (\A i \in 1..Len(s) : s[i] \in S) /\ (\A i \in 1..Len(t) : t[i] \in S)
  OBVIOUS
<1>2. SubSeq(s, 1, Len(s)) = s
  BY <1>1, SubSeqFull
<1>3. SUFFICES ASSUME Len(s) <= Len(t)
      PROVE  s = SubSeq(t, 1, Len(s)) <=> \A i \in 1..Len(s) : s[i] = t[i]
  BY <1>2 DEF IsPrefix
<1> DEFINE u == SubSeq(t, 1, Len(s))
<1>4. u \in Seq(S) /\ Len(u) = Len(s) /\ \A i \in 1..Len(s) : u[i] = t[i]
  BY <1>1, <1>3, SubSeqProperties
<1> HIDE DEF u
<1>5. s = u <=> \A i \in 1..Len(s) : s[i] = u[i]
  BY <1>4, SeqEqual
<1> QED
  BY <1>4, <1>5 DEF u

LEMMA PrefixOfConcat ==
  ASSUME NEW S, NEW s \in Seq(S), NEW t \in Seq(S)
  PROVE  IsPrefix(s, s \o t) /\ SubSeq(s \o t, Len(s) + 1, Len(s \o t)) = t
<1> DEFINE c == s \o t
<1>1. /\ c \in Seq(S) /\ Len(c) = Len(s) + Len(t) /\ Len(s) \in Nat /\ Len(t) \in Nat
      /\ \A i \in 1..(Len(s) + Len(t)) : c[i] = IF i <= Len(s) THEN s[i] ELSE t[i - Len(s)]
  BY ConcatProperties
<1> HIDE DEF c
<1>2. Len(s) <= Len(c) /\ \A i \in 1..Len(s) : s[i] = c[i]
  BY <1>1
<1>3. IsPrefix(s, c)
  BY <1>1, <1>2, PrefixIs
<1> DEFINE u == SubSeq(c, Len(s) + 1, Len(c))
<1>4. /\ u \in Seq(S)
      /\ Len(u) = IF Len(s) + 1 <= Len(c) THEN Len(c) - (Len(s) + 1) + 1 ELSE 0
      /\ \A i \in 1..(Len(c) - (Len(s) + 1) + 1) : u[i] = c[Len(s) + 1 + i - 1]
  <2>1. \A i \in (Len(s) + 1)..Len(c) : c[i] \in S
    BY <1>1
  <2> QED
    BY <1>1, <2>1, SubSeqProperties
<1> HIDE DEF u
<1>5. Len(u) = Len(t) /\ \A i \in 1..Len(t) : u[i] = t[i]
  <2>1. Len(u) = Len(t) /\ Len(c) - (Len(s) + 1) + 1 = Len(t)
    BY <1>1, <1>4
  <2>2. ASSUME NEW i \in 1..Len(t) PROVE u[i] = t[i]
    <3>1. /\ Len(s) + 1 + i - 1 = Len(s) + i /\ Len(s) + i \in 1..(Len(s) + Len(t))
          /\ ~(Len(s) + i <= Len(s)) /\ (Len(s) + i) - Len(s) = i
      BY <1>1
    <3>2. u[i] = c[Len(s) + i]
      BY <1>4, <2>1, <3>1
    <3> QED
      BY <1>1, <3>1, <3>2
  <2> QED
    BY <2>1, <2>2
<1>6. u = t
  BY <1>4, <1>5, SeqEqual
<1> QED
  BY <1>3, <1>6 DEF u, c

LEMMA BlocksDiffer ==
  /\ \A n : Index(n) # Mark
  /\ \A n, k : Tar(n, k) # Mark /\ Tar(n, k) # Label /\ Tar(n, k) \notin Torn
  /\ \A n, k, m : Tar(n, k) # Index(m)
  /\ \A n, k, m, l : Tar(n, k) = Tar(m, l) => n = m /\ k = l
<1>1. Mark[1] = "mark" /\ \A n, k : Tar(n, k)[1] = "data" /\ Index(n)[1] = "data"
  BY DEF Mark, Tar, Index
<1>2. Short[1] = "torn" /\ Long[1] = "torn"
  BY DEF Short, Long
<1>3. \A n, k : Tar(n, k)[3] = "tar" /\ Tar(n, k)[2] = n /\ Tar(n, k)[4] = k
  BY DEF Tar
<1>4. Label[3] = "label" /\ \A m : Index(m)[3] = "index"
  BY DEF Label, Index
<1>5. \A n : Index(n) # Mark
  BY <1>1
<1>6. \A n, k : Tar(n, k) # Mark /\ Tar(n, k) # Label /\ Tar(n, k) \notin Torn
  BY <1>1, <1>2, <1>3, <1>4 DEF Torn
<1>7. \A n, k, m : Tar(n, k) # Index(m)
  BY <1>3, <1>4
<1>8. ASSUME NEW n, NEW k, NEW m, NEW l, Tar(n, k) = Tar(m, l) PROVE n = m /\ k = l
  BY <1>3, <1>8
<1> QED
  BY <1>5, <1>6, <1>7, <1>8

LEMMA MarksAre == Mark \in Whole /\ Label \in Whole /\ <<Label, Mark>> \in Seq(Whole) /\ Begin \in Seq(Whole)
<1>1. Mark \in Whole /\ Label \in Whole
  BY DEF Whole, Blocks
<1> QED
  BY <1>1 DEF Begin

SegmentsOf(d) == [i \in DOMAIN d |-> Segments(d[i])]

LEMMA SegmentsOfType ==
  ASSUME NEW d \in Seq(Sessions)
  PROVE  SegmentsOf(d) \in Seq(Seq(Whole)) /\ Len(SegmentsOf(d)) = Len(d)
<1>1. Len(d) \in Nat /\ DOMAIN d = 1..Len(d) /\ \A i \in 1..Len(d) : d[i] \in Sessions
  OBVIOUS
<1>2. \A i \in 1..Len(d) : Segments(d[i]) \in Seq(Whole)
  BY <1>1, SegmentsAre
<1>3. SegmentsOf(d) = [i \in 1..Len(d) |-> Segments(d[i])]
  BY <1>1 DEF SegmentsOf
<1> QED
  BY <1>1, <1>2, <1>3

LEMMA ComType == ASSUME NEW d \in Seq(Sessions) PROVE Com(d) \in Seq(Whole)
<1>1. FlattenSeq(SegmentsOf(d)) \in Seq(Whole)
  BY SegmentsOfType, FlattenType
<1>2. Com(d) = <<Label, Mark>> \o FlattenSeq(SegmentsOf(d))
  BY DEF Com, SegmentsOf
<1> QED
  BY <1>1, <1>2, MarksAre, ConcatProperties

LEMMA ComBegins == Com(<<>>) = <<Label, Mark>>
<1>1. SegmentsOf(<<>>) = <<>>
  BY DEF SegmentsOf
<1>2. FlattenSeq(SegmentsOf(<<>>)) = <<>>
  BY <1>1 DEF FlattenSeq
<1>3. <<Label, Mark>> \o <<>> = <<Label, Mark>>
  BY MarksAre, ConcatEmptySeq
<1>4. Com(<<>>) = <<Label, Mark>> \o FlattenSeq(SegmentsOf(<<>>))
  BY DEF Com, SegmentsOf
<1> QED
  BY <1>2, <1>3, <1>4

LEMMA ComGrows ==
  ASSUME NEW d \in Seq(Sessions), NEW s \in Sessions
  PROVE  Com(Append(d, s)) = Com(d) \o Segments(s)
<1>1. SegmentsOf(Append(d, s)) = Append(SegmentsOf(d), Segments(s))
  <2> DEFINE e == Append(d, s)
             a == SegmentsOf(e)
             b == Append(SegmentsOf(d), Segments(s))
  <2>1. /\ e \in Seq(Sessions) /\ Len(e) = Len(d) + 1 /\ e[Len(d) + 1] = s /\ Len(d) \in Nat
        /\ \A i \in 1..Len(d) : e[i] = d[i]
    OBVIOUS
  <2> HIDE DEF e
  <2>2. a \in Seq(Seq(Whole)) /\ Len(a) = Len(d) + 1
    BY <2>1, SegmentsOfType
  <2>3. SegmentsOf(d) \in Seq(Seq(Whole)) /\ Len(SegmentsOf(d)) = Len(d) /\ Segments(s) \in Seq(Whole)
    BY SegmentsOfType, SegmentsAre
  <2>4. /\ b \in Seq(Seq(Whole)) /\ Len(b) = Len(d) + 1 /\ b[Len(d) + 1] = Segments(s)
        /\ \A i \in 1..Len(d) : b[i] = SegmentsOf(d)[i]
    BY <2>3, AppendProperties
  <2>5. (\A i \in 1..Len(d) : SegmentsOf(d)[i] = Segments(d[i]))
        /\ (\A i \in 1..(Len(d) + 1) : a[i] = Segments(e[i]))
    <3>1. DOMAIN d = 1..Len(d) /\ DOMAIN e = 1..(Len(d) + 1)
      BY <2>1
    <3> QED
      BY <3>1 DEF SegmentsOf
  <2>6. \A i \in 1..(Len(d) + 1) : a[i] = b[i]
    <3>1. ASSUME NEW i \in 1..(Len(d) + 1) PROVE a[i] = b[i]
      <4>1. i \in 1..Len(d) \/ i = Len(d) + 1
        BY <2>1
      <4> QED
        BY <2>1, <2>4, <2>5, <4>1
    <3> QED
      BY <3>1
  <2> HIDE DEF a, b
  <2>7. a = b
    BY <2>2, <2>4, <2>6, SeqEqual
  <2> QED
    BY <2>7 DEF a, b, e
<1> DEFINE f == FlattenSeq(SegmentsOf(d))
           l == <<Label, Mark>>
<1>2. f \in Seq(Whole) /\ l \in Seq(Whole) /\ Segments(s) \in Seq(Whole)
  BY SegmentsOfType, FlattenType, MarksAre, SegmentsAre
<1>3. FlattenSeq(SegmentsOf(Append(d, s))) = f \o Segments(s)
  BY <1>1, SegmentsOfType, SegmentsAre, FlattenAppend
<1>4. Com(Append(d, s)) = l \o FlattenSeq(SegmentsOf(Append(d, s))) /\ Com(d) = l \o f
  BY DEF Com, SegmentsOf
<1> HIDE DEF f, l
<1>5. l \o (f \o Segments(s)) = (l \o f) \o Segments(s)
  BY <1>2, ConcatAssociative, SMTT(60)
<1> QED
  BY <1>3, <1>4, <1>5

\* The end of what is committed.
LEMMA ComShape ==
  ASSUME NEW d \in Seq(Sessions), NEW s \in Sessions
  PROVE  LET c == Com(Append(d, s))
             n == Len(Com(d))
         IN  /\ n \in Nat /\ c \in Seq(Whole)
             /\ Len(c) = n + s.tar + 3 /\ Len(Segments(s)) = s.tar + 3 /\ s.tar \in Nat \ {0}
             /\ \A i \in 1..n : c[i] = Com(d)[i]
             /\ c[n + 1] = Index(s.id) /\ c[n + 2] = Mark
             /\ \A k \in 1..s.tar : c[n + 2 + k] = Tar(s.id, k)
             /\ c[n + s.tar + 3] = Mark
<1> DEFINE c == Com(d) \o Segments(s)
           n == Len(Com(d))
           g == Segments(s)
<1>1. Com(d) \in Seq(Whole) /\ n \in Nat
  BY ComType
<1>2. /\ g \in Seq(Whole) /\ Len(g) = s.tar + 3 /\ s.tar \in 1..MaxTar
      /\ g[1] = Index(s.id) /\ g[2] = Mark
      /\ \A k \in 1..s.tar : g[k + 2] = Tar(s.id, k)
      /\ g[s.tar + 3] = Mark
  BY SegmentsAre
<1> HIDE DEF g, n
<1>3. s.tar \in Nat \ {0}
  <2>1. MaxTar \in Nat
    BY FileTapeAssumption
  <2> QED
    BY <1>2, <2>1
<1>4. /\ c \in Seq(Whole) /\ Len(c) = n + Len(g)
      /\ \A i \in 1..(n + Len(g)) : c[i] = IF i <= n THEN Com(d)[i] ELSE g[i - n]
  BY <1>1, <1>2, ConcatProperties DEF g, n
<1>5. Com(Append(d, s)) = c
  BY ComGrows
<1> HIDE DEF c
<1>6. \A i \in 1..(s.tar + 3) : c[n + i] = g[i]
  <2>1. ASSUME NEW i \in 1..(s.tar + 3) PROVE c[n + i] = g[i]
    <3>1. n + i \in 1..(n + Len(g)) /\ ~(n + i <= n) /\ (n + i) - n = i
      BY <1>1, <1>2, <1>3
    <3> QED
      BY <1>4, <3>1
  <2> QED
    BY <2>1
<1>7. \A i \in 1..n : c[i] = Com(d)[i]
  <2>1. \A i \in 1..n : i \in 1..(n + Len(g)) /\ i <= n
    BY <1>1, <1>2, <1>3
  <2> QED
    BY <1>4, <2>1
<1>8. c[n + 1] = Index(s.id) /\ c[n + 2] = Mark /\ c[n + (s.tar + 3)] = Mark
  BY <1>2, <1>3, <1>6
<1>9. ASSUME NEW k \in 1..s.tar PROVE c[n + 2 + k] = Tar(s.id, k)
  <2>1. k + 2 \in 1..(s.tar + 3) /\ n + (k + 2) = n + 2 + k
    BY <1>1, <1>3
  <2> QED
    BY <1>2, <1>6, <2>1
<1>10. n + (s.tar + 3) = n + s.tar + 3 /\ Len(c) = n + s.tar + 3
  BY <1>1, <1>2, <1>3, <1>4
<1>11. c[n + s.tar + 3] = Mark
  BY <1>8, <1>10
<1> QED
  BY <1>1, <1>2, <1>3, <1>4, <1>5, <1>7, <1>8, <1>9, <1>10, <1>11 DEF n, g

MarksOf(c) == {i \in 1..Len(c) : c[i] = Mark}

\* What is committed is read off by its marks: one after the label and two
\* for each session, the last at the end.
WellMarked(d) ==
  LET c == Com(d)
  IN  /\ IsFiniteSet(MarksOf(c)) /\ MarksOf(c) \in SUBSET Nat
      /\ Cardinality(MarksOf(c)) = 2 * Len(d) + 1
      /\ Len(c) \in MarksOf(c)

LEMMA WellMarkedGrows ==
  ASSUME NEW d \in Seq(Sessions), NEW s \in Sessions, WellMarked(d)
  PROVE  WellMarked(Append(d, s))
<1> DEFINE n == Len(Com(d))
           c == Com(Append(d, s))
           M == MarksOf(Com(d))
           m == n + 2
           z == n + s.tar + 3
<1>1. /\ n \in Nat /\ c \in Seq(Whole) /\ s.tar \in Nat \ {0}
      /\ Len(c) = n + s.tar + 3
      /\ \A i \in 1..n : c[i] = Com(d)[i]
      /\ c[n + 1] = Index(s.id) /\ c[n + 2] = Mark
      /\ \A k \in 1..s.tar : c[n + 2 + k] = Tar(s.id, k)
      /\ c[n + s.tar + 3] = Mark
  BY ComShape
<1>2. IsFiniteSet(M) /\ M \in SUBSET Nat /\ Cardinality(M) = 2 * Len(d) + 1 /\ M = {i \in 1..n : Com(d)[i] = Mark}
  BY DEF WellMarked, MarksOf
<1> HIDE DEF n, c, M
<1>3. MarksOf(c) = (M \cup {m}) \cup {z}
  <2>1. ASSUME NEW i \in MarksOf(c) PROVE i \in (M \cup {m}) \cup {z}
    <3>1. i \in 1..(n + s.tar + 3) /\ c[i] = Mark
      BY <1>1 DEF MarksOf
    <3>2. CASE i <= n
      <4>1. i \in 1..n
        BY <3>1, <3>2
      <4> QED
        BY <1>1, <1>2, <3>1, <4>1
    <3>3. CASE i = n + 1
      BY <1>1, <3>1, <3>3, BlocksDiffer
    <3>4. CASE i = m \/ i = z
      BY <3>4
    <3>5. CASE i > m /\ i < z
      <4>1. i \in Nat /\ n \in Nat /\ s.tar \in Nat /\ i > n + 2 /\ i < n + s.tar + 3
        BY <1>1, <3>1, <3>5
      <4>2. i - m \in 1..s.tar /\ n + 2 + (i - m) = i
        BY <4>1, SMTT(60)
      <4> QED
        BY <1>1, <3>1, <4>2, BlocksDiffer
    <3>6. i <= n \/ i = n + 1 \/ i = m \/ i = z \/ (i > m /\ i < z)
      BY <1>1, <3>1
    <3> QED
      BY <3>2, <3>3, <3>4, <3>5, <3>6
  <2>2. ASSUME NEW i \in M PROVE i \in MarksOf(c)
    <3>1. i \in 1..n /\ Com(d)[i] = Mark
      BY <1>2
    <3>2. i \in 1..(n + s.tar + 3)
      BY <1>1, <3>1
    <3> QED
      BY <1>1, <3>1, <3>2 DEF MarksOf
  <2>3. m \in MarksOf(c) /\ z \in MarksOf(c)
    <3>1. m \in 1..(n + s.tar + 3) /\ z \in 1..(n + s.tar + 3)
      BY <1>1
    <3> QED
      BY <1>1, <3>1 DEF MarksOf
  <2> QED
    BY <2>1, <2>2, <2>3
<1>4. m \notin M /\ z \notin M /\ m # z /\ m \in Nat /\ z \in Nat
  <2>1. \A i \in M : i <= n
    BY <1>1, <1>2
  <2>2. ~(m <= n) /\ ~(z <= n) /\ m # z /\ m \in Nat /\ z \in Nat
    BY <1>1
  <2> QED
    BY <2>1, <2>2
<1> HIDE DEF m, z
<1>5. IsFiniteSet(M \cup {m}) /\ Cardinality(M \cup {m}) = Cardinality(M) + 1
  BY <1>2, <1>4, FS_AddElement
<1>6. z \notin M \cup {m}
  BY <1>4
<1>7. /\ IsFiniteSet((M \cup {m}) \cup {z})
      /\ Cardinality((M \cup {m}) \cup {z}) = Cardinality(M \cup {m}) + 1
  BY <1>5, <1>6, FS_AddElement
<1>8. Len(d) \in Nat /\ Len(Append(d, s)) = Len(d) + 1
  OBVIOUS
<1>9. Cardinality(MarksOf(c)) = 2 * Len(Append(d, s)) + 1
  BY <1>2, <1>3, <1>5, <1>7, <1>8
<1>10. MarksOf(c) \in SUBSET Nat /\ Len(c) \in MarksOf(c)
  BY <1>1, <1>2, <1>3, <1>4 DEF z
<1> QED
  BY <1>3, <1>7, <1>9, <1>10 DEF WellMarked, c

LEMMA ComMarks == \A d \in Seq(Sessions) : WellMarked(d)
<1> DEFINE S == {n \in Nat : \A d \in Seq(Sessions) : Len(d) = n => WellMarked(d)}
<1>1. 0 \in S
  <2>1. ASSUME NEW d \in Seq(Sessions), Len(d) = 0 PROVE WellMarked(d)
    <3>1. d = <<>>
      BY <2>1
    <3> DEFINE c == <<Label, Mark>>
    <3>2. Len(c) = 2 /\ c[1] = Label /\ c[2] = Mark
      OBVIOUS
    <3>3. MarksOf(c) = {2}
      BY <3>2, RecFacts DEF MarksOf
    <3>4. IsFiniteSet({2}) /\ Cardinality({2}) = 1
      BY FS_Singleton
    <3>5. Com(d) = c
      BY <3>1, ComBegins
    <3> HIDE DEF c
    <3>6. 2 * Len(d) + 1 = 1 /\ {2} \in SUBSET Nat /\ 2 \in {2}
      BY <2>1
    <3> QED
      BY <3>2, <3>3, <3>4, <3>5, <3>6 DEF WellMarked
  <2> QED
    BY <2>1
<1>2. ASSUME NEW n \in Nat, n \in S PROVE n + 1 \in S
  <2>1. ASSUME NEW d \in Seq(Sessions), Len(d) = n + 1 PROVE WellMarked(d)
    <3>1. d # <<>>
      BY <2>1
    <3>2. PICK e \in Seq(Sessions), s \in Sessions : d = Append(e, s)
      BY <3>1, SequenceEmptyOrAppend
    <3>3. Len(e) = n
      <4>1. Len(Append(e, s)) = Len(e) + 1 /\ Len(e) \in Nat
        OBVIOUS
      <4> QED
        BY <2>1, <3>2, <4>1
    <3>4. WellMarked(e)
      BY <1>2, <3>3
    <3> QED
      BY <3>2, <3>4, WellMarkedGrows
  <2>2. n + 1 \in Nat
    OBVIOUS
  <2> QED
    BY <2>1, <2>2
<1> HIDE DEF S
<1>3. \A d \in Seq(Sessions) : Len(d) \in S
  BY <1>1, <1>2, AllNumbers
<1> QED
  BY <1>3 DEF S

\* The sessions' blocks carry their numbers.
OnlyOf(d) ==
  \A n, k : (\A i \in 1..Len(d) : d[i].id # n) => \A i \in 1..Len(Com(d)) : Com(d)[i] # Tar(n, k)

LEMMA ComOnlyOf == \A d \in Seq(Sessions) : OnlyOf(d)
<1> DEFINE S == {n \in Nat : \A d \in Seq(Sessions) : Len(d) = n => OnlyOf(d)}
<1>1. 0 \in S
  <2>1. ASSUME NEW d \in Seq(Sessions), Len(d) = 0 PROVE OnlyOf(d)
    <3>1. d = <<>>
      BY <2>1
    <3>2. Com(d) = <<Label, Mark>> /\ Len(Com(d)) = 2
      BY <3>1, ComBegins
    <3>3. \A i \in 1..2 : Com(d)[i] \in {Label, Mark}
      BY <3>2
    <3> QED
      BY <3>2, <3>3, BlocksDiffer DEF OnlyOf
  <2> QED
    BY <2>1
<1>2. ASSUME NEW m \in Nat, m \in S PROVE m + 1 \in S
  <2>1. ASSUME NEW d \in Seq(Sessions), Len(d) = m + 1 PROVE OnlyOf(d)
    <3>1. d # <<>>
      BY <2>1
    <3>2. PICK e \in Seq(Sessions), s \in Sessions : d = Append(e, s)
      BY <3>1, SequenceEmptyOrAppend
    <3>3. Len(e) = m /\ Len(e) \in Nat /\ d[m + 1] = s /\ \A i \in 1..m : d[i] = e[i]
      <4>1. Len(Append(e, s)) = Len(e) + 1 /\ Len(e) \in Nat
            /\ Append(e, s)[Len(e) + 1] = s /\ \A i \in 1..Len(e) : Append(e, s)[i] = e[i]
        OBVIOUS
      <4>2. Len(e) = m
        BY <2>1, <3>2, <4>1
      <4> QED
        BY <3>2, <4>1, <4>2
    <3>4. OnlyOf(e)
      BY <1>2, <3>3
    <3> DEFINE c == Com(d)
               n == Len(Com(e))
    <3>5. /\ n \in Nat /\ s.tar \in Nat \ {0}
          /\ Len(c) = n + s.tar + 3
          /\ \A i \in 1..n : c[i] = Com(e)[i]
          /\ c[n + 1] = Index(s.id) /\ c[n + 2] = Mark
          /\ \A k \in 1..s.tar : c[n + 2 + k] = Tar(s.id, k)
          /\ c[n + s.tar + 3] = Mark
      BY <3>2, ComShape
    <3> HIDE DEF c
    <3>6. ASSUME NEW x, NEW k, \A i \in 1..Len(d) : d[i].id # x, NEW i \in 1..Len(c), c[i] = Tar(x, k)
          PROVE  FALSE
      <4>1. s.id # x /\ \A j \in 1..Len(e) : e[j].id # x
        <5>1. m + 1 \in 1..Len(d) /\ \A j \in 1..m : j \in 1..Len(d)
          BY <2>1
        <5> QED
          BY <3>3, <3>6, <5>1
      <4>2. \A j \in 1..n : Com(e)[j] # Tar(x, k)
        BY <3>4, <4>1 DEF OnlyOf
      <4> HIDE DEF n
      <4>3. CASE i <= n
        <5>1. i \in 1..n
          BY <3>5, <4>3
        <5> QED
          BY <3>5, <3>6, <4>2, <5>1
      <4>4. CASE i = n + 1 \/ i = n + 2 \/ i = n + s.tar + 3
        BY <3>5, <3>6, <4>4, BlocksDiffer
      <4>5. CASE i > n + 2 /\ i < n + s.tar + 3
        <5>0. i \in Nat /\ n \in Nat /\ s.tar \in Nat
          BY <3>5
        <5>1. i - (n + 2) \in 1..s.tar /\ n + 2 + (i - (n + 2)) = i
          BY <4>5, <5>0
        <5>2. c[i] = Tar(s.id, i - (n + 2))
          BY <3>5, <5>1
        <5>3. Tar(s.id, i - (n + 2)) = Tar(x, k)
          BY <3>6, <5>2
        <5> QED
          BY <4>1, <5>3, BlocksDiffer
      <4>6. i <= n \/ i = n + 1 \/ i = n + 2 \/ i = n + s.tar + 3 \/ (i > n + 2 /\ i < n + s.tar + 3)
        BY <3>5
      <4> QED
        BY <4>3, <4>4, <4>5, <4>6
    <3> QED
      BY <3>6 DEF OnlyOf, c
  <2>2. m + 1 \in Nat
    OBVIOUS
  <2> QED
    BY <2>1, <2>2
<1> HIDE DEF S
<1>3. \A d \in Seq(Sessions) : Len(d) \in S
  BY <1>1, <1>2, AllNumbers
<1> QED
  BY <1>3 DEF S

LEMMA CommittedOnTape ==
  ASSUME Desc, done \in Seq(Sessions), SessionsKept, labelled
  PROVE  LET c == Com(done)
         IN  /\ c \in Seq(Whole) /\ Len(c) \in Nat /\ Len(c) <= Len(file)
             /\ \A i \in 1..Len(c) : file[i] = c[i]
             /\ SubSeq(file, 1, Len(c)) = c
<1> DEFINE c == Com(done)
<1>1. c \in Seq(Whole) /\ Len(c) \in Nat
  BY ComType
<1>2. c \in Seq(Rec) /\ file \in Seq(Rec)
  BY <1>1, SeqMonotonic DEF Rec, Desc, Records
<1>3. IsPrefix(c, file)
  BY DEF SessionsKept, Committed, Com
<1> HIDE DEF c
<1>4. Len(c) <= Len(file) /\ \A i \in 1..Len(c) : c[i] = file[i]
  BY <1>2, <1>3, PrefixIs
<1>5. SubSeq(file, 1, Len(c)) = SubSeq(c, 1, Len(c)) /\ SubSeq(c, 1, Len(c)) = c
  BY <1>2, <1>3, SubSeqFull DEF IsPrefix
<1> QED
  BY <1>1, <1>4, <1>5 DEF c

\* MTREW and MTFSF(2K+1), when they succeed, put the head behind the sessions.
LEMMA JumpIs ==
  ASSUME Desc, done \in Seq(Sessions), SessionsKept, labelled,
         NthMark(0, 2 * Len(done) + 1) # 0
  PROVE  NthMark(0, 2 * Len(done) + 1) = Len(Com(done)) /\ Len(Com(done)) <= size
<1> DEFINE c == Com(done)
           l == Len(c)
           m == NthMark(0, 2 * Len(done) + 1)
           k == 2 * Len(done) + 1
           S == {i \in 1..Len(file) : file[i] = Mark}
<1>1. /\ l \in Nat /\ l <= Len(file) /\ \A i \in 1..l : file[i] = c[i]
  BY CommittedOnTape
<1>2. /\ IsFiniteSet(MarksOf(c)) /\ Cardinality(MarksOf(c)) = k /\ l \in MarksOf(c)
  BY ComMarks DEF WellMarked
<1>3. m \in MarksFrom(0) /\ Cardinality({j \in MarksFrom(0) : j <= m}) = k
  <2>1. 0 \in Nat
    OBVIOUS
  <2> QED
    BY <2>1, NthMarkIs
<1>4. /\ Readable(size) \in 0..size /\ size \in 0..Len(file) /\ Len(file) \in Nat
  BY ReadableFacts DEF Desc, Head0, Records
<1> HIDE DEF m, c, l, k
<1>5. m \in 1..Readable(size) /\ m \in S /\ l \in S
  <2>1. m \in 1..Readable(size) /\ file[m] = Mark
    BY <1>3 DEF MarksFrom
  <2>2. m \in 1..Len(file)
    BY <1>4, <2>1
  <2>3. l \in 1..l /\ c[l] = Mark
    BY <1>2 DEF MarksOf, l
  <2>4. l \in 1..Len(file) /\ file[l] = Mark
    BY <1>1, <1>4, <2>3
  <2> QED
    BY <2>1, <2>2, <2>4
<1>6. {j \in MarksFrom(0) : j <= m} = {j \in S : j <= m}
  <2>1. ASSUME NEW j \in MarksFrom(0), j <= m PROVE j \in S
    <3>1. j \in 1..Readable(size) /\ file[j] = Mark
      BY DEF MarksFrom
    <3> QED
      BY <1>4, <3>1
  <2>2. ASSUME NEW j \in S, j <= m PROVE j \in MarksFrom(0)
    <3>1. j \in (0 + 1)..Readable(size) /\ file[j] = Mark
      BY <1>4, <1>5, <2>2
    <3> QED
      BY <3>1 DEF MarksFrom
  <2> QED
    BY <2>1, <2>2
<1>7. MarksOf(c) = {j \in S : j <= l}
  <2>1. ASSUME NEW j \in MarksOf(c) PROVE j \in S /\ j <= l
    <3>1. j \in 1..l /\ c[j] = Mark
      BY DEF MarksOf, l
    <3> QED
      BY <1>1, <1>4, <3>1
  <2>2. ASSUME NEW j \in S, j <= l PROVE j \in MarksOf(c)
    <3>1. j \in 1..l /\ file[j] = Mark
      BY <1>1, <1>4, <2>2
    <3> QED
      BY <1>1, <3>1 DEF MarksOf, l
  <2> QED
    BY <2>1, <2>2
<1>8. S \in SUBSET Nat /\ IsFiniteSet(S)
  <2>1. IsFiniteSet(1..Len(file)) /\ S \in SUBSET (1..Len(file))
    BY <1>4, FS_Interval
  <2>2. IsFiniteSet(S)
    <3> HIDE DEF S
    <3> QED
      BY <2>1, FS_Subset
  <2> QED
    BY <2>2
<1> HIDE DEF S
<1>9. m = l
  <2>1. Cardinality({j \in S : j <= m}) = Cardinality({j \in S : j <= l})
    BY <1>2, <1>3, <1>6, <1>7
  <2> QED
    BY <1>5, <1>8, <2>1, CountsDiffer
<1>10. l <= size
  BY <1>4, <1>5, <1>9
<1> QED
  BY <1>9, <1>10 DEF m, l, c, k

\* With the sessions before the end of what the descriptor believes in, the
\* search for the place behind them finds it.
LEMMA JumpFinds ==
  ASSUME Desc, done \in Seq(Sessions), SessionsKept, labelled, Len(Com(done)) <= size
  PROVE  NthMark(0, 2 * Len(done) + 1) # 0
<1> DEFINE c == Com(done)
           l == Len(c)
           k == 2 * Len(done) + 1
           S == {j \in MarksFrom(0) : j <= l}
<1>1. /\ l \in Nat /\ l <= Len(file) /\ \A i \in 1..l : file[i] = c[i]
  BY CommittedOnTape
<1>2. Cardinality(MarksOf(c)) = k /\ l \in MarksOf(c)
  BY ComMarks DEF WellMarked
<1>3. l <= size
  OBVIOUS
<1>4. l \in 1..l /\ file[l] = Mark
  BY <1>1, <1>2 DEF MarksOf
<1> HIDE DEF c, l, k
<1>5. l <= Readable(size) /\ Readable(size) \in Nat
  <2>1. /\ size \in 0..Len(file) /\ Len(file) \in Nat
        /\ Readable(size) = IF size > 0 /\ file[size] \in Torn THEN size - 1 ELSE size
    BY ReadableFacts DEF Desc, Head0, Records
  <2>2. Mark \notin Torn
    BY RecFacts, MarksAre
  <2> QED
    BY <1>1, <1>3, <1>4, <2>1, <2>2
<1>6. S = MarksOf(c)
  <2>1. ASSUME NEW j \in S PROVE j \in MarksOf(c)
    <3>1. j \in (0 + 1)..Readable(size) /\ file[j] = Mark /\ j <= l
      BY DEF MarksFrom
    <3>2. j \in 1..l
      BY <1>1, <1>5, <3>1
    <3> QED
      BY <1>1, <3>1, <3>2 DEF MarksOf, l
  <2>2. ASSUME NEW j \in MarksOf(c) PROVE j \in S
    <3>1. j \in 1..l /\ c[j] = Mark
      BY DEF MarksOf, l
    <3>2. j \in (0 + 1)..Readable(size) /\ file[j] = Mark /\ j <= l
      BY <1>1, <1>5, <3>1
    <3> QED
      BY <3>2 DEF MarksFrom
  <2> QED
    BY <2>1, <2>2
<1>7. l \in MarksFrom(0)
  BY <1>2, <1>6
<1>8. NthMark(0, k) = l
  <2>1. 0 \in Nat /\ Cardinality({j \in MarksFrom(0) : j <= l}) = k
    BY <1>2, <1>6
  <2> QED
    BY <1>7, <2>1, NthMarkIs
<1>9. l # 0
  BY <1>1, <1>4
<1> QED
  BY <1>8, <1>9 DEF k

\* The last session, as prevJobConfigHash and prevIndex go over it.
LEMMA LastIs ==
  ASSUME Desc, done \in Seq(Sessions), SessionsKept, labelled, done # <<>>, Len(Com(done)) <= size
  PROVE  LET l == Len(Com(done))
             n == LastStart
         IN  /\ l \in Nat /\ n \in Nat /\ n + 2 < l /\ l <= Readable(size)
             /\ n > 0 /\ file[n] = Mark
             /\ file[n + 1] # Mark /\ file[n + 2] = Mark /\ file[l] = Mark
             /\ \A i \in (n + 3)..(l - 1) : file[i] # Mark
<1>1. PICK e \in Seq(Sessions), s \in Sessions : done = Append(e, s)
  BY SequenceEmptyOrAppend
<1>2. done[Len(done)] = s
  BY <1>1
<1> DEFINE c == Com(done)
           l == Len(c)
           n == Len(Com(e))
<1>3. /\ n \in Nat /\ s.tar \in Nat \ {0}
      /\ l = n + s.tar + 3 /\ Len(Segments(s)) = s.tar + 3
      /\ \A i \in 1..n : c[i] = Com(e)[i]
      /\ c[n + 1] = Index(s.id) /\ c[n + 2] = Mark
      /\ \A k \in 1..s.tar : c[n + 2 + k] = Tar(s.id, k)
      /\ c[n + s.tar + 3] = Mark
  BY <1>1, ComShape
<1>4. n \in 1..n /\ Com(e)[n] = Mark
  BY ComMarks DEF WellMarked, MarksOf
<1>5. /\ l <= Len(file) /\ \A i \in 1..l : file[i] = c[i]
  BY CommittedOnTape
<1>6. LastStart = l - Len(Segments(s))
  BY <1>2 DEF LastStart
<1> HIDE DEF c, n, l
<1>7. LastStart = n
  BY <1>3, <1>6, SMTT(60)
<1>8. n \in 1..l /\ n + 1 \in 1..l /\ n + 2 \in 1..l /\ l \in 1..l /\ n + 2 < l /\ n > 0 /\ l \in Nat
  BY <1>3, <1>4, SMTT(60)
<1>9. file[n] = Mark /\ file[n + 1] # Mark /\ file[n + 2] = Mark /\ file[l] = Mark
  BY <1>3, <1>4, <1>5, <1>8, BlocksDiffer
<1>10. ASSUME NEW i \in (n + 3)..(l - 1) PROVE file[i] # Mark
  <2>0. i \in Nat /\ n + 3 <= i /\ i <= l - 1 /\ l = n + s.tar + 3 /\ n \in Nat /\ s.tar \in Nat /\ l \in Nat
    BY <1>3, <1>8
  <2>1. i - (n + 2) \in 1..s.tar /\ n + 2 + (i - (n + 2)) = i /\ i \in 1..l
    BY <2>0, SMTT(60)
  <2> QED
    BY <1>3, <1>5, <2>1, BlocksDiffer, SMTT(60)
<1>11. l <= Readable(size)
  <2>1. /\ size \in 0..Len(file) /\ Len(file) \in Nat
        /\ Readable(size) = IF size > 0 /\ file[size] \in Torn THEN size - 1 ELSE size
    BY ReadableFacts DEF Desc, Head0, Records
  <2>2. Mark \notin Torn
    BY RecFacts, MarksAre
  <2>3. l <= size
    BY DEF l, c
  <2> QED
    BY <1>8, <1>9, <2>1, <2>2, <2>3
<1> QED
  BY <1>3, <1>7, <1>8, <1>9, <1>10, <1>11 DEF l, c

LEMMA BackIs ==
  ASSUME Desc, done \in Seq(Sessions), SessionsKept, labelled, done # <<>>, Len(Com(done)) <= size,
         pos = Len(Com(done))
  PROVE  NthMarkBack(3) = LastStart
<1> DEFINE l == Len(Com(done))
           n == LastStart
           S == {j \in MarksBack(pos) : j >= n}
<1>1. /\ l \in Nat /\ n \in Nat /\ n + 2 < l
      /\ n > 0 /\ file[n] = Mark
      /\ file[n + 1] # Mark /\ file[n + 2] = Mark /\ file[l] = Mark
      /\ \A i \in (n + 3)..(l - 1) : file[i] # Mark
      /\ pos = l
  BY LastIs
<1> HIDE DEF l, n
<1>2. S = {n, n + 2, l}
  <2>1. ASSUME NEW j \in S PROVE j \in {n, n + 2, l}
    <3>1. j \in 1..l /\ file[j] = Mark /\ j >= n
      BY <1>1 DEF MarksBack
    <3>2. j = n \/ j = n + 1 \/ j = n + 2 \/ j = l \/ j \in (n + 3)..(l - 1)
      BY <1>1, <3>1
    <3> QED
      BY <1>1, <3>1, <3>2
  <2>2. n \in S /\ n + 2 \in S /\ l \in S
    <3>1. n \in 1..l /\ n + 2 \in 1..l /\ l \in 1..l /\ n >= n /\ n + 2 >= n /\ l >= n
      BY <1>1
    <3> QED
      BY <1>1, <3>1 DEF MarksBack
  <2> HIDE DEF S
  <2> QED
    BY <2>1, <2>2
<1>3. Cardinality({n, n + 2, l}) = 3
  <2> DEFINE b == n + 2
             A == {n}
             B == A \cup {b}
             C == B \cup {l}
  <2>1. b \notin A /\ l \notin B /\ C = {n, b, l}
    BY <1>1
  <2>2. IsFiniteSet(A) /\ Cardinality(A) = 1
    BY FS_Singleton
  <2> HIDE DEF A
  <2>3. IsFiniteSet(B) /\ Cardinality(B) = Cardinality(A) + 1
    BY <2>1, <2>2, FS_AddElement
  <2> HIDE DEF B
  <2>4. Cardinality(C) = Cardinality(B) + 1
    BY <2>1, <2>3, FS_AddElement
  <2> HIDE DEF C
  <2>5. Cardinality(C) = 3
    BY <2>2, <2>3, <2>4
  <2> QED
    BY <2>1, <2>5
<1>4. n \in MarksBack(pos)
  BY <1>2
<1>5. Cardinality(S) = 3
  BY <1>2, <1>3
<1> QED
  BY <1>4, <1>5, NthMarkBackIs DEF n

LEMMA OnIs ==
  ASSUME Desc, done \in Seq(Sessions), SessionsKept, labelled, done # <<>>, Len(Com(done)) <= size,
         pos = LastStart + 2
  PROVE  NthMark(pos, 1) = Len(Com(done))
<1> DEFINE l == Len(Com(done))
           n == LastStart
           S == {j \in MarksFrom(pos) : j <= l}
<1>1. /\ l \in Nat /\ n \in Nat /\ n + 2 < l /\ l <= Readable(size)
      /\ file[l] = Mark
      /\ \A i \in (n + 3)..(l - 1) : file[i] # Mark
      /\ pos = n + 2
  BY LastIs
<1>2. Readable(size) \in Nat
  BY ReadableFacts DEF Desc, Head0
<1> HIDE DEF l, n
<1>3. S = {l}
  <2>1. ASSUME NEW j \in S PROVE j = l
    <3>1. j \in (pos + 1)..Readable(size) /\ file[j] = Mark /\ j <= l
      BY DEF MarksFrom
    <3>2. j = l \/ j \in (n + 3)..(l - 1)
      BY <1>1, <1>2, <3>1
    <3> QED
      BY <1>1, <3>1, <3>2
  <2>2. l \in S
    <3>1. l \in (pos + 1)..Readable(size) /\ l <= l
      BY <1>1, <1>2
    <3> QED
      BY <1>1, <3>1 DEF MarksFrom
  <2> HIDE DEF S
  <2> QED
    BY <2>1, <2>2
<1>4. Cardinality(S) = 1 /\ l \in MarksFrom(pos)
  BY <1>3, FS_Singleton
<1>5. pos \in Nat
  BY <1>1
<1> QED
  BY <1>4, <1>5, NthMarkIs DEF l

-----------------------------------------------------------------------------
(* What the programs have still to do. *)

LEMMA WriteAllConcat ==
  ASSUME NEW f \in Seq(Whole), NEW g \in Seq(Whole)
  PROVE  WriteAll(f \o g) = WriteAll(f) \o WriteAll(g)
<1> DEFINE c == f \o g
           a == WriteAll(c)
           x == WriteAll(f)
           y == WriteAll(g)
           b == x \o y
<1>1. /\ c \in Seq(Whole) /\ Len(c) = Len(f) + Len(g) /\ Len(f) \in Nat /\ Len(g) \in Nat
      /\ \A i \in 1..(Len(f) + Len(g)) : c[i] = IF i <= Len(f) THEN f[i] ELSE g[i - Len(f)]
  BY ConcatProperties
<1> HIDE DEF c
<1>2. /\ a \in Seq(Operations) /\ Len(a) = Len(c) /\ \A i \in 1..Len(c) : a[i] = Write(c[i])
  BY <1>1, WriteAllIs
<1>3. /\ x \in Seq(Operations) /\ Len(x) = Len(f) /\ \A i \in 1..Len(f) : x[i] = Write(f[i])
      /\ y \in Seq(Operations) /\ Len(y) = Len(g) /\ \A i \in 1..Len(g) : y[i] = Write(g[i])
  BY WriteAllIs
<1> HIDE DEF a, x, y
<1>0. x \in Seq(Operations) /\ y \in Seq(Operations)
  BY <1>3
<1>4. /\ b \in Seq(Operations) /\ Len(b) = Len(x) + Len(y)
      /\ \A i \in 1..(Len(x) + Len(y)) : b[i] = IF i <= Len(x) THEN x[i] ELSE y[i - Len(x)]
  BY <1>0, ConcatProperties
<1> HIDE DEF b
<1>5. ASSUME NEW i \in 1..(Len(f) + Len(g)) PROVE a[i] = b[i]
  <2>1. CASE i <= Len(f)
    <3>1. i \in 1..Len(f)
      BY <1>1, <2>1
    <3> QED
      BY <1>1, <1>2, <1>3, <1>4, <2>1, <3>1
  <2>2. CASE ~(i <= Len(f))
    <3>1. i - Len(f) \in 1..Len(g)
      BY <1>1, <2>2
    <3> QED
      BY <1>1, <1>2, <1>3, <1>4, <2>2, <3>1
  <2> QED
    BY <2>1, <2>2
<1>6. Len(a) = Len(f) + Len(g) /\ Len(b) = Len(f) + Len(g)
  BY <1>1, <1>2, <1>3, <1>4
<1>7. a = b
  BY <1>2, <1>4, <1>5, <1>6, SeqEqual
<1> QED
  BY <1>7 DEF a, b, c, x, y

\* The next record of a program that writes.
LEMMA WriteNext ==
  ASSUME NEW recs \in Seq(Whole), NEW j \in 0..(Len(recs) - 1)
  PROVE  LET q == WriteAll(SubSeq(recs, j + 1, Len(recs)))
         IN  /\ q \in Seq(Operations) /\ Len(q) = Len(recs) - j
             /\ Head(q) = Write(recs[j + 1]) /\ q[1] = Write(recs[j + 1])
             /\ Tail(q) = WriteAll(SubSeq(recs, j + 2, Len(recs)))
             /\ \A i \in 1..Len(q) : q[i].op = "write"
<1> DEFINE n == Len(recs)
           g == SubSeq(recs, j + 1, n)
           h == SubSeq(recs, j + 2, n)
           q == WriteAll(g)
           r == WriteAll(h)
<1>1. n \in Nat /\ j \in Nat /\ j + 1 <= n /\ \A i \in 1..n : recs[i] \in Whole
  OBVIOUS
<1>2. /\ g \in Seq(Whole) /\ Len(g) = n - j /\ \A i \in 1..(n - j) : g[i] = recs[j + i]
  <2>1. \A i \in (j + 1)..n : recs[i] \in Whole
    BY <1>1
  <2>2. /\ g \in Seq(Whole)
        /\ Len(g) = IF j + 1 <= n THEN n - (j + 1) + 1 ELSE 0
        /\ \A i \in 1..(n - (j + 1) + 1) : g[i] = recs[j + 1 + i - 1]
    BY <1>1, <2>1, SubSeqProperties
  <2>3. n - (j + 1) + 1 = n - j /\ \A i \in 1..(n - j) : j + 1 + i - 1 = j + i
    BY <1>1
  <2> HIDE DEF g
  <2> QED
    BY <1>1, <2>2, <2>3
<1>3. /\ h \in Seq(Whole) /\ Len(h) = n - j - 1 /\ \A i \in 1..(n - j - 1) : h[i] = recs[j + 1 + i]
  <2>1. \A i \in (j + 2)..n : recs[i] \in Whole
    BY <1>1
  <2>2. /\ h \in Seq(Whole)
        /\ Len(h) = IF j + 2 <= n THEN n - (j + 2) + 1 ELSE 0
        /\ \A i \in 1..(n - (j + 2) + 1) : h[i] = recs[j + 2 + i - 1]
    BY <1>1, <2>1, SubSeqProperties
  <2>3. n - (j + 2) + 1 = n - j - 1 /\ \A i \in 1..(n - j - 1) : j + 2 + i - 1 = j + 1 + i
    BY <1>1
  <2>4. (IF j + 2 <= n THEN n - (j + 2) + 1 ELSE 0) = n - j - 1
    BY <1>1
  <2> HIDE DEF h
  <2> QED
    BY <2>2, <2>3, <2>4
<1> HIDE DEF g, h, n
<1>4. /\ q \in Seq(Operations) /\ Len(q) = n - j /\ \A i \in 1..(n - j) : q[i] = Write(g[i])
  BY <1>2, WriteAllIs
<1>5. /\ r \in Seq(Operations) /\ Len(r) = n - j - 1 /\ \A i \in 1..(n - j - 1) : r[i] = Write(h[i])
  BY <1>3, WriteAllIs
<1> HIDE DEF q, r
<1>6. q[1] = Write(recs[j + 1]) /\ q # <<>>
  <2>1. 1 \in 1..(n - j) /\ Len(q) # 0
    BY <1>1, <1>4
  <2> QED
    BY <1>2, <1>4, <2>1
<1>7. Head(q) = q[1]
  BY <1>4, <1>6
<1>8. Tail(q) = r
  <2>1. /\ Tail(q) \in Seq(Operations) /\ Len(Tail(q)) = Len(q) - 1
        /\ \A i \in 1..Len(Tail(q)) : Tail(q)[i] = q[i + 1]
    BY <1>4, <1>6, HeadTailProperties
  <2>2. Len(Tail(q)) = n - j - 1
    BY <1>1, <1>4, <2>1
  <2>3. ASSUME NEW i \in 1..(n - j - 1) PROVE Tail(q)[i] = r[i]
    <3>1. i + 1 \in 1..(n - j) /\ j + (i + 1) = j + 1 + i
      BY <1>1
    <3>2. Tail(q)[i] = q[i + 1]
      BY <2>1, <2>2
    <3>3. q[i + 1] = Write(g[i + 1])
      BY <1>4, <3>1
    <3>4. g[i + 1] = recs[j + 1 + i]
      BY <1>2, <3>1
    <3>5. r[i] = Write(h[i]) /\ h[i] = recs[j + 1 + i]
      BY <1>3, <1>5
    <3> QED
      BY <3>2, <3>3, <3>4, <3>5
  <2> QED
    BY <1>5, <2>1, <2>2, <2>3, SeqEqual
<1>9. \A i \in 1..Len(q) : q[i].op = "write"
  BY <1>4 DEF Write
<1> QED
  BY <1>4, <1>6, <1>7, <1>8, <1>9 DEF q, r, g, h, n

LEMMA PartIs ==
  ASSUME NEW s \in Sessions
  PROVE  /\ Part(s) \in Seq(Whole) /\ Len(Part(s)) = s.tar + 5 /\ s.tar \in Nat \ {0}
         /\ Part(s) = Segments(s) \o <<Mark, Mark>>
         /\ Part(s)[1] = Index(s.id) /\ Part(s)[2] = Mark
         /\ \A k \in 1..s.tar : Part(s)[k + 2] = Tar(s.id, k)
         /\ \A i \in (s.tar + 3)..(s.tar + 5) : Part(s)[i] = Mark
         /\ WritePart(s) = WriteAll(Part(s))
<1> DEFINE g == Segments(s)
           e == <<Mark, Mark>>
           p == g \o e
           t == s.tar
<1>1. /\ g \in Seq(Whole) /\ Len(g) = t + 3 /\ t \in 1..MaxTar
      /\ g[1] = Index(s.id) /\ g[2] = Mark
      /\ \A k \in 1..t : g[k + 2] = Tar(s.id, k)
      /\ g[t + 3] = Mark
  BY SegmentsAre
<1>2. t \in Nat \ {0}
  <2>1. MaxTar \in Nat
    BY FileTapeAssumption
  <2> HIDE DEF t
  <2> QED
    BY <1>1, <2>1
<1>3. e \in Seq(Whole) /\ Len(e) = 2 /\ e[1] = Mark /\ e[2] = Mark
  BY CloseIs
<1> HIDE DEF g, e, t
<1>4. /\ p \in Seq(Whole) /\ Len(p) = t + 5
      /\ \A i \in 1..(t + 5) : p[i] = IF i <= t + 3 THEN g[i] ELSE e[i - (t + 3)]
  <2>1. /\ p \in Seq(Whole) /\ Len(p) = Len(g) + Len(e)
        /\ \A i \in 1..(Len(g) + Len(e)) : p[i] = IF i <= Len(g) THEN g[i] ELSE e[i - Len(g)]
    BY <1>1, <1>3, ConcatProperties
  <2>2. Len(g) + Len(e) = t + 5
    BY <1>1, <1>2, <1>3
  <2> HIDE DEF p
  <2> QED
    BY <1>1, <2>1, <2>2
<1>5. WriteAll(p) = WriteAll(g) \o WriteAll(e)
  BY <1>1, <1>3, WriteAllConcat
<1>6. WritePart(s) = WriteAll(p) /\ Part(s) = p
  BY <1>5, CloseIs DEF WritePart, Part, g, e
<1> HIDE DEF p
<1>7. p[1] = Index(s.id) /\ p[2] = Mark
  <2>1. 1 \in 1..(t + 5) /\ 2 \in 1..(t + 5) /\ 1 <= t + 3 /\ 2 <= t + 3
    BY <1>2
  <2> QED
    BY <1>1, <1>4, <2>1
<1>8. ASSUME NEW k \in 1..t PROVE p[k + 2] = Tar(s.id, k)
  <2>1. k + 2 \in 1..(t + 5) /\ k + 2 <= t + 3
    BY <1>2
  <2> QED
    BY <1>1, <1>4, <2>1
<1>9. ASSUME NEW i \in (t + 3)..(t + 5) PROVE p[i] = Mark
  <2>1. i \in 1..(t + 5) /\ (i = t + 3 \/ i = t + 4 \/ i = t + 5)
    BY <1>2
  <2>2. /\ ~(t + 4 <= t + 3) /\ ~(t + 5 <= t + 3) /\ t + 3 <= t + 3
        /\ (t + 4) - (t + 3) = 1 /\ (t + 5) - (t + 3) = 2
    BY <1>2
  <2> QED
    BY <1>1, <1>3, <1>4, <2>1, <2>2
<1> QED
  BY <1>2, <1>4, <1>6, <1>7, <1>8, <1>9 DEF t, g, e, p

LEMMA ProgramIs ==
  ASSUME NEW look \in BOOLEAN, NEW recs \in Seq(Whole)
  PROVE  /\ WriteAll(recs) \in Seq(Operations) /\ Program(look, recs) \in Seq(Operations)
         /\ Then(Forward(1), WriteAll(recs)) \in Seq(Operations)
         /\ Then(ReadFile, Then(Forward(1), WriteAll(recs))) \in Seq(Operations)
         /\ LookBack(WriteAll(recs)) \in Seq(Operations)
<1>1. WriteAll(recs) \in Seq(Operations)
  BY WriteAllIs
<1>2. 1 \in Nat /\ 3 \in Nat
  OBVIOUS
<1>3. Then(Forward(1), WriteAll(recs)) \in Seq(Operations)
  BY <1>1, <1>2, OpsAre, ThenIs
<1>4. Then(ReadFile, Then(Forward(1), WriteAll(recs))) \in Seq(Operations)
  BY <1>3, OpsAre, ThenIs
<1>5. LookBack(WriteAll(recs)) \in Seq(Operations)
  BY <1>2, <1>4, OpsAre, ThenIs DEF LookBack
<1> QED
  BY <1>1, <1>3, <1>4, <1>5 DEF Program

LEMMA JumpType == ASSUME done \in Seq(Sessions) PROVE Jump \in Operations /\ Jump.op = "forward" /\ Jump.n = 2 * Len(done) + 1
<1>1. 2 * Len(done) + 1 \in Nat
  OBVIOUS
<1> QED
  BY <1>1, OpsAre DEF Jump, Forward

LEMMA SeekIs ==
  ASSUME done \in Seq(Sessions), NEW q \in Seq(Operations)
  PROVE  /\ seekWritePosition \o q = Then(Rewind, Then(Jump, q))
         /\ Then(Jump, q) \in Seq(Operations) /\ Then(Rewind, Then(Jump, q)) \in Seq(Operations)
<1>1. Rewind \in Operations /\ Jump \in Operations
  BY OpsAre, JumpType
<1>2. <<Rewind>> \in Seq(Operations) /\ <<Jump>> \in Seq(Operations)
  BY <1>1
<1>3. (<<Rewind>> \o <<Jump>>) \o q = <<Rewind>> \o (<<Jump>> \o q)
  BY <1>2, ConcatAssociative
<1>4. seekWritePosition = <<Rewind>> \o <<Jump>>
  BY DEF seekWritePosition, Jump
<1>5. Then(Jump, q) \in Seq(Operations)
  BY <1>1, ThenIs
<1>6. Then(Rewind, Then(Jump, q)) \in Seq(Operations)
  BY <1>1, <1>5, ThenIs
<1> QED
  BY <1>3, <1>4, <1>5, <1>6 DEF Then

LEMMA RestoreIs ==
  ASSUME done \in Seq(Sessions)
  PROVE  restoreEOD = Then(Rewind, Then(Jump, Program(FALSE, <<Mark, Mark>>)))
<1>1. restoreEOD = seekWritePosition \o WriteAll(<<Mark, Mark>>)
  BY CloseIs DEF restoreEOD
<1>2. WriteAll(<<Mark, Mark>>) \in Seq(Operations)
  BY CloseIs
<1> QED
  BY <1>1, <1>2, SeekIs DEF Program

LEMMA BackupProgramIs ==
  ASSUME done \in Seq(Sessions), NEW s \in Sessions
  PROVE  seekWritePosition \o prevJobConfigHash \o WritePart(s)
           = Then(Rewind, Then(Jump, Program(done # <<>>, Part(s))))
<1> DEFINE w == WriteAll(Part(s))
           p == prevJobConfigHash
           k == seekWritePosition
<1>1. w \in Seq(Operations) /\ WritePart(s) = w
  BY PartIs, WriteAllIs
<1>2. p \in Seq(Operations)
  <2>1. Backward(3) \in Operations /\ ReadFile \in Operations /\ Forward(1) \in Operations
    BY OpsAre
  <2> QED
    BY <2>1 DEF prevJobConfigHash
<1>3. k \in Seq(Operations)
  <2>1. Rewind \in Operations /\ Jump \in Operations
    BY OpsAre, JumpType
  <2> QED
    BY <2>1 DEF seekWritePosition, Jump
<1>4. p \o w = Program(done # <<>>, Part(s))
  <2>1. CASE done = <<>>
    <3>1. p = <<>>
      BY <2>1 DEF prevJobConfigHash
    <3>2. <<>> \o w = w
      BY <1>1, ConcatEmptySeq
    <3> QED
      BY <2>1, <3>1, <3>2 DEF Program
  <2>2. CASE done # <<>>
    <3> DEFINE x == <<Backward(3)>>
               y == <<ReadFile>>
               z == <<Forward(1)>>
    <3>1. p = (x \o y) \o z
      BY <2>2 DEF prevJobConfigHash
    <3>2. x \in Seq(Operations) /\ y \in Seq(Operations) /\ z \in Seq(Operations)
      <4>1. Backward(3) \in Operations /\ ReadFile \in Operations /\ Forward(1) \in Operations
        BY OpsAre
      <4> QED
        BY <4>1
    <3>3. LookBack(w) = x \o (y \o (z \o w))
      BY DEF LookBack, Then
    <3> HIDE DEF x, y, z, p, w
    <3>7. w \in Seq(Operations)
      BY <1>1
    <3>4. ((x \o y) \o z) \o w = (x \o y) \o (z \o w)
      <4> DEFINE v == x \o y
      <4>1. v \in Seq(Operations)
        BY <3>2, ConcatProperties
      <4> HIDE DEF v
      <4>2. (v \o z) \o w = v \o (z \o w)
        BY <3>2, <3>7, <4>1, ConcatAssociative, SMTT(60)
      <4> QED
        BY <4>2 DEF v
    <3>5. (x \o y) \o (z \o w) = x \o (y \o (z \o w))
      <4> DEFINE v == z \o w
      <4>1. v \in Seq(Operations)
        BY <3>7, <3>2, ConcatProperties
      <4> HIDE DEF v
      <4>2. (x \o y) \o v = x \o (y \o v)
        BY <3>2, <4>1, ConcatAssociative, SMTT(60)
      <4> QED
        BY <4>2 DEF v
    <3>6. p \o w = LookBack(w)
      BY <3>1, <3>3, <3>4, <3>5
    <3> QED
      BY <2>2, <3>6 DEF Program, w
  <2> QED
    BY <2>1, <2>2
<1> HIDE DEF w, p, k
<1>5. (k \o p) \o w = k \o (p \o w)
  BY <1>1, <1>2, <1>3, ConcatAssociative, SMTT(60)
<1>6. p \o w \in Seq(Operations)
  BY <1>1, <1>2, ConcatProperties
<1>7. k \o (p \o w) = Then(Rewind, Then(Jump, p \o w))
  BY <1>6, SeekIs DEF k
<1> QED
  BY <1>1, <1>4, <1>5, <1>7 DEF k, p

LEMMA FormatProgramIs ==
  FormatProgram = Then(Rewind, Then(ReadOne, Then(Rewind, WriteAll(Begin))))
<1> DEFINE w == WriteAll(Begin)
           a == Then(Rewind, w)
           b == Then(ReadOne, a)
           c == Then(Rewind, b)
           k == <<Rewind, ReadOne, Rewind, Write(Label)>>
           f == k \o closeEOD
<1>1. /\ w \in Seq(Operations) /\ Len(w) = 3
      /\ w[1] = Write(Label) /\ w[2] = Write(Mark) /\ w[3] = Write(Mark)
  <2>1. Begin \in Seq(Whole) /\ Len(Begin) = 3 /\ Begin[1] = Label /\ Begin[2] = Mark /\ Begin[3] = Mark
    BY MarksAre DEF Begin
  <2> QED
    BY <2>1, WriteAllIs
<1>2. Rewind \in Operations /\ ReadOne \in Operations /\ Write(Label) \in Operations
  BY OpsAre, MarksAre
<1> HIDE DEF w
<1>3. /\ a \in Seq(Operations) /\ Len(a) = 4 /\ a[1] = Rewind
      /\ a[2] = Write(Label) /\ a[3] = Write(Mark) /\ a[4] = Write(Mark)
  <2>1. a \in Seq(Operations) /\ Len(a) = Len(w) + 1 /\ a[1] = Rewind /\ \A i \in 1..Len(w) : a[i + 1] = w[i]
    BY <1>1, <1>2, ThenIs
  <2> HIDE DEF a
  <2>2. Len(a) = 4
    BY <1>1, <2>1
  <2>3. \A i \in 1..3 : a[i + 1] = w[i]
    BY <1>1, <2>1
  <2>4. 1 + 1 = 2 /\ 2 + 1 = 3 /\ 3 + 1 = 4 /\ 1 \in 1..3 /\ 2 \in 1..3 /\ 3 \in 1..3
    OBVIOUS
  <2> QED
    BY <1>1, <2>1, <2>2, <2>3, <2>4
<1> HIDE DEF a
<1>4. /\ b \in Seq(Operations) /\ Len(b) = 5 /\ b[1] = ReadOne /\ b[2] = Rewind
      /\ b[3] = Write(Label) /\ b[4] = Write(Mark) /\ b[5] = Write(Mark)
  <2>1. b \in Seq(Operations) /\ Len(b) = Len(a) + 1 /\ b[1] = ReadOne /\ \A i \in 1..Len(a) : b[i + 1] = a[i]
    BY <1>2, <1>3, ThenIs
  <2> HIDE DEF b
  <2>2. Len(b) = 5
    BY <1>3, <2>1
  <2>3. \A i \in 1..4 : b[i + 1] = a[i]
    BY <1>3, <2>1
  <2>4. 1 + 1 = 2 /\ 2 + 1 = 3 /\ 3 + 1 = 4 /\ 4 + 1 = 5 /\ 1 \in 1..4 /\ 2 \in 1..4 /\ 3 \in 1..4 /\ 4 \in 1..4
    OBVIOUS
  <2> QED
    BY <1>3, <2>1, <2>2, <2>3, <2>4
<1> HIDE DEF b
<1>5. /\ c \in Seq(Operations) /\ Len(c) = 6 /\ c[1] = Rewind /\ c[2] = ReadOne /\ c[3] = Rewind
      /\ c[4] = Write(Label) /\ c[5] = Write(Mark) /\ c[6] = Write(Mark)
  <2>1. c \in Seq(Operations) /\ Len(c) = Len(b) + 1 /\ c[1] = Rewind /\ \A i \in 1..Len(b) : c[i + 1] = b[i]
    BY <1>2, <1>4, ThenIs
  <2> HIDE DEF c
  <2>2. Len(c) = 6
    BY <1>4, <2>1
  <2>3. \A i \in 1..5 : c[i + 1] = b[i]
    BY <1>4, <2>1
  <2>4. /\ 1 + 1 = 2 /\ 2 + 1 = 3 /\ 3 + 1 = 4 /\ 4 + 1 = 5 /\ 5 + 1 = 6
        /\ 1 \in 1..5 /\ 2 \in 1..5 /\ 3 \in 1..5 /\ 4 \in 1..5 /\ 5 \in 1..5
    OBVIOUS
  <2> QED
    BY <1>4, <2>1, <2>2, <2>3, <2>4
<1> HIDE DEF c
<1>6. /\ f \in Seq(Operations) /\ Len(f) = 6 /\ f[1] = Rewind /\ f[2] = ReadOne /\ f[3] = Rewind
      /\ f[4] = Write(Label) /\ f[5] = Write(Mark) /\ f[6] = Write(Mark)
  <2>1. k \in Seq(Operations) /\ Len(k) = 4 /\ k[1] = Rewind /\ k[2] = ReadOne /\ k[3] = Rewind
        /\ k[4] = Write(Label)
    BY <1>2
  <2> HIDE DEF k
  <2>2. closeEOD \in Seq(Operations) /\ Len(closeEOD) = 2
    BY CloseIs
  <2>3. /\ f \in Seq(Operations) /\ Len(f) = Len(k) + Len(closeEOD)
        /\ \A i \in 1..(Len(k) + Len(closeEOD)) : f[i] = IF i <= Len(k) THEN k[i] ELSE closeEOD[i - Len(k)]
    BY <2>1, <2>2, ConcatProperties
  <2> HIDE DEF f
  <2>4. Len(f) = 6 /\ \A i \in 1..6 : f[i] = IF i <= 4 THEN k[i] ELSE closeEOD[i - 4]
    BY <2>1, <2>2, <2>3
  <2>5. closeEOD[1] = Write(Mark) /\ closeEOD[2] = Write(Mark) /\ 5 - 4 = 1 /\ 6 - 4 = 2
    BY DEF closeEOD
  <2>6. f[1] = k[1] /\ f[2] = k[2] /\ f[3] = k[3] /\ f[4] = k[4]
    BY <2>4
  <2>7. f[5] = closeEOD[5 - 4] /\ f[6] = closeEOD[6 - 4]
    BY <2>4
  <2> QED
    BY <2>1, <2>3, <2>4, <2>5, <2>6, <2>7
<1>7. FormatProgram = f
  BY DEF FormatProgram
<1> HIDE DEF f, k
<1>8. \A i \in 1..6 : f[i] = c[i]
  <2>1. \A i \in 1..6 : i = 1 \/ i = 2 \/ i = 3 \/ i = 4 \/ i = 5 \/ i = 6
    OBVIOUS
  <2> QED
    BY <1>5, <1>6, <2>1
<1>9. f = c
  BY <1>5, <1>6, <1>8, SeqEqual
<1> QED
  BY <1>7, <1>9 DEF c, b, a, w

LEMMA ThenThird ==
  ASSUME NEW x \in Operations, NEW y \in Operations, NEW q \in Seq(Operations)
  PROVE  SubSeq(Then(x, Then(y, q)), 3, Len(Then(x, Then(y, q)))) = q
<1> DEFINE a == <<x>>
           b == <<y>>
           u == a \o b
           t == Then(x, Then(y, q))
<1>1. a \in Seq(Operations) /\ Len(a) = 1 /\ b \in Seq(Operations) /\ Len(b) = 1 /\ t = a \o (b \o q)
  BY DEF Then
<1> HIDE DEF a, b, t
<1>2. u \in Seq(Operations) /\ Len(u) = Len(a) + Len(b)
  BY <1>1, ConcatProperties
<1>3. (a \o b) \o q = a \o (b \o q)
  BY <1>1, ConcatAssociative
<1>4. t = u \o q
  BY <1>1, <1>3
<1> HIDE DEF u
<1>5. SubSeq(u \o q, Len(u) + 1, Len(u \o q)) = q
  BY <1>2, PrefixOfConcat
<1>6. Len(u) + 1 = 3
  BY <1>1, <1>2
<1> QED
  BY <1>4, <1>5, <1>6 DEF t

-----------------------------------------------------------------------------
(* Writing. *)

WholeIn(f, d, n) ==
  \E pair \in {<<Mark>>, <<Mark, Mark>>} :
    /\ IsPrefix(Com(d) \o pair, f)
    /\ (pair = <<Mark>>) => d = <<>>
    /\ LET rest == SubSeq(f, Len(Com(d) \o pair) + 1, Len(f))
       IN  rest = <<>> \/ (n > 0 /\ rest \in {<<Short>>, <<Long>>})

LEMMA SettledIs ==
  /\ SettledTapeIsWhole <=> (settled => WholeIn(file, done, count.fail))
  /\ SessionsKept <=> (labelled => IsPrefix(Com(done), file))
BY DEF SettledTapeIsWhole, WholeIn, SessionsKept, Committed, Com

LEMMA BeginsWith ==
  ASSUME NEW S, NEW s \in Seq(S), NEW t \in Seq(S)
  PROVE  SubSeq(s \o t, 1, Len(s)) = s
<1>1. IsPrefix(s, s \o t)
  BY PrefixOfConcat
<1>2. SubSeq(s, 1, Len(s)) = s
  BY SubSeqFull
<1> QED
  BY <1>1, <1>2 DEF IsPrefix

\* A tape that has been closed.
LEMMA ClosedIs ==
  ASSUME NEW d \in Seq(Sessions), NEW pair \in {<<Mark>>, <<Mark, Mark>>}, NEW r \in Tails, NEW n,
         pair = <<Mark>> => d = <<>>, r # <<>> => n > 0
  PROVE  /\ WholeIn((Com(d) \o pair) \o r, d, n)
         /\ IsPrefix(Com(d), (Com(d) \o pair) \o r)
<1> DEFINE c == Com(d)
           f == c \o pair
<1>1. c \in Seq(Rec) /\ r \in Seq(Rec) /\ pair \in Seq(Rec)
  <2>1. c \in Seq(Whole)
    BY ComType
  <2>2. Mark \in Rec
    BY MarksAre DEF Rec
  <2>3. Whole \subseteq Rec
    BY DEF Rec
  <2> HIDE DEF c
  <2>4. c \in Seq(Rec)
    BY <2>1, <2>3, SeqMonotonic
  <2>5. <<Mark>> \in Seq(Rec) /\ <<Mark, Mark>> \in Seq(Rec)
    BY <2>2
  <2> QED
    BY <2>4, <2>5, TailFacts
<1> HIDE DEF c
<1>2. f \in Seq(Rec)
  BY <1>1, ConcatProperties
<1>3. f \o r = c \o (pair \o r)
  BY <1>1, ConcatAssociative, SMTT(60)
<1>4. pair \o r \in Seq(Rec)
  BY <1>1, ConcatProperties
<1>5. IsPrefix(c, c \o (pair \o r))
  BY <1>1, <1>4, PrefixOfConcat
<1> HIDE DEF f
<1>6. IsPrefix(f, f \o r) /\ SubSeq(f \o r, Len(f) + 1, Len(f \o r)) = r
  BY <1>1, <1>2, PrefixOfConcat
<1>7. r = <<>> \/ (n > 0 /\ r \in {<<Short>>, <<Long>>})
  BY DEF Tails
<1>8. WholeIn(f \o r, d, n)
  BY <1>6, <1>7 DEF WholeIn, f, c
<1> QED
  BY <1>3, <1>5, <1>8 DEF f, c

LEMMA WholeAssociative ==
  ASSUME NEW u \in Seq(Whole), NEW v \in Seq(Whole), NEW w \in Seq(Whole)
  PROVE  (u \o v) \o w = u \o (v \o w)
BY ConcatAssociative, SMTT(60)

LEMMA NextRecord ==
  ASSUME NEW b \in Seq(Whole), NEW recs \in Seq(Whole), NEW j \in 0..(Len(recs) - 1)
  PROVE  LET f == b \o SubSeq(recs, 1, j + 1)
         IN  /\ f = Append(b \o SubSeq(recs, 1, j), recs[j + 1])
             /\ f \in Seq(Whole) /\ Len(f) = Len(b) + j + 1
             /\ SubSeq(recs, 1, j) \in Seq(Whole) /\ Len(SubSeq(recs, 1, j)) = j
             /\ SubSeq(recs, 1, j + 1) \in Seq(Whole) /\ recs[j + 1] \in Whole
<1> DEFINE h == SubSeq(recs, 1, j)
           k == SubSeq(recs, 1, j + 1)
           x == recs[j + 1]
<1>1. j \in Nat /\ j + 1 \in 1..Len(recs) /\ 1 \in 1..Len(recs) /\ (j + 1) - 1 = j /\ Len(recs) \in Nat
  OBVIOUS
<1>2. h \in Seq(Whole) /\ Len(h) = j
  <2>1. \A i \in 1..j : recs[i] \in Whole
    BY <1>1
  <2>2. h \in Seq(Whole) /\ Len(h) = IF 1 <= j THEN j - 1 + 1 ELSE 0
    BY <1>1, <2>1, SubSeqProperties
  <2> HIDE DEF h
  <2> QED
    BY <1>1, <2>2
<1>3. x \in Whole
  BY <1>1
<1>4. k = h \o <<x>>
  <2>1. SubSeq(recs, 1, j + 1) = SubSeq(recs, 1, (j + 1) - 1) \o <<recs[j + 1]>>
    <3> DEFINE m == j + 1
    <3>1. m \in 1..Len(recs)
      BY <1>1
    <3> HIDE DEF m
    <3>2. SubSeq(recs, 1, m) = SubSeq(recs, 1, m - 1) \o <<recs[m]>>
      BY <1>1, <3>1, SubSeqRecursiveSecond
    <3> QED
      BY <3>2 DEF m
  <2> QED
    BY <1>1, <2>1
<1> HIDE DEF h, k, x
<1>5. <<x>> \in Seq(Whole) /\ Len(<<x>>) = 1
  BY <1>3
<1>6. b \o k = (b \o h) \o <<x>>
  <2> DEFINE y == <<x>>
  <2>1. y \in Seq(Whole) /\ k = h \o y
    BY <1>4, <1>5
  <2>3. y \in Seq(Whole)
    BY <2>1
  <2>5. b \in Seq(Whole)
    OBVIOUS
  <2>4. h \in Seq(Whole)
    BY <1>2
  <2> HIDE DEF y
  <2>2. (b \o h) \o y = b \o (h \o y)
    BY <2>3, <2>4, <2>5, WholeAssociative, SMTT(60)
  <2> QED
    BY <2>1, <2>2 DEF y
<1>7. b \o h \in Seq(Whole) /\ Len(b \o h) = Len(b) + j
  <2>1. b \o h \in Seq(Whole) /\ Len(b \o h) = Len(b) + Len(h)
    BY <1>2, ConcatProperties
  <2> QED
    BY <1>2, <2>1
<1>8. (b \o h) \o <<x>> = Append(b \o h, x)
  <2> DEFINE c == b \o h
  <2>1. c \in Seq(Whole)
    BY <1>7
  <2> HIDE DEF c
  <2>2. Append(c, x) = c \o <<x>>
    BY <1>3, <2>1, AppendIsConcat
  <2> QED
    BY <2>2 DEF c
<1>9. Append(b \o h, x) \in Seq(Whole) /\ Len(Append(b \o h, x)) = Len(b) + j + 1
  <2> DEFINE c == b \o h
  <2>1. c \in Seq(Whole) /\ Len(c) = Len(b) + j
    BY <1>7
  <2> HIDE DEF c
  <2>2. Append(c, x) \in Seq(Whole) /\ Len(Append(c, x)) = Len(c) + 1
    BY <1>3, <2>1, AppendProperties
  <2> QED
    BY <2>1, <2>2 DEF c
<1>10. k \in Seq(Whole)
  BY <1>2, <1>4, <1>5, ConcatProperties
<1> QED
  BY <1>2, <1>3, <1>6, <1>8, <1>9, <1>10 DEF h, k, x

\* A program writes its next record.
LEMMA WritesOn ==
  ASSUME Desc, NEW b \in Seq(Whole), NEW recs \in Seq(Whole), NEW j \in 0..(Len(recs) - 1),
         pos = Len(b) + j, SubSeq(file, 1, pos) = b \o SubSeq(recs, 1, j),
         AppendWhole(recs[j + 1])
  PROVE  /\ \E r \in Tails : /\ file' = (b \o SubSeq(recs, 1, j + 1)) \o r
                             /\ r # <<>> => Rest # <<>>
         /\ SubSeq(file', 1, pos') = b \o SubSeq(recs, 1, j + 1)
         /\ pos' = Len(b) + (j + 1) /\ size' = pos'
         /\ IsPrefix(b, file')
<1> DEFINE f == b \o SubSeq(recs, 1, j + 1)
           x == recs[j + 1]
<1>1. /\ f = Append(SubSeq(file, 1, pos), x)
      /\ f \in Seq(Whole) /\ Len(f) = Len(b) + j + 1
      /\ SubSeq(recs, 1, j + 1) \in Seq(Whole) /\ x \in Whole
  <2>1. LET g == b \o SubSeq(recs, 1, j + 1)
        IN  /\ g = Append(b \o SubSeq(recs, 1, j), recs[j + 1])
            /\ g \in Seq(Whole) /\ Len(g) = Len(b) + j + 1
            /\ SubSeq(recs, 1, j) \in Seq(Whole) /\ Len(SubSeq(recs, 1, j)) = j
            /\ SubSeq(recs, 1, j + 1) \in Seq(Whole) /\ recs[j + 1] \in Whole
    BY NextRecord, Zenon
  <2>2. SubSeq(file, 1, pos) = b \o SubSeq(recs, 1, j)
    OBVIOUS
  <2> QED
    BY <2>1, <2>2, Zenon
<1>2. Appended(x) = f
  BY <1>1 DEF Appended
<1> HIDE DEF f, x
<1>3. AppendWhole(x)
  BY DEF x
<1>4. PICK r \in Tails : file' = Appended(x) \o r /\ (r # <<>> => Rest # <<>>)
  BY <1>1, <1>3, WroteWhole
<1>5. pos' = pos + 1 /\ size' = pos + 1
  BY <1>1, <1>3, WroteWhole
<1>6. f \in Seq(Rec) /\ r \in Seq(Rec) /\ b \in Seq(Rec) /\ SubSeq(recs, 1, j + 1) \in Seq(Rec)
  <2>1. Whole \subseteq Rec
    BY DEF Rec
  <2> QED
    BY <1>1, <2>1, SeqMonotonic, TailFacts
<1>7. SubSeq(f \o r, 1, Len(f)) = f
  BY <1>6, BeginsWith
<1>8. pos' = Len(b) + (j + 1) /\ pos' = Len(f)
  <2>1. Len(b) \in Nat /\ j \in Nat
    OBVIOUS
  <2> QED
    BY <1>1, <1>5, <2>1
<1>9. IsPrefix(b, f \o r)
  <2> DEFINE g == SubSeq(recs, 1, j + 1)
  <2>1. f = b \o g /\ g \in Seq(Rec)
    BY <1>6 DEF f
  <2> HIDE DEF g
  <2>2. (b \o g) \o r = b \o (g \o r)
    BY <1>6, <2>1, ConcatAssociative, SMTT(60)
  <2>3. g \o r \in Seq(Rec)
    BY <1>6, <2>1, ConcatProperties
  <2>4. IsPrefix(b, b \o (g \o r))
    BY <1>6, <2>3, PrefixOfConcat
  <2> QED
    BY <2>1, <2>2, <2>4
<1> QED
  BY <1>2, <1>4, <1>5, <1>7, <1>8, <1>9 DEF f

-----------------------------------------------------------------------------
(* The steps of the programs. *)

\* What is behind the descriptor's size is the remains of a failed write.
LEMMA HonestIs ==
  ASSUME Desc, Honest, Rest # <<>>
  PROVE  count.fail # 0
<1>1. size \in 0..Len(file) /\ Len(file) \in Nat /\ file \in Seq(Rec)
  BY DEF Desc, Head0, Records
<1>2. size < Len(file)
  <2>1. SUFFICES ASSUME size = Len(file) PROVE FALSE
    BY <1>1
  <2>2. Rest = <<>>
    BY <1>1, <2>1, SubSeqEmpty DEF Rest
  <2> QED
    BY <2>2
<1>3. file[Len(file)] \in Torn /\ Len(file) \in 1..Len(file)
  BY <1>1, <1>2 DEF Desc, Head0
<1> QED
  BY <1>3 DEF Honest

LEMMA HonestAfter ==
  ASSUME NEW f \in Seq(Whole), NEW r \in Tails, file' = f \o r,
         count'.fail = 0 => r = <<>>
  PROVE  Honest'
<1> SUFFICES ASSUME count'.fail = 0 PROVE \A i \in 1..Len(file') : file'[i] \notin Torn
  BY DEF Honest
<1>1. Len(r) = 0
  <2>1. r = <<>>
    OBVIOUS
  <2> QED
    BY <2>1
<1>2. Len(f \o r) = Len(f) + Len(r) /\ Len(f) \in Nat
      /\ \A i \in 1..Len(f) : (f \o r)[i] \notin Torn
  BY Built
<1> QED
  BY <1>1, <1>2

LEMMA MoveThen ==
  ASSUME NEW x \in {Rewind, Jump, ReadOne, ReadFile, Forward(1), Backward(3)},
         done \in Seq(Sessions), NEW q \in Seq(Operations), Len(q) > 0
  PROVE  /\ Then(x, q) \in Seq(Operations) /\ Then(x, q)[1].op # "write" /\ x.op # "write"
         /\ Len(Then(x, q)) > 1 /\ Len(Then(x, q)) \in Nat
<1>1. /\ Rewind \in Operations /\ Jump \in Operations /\ ReadFile \in Operations
      /\ ReadOne \in Operations /\ Forward(1) \in Operations /\ Backward(3) \in Operations
  BY OpsAre, JumpType
<1>2. /\ Rewind.op # "write" /\ Jump.op # "write" /\ ReadFile.op # "write"
      /\ ReadOne.op # "write" /\ Forward(1).op # "write" /\ Backward(3).op # "write"
  BY JumpType DEF Rewind, ReadOne, ReadFile, Forward, Backward
<1>3. x \in Operations /\ x.op # "write"
  BY <1>1, <1>2
<1>4. /\ Then(x, q) \in Seq(Operations) /\ Len(Then(x, q)) = Len(q) + 1 /\ Then(x, q)[1] = x
  BY <1>3, ThenIs
<1>5. Len(q) \in Nat
  OBVIOUS
<1> QED
  BY <1>3, <1>4, <1>5

\* Before it writes, a program has more to do than its next operation.
LEMMA OnTheWay ==
  ASSUME done \in Seq(Sessions), NEW recs \in Seq(Whole), recs # <<>>, Seeks(recs) \/ Looks(recs)
  PROVE  todo[1].op # "write" /\ Len(todo) \in Nat /\ Len(todo) > 1
<1> DEFINE w == WriteAll(recs)
           a == Then(Forward(1), w)
           b == Then(ReadFile, a)
           c == Then(Backward(3), b)
           Good(t) == t[1].op # "write" /\ Len(t) \in Nat /\ Len(t) > 1
<1>1. w \in Seq(Operations) /\ Len(w) > 0
  <2>1. Len(recs) \in Nat /\ Len(recs) # 0
    BY EmptySeq
  <2> QED
    BY <2>1, WriteAllIs
<1> HIDE DEF w
<1>2. a \in Seq(Operations) /\ Good(a) /\ Len(a) > 0
  BY <1>1, MoveThen
<1> HIDE DEF a
<1>3. b \in Seq(Operations) /\ Good(b) /\ Len(b) > 0
  BY <1>2, MoveThen
<1> HIDE DEF b
<1>4. c \in Seq(Operations) /\ Good(c) /\ Len(c) > 0
  BY <1>3, MoveThen
<1> HIDE DEF c
<1>5. CASE Seeks(recs)
  <2>1. PICK look \in BOOLEAN : \/ todo = Then(Rewind, Then(Jump, Program(look, recs)))
                                \/ todo = Then(Jump, Program(look, recs))
    BY <1>5 DEF Seeks
  <2> DEFINE q == Program(look, recs)
             d == Then(Jump, q)
             e == Then(Rewind, d)
  <2>2. q = c \/ q = w
    BY DEF Program, LookBack, c, b, a, w
  <2> HIDE DEF q
  <2>3. q \in Seq(Operations) /\ Len(q) > 0
    BY <1>1, <1>4, <2>2
  <2>4. d \in Seq(Operations) /\ Good(d) /\ Len(d) > 0
    BY <2>3, MoveThen
  <2> HIDE DEF d
  <2>5. Good(e)
    BY <2>4, MoveThen
  <2> HIDE DEF e
  <2>6. todo = e \/ todo = d
    BY <2>1 DEF e, d, q
  <2> QED
    BY <2>4, <2>5, <2>6
<1>6. CASE Looks(recs)
  <2>1. todo = c \/ todo = b \/ todo = a
    BY <1>6 DEF Looks, LookBack, c, b, a, w
  <2> QED
    BY <1>2, <1>3, <1>4, <2>1
<1> QED
  BY <1>5, <1>6

LEMMA BeginIs ==
  ASSUME Formats, done \in Seq(Sessions)
  PROVE  /\ Begin \in Seq(Whole) /\ Len(Begin) = 3 /\ WriteAll(Begin) \in Seq(Operations)
         /\ ~Writes(<<>>, Begin) => todo[1].op # "write" /\ Len(todo) > 1 /\ Len(todo) \in Nat
<1> DEFINE w == WriteAll(Begin)
           a == Then(Rewind, w)
           b == Then(ReadOne, a)
           c == Then(Rewind, b)
           Good(t) == t[1].op # "write" /\ Len(t) > 1 /\ Len(t) \in Nat
<1>1. Begin \in Seq(Whole) /\ Len(Begin) = 3
  BY MarksAre DEF Begin
<1>2. w \in Seq(Operations) /\ Len(w) > 0
  <2>1. Begin \in Seq(Whole)
    BY <1>1
  <2>2. w \in Seq(Operations) /\ Len(w) = Len(Begin)
    BY <2>1, WriteAllIs
  <2> HIDE DEF w
  <2> QED
    BY <1>1, <2>2
<1> HIDE DEF w
<1>3. a \in Seq(Operations) /\ Good(a) /\ Len(a) > 0
  BY <1>2, MoveThen
<1> HIDE DEF a
<1>4. b \in Seq(Operations) /\ Good(b) /\ Len(b) > 0
  BY <1>3, MoveThen
<1> HIDE DEF b
<1>5. c \in Seq(Operations) /\ Good(c)
  BY <1>4, MoveThen
<1> HIDE DEF c
<1>6. todo = c \/ todo = b \/ todo = a \/ Writes(<<>>, Begin)
  BY DEF Formats, c, b, a, w
<1> QED
  BY <1>1, <1>2, <1>3, <1>4, <1>5, <1>6 DEF w

LEMMA MarkPairIs == <<Mark, Mark>> \in Seq(Whole) /\ Len(<<Mark, Mark>>) = 2
BY CloseIs

\* What a backup writes.
LEMMA RunIs ==
  ASSUME Kinds, Numbered, task = "backup", NEW tar \in 1..MaxTar
  PROVE  [id |-> count.run, tar |-> tar] \in Sessions
<1>1. count.run \in Nat /\ count.run > 0 /\ count.run <= MaxRuns /\ MaxRuns \in Nat
  BY FileTapeAssumption DEF Kinds, Counters, Numbered
<1>2. count.run \in 1..MaxRuns
  BY <1>1
<1> QED
  BY <1>2 DEF Sessions

\* A program that writes has reached its place.
LEMMA WritingIs ==
  ASSUME DInv, PInv, task # "none", Writing
  PROVE  \/ task = "format" /\ Writes(<<>>, Begin)
         \/ /\ task = "backup" /\ labelled
            /\ \E tar \in 1..MaxTar : Writes(Com(done), Part([id |-> count.run, tar |-> tar]))
         \/ task = "undo" /\ labelled /\ Writes(Com(done), <<Mark, Mark>>)
<1>1. done \in Seq(Sessions) /\ task \in Tasks /\ Kinds /\ Course /\ Numbered
  BY DEF DInv, PInv, Kinds, Numbered
<1>2. todo[1].op = "write" /\ 1 \in 1..Len(todo)
  BY <1>1, OpIs DEF Writing
<1>3. CASE task = "format"
  BY <1>1, <1>2, <1>3, BeginIs DEF Course
<1>4. CASE task = "backup"
  <2>1. PICK tar \in 1..MaxTar : Behind(Part([id |-> count.run, tar |-> tar]))
    BY <1>1, <1>4 DEF Course
  <2> DEFINE recs == Part([id |-> count.run, tar |-> tar])
  <2>2. recs \in Seq(Whole) /\ recs # <<>>
    <3>1. [id |-> count.run, tar |-> tar] \in Sessions
      BY <1>1, <1>4, RunIs
    <3> DEFINE s == [id |-> count.run, tar |-> tar]
    <3> HIDE DEF s
    <3>2. Part(s) \in Seq(Whole) /\ Len(Part(s)) = s.tar + 5 /\ s.tar \in Nat
      BY <3>1, PartIs DEF s
    <3>3. Len(Part(s)) # 0
      BY <3>2
    <3>4. Part(s) # <<>>
      BY <3>3
    <3> QED
      BY <3>2, <3>4 DEF s
  <2> HIDE DEF recs
  <2>3. ~(Seeks(recs) \/ Looks(recs))
    BY <1>1, <1>2, <2>2, OnTheWay
  <2>4. Writes(Com(done), recs)
    BY <2>1, <2>3 DEF Behind, recs
  <2> QED
    BY <1>1, <1>4, <2>4 DEF Course, recs
<1>5. CASE task = "undo"
  <2> DEFINE recs == <<Mark, Mark>>
  <2>1. recs \in Seq(Whole) /\ recs # <<>>
    BY MarkPairIs
  <2>2. Behind(recs) /\ labelled
    BY <1>1, <1>5 DEF Course
  <2> HIDE DEF recs
  <2>3. ~(Seeks(recs) \/ Looks(recs))
    BY <1>1, <1>2, <2>1, OnTheWay
  <2> QED
    BY <1>5, <2>2, <2>3 DEF Behind, recs
<1>6. CASE task = "read"
  BY <1>1, <1>2, <1>6 DEF Course
<1> QED
  BY <1>1, <1>3, <1>4, <1>5, <1>6 DEF Tasks

\* One more record, and what the program does then.
LEMMA WriteStepIs ==
  ASSUME DInv, NEW b \in Seq(Whole), NEW recs \in Seq(Whole), Writes(b, recs), WriteGoesOn
  PROVE  \E j \in 0..(Len(recs) - 1), r \in Tails :
           /\ file' = (b \o SubSeq(recs, 1, j + 1)) \o r
           /\ r # <<>> => Rest # <<>>
           /\ IsPrefix(b, file')
           /\ pos = Len(b) + j /\ SubSeq(file, 1, pos) = b \o SubSeq(recs, 1, j) /\ (j > 0 => size = pos)
           /\ \/ /\ j + 1 < Len(recs)
                 /\ Touch /\ UNCHANGED <<task, done, count>>
                 /\ WritesIn(b, recs, todo', pos', file', size')
              \/ j + 1 = Len(recs) /\ Finish
<1>1. Kinds /\ Desc /\ task # "none" /\ AppendWhole(Op.rec)
  BY DEF WriteGoesOn, DInv
<1>2. PICK j \in 0..(Len(recs) - 1) :
        /\ todo = WriteAll(SubSeq(recs, j + 1, Len(recs)))
        /\ pos = Len(b) + j
        /\ SubSeq(file, 1, pos) = b \o SubSeq(recs, 1, j)
        /\ j > 0 => size = pos
  BY DEF Writes, WritesIn
<1>3. /\ todo \in Seq(Operations) /\ Len(todo) = Len(recs) - j
      /\ Head(todo) = Write(recs[j + 1])
      /\ Tail(todo) = WriteAll(SubSeq(recs, j + 2, Len(recs)))
  <2> DEFINE q == WriteAll(SubSeq(recs, j + 1, Len(recs)))
  <2>1. /\ q \in Seq(Operations) /\ Len(q) = Len(recs) - j
        /\ Head(q) = Write(recs[j + 1])
        /\ Tail(q) = WriteAll(SubSeq(recs, j + 2, Len(recs)))
    BY WriteNext
  <2> HIDE DEF q
  <2>2. todo = q
    BY <1>2 DEF q
  <2> QED
    BY <2>1, <2>2
<1>4. AppendWhole(recs[j + 1])
  BY <1>1, <1>3 DEF Op, Write
<1>5. /\ \E r \in Tails : /\ file' = (b \o SubSeq(recs, 1, j + 1)) \o r
                          /\ r # <<>> => Rest # <<>>
      /\ SubSeq(file', 1, pos') = b \o SubSeq(recs, 1, j + 1)
      /\ pos' = Len(b) + (j + 1) /\ size' = pos'
      /\ IsPrefix(b, file')
  BY <1>1, <1>2, <1>4, WritesOn
<1>6. PICK r \in Tails : /\ file' = (b \o SubSeq(recs, 1, j + 1)) \o r
                         /\ r # <<>> => Rest # <<>>
  BY <1>5
<1>7. j \in Nat /\ Len(recs) \in Nat /\ j + 1 <= Len(recs)
  OBVIOUS
<1>8. CASE j + 1 < Len(recs)
  <2>1. Touch /\ todo' = Tail(todo) /\ UNCHANGED <<task, done, count>>
    BY <1>3, <1>7, <1>8 DEF WriteGoesOn
  <2>2. WritesIn(b, recs, todo', pos', file', size')
    <3> DEFINE k == j + 1
    <3>1. k \in 0..(Len(recs) - 1) /\ k + 1 = j + 2
      BY <1>7, <1>8
    <3>2. /\ todo' = WriteAll(SubSeq(recs, k + 1, Len(recs)))
          /\ pos' = Len(b) + k
          /\ SubSeq(file', 1, pos') = b \o SubSeq(recs, 1, k)
          /\ size' = pos'
      BY <1>3, <1>5, <2>1, <3>1
    <3> HIDE DEF k
    <3> QED
      BY <3>1, <3>2 DEF WritesIn
  <2> QED
    BY <1>2, <1>5, <1>6, <1>8, <2>1, <2>2
<1>9. CASE j + 1 = Len(recs)
  <2>1. Len(todo) = 1
    BY <1>3, <1>7, <1>9
  <2>2. Finish
    BY <2>1 DEF WriteGoesOn
  <2> QED
    BY <1>2, <1>5, <1>6, <1>9, <2>2
<1>10. j + 1 < Len(recs) \/ j + 1 = Len(recs)
  BY <1>7
<1> QED
  BY <1>8, <1>9, <1>10, Zenon

\* When the last mark of a part is to be written the tape has as many tar
\* blocks of the attempt as the part.
LEMMA AttemptIs ==
  ASSUME DInv, Numbered, task = "backup", NEW tar \in 1..MaxTar,
         NEW p, p = Part([id |-> count.run, tar |-> tar]),
         NEW j, j = Len(p) - 1,
         pos = Len(Com(done)) + j, SubSeq(file, 1, pos) = Com(done) \o SubSeq(p, 1, j), size = pos
  PROVE  Attempt = [id |-> count.run, tar |-> tar]
<1> DEFINE s == [id |-> count.run, tar |-> tar]
           run == count.run
           c == Com(done)
           n == Len(c)
           h == SubSeq(p, 1, j)
           f == c \o h
           K == {k \in 1..MaxTar : Tar(run, k) \in ToSet(file)}
<1>1. s \in Sessions /\ s.tar = tar /\ s.id = run
  BY RunIs DEF DInv
<1>2. tar \in Nat \ {0} /\ MaxTar \in Nat /\ tar <= MaxTar
  <2>1. MaxTar \in Nat
    BY FileTapeAssumption
  <2> QED
    BY <2>1
<1>3. /\ p \in Seq(Whole) /\ Len(p) = tar + 5
      /\ p[1] = Index(run) /\ p[2] = Mark
      /\ \A k \in 1..tar : p[k + 2] = Tar(run, k)
      /\ \A i \in (tar + 3)..(tar + 5) : p[i] = Mark
  <2> HIDE DEF s, run
  <2>1. /\ Part(s) \in Seq(Whole) /\ Len(Part(s)) = s.tar + 5
        /\ Part(s)[1] = Index(s.id) /\ Part(s)[2] = Mark
        /\ \A k \in 1..s.tar : Part(s)[k + 2] = Tar(s.id, k)
        /\ \A i \in (s.tar + 3)..(s.tar + 5) : Part(s)[i] = Mark
    BY <1>1, PartIs
  <2>2. p = Part(s)
    BY DEF s
  <2> QED
    BY <1>1, <2>1, <2>2
<1>4. c \in Seq(Whole) /\ n \in Nat /\ done \in Seq(Sessions)
  BY ComType DEF Numbered
<1> HIDE DEF s, c, n
<1>5. h \in Seq(Whole) /\ Len(h) = tar + 4 /\ j = tar + 4 /\ \A i \in 1..(tar + 4) : h[i] = p[i]
  <2>1. j = tar + 4 /\ j \in Nat /\ 1 <= j
    BY <1>2, <1>3
  <2>2. \A i \in 1..j : p[i] \in Whole
    BY <1>2, <1>3, <2>1
  <2>3. /\ h \in Seq(Whole) /\ Len(h) = IF 1 <= j THEN j - 1 + 1 ELSE 0
        /\ \A i \in 1..(j - 1 + 1) : h[i] = p[1 + i - 1]
    BY <2>1, <2>2, SubSeqProperties
  <2> HIDE DEF h
  <2>4. j - 1 + 1 = j /\ \A i \in 1..j : 1 + i - 1 = i
    BY <2>1
  <2> QED
    BY <2>1, <2>3, <2>4
<1> HIDE DEF h
<1>6. /\ \A i \in 1..(n + Len(h)) : f[i] = IF i <= n THEN c[i] ELSE h[i - n]
  BY <1>4, <1>5, ConcatProperties DEF n
<1>7. \A i \in 1..pos : file[i] = f[i]
  <2>1. SubSeq(file, 1, pos) = f
    BY DEF c, h
  <2> HIDE DEF f
  <2>2. Desc
    BY DEF DInv
  <2> QED
    BY <2>1, <2>2, Before
<1>8. pos = n + (tar + 4) /\ pos \in Nat /\ pos <= Len(file) /\ Len(file) \in Nat /\ file \in Seq(Rec)
  <2>1. pos = n + j
    BY DEF n, c
  <2>2. pos = size /\ size <= Len(file) /\ Len(file) \in Nat /\ file \in Seq(Rec)
    BY DEF DInv, Desc, Head0, Records
  <2>3. pos = n + (tar + 4)
    BY <1>5, <2>1
  <2>4. n + (tar + 4) \in Nat
    BY <1>2, <1>4
  <2> QED
    BY <2>2, <2>3, <2>4
<1>9. \A i \in (pos + 1)..Len(file) : file[i] \in Torn
  <2>1. SUFFICES ASSUME NEW i \in (pos + 1)..Len(file) PROVE file[i] \in Torn
    OBVIOUS
  <2>2. size < Len(file)
    BY <1>8
  <2>3. Len(file) = size + 1 /\ file[Len(file)] \in Torn
    BY <2>2 DEF DInv, Desc, Head0
  <2>4. i = Len(file)
    BY <1>8, <2>3
  <2> QED
    BY <2>3, <2>4
<1>10. \A i \in 1..n : c[i] = file[i] /\ \A k : file[i] # Tar(run, k)
  <2>1. SUFFICES ASSUME NEW i \in 1..n PROVE c[i] = file[i] /\ \A k : file[i] # Tar(run, k)
    OBVIOUS
  <2>2. i \in 1..pos /\ i \in 1..(n + Len(h)) /\ i <= n
    <3>1. n \in Nat /\ tar \in Nat /\ pos = n + (tar + 4) /\ Len(h) = tar + 4
      BY <1>2, <1>4, <1>5, <1>8
    <3> QED
      BY <3>1
  <2>3. file[i] = c[i]
    BY <1>6, <1>7, <2>2
  <2>4. \A l \in 1..Len(done) : done[l].id # run
    <3>1. run \in Nat
      BY DEF DInv, Kinds, Counters
    <3>2. ASSUME NEW l \in 1..Len(done) PROVE done[l].id # run
      <4>1. done[l].id < run
        BY DEF Numbered
      <4>2. done[l].id \in Nat
        <5>1. done[l] \in Sessions
          BY <1>4
        <5> QED
          BY <5>1 DEF Sessions
      <4> QED
        BY <3>1, <4>1, <4>2
    <3> QED
      BY <3>2
  <2>5. OnlyOf(done)
    BY <1>4, ComOnlyOf
  <2>6. \A k : c[i] # Tar(run, k)
    <3>1. i \in 1..Len(Com(done))
      BY DEF n, c
    <3> HIDE DEF run
    <3> QED
      BY <2>4, <2>5, <3>1 DEF OnlyOf, c
  <2> QED
    BY <2>3, <2>6
<1>11. \A i \in 1..(tar + 4) : file[n + i] = p[i]
  <2>1. SUFFICES ASSUME NEW i \in 1..(tar + 4) PROVE file[n + i] = p[i]
    OBVIOUS
  <2>2. n + i \in 1..pos /\ n + i \in 1..(n + Len(h)) /\ ~(n + i <= n) /\ (n + i) - n = i
    BY <1>2, <1>4, <1>5, <1>8
  <2> QED
    BY <1>5, <1>6, <1>7, <2>2
<1> HIDE DEF run, f
<1>12. ASSUME NEW k \in 1..tar PROVE k \in K
  <2>1. k + 2 \in 1..(tar + 4) /\ n + (k + 2) \in 1..Len(file) /\ k \in 1..MaxTar
    BY <1>2, <1>4, <1>8
  <2>2. file[n + (k + 2)] = Tar(run, k)
    BY <1>3, <1>11, <2>1
  <2>3. DOMAIN file = 1..Len(file)
    BY <1>8
  <2> QED
    BY <2>1, <2>2, <2>3 DEF ToSet
<1>13. ASSUME NEW k \in K PROVE k \in 1..tar
  <2>1. PICK i \in 1..Len(file) : file[i] = Tar(run, k)
    <3>1. DOMAIN file = 1..Len(file)
      BY <1>8
    <3> QED
      BY <3>1 DEF ToSet
  <2>2. i \notin 1..n
    BY <1>10, <2>1
  <2>3. i \notin (pos + 1)..Len(file)
    BY <1>9, <2>1, BlocksDiffer
  <2>4. i - n \in 1..(tar + 4) /\ n + (i - n) = i
    BY <1>2, <1>4, <1>8, <2>2, <2>3
  <2>5. p[i - n] = Tar(run, k)
    BY <1>11, <2>1, <2>4
  <2> DEFINE m == i - n
  <2>6. m \in 1..(tar + 4) /\ p[m] = Tar(run, k)
    BY <2>4, <2>5
  <2> HIDE DEF m
  <2>7. m # 1 /\ m # 2
    BY <1>3, <2>6, BlocksDiffer
  <2>8. m \notin (tar + 3)..(tar + 5)
    BY <1>3, <2>6, BlocksDiffer
  <2>9. m - 2 \in 1..tar /\ (m - 2) + 2 = m
    BY <1>2, <2>6, <2>7, <2>8
  <2>10. p[m] = Tar(run, m - 2)
    BY <1>3, <2>9
  <2>12. Tar(run, k) = Tar(run, m - 2)
    BY <2>6, <2>10
  <2>11. k = m - 2
    <3> DEFINE z == m - 2
    <3>1. Tar(run, k) = Tar(run, z)
      BY <2>12
    <3> HIDE DEF z
    <3>2. k = z
      BY <3>1, BlocksDiffer
    <3> QED
      BY <3>2 DEF z
  <2> QED
    BY <2>9, <2>11
<1>14. K = 1..tar
  <2> HIDE DEF K
  <2> QED
    BY <1>12, <1>13
<1>15. Cardinality(1..tar) = tar
  BY <1>2, FS_Interval
<1> QED
  BY <1>14, <1>15 DEF Attempt, run

LEMMA SettledNext ==
  /\ SettledTapeIsWhole' <=> (settled' => WholeIn(file', done', count'.fail))
  /\ SessionsKept' <=> (labelled' => IsPrefix(Com(done'), file'))
<1>1. (/\ SettledTapeIsWhole <=> (settled => WholeIn(file, done, count.fail))
       /\ SessionsKept <=> (labelled => IsPrefix(Com(done), file)))'
  BY SettledIs, PTL
<1> QED
  BY <1>1

LEMMA ClosedNext ==
  ASSUME NEW d \in Seq(Sessions), done' = d, NEW pair \in {<<Mark>>, <<Mark, Mark>>}, NEW r \in Tails,
         pair = <<Mark>> => d = <<>>, r # <<>> => count'.fail > 0,
         file' = (Com(d) \o pair) \o r
  PROVE  SettledTapeIsWhole' /\ SessionsKept'
<1> DEFINE n == count'.fail
           f == (Com(d) \o pair) \o r
<1>1. r # <<>> => n > 0
  OBVIOUS
<1> HIDE DEF n
<1>2. WholeIn(f, d, n) /\ IsPrefix(Com(d), f)
  BY <1>1, ClosedIs
<1>3. file' = f
  OBVIOUS
<1> HIDE DEF f
<1> QED
  BY <1>2, <1>3, SettledNext DEF n

LEMMA FailIs == ASSUME DInv, Honest, Rest # <<>> PROVE count.fail > 0
<1>1. count.fail # 0
  BY HonestIs DEF DInv
<1>2. count.fail \in Nat
  BY DEF DInv, Kinds, Counters
<1> QED
  BY <1>1, <1>2

LEMMA FormatWrites ==
  ASSUME DInv, PInv, WriteGoesOn, task = "format", Writes(<<>>, Begin)
  PROVE  PInv'
<1> DEFINE recs == Begin
<1>1. recs \in Seq(Whole) /\ Len(recs) = 3 /\ <<>> \in Seq(Whole) /\ SubSeq(recs, 1, 3) = recs
  <2>1. recs \in Seq(Whole) /\ Len(recs) = 3
    BY MarksAre DEF Begin
  <2> HIDE DEF recs
  <2>2. SubSeq(recs, 1, Len(recs)) = recs
    BY <2>1, SubSeqFull
  <2> QED
    BY <2>1, <2>2
<1> DEFINE b == <<>>
<1> HIDE DEF b, recs
<1>2. PICK j \in 0..(Len(recs) - 1), r \in Tails :
           /\ file' = (b \o SubSeq(recs, 1, j + 1)) \o r
           /\ r # <<>> => Rest # <<>>
           /\ \/ /\ j + 1 < Len(recs)
                 /\ Touch /\ UNCHANGED <<task, done, count>>
                 /\ WritesIn(b, recs, todo', pos', file', size')
              \/ j + 1 = Len(recs) /\ Finish
  <2>1. b \in Seq(Whole) /\ recs \in Seq(Whole) /\ Writes(b, recs)
    BY <1>1 DEF b, recs
  <2> QED
    BY <2>1, WriteStepIs
<1>3. b \o SubSeq(recs, 1, j + 1) \in Seq(Whole)
  <2>1. b \in Seq(Whole)
    BY <1>1 DEF b
  <2> QED
    BY <1>1, <2>1, NextRecord
<1>4. count' = count
  BY <1>2 DEF Finish
<1>5. r # <<>> => count'.fail > 0
  BY <1>2, <1>4, FailIs DEF PInv
<1>6. Honest'
  <2> DEFINE f == b \o SubSeq(recs, 1, j + 1)
  <2>1. f \in Seq(Whole) /\ file' = f \o r /\ (count'.fail = 0 => r = <<>>)
    BY <1>2, <1>3, <1>5
  <2> HIDE DEF f
  <2> QED
    BY <2>1, HonestAfter
<1>7. CASE /\ Touch /\ UNCHANGED <<task, done, count>>
           /\ WritesIn(b, recs, todo', pos', file', size')
  <2>1. settled' = FALSE /\ labelled' = FALSE /\ task' = "format"
    BY <1>7 DEF Touch
  <2>2. SettledTapeIsWhole' /\ SessionsKept'
    BY <2>1, SettledNext
  <2>3. Numbered'
    BY <1>7, <2>1 DEF PInv, Numbered
  <2>4. Writes(<<>>, Begin)'
    BY <1>7 DEF Writes, b, recs
  <2>5. Course'
    BY <2>1, <2>4 DEF Course, Formats
  <2> QED
    BY <1>6, <2>1, <2>2, <2>3, <2>5 DEF PInv
<1>8. CASE j + 1 = Len(recs) /\ Finish
  <2>1. task' = "none" /\ done' = <<>> /\ labelled'
    BY <1>8 DEF Finish
  <2>2. file' = (Com(<<>>) \o <<Mark>>) \o r
    <3>1. b \o SubSeq(recs, 1, j + 1) = recs
      <4>1. SubSeq(recs, 1, j + 1) = recs
        BY <1>1, <1>8
      <4>2. <<>> \o recs = recs
        BY <1>1, ConcatEmptySeq
      <4> QED
        BY <4>1, <4>2 DEF b
    <3>2. Com(<<>>) \o <<Mark>> = recs
      <4> DEFINE l == <<Label, Mark>>
      <4>1. l \in Seq(Whole) /\ Mark \in Whole
        BY MarksAre
      <4>2. Append(l, Mark) = l \o <<Mark>>
        <5> HIDE DEF l
        <5> QED
          BY <4>1, AppendIsConcat
      <4>3. Append(l, Mark) = <<Label, Mark, Mark>>
        <5> DEFINE a == Append(l, Mark)
                   e == <<Label, Mark, Mark>>
        <5>1. l[1] = Label /\ l[2] = Mark /\ Len(l) = 2
          OBVIOUS
        <5>2. e \in Seq(Whole) /\ Len(e) = 3 /\ e[1] = Label /\ e[2] = Mark /\ e[3] = Mark
          BY MarksAre DEF Begin
        <5> HIDE DEF l, e
        <5>3. /\ a \in Seq(Whole) /\ Len(a) = Len(l) + 1 /\ a[Len(l) + 1] = Mark
              /\ \A i \in 1..Len(l) : a[i] = l[i]
          BY <4>1, AppendProperties
        <5> HIDE DEF a
        <5>4. Len(a) = 3 /\ a[3] = Mark /\ a[1] = Label /\ a[2] = Mark
          BY <5>1, <5>3
        <5>5. \A i \in 1..3 : a[i] = e[i]
          <6>1. \A i \in 1..3 : i = 1 \/ i = 2 \/ i = 3
            OBVIOUS
          <6> QED
            BY <5>2, <5>4, <6>1
        <5>6. a = e
          BY <5>2, <5>3, <5>4, <5>5, SeqEqual
        <5> QED
          BY <5>6 DEF a, e
      <4> QED
        BY <4>2, <4>3, ComBegins DEF recs, Begin
    <3> QED
      BY <1>2, <3>1, <3>2
  <2>3. SettledTapeIsWhole' /\ SessionsKept'
    <3>1. <<>> \in Seq(Sessions)
      OBVIOUS
    <3> QED
      BY <1>5, <2>1, <2>2, <3>1, ClosedNext
  <2>4. Numbered'
    <3>1. <<>> \in Seq(Sessions) /\ Len(<<>>) = 0
      OBVIOUS
    <3>2. count.run <= MaxRuns
      BY DEF PInv, Numbered
    <3> QED
      BY <1>4, <2>1, <3>1, <3>2 DEF Numbered
  <2>5. Course'
    BY <2>1 DEF Course
  <2> QED
    BY <1>6, <2>1, <2>3, <2>4, <2>5 DEF PInv
<1> QED
  BY <1>2, <1>7, <1>8

LEMMA UndoWrites ==
  ASSUME DInv, PInv, WriteGoesOn, task = "undo", labelled, Writes(Com(done), <<Mark, Mark>>)
  PROVE  PInv'
<1> DEFINE recs == <<Mark, Mark>>
           b == Com(done)
<1>1. recs \in Seq(Whole) /\ Len(recs) = 2 /\ b \in Seq(Whole) /\ SubSeq(recs, 1, 2) = recs
  <2>1. recs \in Seq(Whole) /\ Len(recs) = 2
    BY MarkPairIs
  <2>3. done \in Seq(Sessions)
    BY DEF PInv, Numbered
  <2>4. b \in Seq(Whole)
    BY <2>3, ComType
  <2> HIDE DEF recs, b
  <2>2. SubSeq(recs, 1, Len(recs)) = recs
    BY <2>1, SubSeqFull
  <2> QED
    BY <2>1, <2>2, <2>4
<1>0. done \in Seq(Sessions) /\ b = Com(done)
  BY DEF PInv, Numbered
<1>9. Writes(b, recs)
  OBVIOUS
<1> HIDE DEF b, recs
<1>2. PICK j \in 0..(Len(recs) - 1), r \in Tails :
           /\ file' = (b \o SubSeq(recs, 1, j + 1)) \o r
           /\ r # <<>> => Rest # <<>>
           /\ IsPrefix(b, file')
           /\ \/ /\ j + 1 < Len(recs)
                 /\ Touch /\ UNCHANGED <<task, done, count>>
                 /\ WritesIn(b, recs, todo', pos', file', size')
              \/ j + 1 = Len(recs) /\ Finish
  <2>1. b \in Seq(Whole) /\ recs \in Seq(Whole)
    BY <1>1
  <2> QED
    BY <1>9, <2>1, WriteStepIs
<1>3. b \o SubSeq(recs, 1, j + 1) \in Seq(Whole)
  BY <1>1, NextRecord
<1>4. count' = count
  BY <1>2 DEF Finish
<1>5. r # <<>> => count'.fail > 0
  BY <1>2, <1>4, FailIs DEF PInv
<1>6. Honest'
  <2> DEFINE f == b \o SubSeq(recs, 1, j + 1)
  <2>1. f \in Seq(Whole) /\ file' = f \o r /\ (count'.fail = 0 => r = <<>>)
    BY <1>2, <1>3, <1>5
  <2> HIDE DEF f
  <2> QED
    BY <2>1, HonestAfter
<1>7. CASE /\ Touch /\ UNCHANGED <<task, done, count>>
           /\ WritesIn(b, recs, todo', pos', file', size')
  <2>1. settled' = FALSE /\ labelled' /\ task' = "undo" /\ done' = done
    BY <1>7 DEF Touch
  <2>6. b = Com(done')
    BY <1>0, <2>1
  <2>2. SettledTapeIsWhole' /\ SessionsKept'
    BY <1>2, <2>1, <2>6, SettledNext
  <2>3. Numbered'
    BY <1>7, <2>1 DEF PInv, Numbered
  <2>4. Writes(Com(done), <<Mark, Mark>>)'
    BY <1>7, <2>6 DEF Writes, recs
  <2>5. Course'
    BY <2>1, <2>4 DEF Course, Behind
  <2> QED
    BY <1>6, <2>1, <2>2, <2>3, <2>5 DEF PInv
<1>8. CASE j + 1 = Len(recs) /\ Finish
  <2>1. task' = "none" /\ done' = done /\ labelled'
    BY <1>8 DEF Finish
  <2>2. file' = (Com(done) \o <<Mark, Mark>>) \o r
    <3>1. SubSeq(recs, 1, j + 1) = recs
      BY <1>1, <1>8
    <3> QED
      BY <1>0, <1>2, <3>1 DEF recs
  <2>3. SettledTapeIsWhole' /\ SessionsKept'
    <3>1. <<Mark, Mark>> # <<Mark>>
      <4>1. Len(<<Mark, Mark>>) = 2 /\ Len(<<Mark>>) = 1
        OBVIOUS
      <4> QED
        BY <4>1
    <3> QED
      BY <1>0, <1>5, <2>1, <2>2, <3>1, ClosedNext
  <2>4. Numbered'
    BY <1>4, <2>1 DEF PInv, Numbered
  <2>5. Course'
    BY <2>1 DEF Course
  <2> QED
    BY <1>6, <2>1, <2>3, <2>4, <2>5 DEF PInv
<1> QED
  BY <1>2, <1>7, <1>8

LEMMA BackupWrites ==
  ASSUME DInv, PInv, WriteGoesOn, task = "backup", labelled, NEW tar \in 1..MaxTar,
         Writes(Com(done), Part([id |-> count.run, tar |-> tar]))
  PROVE  PInv'
<1> DEFINE s == [id |-> count.run, tar |-> tar]
           recs == Part(s)
           b == Com(done)
           n == Len(recs)
<1>1. done \in Seq(Sessions) /\ Numbered /\ Kinds
  BY DEF PInv, Numbered, DInv
<1>2. s \in Sessions /\ s.id = count.run
  BY <1>1, RunIs
<1> HIDE DEF s
<1>3. recs \in Seq(Whole) /\ n = s.tar + 5 /\ s.tar \in Nat /\ recs = Segments(s) \o <<Mark, Mark>>
  BY <1>2, PartIs
<1>4. b \in Seq(Whole) /\ b = Com(done)
  BY <1>1, ComType
<1>5. Writes(b, recs)
  BY DEF s
<1> HIDE DEF b, recs
<1>6. SubSeq(recs, 1, n) = recs
  BY <1>3, SubSeqFull
<1>7. PICK j \in 0..(Len(recs) - 1), r \in Tails :
           /\ file' = (b \o SubSeq(recs, 1, j + 1)) \o r
           /\ r # <<>> => Rest # <<>>
           /\ IsPrefix(b, file')
           /\ pos = Len(b) + j /\ SubSeq(file, 1, pos) = b \o SubSeq(recs, 1, j) /\ (j > 0 => size = pos)
           /\ \/ /\ j + 1 < Len(recs)
                 /\ Touch /\ UNCHANGED <<task, done, count>>
                 /\ WritesIn(b, recs, todo', pos', file', size')
              \/ j + 1 = Len(recs) /\ Finish
  <2>1. b \in Seq(Whole) /\ recs \in Seq(Whole)
    BY <1>3, <1>4
  <2> QED
    BY <1>5, <2>1, WriteStepIs
<1>8. b \o SubSeq(recs, 1, j + 1) \in Seq(Whole)
  BY <1>3, <1>4, NextRecord
<1>9. count' = count
  BY <1>7 DEF Finish
<1>10. r # <<>> => count'.fail > 0
  BY <1>7, <1>9, FailIs DEF PInv
<1>11. Honest'
  <2> DEFINE f == b \o SubSeq(recs, 1, j + 1)
  <2>1. f \in Seq(Whole) /\ file' = f \o r /\ (count'.fail = 0 => r = <<>>)
    BY <1>7, <1>8, <1>10
  <2> HIDE DEF f
  <2> QED
    BY <2>1, HonestAfter
<1>12. CASE /\ Touch /\ UNCHANGED <<task, done, count>>
            /\ WritesIn(b, recs, todo', pos', file', size')
  <2>1. settled' = FALSE /\ labelled' /\ task' = "backup" /\ done' = done
    BY <1>12 DEF Touch
  <2>6. b = Com(done') /\ recs = Part([id |-> count'.run, tar |-> tar])
    BY <1>4, <1>9, <2>1 DEF recs, s
  <2>2. SettledTapeIsWhole' /\ SessionsKept'
    BY <1>7, <2>1, <2>6, SettledNext
  <2>3. Numbered'
    BY <1>1, <1>9, <2>1 DEF Numbered
  <2>4. Writes(Com(done), Part([id |-> count.run, tar |-> tar]))'
    BY <1>12, <2>6 DEF Writes
  <2>5. Course'
    BY <2>1, <2>4 DEF Course, Behind
  <2> QED
    BY <1>11, <2>1, <2>2, <2>3, <2>5 DEF PInv
<1>13. CASE j + 1 = Len(recs) /\ Finish
  <2>1. Attempt = s
    <3>1. j = Len(recs) - 1 /\ j > 0
      BY <1>3, <1>13
    <3>2. size = pos
      BY <1>7, <3>1
    <3>3. recs = Part([id |-> count.run, tar |-> tar])
      BY DEF recs, s
    <3>4. pos = Len(Com(done)) + j /\ SubSeq(file, 1, pos) = Com(done) \o SubSeq(recs, 1, j)
      BY <1>4, <1>7
    <3>5. j = Len(recs) - 1
      BY <3>1
    <3>6. Attempt = [id |-> count.run, tar |-> tar]
      BY <1>1, <3>2, <3>3, <3>4, <3>5, AttemptIs
    <3> QED
      BY <3>6 DEF s
  <2>2. task' = "none" /\ done' = Append(done, s) /\ labelled'
    BY <1>13, <2>1 DEF Finish
  <2> DEFINE d == Append(done, s)
             g == Segments(s)
             e == <<Mark, Mark>>
  <2>3. /\ d \in Seq(Sessions) /\ Len(d) = Len(done) + 1 /\ d[Len(done) + 1] = s
        /\ \A i \in 1..Len(done) : d[i] = done[i]
    BY <1>1, <1>2, AppendProperties
  <2>4. Com(d) = b \o g
    BY <1>1, <1>2, <1>4, ComGrows
  <2>5. g \in Seq(Whole) /\ e \in Seq(Whole)
    BY <1>2, SegmentsAre, MarkPairIs
  <2>6. recs = g \o e /\ done' = d
    BY <1>3, <2>2
  <2>7. e # <<Mark>> /\ e \in {<<Mark>>, <<Mark, Mark>>}
    <3>1. Len(<<Mark, Mark>>) = 2 /\ Len(<<Mark>>) = 1
      OBVIOUS
    <3> QED
      BY <3>1
  <2> HIDE DEF d, g, e
  <2>8. file' = (b \o recs) \o r
    BY <1>6, <1>7, <1>13
  <2>9. b \o (g \o e) = (b \o g) \o e
    BY <1>4, <2>5, WholeAssociative
  <2>10. file' = (Com(d) \o e) \o r
    BY <2>4, <2>6, <2>8, <2>9
  <2>11. SettledTapeIsWhole' /\ SessionsKept'
    BY <1>10, <2>3, <2>6, <2>7, <2>10, ClosedNext
  <2>12. Numbered'
    <3>1. count.run <= MaxRuns /\ \A i \in 1..Len(done) : done[i].id <= count.run
      BY <1>1 DEF Numbered
    <3>2. count.run \in Nat
      BY <1>1 DEF Kinds, Counters
    <3>3. ASSUME NEW i \in 1..Len(d) PROVE d[i].id <= count.run
      <4>1. i \in 1..Len(done) \/ i = Len(done) + 1
        BY <1>1, <2>3
      <4>2. count.run <= count.run
        BY <3>2
      <4> QED
        BY <1>2, <2>3, <3>1, <4>1, <4>2
    <3> QED
      BY <1>9, <2>2, <2>3, <2>6, <3>1, <3>3 DEF Numbered
  <2>13. Course'
    BY <2>2 DEF Course
  <2> QED
    BY <1>11, <2>2, <2>11, <2>12, <2>13 DEF PInv
<1> QED
  BY <1>7, <1>12, <1>13

LEMMA WriteGoesOnKeeps == ASSUME DInv, PInv, WriteGoesOn PROVE PInv'
<1>1. task # "none" /\ Writing
  BY DEF WriteGoesOn
<1> QED
  BY <1>1, WritingIs, FormatWrites, BackupWrites, UndoWrites

\* A repair begins.
LEMMA UndoBegins ==
  ASSUME done \in Seq(Sessions), UNCHANGED done, task' = "undo", todo' = restoreEOD, labelled'
  PROVE  Course'
<1>1. restoreEOD = Then(Rewind, Then(Jump, Program(FALSE, <<Mark, Mark>>)))
  BY RestoreIs
<1>2. todo' = Then(Rewind, Then(Jump', Program(FALSE, <<Mark, Mark>>)))
  BY <1>1 DEF Jump
<1>3. Seeks(<<Mark, Mark>>)'
  BY <1>2 DEF Seeks
<1> QED
  BY <1>3 DEF Course, Behind

LEMMA WriteFullKeeps == ASSUME DInv, PInv, WriteFull PROVE PInv'
<1>1. task # "none" /\ Writing /\ UNCHANGED <<file, pos, size, done, labelled, settled, count>>
  BY DEF WriteFull, AppendFull, GiveUp
<1>2. SettledTapeIsWhole' /\ SessionsKept'
  BY <1>1, SettledIs, SettledNext DEF PInv
<1>3. Honest'
  BY <1>1 DEF PInv, Honest
<1>4. task' \in {"undo", "none"} /\ (task' = "undo" => task = "backup" /\ todo' = restoreEOD)
  BY <1>1 DEF WriteFull, GiveUp
<1>5. Numbered'
  BY <1>1, <1>4 DEF PInv, Numbered
<1>6. Course'
  <2>1. CASE task' = "undo"
    <3>1. labelled /\ done \in Seq(Sessions)
      BY <1>4, <2>1 DEF PInv, Course, Numbered
    <3> QED
      BY <1>1, <1>4, <2>1, <3>1, UndoBegins
  <2>2. CASE task' = "none"
    BY <2>2 DEF Course
  <2> QED
    BY <1>4, <2>1, <2>2
<1> QED
  BY <1>1, <1>2, <1>3, <1>5, <1>6 DEF PInv

LEMMA WriteFailsKeeps == ASSUME DInv, PInv, WriteFails PROVE PInv'
<1>1. /\ task # "none" /\ Writing /\ AppendFails(Op.rec) /\ done' = done /\ Touch
      /\ count' = [count EXCEPT !.fail = @ + 1]
  BY DEF WriteFails
<1>2. count'.fail # 0 /\ count'.run = count.run
  <2>1. count \in Counters
    BY DEF DInv, Kinds
  <2> QED
    BY <1>1, <2>1 DEF Counters
<1>3. settled' = FALSE /\ labelled' = (labelled /\ task # "format")
  BY <1>1 DEF Touch
<1>4. Honest'
  BY <1>2 DEF Honest
<1>5. task' \in {"undo", "none"} /\ (task' = "undo" => task = "backup" /\ todo' = restoreEOD)
  BY <1>1 DEF WriteFails
<1>6. Numbered'
  BY <1>1, <1>2, <1>5 DEF PInv, Numbered
<1>7. Course'
  <2>1. CASE task' = "undo"
    <3>1. labelled /\ done \in Seq(Sessions) /\ task = "backup"
      BY <1>5, <2>1 DEF PInv, Course, Numbered
    <3>2. labelled'
      BY <1>3, <3>1
    <3> QED
      BY <1>1, <1>5, <2>1, <3>1, <3>2, UndoBegins
  <2>2. CASE task' = "none"
    BY <2>2 DEF Course
  <2> QED
    BY <1>5, <2>1, <2>2
<1>8. labelled' => IsPrefix(Com(done'), file')
  <2>1. SUFFICES ASSUME labelled, task # "format" PROVE IsPrefix(Com(done), file')
    BY <1>1, <1>3
  <2> DEFINE b == Com(done)
  <2>2. IsPrefix(b, file) /\ b \in Seq(Whole)
    BY <2>1, SettledIs, ComType DEF PInv, Numbered
  <2>3. \E recs \in Seq(Whole) : Writes(b, recs)
    <3>1. \/ task = "backup" /\ \E tar \in 1..MaxTar : Writes(Com(done), Part([id |-> count.run, tar |-> tar]))
          \/ task = "undo" /\ Writes(Com(done), <<Mark, Mark>>)
      BY <1>1, <2>1, WritingIs
    <3>2. CASE task = "undo" /\ Writes(Com(done), <<Mark, Mark>>)
      BY <3>2, MarkPairIs
    <3>3. CASE task = "backup" /\ \E tar \in 1..MaxTar : Writes(Com(done), Part([id |-> count.run, tar |-> tar]))
      <4>1. PICK tar \in 1..MaxTar : Writes(Com(done), Part([id |-> count.run, tar |-> tar]))
        BY <3>3
      <4>2. [id |-> count.run, tar |-> tar] \in Sessions
        BY <3>3, RunIs DEF DInv, PInv
      <4> DEFINE s == [id |-> count.run, tar |-> tar]
      <4> HIDE DEF s
      <4>3. Part(s) \in Seq(Whole)
        BY <4>2, PartIs DEF s
      <4> QED
        BY <4>1, <4>3 DEF s
    <3> QED
      BY <3>1, <3>2, <3>3
  <2> HIDE DEF b
  <2>9. PICK recs \in Seq(Whole) : Writes(b, recs)
    BY <2>3
  <2>4. PICK j \in 0..(Len(recs) - 1) : SubSeq(file, 1, pos) = b \o SubSeq(recs, 1, j)
    BY <2>9 DEF Writes, WritesIn
  <2>5. Desc /\ Op.rec \in Whole
    BY <1>1, OpIs DEF DInv
  <2>6. \/ file' = file
        \/ \E r \in Tails : file' = SubSeq(file, 1, pos) \o r
    BY <1>1, <2>5, WroteNot
  <2>7. CASE file' = file
    BY <2>2, <2>7 DEF b
  <2>8. CASE \E r \in Tails : file' = SubSeq(file, 1, pos) \o r
    <3>1. PICK r \in Tails : file' = SubSeq(file, 1, pos) \o r
      BY <2>8
    <3> DEFINE h == SubSeq(recs, 1, j)
    <3>2. h \in Seq(Whole)
      BY <2>2, <2>4, NextRecord
    <3> HIDE DEF h
    <3>3. h \in Seq(Rec) /\ b \in Seq(Rec) /\ r \in Seq(Rec)
      <4>1. Whole \subseteq Rec
        BY DEF Rec
      <4> QED
        BY <2>2, <3>2, <4>1, SeqMonotonic, TailFacts
    <3>4. (b \o h) \o r = b \o (h \o r) /\ h \o r \in Seq(Rec)
      BY <3>3, ConcatAssociative, ConcatProperties, SMTT(60)
    <3>5. IsPrefix(b, b \o (h \o r))
      BY <3>3, <3>4, PrefixOfConcat
    <3>6. file' = (b \o h) \o r
      BY <2>4, <3>1 DEF h
    <3> QED
      BY <3>4, <3>5, <3>6 DEF b
  <2> QED
    BY <2>6, <2>7, <2>8
<1>9. SettledTapeIsWhole' /\ SessionsKept'
  BY <1>3, <1>8, SettledNext
<1> QED
  BY <1>3, <1>4, <1>6, <1>7, <1>9 DEF PInv

-----------------------------------------------------------------------------
(* The programs on their way to the place where they write. *)

\* An operation that moves or reads, and does not fail.
LEMMA StepsOn ==
  ASSUME DInv, MoveOrRead, out' # <<"error">>, done \in Seq(Sessions),
         NEW x \in {Rewind, Jump, ReadOne, ReadFile, Forward(1), Backward(3)},
         NEW q \in Seq(Operations), Len(q) > 0, todo = Then(x, q)
  PROVE  /\ Op = x /\ TapeStep /\ Advance
         /\ (x # ReadFile \/ out' = <<"eof">>) => todo' = q
         /\ (x = ReadFile /\ out' # <<"eof">>) => todo' = todo
<1>1. x \in Operations
  BY OpsAre, JumpType
<1>2. Head(todo) = x /\ Tail(todo) = q /\ Len(todo) = Len(q) + 1 /\ Len(q) \in Nat
  <2> DEFINE t == Then(x, q)
  <2>1. Head(t) = x /\ Tail(t) = q /\ Len(t) = Len(q) + 1
    BY <1>1, ThenIs
  <2> HIDE DEF t
  <2>2. todo = t
    BY DEF t
  <2> QED
    BY <2>1, <2>2
<1>3. Op = x
  BY <1>2 DEF Op
<1>4. Len(todo) # 1
  BY <1>2
<1>5. TapeStep /\ Advance
  BY <1>4 DEF MoveOrRead
<1>6. x # ReadFile => x.op # "file"
  BY JumpType DEF Rewind, ReadOne, Forward, Backward
<1>7. ReadFile.op = "file"
  BY DEF ReadFile
<1> QED
  BY <1>2, <1>3, <1>5, <1>6, <1>7 DEF Advance

\* Where the operation leaves the head.
LEMMA HeadAfter ==
  ASSUME TapeStep, out' # <<"error">>, done \in Seq(Sessions)
  PROVE  /\ Op = Rewind => pos' = 0
         /\ Op = Jump => /\ NthMark(pos, 2 * Len(done) + 1) # 0
                         /\ pos' = NthMark(pos, 2 * Len(done) + 1)
         /\ Op = Forward(1) => NthMark(pos, 1) # 0 /\ pos' = NthMark(pos, 1)
         /\ Op = Backward(3) => NthMarkBack(3) # 0 /\ pos' = NthMarkBack(3)
         /\ Op = ReadFile \/ Op = ReadOne => ReadBlock
<1>1. CASE Op = Rewind
  BY <1>1, JumpType DEF TapeStep, RewindTape, Rewind, Jump, Forward, Backward, ReadFile, ReadOne
<1>2. CASE Op = Jump \/ Op = Forward(1)
  <2>1. Op.op = "forward"
    BY <1>2, JumpType DEF Forward
  <2>2. ForwardFilemarks(Op.n)
    BY <2>1 DEF TapeStep
  <2>3. NthMark(pos, Op.n) # 0 /\ pos' = NthMark(pos, Op.n)
    BY <2>2 DEF ForwardFilemarks, MoveTo
  <2>4. Jump.n = 2 * Len(done) + 1 /\ Forward(1).n = 1
    BY JumpType DEF Forward
  <2>5. Op # Rewind /\ Op # Backward(3) /\ Op # ReadFile /\ Op # ReadOne
    BY <2>1 DEF Rewind, Backward, ReadFile, ReadOne
  <2> QED
    BY <2>3, <2>4, <2>5
<1>3. CASE Op = Backward(3)
  <2>1. Op.op = "backward" /\ Op.n = 3
    BY <1>3 DEF Backward
  <2>2. BackwardFilemarks(3)
    BY <2>1 DEF TapeStep
  <2>3. NthMarkBack(3) # 0 /\ pos' = NthMarkBack(3)
    BY <2>2 DEF BackwardFilemarks, MoveTo
  <2> QED
    BY <2>1, <2>3, JumpType DEF Rewind, Forward, ReadFile, ReadOne
<1>4. CASE Op = ReadFile \/ Op = ReadOne
  <2>1. Op.op \in {"file", "block"}
    BY <1>4 DEF ReadFile, ReadOne
  <2>2. ReadBlock
    BY <2>1 DEF TapeStep
  <2> QED
    BY <2>1, <2>2, JumpType DEF Rewind, Forward, Backward
<1> QED
  BY <1>1, <1>2, <1>3, <1>4

\* What is missing on the tape when a move fails.
LEMMA FailsWhen ==
  ASSUME TapeStep, out' = <<"error">>, done \in Seq(Sessions)
  PROVE  /\ Op # Rewind
         /\ Op = Jump => NthMark(pos, 2 * Len(done) + 1) = 0
         /\ Op = Forward(1) => NthMark(pos, 1) = 0
         /\ Op = Backward(3) => NthMarkBack(3) = 0
         /\ Op = ReadFile => ReadBlock
<1>1. ASSUME Op = Rewind PROVE FALSE
  BY <1>1 DEF TapeStep, RewindTape, Rewind
<1>2. ASSUME Op = Jump \/ Op = Forward(1) PROVE NthMark(pos, Op.n) = 0
  <2>1. Op.op = "forward"
    BY <1>2, JumpType DEF Forward
  <2>2. ForwardFilemarks(Op.n)
    BY <2>1 DEF TapeStep
  <2> QED
    BY <2>2 DEF ForwardFilemarks, MoveTo
<1>3. Jump.n = 2 * Len(done) + 1 /\ Forward(1).n = 1
  BY JumpType DEF Forward
<1>4. ASSUME Op = Backward(3) PROVE NthMarkBack(3) = 0
  <2>1. Op.op = "backward" /\ Op.n = 3
    BY <1>4 DEF Backward
  <2>2. BackwardFilemarks(3)
    BY <2>1 DEF TapeStep
  <2> QED
    BY <2>2 DEF BackwardFilemarks, MoveTo
<1>5. ASSUME Op = ReadFile PROVE ReadBlock
  <2>1. Op.op = "file"
    BY <1>5 DEF ReadFile
  <2> QED
    BY <2>1 DEF TapeStep
<1> QED
  BY <1>1, <1>2, <1>3, <1>4, <1>5

\* The first operation of a program.
LEMMA OpOf ==
  ASSUME done \in Seq(Sessions), NEW q \in Seq(Operations),
         NEW x \in {Rewind, Jump, ReadOne, ReadFile, Forward(1), Backward(3)}, todo = Then(x, q)
  PROVE  Op = x /\ Tail(todo) = q
<1> DEFINE t == Then(x, q)
<1>1. x \in Operations
  BY OpsAre, JumpType
<1>2. Head(t) = x /\ Tail(t) = q
  BY <1>1, ThenIs
<1> HIDE DEF t
<1>3. todo = t
  BY DEF t
<1> QED
  BY <1>2, <1>3 DEF Op

\* The parts of the programs that have no more seek before them.
LEMMA ProgramParts ==
  ASSUME NEW recs \in Seq(Whole), recs # <<>>, done \in Seq(Sessions)
  PROVE  LET w == WriteAll(recs)
             a == Then(Forward(1), w)
             b == Then(ReadFile, a)
             c == Then(Backward(3), b)
         IN  /\ w \in Seq(Operations) /\ a \in Seq(Operations) /\ b \in Seq(Operations)
             /\ c \in Seq(Operations) /\ Head(c) = Backward(3) /\ c = LookBack(w)
<1> DEFINE w == WriteAll(recs)
           a == Then(Forward(1), w)
           b == Then(ReadFile, a)
           c == Then(Backward(3), b)
<1>1. c = LookBack(w)
  BY DEF LookBack
<1>2. w \in Seq(Operations)
  BY WriteAllIs
<1>3. Forward(1) \in Operations /\ ReadFile \in Operations /\ Backward(3) \in Operations
  BY OpsAre
<1> HIDE DEF w
<1>4. a \in Seq(Operations)
  BY <1>2, <1>3, ThenIs
<1> HIDE DEF a
<1>5. b \in Seq(Operations)
  BY <1>3, <1>4, ThenIs
<1> HIDE DEF b
<1>6. c \in Seq(Operations) /\ Head(c) = Backward(3)
  BY <1>3, <1>5, ThenIs
<1> QED
  BY <1>1, <1>2, <1>4, <1>5, <1>6 DEF w, a, b, c

\* Nothing fails in the look back: the last session is there.
LEMMA LooksFinds ==
  ASSUME DInv, TapeStep, done \in Seq(Sessions), SessionsKept, labelled,
         NEW recs \in Seq(Whole), recs # <<>>, Looks(recs)
  PROVE  out' # <<"error">>
<1> DEFINE w == WriteAll(recs)
           a == Then(Forward(1), w)
           b == Then(ReadFile, a)
           c == Then(Backward(3), b)
           l == Len(Com(done))
           n == LastStart
<1>1. done # <<>> /\ l <= size /\ Desc
  BY DEF Looks, DInv
<1>2. l \in Nat /\ n \in Nat /\ n + 2 < l /\ l <= Readable(size) /\ n > 0
  BY <1>1, LastIs
<1>3. \/ todo = c /\ pos = l
      \/ todo = b /\ pos \in {n, n + 1}
      \/ todo = a /\ pos = n + 2
  BY DEF Looks, LookBack
<1>4. /\ w \in Seq(Operations) /\ a \in Seq(Operations) /\ b \in Seq(Operations)
  BY ProgramParts
<1> HIDE DEF w
<1>5. SUFFICES ASSUME out' = <<"error">> PROVE FALSE
  OBVIOUS
<1>6. CASE todo = a /\ pos = n + 2
  <2>1. Op = Forward(1)
    BY <1>4, <1>6, OpOf
  <2>2. NthMark(pos, 1) = l
    BY <1>1, <1>6, OnIs
  <2> QED
    BY <1>2, <1>5, <2>1, <2>2, FailsWhen
<1> HIDE DEF a
<1>7. CASE todo = b /\ pos \in {n, n + 1}
  <2>1. Op = ReadFile
    BY <1>4, <1>7, OpOf
  <2>2. ReadBlock
    BY <1>5, <2>1, FailsWhen
  <2>3. pos # Readable(size)
    <3>1. Readable(size) \in Nat
      BY <1>1, ReadableFacts DEF Desc, Head0
    <3> QED
      BY <1>2, <1>7, <3>1
  <2>4. file[pos + 1] \in Whole /\ out' = IF file[pos + 1] = Mark THEN <<"eof">> ELSE file[pos + 1]
    BY <1>1, <2>2, <2>3, ReadBlockIs
  <2>5. <<"error">> \notin Whole /\ <<"error">> # <<"eof">>
    BY DEF Whole, Blocks, Mark, Label, Index, Tar
  <2> QED
    BY <1>5, <2>4, <2>5
<1> HIDE DEF b
<1>8. CASE todo = c /\ pos = l
  <2>1. Op = Backward(3)
    BY <1>4, <1>8, OpOf
  <2>2. NthMarkBack(3) = n
    BY <1>1, <1>8, BackIs
  <2> QED
    BY <1>2, <1>5, <2>1, <2>2, FailsWhen
<1> QED
  BY <1>3, <1>6, <1>7, <1>8

\* A seek is not a part of the look back, and the second one finds its place.
LEMMA SeekFinds ==
  ASSUME DInv, TapeStep, done \in Seq(Sessions), SessionsKept, labelled,
         NEW recs \in Seq(Whole), recs # <<>>, Seeks(recs)
  PROVE  ~LooksBack /\ (SeeksAgain => out' # <<"error">>)
<1>1. PICK look \in BOOLEAN :
        /\ (task = "backup" /\ done # <<>> /\ ~look) => Len(Com(done)) <= size
        /\ \/ todo = Then(Rewind, Then(Jump, Program(look, recs)))
           \/ todo = Then(Jump, Program(look, recs)) /\ pos = 0
  BY DEF Seeks
<1> DEFINE w == WriteAll(recs)
           c == LookBack(w)
           q == Program(look, recs)
           d == Then(Jump, q)
           e == Then(Rewind, d)
<1>2. w \in Seq(Operations) /\ c \in Seq(Operations) /\ Head(c) = Backward(3)
  BY ProgramParts
<1>3. q = IF look THEN c ELSE w
  BY DEF Program
<1> HIDE DEF w, c, q
<1>4. q \in Seq(Operations)
  BY <1>2, <1>3
<1>5. d \in Seq(Operations)
  BY <1>4, JumpType, ThenIs
<1> HIDE DEF d
<1>6. \/ todo = e /\ Op = Rewind
      \/ todo = d /\ pos = 0 /\ Op = Jump /\ Tail(todo) = q
  <2>1. CASE todo = e
    BY <1>5, <2>1, OpOf
  <2>2. CASE todo = d /\ pos = 0
    <3>1. todo = Then(Jump, q)
      BY <2>2 DEF d
    <3> QED
      BY <1>4, <2>2, <3>1, OpOf
  <2> QED
    BY <1>1, <2>1, <2>2 DEF e, d, q
<1>7. Rewind # Jump /\ Rewind \notin {Backward(3), ReadFile, Forward(1)} /\ Jump # Backward(3) /\ Jump # ReadFile
  BY JumpType DEF Rewind, Backward, ReadFile, Forward
<1>8. done # <<>> => Jump # Forward(1)
  <2>1. Len(done) \in Nat /\ (done # <<>> => Len(done) # 0)
    BY EmptySeq
  <2>2. Jump.n = 2 * Len(done) + 1 /\ Forward(1).n = 1
    BY JumpType DEF Forward
  <2> QED
    BY <2>1, <2>2
<1>9. ~LooksBack
  BY <1>6, <1>7, <1>8 DEF LooksBack
<1>10. ASSUME SeeksAgain, out' = <<"error">> PROVE FALSE
  <2>1. task = "backup" /\ done # <<>> /\ Head(Tail(todo)).op = "write"
    BY <1>10 DEF SeeksAgain
  <2>2. Op = Jump /\ pos = 0 /\ Tail(todo) = q
    BY <1>6, <1>10, FailsWhen
  <2>3. Backward(3).op # "write"
    BY DEF Backward
  <2>4. ~look
    BY <1>2, <1>3, <2>1, <2>2, <2>3
  <2>5. NthMark(0, 2 * Len(done) + 1) # 0
    BY <1>1, <2>1, <2>4, JumpFinds DEF DInv
  <2> QED
    BY <1>10, <2>2, <2>5, FailsWhen
<1> QED
  BY <1>9, <1>10

\* What a program that seeks or looks back has come to.
Reaches(recs) ==
  \/ \E look \in BOOLEAN : /\ look => done # <<>>
                           /\ (task = "backup" /\ done # <<>> /\ ~look) => Len(Com(done)) <= size
                           /\ todo' = Then(Jump, Program(look, recs)) /\ pos' = 0
  \/ /\ done # <<>> /\ Len(Com(done)) <= size
     /\ \/ todo' = LookBack(WriteAll(recs)) /\ pos' = Len(Com(done))
        \/ /\ todo' = Then(ReadFile, Then(Forward(1), WriteAll(recs)))
           /\ pos' \in {LastStart, LastStart + 1}
        \/ todo' = Then(Forward(1), WriteAll(recs)) /\ pos' = LastStart + 2
  \/ todo' = WriteAll(recs) /\ pos' = Len(Com(done))

LEMMA SeeksOn ==
  ASSUME DInv, MoveOrRead, out' # <<"error">>, done \in Seq(Sessions), SessionsKept, labelled,
         NEW recs \in Seq(Whole), recs # <<>>, Seeks(recs)
  PROVE  Advance /\ Reaches(recs)
<1>1. PICK look \in BOOLEAN :
        /\ look => done # <<>>
        /\ (task = "backup" /\ done # <<>> /\ ~look) => Len(Com(done)) <= size
        /\ \/ todo = Then(Rewind, Then(Jump, Program(look, recs)))
           \/ todo = Then(Jump, Program(look, recs)) /\ pos = 0
  BY DEF Seeks
<1> DEFINE q == Program(look, recs)
           d == Then(Jump, q)
<1>2. q \in Seq(Operations) /\ Len(q) > 0
  <2> DEFINE w == WriteAll(recs)
             a == Then(Forward(1), w)
             b == Then(ReadFile, a)
             c == Then(Backward(3), b)
  <2>1. w \in Seq(Operations) /\ Len(w) > 0
    <3>1. Len(recs) \in Nat /\ Len(recs) # 0
      BY EmptySeq
    <3> QED
      BY <3>1, WriteAllIs
  <2>2. q = c \/ q = w
    BY DEF Program, LookBack
  <2> HIDE DEF w, q
  <2>3. a \in Seq(Operations) /\ Len(a) > 0
    BY <2>1, MoveThen
  <2> HIDE DEF a
  <2>4. b \in Seq(Operations) /\ Len(b) > 0
    BY <2>3, MoveThen
  <2> HIDE DEF b
  <2>5. c \in Seq(Operations) /\ Len(c) > 0
    BY <2>4, MoveThen
  <2> HIDE DEF c
  <2> QED
    BY <2>1, <2>2, <2>5
<1> HIDE DEF q
<1>3. d \in Seq(Operations) /\ Len(d) > 0
  BY <1>2, MoveThen
<1>4. Rewind # ReadFile /\ Jump # ReadFile
  BY JumpType DEF Rewind, ReadFile
<1>5. CASE todo = Then(Rewind, d)
  <2> HIDE DEF d
  <2>1. Op = Rewind /\ TapeStep /\ Advance /\ todo' = d
    BY <1>3, <1>4, <1>5, StepsOn
  <2>2. pos' = 0
    BY <2>1, HeadAfter
  <2> QED
    BY <1>1, <2>1, <2>2 DEF Reaches, d, q
<1>6. CASE todo = d /\ pos = 0
  <2>1. Op = Jump /\ TapeStep /\ Advance /\ todo' = q
    BY <1>2, <1>4, <1>6, StepsOn
  <2>2. NthMark(0, 2 * Len(done) + 1) # 0 /\ pos' = NthMark(0, 2 * Len(done) + 1)
    BY <1>6, <2>1, HeadAfter
  <2>3. pos' = Len(Com(done)) /\ Len(Com(done)) <= size
    BY <2>2, JumpIs DEF DInv
  <2>4. look => todo' = LookBack(WriteAll(recs))
    BY <2>1 DEF q, Program
  <2>5. ~look => todo' = WriteAll(recs)
    BY <2>1 DEF q, Program
  <2> QED
    BY <1>1, <2>1, <2>3, <2>4, <2>5 DEF Reaches
<1> QED
  BY <1>1, <1>5, <1>6 DEF d, q

LEMMA LooksOn ==
  ASSUME DInv, MoveOrRead, out' # <<"error">>, done \in Seq(Sessions), SessionsKept, labelled,
         NEW recs \in Seq(Whole), recs # <<>>, Looks(recs)
  PROVE  Advance /\ Reaches(recs)
<1> DEFINE w == WriteAll(recs)
           a == Then(Forward(1), w)
           b == Then(ReadFile, a)
           c == Then(Backward(3), b)
           l == Len(Com(done))
           n == LastStart
<1>1. w \in Seq(Operations) /\ Len(w) > 0
  <2>1. Len(recs) \in Nat /\ Len(recs) # 0
    BY EmptySeq
  <2> QED
    BY <2>1, WriteAllIs
<1>2. done # <<>> /\ l <= size /\ Desc
  BY DEF Looks, DInv
<1>3. /\ l \in Nat /\ n \in Nat /\ n + 2 < l /\ l <= Readable(size)
      /\ n > 0 /\ file[n] = Mark /\ file[n + 1] # Mark /\ file[n + 2] = Mark
  BY <1>2, LastIs
<1>4. \/ todo = c /\ pos = l
      \/ todo = b /\ pos \in {n, n + 1}
      \/ todo = a /\ pos = n + 2
  BY DEF Looks, LookBack
<1>5. \/ todo' = c /\ pos' = l
      \/ todo' = b /\ pos' \in {n, n + 1}
      \/ todo' = a /\ pos' = n + 2
      \/ todo' = w /\ pos' = l
      => Reaches(recs)
  BY <1>2 DEF Reaches, LookBack
<1>6. Backward(3) # ReadFile /\ Forward(1) # ReadFile
  BY DEF Backward, Forward, ReadFile
<1> HIDE DEF w
<1>7. a \in Seq(Operations) /\ Len(a) > 0
  BY <1>1, MoveThen
<1>8. CASE todo = a /\ pos = n + 2
  <2>1. Op = Forward(1) /\ TapeStep /\ Advance /\ todo' = w
    BY <1>1, <1>6, <1>8, StepsOn
  <2>2. pos' = NthMark(pos, 1)
    BY <2>1, HeadAfter
  <2>3. NthMark(pos, 1) = l
    BY <1>2, <1>8, OnIs
  <2> QED
    BY <1>5, <2>1, <2>2, <2>3
<1> HIDE DEF a
<1>9. b \in Seq(Operations) /\ Len(b) > 0
  BY <1>7, MoveThen
<1>10. CASE todo = b /\ pos \in {n, n + 1}
  <2>1. /\ Op = ReadFile /\ TapeStep /\ Advance
        /\ out' = <<"eof">> => todo' = a
        /\ out' # <<"eof">> => todo' = b
    BY <1>7, <1>10, StepsOn
  <2>2. ReadBlock
    BY <2>1, HeadAfter
  <2>3. pos < Readable(size)
    <3>1. Readable(size) \in Nat
      BY <1>2, ReadableFacts DEF Desc, Head0
    <3> QED
      BY <1>3, <1>10, <3>1
  <2>4. /\ pos' = pos + 1 /\ file[pos + 1] \in Whole
        /\ out' = IF file[pos + 1] = Mark THEN <<"eof">> ELSE file[pos + 1]
    <3>1. Readable(size) \in Nat /\ pos \in Nat
      BY <1>2, ReadableFacts DEF Desc, Head0
    <3> QED
      BY <1>2, <2>2, <2>3, <3>1, ReadBlockIs
  <2>5. \A x \in Whole : x # <<"eof">>
    BY DEF Whole, Blocks, Mark, Label, Index, Tar
  <2>6. CASE pos = n
    <3>1. out' # <<"eof">>
      BY <1>3, <2>4, <2>5, <2>6
    <3> QED
      BY <1>5, <2>1, <2>4, <2>6, <3>1
  <2>7. CASE pos = n + 1
    <3>1. pos + 1 = n + 2
      BY <1>3, <2>7
    <3>2. out' = <<"eof">>
      BY <1>3, <2>4, <3>1
    <3> QED
      BY <1>5, <2>1, <2>4, <3>1, <3>2
  <2> QED
    BY <1>10, <2>6, <2>7
<1> HIDE DEF b
<1>11. CASE todo = c /\ pos = l
  <2>1. Op = Backward(3) /\ TapeStep /\ Advance /\ todo' = b
    BY <1>6, <1>9, <1>11, StepsOn
  <2>2. pos' = NthMarkBack(3)
    BY <2>1, HeadAfter
  <2>3. NthMarkBack(3) = n
    BY <1>2, <1>11, BackIs
  <2> QED
    BY <1>5, <2>1, <2>2, <2>3
<1> QED
  BY <1>4, <1>8, <1>10, <1>11

\* A format reads the label it is about to overwrite, and goes back.
LEMMA FormatsOn ==
  ASSUME DInv, MoveOrRead, out' # <<"error">>, done \in Seq(Sessions), Formats
  PROVE  Advance /\ Formats'
<1> DEFINE w == WriteAll(Begin)
           a == Then(Rewind, w)
           b == Then(ReadOne, a)
           c == Then(Rewind, b)
<1>1. /\ Begin \in Seq(Whole) /\ Len(Begin) = 3 /\ w \in Seq(Operations)
      /\ ~Writes(<<>>, Begin) => todo[1].op # "write"
  BY BeginIs
<1>2. Len(w) > 0
  BY <1>1, WriteAllIs
<1>3. ~Writes(<<>>, Begin)
  <2>1. SUFFICES ASSUME Writes(<<>>, Begin) PROVE FALSE
    OBVIOUS
  <2>2. PICK j \in 0..(Len(Begin) - 1) : todo = WriteAll(SubSeq(Begin, j + 1, Len(Begin)))
    BY <2>1 DEF Writes, WritesIn
  <2> DEFINE q == WriteAll(SubSeq(Begin, j + 1, Len(Begin)))
  <2>3. Head(q) = Write(Begin[j + 1])
    BY <1>1, WriteNext
  <2> HIDE DEF q
  <2>4. Op = Write(Begin[j + 1])
    BY <2>2, <2>3 DEF Op, q
  <2>5. Op.op = "write"
    BY <2>4 DEF Write
  <2> QED
    BY <2>5 DEF MoveOrRead, Writing
<1>4. todo = c \/ todo = b \/ todo = a
  BY <1>3 DEF Formats
<1>5. (todo' = b \/ todo' = a) => Formats'
  BY DEF Formats
<1>6. todo' = w /\ pos' = 0 => Formats'
  <2>1. SUFFICES ASSUME todo' = w, pos' = 0 PROVE WritesIn(<<>>, Begin, todo', pos', file', size')
    BY DEF Formats, Writes
  <2> DEFINE j == 0
  <2>2. j \in 0..(Len(Begin) - 1)
    BY <1>1
  <2>3. SubSeq(Begin, j + 1, Len(Begin)) = Begin
    BY <1>1, SubSeqFull
  <2>4. SubSeq(file', 1, pos') = <<>> /\ SubSeq(Begin, 1, j) = <<>> /\ <<>> \o <<>> = <<>>
    BY <2>1, SubSeqEmpty
  <2>5. pos' = Len(<<>>) + j
    BY <2>1
  <2>6. /\ todo' = WriteAll(SubSeq(Begin, j + 1, Len(Begin))) /\ pos' = Len(<<>>) + j
        /\ SubSeq(file', 1, pos') = <<>> \o SubSeq(Begin, 1, j) /\ (j > 0 => size' = pos')
    <3>1. todo' = WriteAll(SubSeq(Begin, j + 1, Len(Begin)))
      BY <2>1, <2>3
    <3>2. <<>> \o SubSeq(Begin, 1, j) = <<>>
      <4>1. SubSeq(Begin, 1, j) = <<>>
        BY <2>4
      <4> HIDE DEF j
      <4> QED
        BY <4>1, <2>4
    <3>3. SubSeq(file', 1, pos') = <<>> \o SubSeq(Begin, 1, j)
      BY <2>4, <3>2
    <3>4. ~(j > 0)
      OBVIOUS
    <3> HIDE DEF j
    <3> QED
      BY <2>5, <3>1, <3>3, <3>4
  <2> HIDE DEF j
  <2> QED
    BY <2>2, <2>6 DEF WritesIn
<1>7. Rewind # ReadFile /\ ReadOne # ReadFile
  BY DEF Rewind, ReadFile, ReadOne
<1> HIDE DEF w
<1>8. a \in Seq(Operations) /\ Len(a) > 0
  BY <1>1, <1>2, MoveThen
<1>9. CASE todo = a
  <2>1. Op = Rewind /\ TapeStep /\ Advance /\ todo' = w
    BY <1>1, <1>2, <1>7, <1>9, StepsOn
  <2> QED
    BY <1>6, <2>1, HeadAfter
<1> HIDE DEF a
<1>10. b \in Seq(Operations) /\ Len(b) > 0
  BY <1>8, MoveThen
<1>11. CASE todo = b
  <2>1. Advance /\ todo' = a
    BY <1>7, <1>8, <1>11, StepsOn
  <2> QED
    BY <1>5, <2>1
<1> HIDE DEF b
<1>12. CASE todo = c
  <2>1. Advance /\ todo' = b
    BY <1>7, <1>10, <1>12, StepsOn
  <2> QED
    BY <1>5, <2>1
<1> QED
  BY <1>4, <1>9, <1>11, <1>12

\* The head is behind the sessions, and nothing is written yet.
LEMMA WritesFrom ==
  ASSUME Desc, SessionsKept, labelled, done \in Seq(Sessions), NEW recs \in Seq(Whole), recs # <<>>,
         todo' = WriteAll(recs), pos' = Len(Com(done)), UNCHANGED <<file, size>>
  PROVE  WritesIn(Com(done), recs, todo', pos', file', size')
<1> DEFINE b == Com(done)
           j == 0
<1>1. b \in Seq(Whole) /\ Len(b) \in Nat /\ SubSeq(file, 1, Len(b)) = b
  BY CommittedOnTape
<1>2. Len(recs) \in Nat /\ Len(recs) # 0 /\ SubSeq(recs, j + 1, Len(recs)) = recs
  BY EmptySeq, SubSeqFull
<1> HIDE DEF b
<1>3. j \in 0..(Len(recs) - 1)
  BY <1>2
<1>4. SubSeq(recs, 1, j) = <<>> /\ b \o <<>> = b
  BY <1>1, SubSeqEmpty, ConcatEmptySeq
<1>5. pos' = Len(b) + j
  BY <1>1 DEF b
<1>6. /\ todo' = WriteAll(SubSeq(recs, j + 1, Len(recs))) /\ pos' = Len(b) + j
      /\ SubSeq(file', 1, pos') = b \o SubSeq(recs, 1, j) /\ (j > 0 => size' = pos')
  <2>1. todo' = WriteAll(SubSeq(recs, j + 1, Len(recs)))
    BY <1>2
  <2>2. b \o SubSeq(recs, 1, j) = b
    BY <1>4
  <2>3. SubSeq(file', 1, pos') = b
    BY <1>1 DEF b
  <2>4. ~(j > 0)
    OBVIOUS
  <2> HIDE DEF j
  <2> QED
    BY <1>5, <2>1, <2>2, <2>3, <2>4
<1> HIDE DEF j
<1>7. WritesIn(b, recs, todo', pos', file', size')
  BY <1>3, <1>6 DEF WritesIn
<1> QED
  BY <1>7 DEF b

\* A step that writes nothing and reports nothing.
LEMMA Quiet ==
  ASSUME PInv, UNCHANGED <<file, done, labelled, settled>>,
         count'.fail = count.fail, count'.run = count.run,
         task' = "backup" => task = "backup", Course'
  PROVE  PInv'
<1>1. SettledTapeIsWhole' /\ SessionsKept'
  BY SettledIs, SettledNext DEF PInv
<1>2. Honest' /\ Numbered' /\ (settled' => labelled')
  BY DEF PInv, Honest, Numbered
<1> QED
  BY <1>1, <1>2 DEF PInv

\* A backup or a repair that does not write yet.
LEMMA OnItsWay ==
  ASSUME DInv, PInv, MoveOrRead, task \in {"backup", "undo"}
  PROVE  \E recs \in Seq(Whole) :
           /\ recs # <<>> /\ (Seeks(recs) \/ Looks(recs))
           /\ \/ task = "undo" /\ recs = <<Mark, Mark>>
              \/ task = "backup" /\ \E tar \in 1..MaxTar : recs = Part([id |-> count.run, tar |-> tar])
<1>1. /\ done \in Seq(Sessions) /\ Course /\ Numbered /\ Kinds
  BY DEF PInv, Numbered, Course, DInv
<1>3. \E recs \in Seq(Whole) :
        /\ recs # <<>> /\ Behind(recs)
        /\ \/ task = "undo" /\ recs = <<Mark, Mark>>
           \/ task = "backup" /\ \E tar \in 1..MaxTar : recs = Part([id |-> count.run, tar |-> tar])
  <2>1. CASE task = "undo"
    <3>1. <<Mark, Mark>> \in Seq(Whole) /\ <<Mark, Mark>> # <<>>
      BY MarkPairIs
    <3> QED
      BY <1>1, <2>1, <3>1 DEF Course
  <2>2. CASE task = "backup"
    <3>1. PICK tar \in 1..MaxTar : Behind(Part([id |-> count.run, tar |-> tar]))
      BY <1>1, <2>2 DEF Course
    <3>2. [id |-> count.run, tar |-> tar] \in Sessions
      BY <1>1, <2>2, RunIs
    <3> DEFINE s == [id |-> count.run, tar |-> tar]
    <3> HIDE DEF s
    <3>3. Part(s) \in Seq(Whole) /\ Len(Part(s)) = s.tar + 5 /\ s.tar \in Nat
      BY <3>2, PartIs DEF s
    <3>4. Len(Part(s)) # 0
      BY <3>3
    <3>5. Part(s) \in Seq(Whole) /\ Part(s) # <<>>
      BY <3>3, <3>4
    <3> QED
      BY <2>2, <3>1, <3>5 DEF s
  <2> QED
    BY <2>1, <2>2
<1>4. PICK recs \in Seq(Whole) :
        /\ recs # <<>> /\ Behind(recs)
        /\ \/ task = "undo" /\ recs = <<Mark, Mark>>
           \/ task = "backup" /\ \E tar \in 1..MaxTar : recs = Part([id |-> count.run, tar |-> tar])
  BY <1>3
<1>5. Seeks(recs) \/ Looks(recs)
  <2>1. SUFFICES ASSUME Writes(Com(done), recs) PROVE FALSE
    BY <1>4 DEF Behind
  <2>2. PICK j \in 0..(Len(recs) - 1) : todo = WriteAll(SubSeq(recs, j + 1, Len(recs)))
    BY <2>1 DEF Writes, WritesIn
  <2> DEFINE q == WriteAll(SubSeq(recs, j + 1, Len(recs)))
  <2>3. Head(q) = Write(recs[j + 1])
    BY WriteNext
  <2> HIDE DEF q
  <2>4. Op = Write(recs[j + 1])
    BY <2>2, <2>3 DEF Op, q
  <2>5. Op.op = "write"
    BY <2>4 DEF Write
  <2> QED
    BY <2>5 DEF MoveOrRead, Writing
<1> QED
  BY <1>4, <1>5

\* Nothing fails where the backup would not notice it.
LEMMA FailsOpenly ==
  ASSUME DInv, PInv, MoveOrRead, out' = <<"error">>
  PROVE  GiveUp
<1>1. SUFFICES ASSUME LooksBack \/ SeeksAgain PROVE FALSE
  BY DEF MoveOrRead
<1>2. task = "backup" /\ done \in Seq(Sessions) /\ SessionsKept /\ labelled /\ TapeStep
  BY <1>1 DEF LooksBack, SeeksAgain, PInv, Numbered, Course, MoveOrRead
<1>3. PICK recs \in Seq(Whole) : recs # <<>> /\ (Seeks(recs) \/ Looks(recs))
  BY <1>2, OnItsWay
<1> QED
  BY <1>1, <1>2, <1>3, LooksFinds, SeekFinds

\* A backup or a repair on its way.
LEMMA BehindKeeps ==
  ASSUME DInv, PInv, MoveOrRead, out' # <<"error">>, task \in {"backup", "undo"}
  PROVE  PInv'
<1>1. /\ done \in Seq(Sessions) /\ SessionsKept /\ labelled /\ Course /\ Numbered /\ Kinds /\ Desc
  BY DEF PInv, Numbered, Course, DInv
<1>2. UNCHANGED <<file, size>>
  BY <1>1, TapeStepIs DEF MoveOrRead
<1>4. PICK recs \in Seq(Whole) :
        /\ recs # <<>> /\ (Seeks(recs) \/ Looks(recs))
        /\ \/ task = "undo" /\ recs = <<Mark, Mark>>
           \/ task = "backup" /\ \E tar \in 1..MaxTar : recs = Part([id |-> count.run, tar |-> tar])
  BY OnItsWay
<1>6. Advance /\ Reaches(recs)
  BY <1>1, <1>4, SeeksOn, LooksOn
<1>7. UNCHANGED <<task, done, labelled, settled, count>>
  BY <1>6 DEF Advance
<1>8. /\ todo' = WriteAll(recs) /\ pos' = Len(Com(done))
      => WritesIn(Com(done), recs, todo', pos', file', size')
  BY <1>1, <1>2, <1>4, WritesFrom
<1>9. CASE task = "undo" /\ recs = <<Mark, Mark>>
  <2>1. Behind(<<Mark, Mark>>)'
    BY <1>2, <1>6, <1>7, <1>8, <1>9 DEF Reaches, Behind, Seeks, Looks, Writes, Jump, LastStart
  <2> QED
    BY <1>1, <1>2, <1>7, <1>9, <2>1, Quiet DEF Course
<1>10. CASE task = "backup" /\ \E tar \in 1..MaxTar : recs = Part([id |-> count.run, tar |-> tar])
  <2>1. PICK tar \in 1..MaxTar : recs = Part([id |-> count.run, tar |-> tar])
    BY <1>10
  <2>2. recs = Part([id |-> count'.run, tar |-> tar])
    BY <1>7, <2>1
  <2>3. Behind(Part([id |-> count.run, tar |-> tar]))'
    BY <1>2, <1>6, <1>7, <1>8, <2>2 DEF Reaches, Behind, Seeks, Looks, Writes, Jump, LastStart
  <2>4. Course'
    BY <1>1, <1>7, <1>10, <2>3 DEF Course
  <2> QED
    BY <1>2, <1>7, <2>4, Quiet
<1> QED
  BY <1>4, <1>9, <1>10

LEMMA MoveOrReadKeeps == ASSUME DInv, PInv, MoveOrRead PROVE PInv'
<1>1. /\ task \in Tasks /\ done \in Seq(Sessions) /\ Kinds /\ Desc /\ Course
      /\ ~Writing /\ task # "none"
  BY DEF DInv, PInv, Kinds, Numbered, MoveOrRead
<1>2. UNCHANGED <<file, size>>
  BY <1>1, TapeStepIs DEF MoveOrRead
<1>3. CASE out' = <<"error">>
  <2>1. task' = "none" /\ UNCHANGED <<done, labelled, settled, count>>
    BY <1>1, <1>3, FailsOpenly DEF GiveUp
  <2> QED
    BY <1>2, <2>1, Quiet DEF Course
<1>4. CASE out' # <<"error">> /\ task = "read"
  <2>1. Finish \/ Advance
    BY <1>4 DEF MoveOrRead
  <2>2. CASE Finish
    <3>1. task' = "none" /\ UNCHANGED <<done, labelled, settled, count>>
      BY <1>1, <1>4, <2>2 DEF Finish, Kinds
    <3> QED
      BY <1>2, <3>1, Quiet DEF Course
  <2>3. CASE Advance
    <3>1. (todo' = todo \/ todo' = Tail(todo)) /\ UNCHANGED <<task, done, labelled, settled, count>>
      BY <2>3 DEF Advance
    <3>2. \A i \in 1..Len(todo) : todo[i].op # "write"
      BY <1>1, <1>4 DEF Course
    <3>3. \A i \in 1..Len(Tail(todo)) : Tail(todo)[i].op # "write"
      <4>1. /\ Len(Tail(todo)) = Len(todo) - 1 /\ Len(todo) \in Nat \ {0}
            /\ \A i \in 1..(Len(todo) - 1) : Tail(todo)[i] = todo[i + 1]
        BY <1>1, OpIs
      <4>2. \A i \in 1..(Len(todo) - 1) : i + 1 \in 1..Len(todo)
        BY <4>1
      <4> QED
        BY <3>2, <4>1, <4>2
    <3>4. \A i \in 1..Len(todo') : todo'[i].op # "write"
      BY <3>1, <3>2, <3>3
    <3>5. Course'
      BY <1>4, <3>1, <3>4 DEF Course
    <3> QED
      BY <1>2, <3>1, <3>5, Quiet
  <2> QED
    BY <2>1, <2>2, <2>3
<1>5. CASE out' # <<"error">> /\ task = "format"
  <2>1. Formats
    BY <1>1, <1>5 DEF Course
  <2>2. Advance /\ Formats'
    BY <1>1, <1>5, <2>1, FormatsOn
  <2>3. UNCHANGED <<task, done, labelled, settled, count>>
    BY <2>2 DEF Advance
  <2>4. Course'
    BY <1>5, <2>2, <2>3 DEF Course
  <2> QED
    BY <1>2, <2>3, <2>4, Quiet
<1>6. CASE out' # <<"error">> /\ task \in {"backup", "undo"}
  BY <1>6, BehindKeeps
<1> QED
  BY <1>1, <1>3, <1>4, <1>5, <1>6 DEF Tasks

\* The look back gives up: the program goes to its place by the long way.
LEMMA DedupGivesUpKeeps == ASSUME DInv, PInv, DedupGivesUp PROVE PInv'
<1>1. /\ UNCHANGED <<file, pos, size, task, done, labelled, settled, count>>
      /\ task = "backup" /\ Op = ReadFile
      /\ todo' = seekWritePosition \o SubSeq(todo, 3, Len(todo))
  <2>1. ReadFile # Backward(3)
    BY DEF ReadFile, Backward
  <2> QED
    BY <2>1 DEF DedupGivesUp, LooksBack, LookBackEnds, tapeVars
<1>2. done \in Seq(Sessions) /\ Kinds /\ Numbered /\ Course
  BY DEF DInv, PInv, Numbered
<1>3. PICK tar \in 1..MaxTar : Behind(Part([id |-> count.run, tar |-> tar]))
  BY <1>1, <1>2 DEF Course
<1>4. [id |-> count.run, tar |-> tar] \in Sessions
  BY <1>1, <1>2, RunIs
<1> DEFINE s == [id |-> count.run, tar |-> tar]
           recs == Part(s)
           w == WriteAll(recs)
           a == Then(Forward(1), w)
           b == Then(ReadFile, a)
           c == Then(Backward(3), b)
<1> HIDE DEF s
<1>5. recs \in Seq(Whole) /\ recs # <<>>
  <2>1. Part(s) \in Seq(Whole) /\ Len(Part(s)) = s.tar + 5 /\ s.tar \in Nat
    BY <1>4, PartIs DEF s
  <2>2. Len(recs) # 0
    BY <2>1
  <2> QED
    BY <2>1, <2>2
<1>6. Behind(recs)
  BY <1>3 DEF s
<1> HIDE DEF recs
<1>7. /\ w \in Seq(Operations) /\ Forward(1) \in Operations /\ ReadFile \in Operations
      /\ Backward(3) \in Operations /\ Rewind \in Operations /\ Jump \in Operations
  BY <1>2, <1>5, WriteAllIs, OpsAre, JumpType
<1> HIDE DEF w
<1>8. a \in Seq(Operations) /\ Head(a) = Forward(1)
  BY <1>7, ThenIs
<1>9. SubSeq(b, 3, Len(b)) = w
  BY <1>7, ThenThird
<1> HIDE DEF a
<1>10. b \in Seq(Operations)
  BY <1>7, <1>8, ThenIs
<1> HIDE DEF b
<1>11. c \in Seq(Operations) /\ Head(c) = Backward(3)
  BY <1>7, <1>10, ThenIs
<1> HIDE DEF c
<1>12. Head(todo) = ReadFile
  BY <1>1 DEF Op
<1>13. ReadFile # Forward(1) /\ ReadFile # Backward(3) /\ ReadFile # Rewind /\ ReadFile # Jump
  BY <1>2, JumpType DEF ReadFile, Forward, Backward, Rewind
<1>14. \A r : ReadFile # Write(r)
  BY DEF ReadFile, Write
<1>15. ~Seeks(recs)
  <2>1. SUFFICES ASSUME NEW look \in BOOLEAN,
                        \/ todo = Then(Rewind, Then(Jump, Program(look, recs)))
                        \/ todo = Then(Jump, Program(look, recs))
                 PROVE  FALSE
    BY DEF Seeks
  <2> DEFINE q == Program(look, recs)
             d == Then(Jump, q)
             e == Then(Rewind, d)
  <2>2. q = c \/ q = w
    BY DEF Program, LookBack, c, b, a, w
  <2> HIDE DEF q
  <2>3. q \in Seq(Operations)
    BY <1>7, <1>11, <2>2
  <2>4. d \in Seq(Operations) /\ Head(d) = Jump
    BY <1>7, <2>3, ThenIs
  <2> HIDE DEF d
  <2>5. Head(e) = Rewind
    BY <1>7, <2>4, ThenIs
  <2> HIDE DEF e
  <2>6. todo = e \/ todo = d
    BY <2>1 DEF e, d, q
  <2> QED
    BY <1>12, <1>13, <2>4, <2>5, <2>6
<1>16. ~Writes(Com(done), recs)
  <2>1. SUFFICES ASSUME NEW j \in 0..(Len(recs) - 1), todo = WriteAll(SubSeq(recs, j + 1, Len(recs)))
                 PROVE  FALSE
    BY DEF Writes, WritesIn
  <2> DEFINE q == WriteAll(SubSeq(recs, j + 1, Len(recs)))
  <2>2. Head(q) = Write(recs[j + 1])
    BY <1>5, WriteNext
  <2> HIDE DEF q
  <2>3. Head(todo) = Write(recs[j + 1])
    BY <2>1, <2>2 DEF q
  <2> QED
    BY <1>12, <1>14, <2>3
<1>17. todo = b /\ Len(Com(done)) <= size
  <2>1. Looks(recs)
    BY <1>6, <1>15, <1>16 DEF Behind
  <2>2. todo = c \/ todo = b \/ todo = a
    BY <2>1 DEF Looks, LookBack, c, b, a, w
  <2>3. Len(Com(done)) <= size
    BY <2>1 DEF Looks
  <2> QED
    BY <1>8, <1>11, <1>12, <1>13, <2>2, <2>3
<1>18. todo' = seekWritePosition \o w
  BY <1>1, <1>9, <1>17
<1>19. todo' = Then(Rewind, Then(Jump, w))
  BY <1>2, <1>7, <1>18, SeekIs
<1>20. todo' = Then(Rewind, Then(Jump', Program(FALSE, recs)))
  <2>1. Jump' = Jump
    BY <1>1 DEF Jump
  <2> QED
    BY <1>19, <2>1 DEF Program, w
<1>21. Behind(Part([id |-> count.run, tar |-> tar]))'
  <2>1. recs = Part([id |-> count'.run, tar |-> tar])
    BY <1>1 DEF recs, s
  <2>2. Seeks(Part([id |-> count.run, tar |-> tar]))'
    BY <1>1, <1>17, <1>20, <2>1 DEF Seeks
  <2> QED
    BY <2>2 DEF Behind
<1>22. Course'
  BY <1>1, <1>2, <1>21 DEF Course
<1> QED
  BY <1>1, <1>22, Quiet

LEMMA OpenKeeps == ASSUME DInv, PInv, NEW limit \in Limits, OpenTape(limit) PROVE PInv'
<1>1. UNCHANGED <<file, task, done, labelled, settled, count>> /\ ~open
  BY DEF OpenTape
<1>2. task = "none"
  BY <1>1 DEF DInv, Kinds
<1>3. Course'
  BY <1>1, <1>2 DEF Course
<1> QED
  BY <1>1, <1>3, Quiet

LEMMA KillKeeps == ASSUME DInv, PInv, Kill PROVE PInv'
<1>1. UNCHANGED <<file, done, labelled, settled>> /\ task' = "none"
  BY DEF Kill
<1>2. count'.fail = count.fail /\ count'.run = count.run
  BY CountedIs DEF Kill, DInv, Kinds
<1>3. Course'
  BY <1>1 DEF Course
<1> QED
  BY <1>1, <1>2, <1>3, Quiet

LEMMA StartFormatKeeps == ASSUME DInv, PInv, StartFormat PROVE PInv'
<1>1. UNCHANGED <<file, done, labelled, settled>> /\ task' = "format" /\ todo' = FormatProgram
  BY DEF StartFormat, Start, tapeVars
<1>2. count'.fail = count.fail /\ count'.run = count.run
  BY CountedIs DEF StartFormat, DInv, Kinds
<1>3. Formats'
  BY <1>1, FormatProgramIs DEF Formats
<1>4. Course'
  BY <1>1, <1>3 DEF Course
<1> QED
  BY <1>1, <1>2, <1>4, Quiet

LEMMA StartReadKeeps == ASSUME DInv, PInv, StartRead PROVE PInv'
<1>1. PICK i \in DOMAIN done : Start("read", ReadProgram(i))
  BY DEF StartRead
<1>2. UNCHANGED <<file, done, labelled, settled>> /\ task' = "read" /\ todo' = ReadProgram(i)
  BY <1>1 DEF Start, tapeVars
<1>3. count'.fail = count.fail /\ count'.run = count.run
  BY CountedIs DEF StartRead, DInv, Kinds
<1> DEFINE x == Forward(2 * i - 1)
           p == <<Rewind, x, ReadFile, ReadFile>>
<1>4. Rewind.op # "write" /\ ReadFile.op # "write" /\ x.op # "write"
  BY DEF Rewind, Forward, ReadFile
<1> HIDE DEF x
<1>5. Len(p) = 4 /\ p[1] = Rewind /\ p[2] = x /\ p[3] = ReadFile /\ p[4] = ReadFile
  OBVIOUS
<1> HIDE DEF p
<1>6. \A k \in 1..Len(p) : p[k].op # "write"
  <2>1. \A k \in 1..4 : k = 1 \/ k = 2 \/ k = 3 \/ k = 4
    OBVIOUS
  <2> QED
    BY <1>4, <1>5, <2>1
<1>7. todo' = p
  BY <1>2 DEF ReadProgram, p, x
<1>8. Course'
  BY <1>2, <1>6, <1>7 DEF Course
<1> QED
  BY <1>2, <1>3, <1>8, Quiet

LEMMA StartBackupKeeps == ASSUME DInv, PInv, StartBackup PROVE PInv'
<1>1. /\ labelled /\ count' \in Counters /\ count'.fail = count.fail
      /\ count'.run = count.run + 1
  BY BackupStarts
<1>2. PICK tar \in 1..MaxTar :
        /\ [id |-> count'.run, tar |-> tar] \in Sessions
        /\ Start("backup", seekWritePosition \o prevJobConfigHash
                             \o WritePart([id |-> count'.run, tar |-> tar]))
  BY BackupStarts
<1> DEFINE s == [id |-> count'.run, tar |-> tar]
<1> HIDE DEF s
<1>3. done \in Seq(Sessions) /\ Numbered /\ count \in Counters
  BY DEF DInv, PInv, Numbered, Kinds
<1>4. /\ UNCHANGED <<file, done, labelled, settled>> /\ task' = "backup" /\ task = "none"
      /\ todo' = seekWritePosition \o prevJobConfigHash \o WritePart(s)
  BY <1>2 DEF Start, tapeVars, s
<1>5. s \in Sessions
  BY <1>2 DEF s
<1> DEFINE look == done # <<>>
<1>6. todo' = Then(Rewind, Then(Jump, Program(look, Part(s))))
  BY <1>3, <1>4, <1>5, BackupProgramIs
<1>7. Jump' = Jump /\ look' = look /\ look \in BOOLEAN
  BY <1>4 DEF Jump
<1>8. Seeks(Part([id |-> count.run, tar |-> tar]))'
  <2>1. \E q \in BOOLEAN : /\ q => done' # <<>>
                           /\ done' # <<>> => q
                           /\ todo' = Then(Rewind, Then(Jump', Program(q, Part(s))))
    BY <1>4, <1>6, <1>7
  <2> QED
    BY <2>1 DEF Seeks, s
<1>9. Course'
  BY <1>1, <1>4, <1>8 DEF Course, Behind
<1>10. Numbered'
  <2>1. count.run \in Nat /\ count'.run \in Nat /\ count'.run <= MaxRuns
    <3>1. count'.run \in 1..MaxRuns
      BY <1>2 DEF Sessions
    <3>2. MaxRuns \in Nat
      BY FileTapeAssumption
    <3> QED
      BY <1>1, <1>3, <3>1, <3>2 DEF Counters
  <2>2. ASSUME NEW i \in 1..Len(done) PROVE done[i].id \in Nat
    <3>1. done[i] \in Sessions
      BY <1>3
    <3>2. done[i].id \in 1..MaxRuns
      BY <3>1 DEF Sessions
    <3> QED
      BY <3>2
  <2>3. \A i \in 1..Len(done) : done[i].id <= count.run
    BY <1>3 DEF Numbered
  <2>4. \A i \in 1..Len(done) : done[i].id <= count'.run /\ done[i].id < count'.run
    BY <1>1, <2>1, <2>2, <2>3
  <2>5. count'.run > 0
    BY <1>1, <2>1
  <2> QED
    BY <1>3, <1>4, <2>1, <2>4, <2>5 DEF Numbered
<1>11. SettledTapeIsWhole' /\ SessionsKept'
  BY <1>1, <1>4, SettledIs, SettledNext DEF PInv
<1>12. Honest' /\ (settled' => labelled')
  BY <1>1, <1>4 DEF PInv, Honest
<1> QED
  BY <1>9, <1>10, <1>11, <1>12 DEF PInv

LEMMA PInit == Init => PInv
<1> SUFFICES ASSUME Init PROVE PInv
  OBVIOUS
<1>1. SettledTapeIsWhole /\ SessionsKept /\ (settled => labelled) /\ Course
  BY DEF Init, SettledTapeIsWhole, SessionsKept, Course
<1>2. Honest
  BY DEF Init, Honest
<1>3. Numbered
  <2>1. MaxRuns \in Nat
    BY FileTapeAssumption
  <2>2. <<>> \in Seq(Sessions) /\ Len(<<>>) = 0
    OBVIOUS
  <2> QED
    BY <2>1, <2>2 DEF Init, Numbered
<1> QED
  BY <1>1, <1>2, <1>3 DEF PInv

LEMMA PStep == DInv /\ PInv /\ [Next]_vars => PInv'
<1> SUFFICES ASSUME DInv, PInv, [Next]_vars PROVE PInv'
  OBVIOUS
<1>1. CASE UNCHANGED vars
  <2>1. Course'
    BY <1>1, ZenonT(60) DEF vars, PInv, Course, Formats, Behind, Seeks, Looks, Writes, Jump, LastStart
  <2> QED
    BY <1>1, <2>1, Quiet DEF vars
<1>2. CASE Next
  BY <1>2, OpenKeeps, KillKeeps, StartFormatKeeps, StartBackupKeeps, StartReadKeeps,
     WriteGoesOnKeeps, WriteFullKeeps, WriteFailsKeeps, MoveOrReadKeeps, DedupGivesUpKeeps DEF Next
<1> QED
  BY <1>1, <1>2

LEMMA PInvariant == Spec => [](DInv /\ PInv)
<1>1. Init => DInv /\ PInv
  BY DInit, PInit
<1>2. (DInv /\ PInv) /\ [Next]_vars => (DInv /\ PInv)'
  BY DStep, PStep
<1> QED
  BY <1>1, <1>2, PTL DEF Spec

\* A session that a backup reported as written stays on the tape block for
\* block: no later part, no part that runs out of tape, no write the host
\* fails half-way, no repair that fails too, no look back that gives up and no
\* kill touches what is before the head when the part begins (usecase/backup
\* writePart, restoreEOD, prevJobConfigHash over filetape appendLocked).
THEOREM SessionsAreKept == Spec => []SessionsKept
<1>1. DInv /\ PInv => SessionsKept
  BY DEF PInv
<1> QED
  BY <1>1, PInvariant, PTL

\* After a format, a part or a repair that came to its end the tape is the
\* label, the sessions of the catalog and a closing pair, and behind the pair
\* there is at most what a failed write has left (FORMAT 4; closeEOD,
\* restoreEOD).
THEOREM SettledTapesAreWhole == Spec => []SettledTapeIsWhole
<1>1. DInv /\ PInv => SettledTapeIsWhole
  BY DEF PInv
<1> QED
  BY <1>1, PInvariant, PTL

\* Every variable has its type, and the head is never past the records that
\* the descriptor can read (filetape: a head moves over whole records only).
THEOREM TypesAreKept == Spec => []TypeOK
<1>1. DInv /\ PInv => TypeOK
  <2> SUFFICES ASSUME DInv, PInv PROVE TypeOK
    OBVIOUS
  <2>1. \A i \in DOMAIN file : file[i] \in Blocks \cup {Mark} \cup Torn
    BY DEF DInv, Desc, Records, Rec, Whole
  <2>2. size \in 0..Len(file) /\ pos \in 0..Readable(size)
    <3>1. pos \in Nat /\ pos <= Readable(size) /\ Readable(size) \in Nat /\ size \in 0..Len(file)
      BY ReadableFacts DEF DInv, Desc, Head0
    <3> QED
      BY <3>1
  <2>3. done \in Seq(Sessions)
    BY DEF PInv, Numbered
  <2> QED
    BY <2>1, <2>2, <2>3 DEF TypeOK, DInv, Kinds, Outs
<1> QED
  BY <1>1, PInvariant, PTL
=============================================================================
