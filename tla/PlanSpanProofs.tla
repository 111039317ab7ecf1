--------------------------- MODULE PlanSpanProofs ---------------------------
(***************************************************************************)
(* Theorems about the planner, for every list of files, budget, depth and  *)
(* set of roots.                                                           *)
(***************************************************************************)
EXTENDS PlanSpan, FiniteSetTheorems, SequenceTheorems, WellFoundedInduction, TLAPS

-----------------------------------------------------------------------------
(* Numbers. *)

LEMMA LessOnNat ==
  \E R : IsWellFoundedOn(R, Nat) /\ \A x, y \in Nat : x < y => <<x, y>> \in R
<1> DEFINE R == OpToRel(<, Nat)
<1>1. IsWellFoundedOn(R, Nat)
  BY NatLessThanWellFounded
<1>2. \A x, y \in Nat : x < y => <<x, y>> \in R
  BY DEF OpToRel
<1> HIDE DEF R
<1> QED
  BY <1>1, <1>2, Zenon

\* A set of numbers that is not empty has a least one, and only one.
LEMMA Least ==
  ASSUME NEW S \in SUBSET Nat, S # {}
  PROVE  /\ Min(S) \in S
         /\ \A j \in S : Min(S) <= j
<1>1. PICK R : IsWellFoundedOn(R, Nat) /\ \A x, y \in Nat : x < y => <<x, y>> \in R
  BY LessOnNat
<1>2. IsWellFoundedOn(R, Nat) /\ S \subseteq Nat
  BY <1>1
<1>3. \E k \in S : \A j \in S : ~(<<j, k>> \in R)
  BY <1>2, WFMin, Zenon
<1>4. PICK k \in S : \A j \in S : ~(<<j, k>> \in R)
  BY <1>3, Zenon
<1>5. \A j \in S : ~(j < k)
  BY <1>1, <1>2, <1>4, Zenon
<1>6. \A j \in S : k <= j
  BY <1>2, <1>5
<1> QED
  BY <1>6 DEF Min

\* What holds of 0 and of the next number holds of all.
LEMMA AllNumbers ==
  ASSUME NEW S, 0 \in S, \A n \in Nat : n \in S => n + 1 \in S
  PROVE  Nat \subseteq S
<1> DEFINE B == Nat \ S
<1>1. CASE B = {}
  BY <1>1
<1>2. CASE B # {}
  <2>1. Min(B) \in B /\ \A j \in B : Min(B) <= j
    BY <1>2, Least
  <2> HIDE DEF B
  <2>2. PICK m \in B : \A j \in B : m <= j
    BY <2>1
  <2>3. m \in Nat /\ m # 0 /\ m \notin S
    BY <2>2 DEF B
  <2>4. m - 1 \in Nat /\ m - 1 \notin B
    BY <2>2, <2>3
  <2> QED
    BY <2>3, <2>4 DEF B
<1> QED
  BY <1>1, <1>2

-----------------------------------------------------------------------------
(* Sums over finite sets. *)

OneOf(s) == CHOOSE x \in s : TRUE

\* g has the sums of w over the subsets of S.
Sums(g, w, S) ==
  g = [s \in SUBSET S |-> IF s = {} THEN 0 ELSE w[OneOf(s)] + g[s \ {OneOf(s)}]]

SumOf(w, S) == (CHOOSE g : Sums(g, w, S))[S]

LEMMA OneOfIn ==
  ASSUME NEW S, NEW s \in SUBSET S, s # {}
  PROVE  OneOf(s) \in s /\ s \ {OneOf(s)} \in SUBSET S
BY DEF OneOf

\* The size of a set without one of its elements.
LEMMA OneLess ==
  ASSUME NEW S, IsFiniteSet(S), NEW s \in SUBSET S, NEW x \in s
  PROVE  /\ Cardinality(s) \in Nat /\ Cardinality(s \ {x}) \in Nat
         /\ Cardinality(s) = Cardinality(s \ {x}) + 1
<1>1. IsFiniteSet(s)
  BY FS_Subset
<1>2. Cardinality(s \ {x}) = Cardinality(s) - 1 /\ IsFiniteSet(s \ {x})
  BY <1>1, FS_RemoveElement
<1> QED
  BY <1>1, <1>2, FS_CardinalityType

LEMMA SumsExists ==
  ASSUME NEW w, NEW S, IsFiniteSet(S)
  PROVE  \E g : Sums(g, w, S)
<1> DEFINE Up(n, g) ==
             \A s \in SUBSET S : Cardinality(s) <= n =>
               g[s] = IF s = {} THEN 0 ELSE w[OneOf(s)] + g[s \ {OneOf(s)}]
           N == {n \in Nat : \E g : Up(n, g)}
<1>1. 0 \in N
  <2>1. Up(0, [s \in SUBSET S |-> 0])
    <3>1. ASSUME NEW s \in SUBSET S, Cardinality(s) <= 0 PROVE s = {}
      <4>1. CASE s # {}
        <5>1. OneOf(s) \in s
          BY <4>1, OneOfIn
        <5>2. Cardinality(s) = Cardinality(s \ {OneOf(s)}) + 1 /\ Cardinality(s \ {OneOf(s)}) \in Nat
          BY <5>1, OneLess
        <5> QED
          BY <3>1, <5>2
      <4> QED
        BY <4>1
    <3> QED
      BY <3>1
  <2> HIDE DEF Up
  <2> QED
    BY <2>1
<1>2. ASSUME NEW n \in Nat, n \in N PROVE n + 1 \in N
  <2>1. PICK g : Up(n, g)
    BY <1>2
  <2> DEFINE h == [s \in SUBSET S |->
                     IF Cardinality(s) <= n THEN g[s]
                     ELSE IF s = {} THEN 0 ELSE w[OneOf(s)] + g[s \ {OneOf(s)}]]
  <2>2. ASSUME NEW s \in SUBSET S, Cardinality(s) <= n + 1
        PROVE  h[s] = IF s = {} THEN 0 ELSE w[OneOf(s)] + h[s \ {OneOf(s)}]
    <3>1. h[s] = IF s = {} THEN 0 ELSE w[OneOf(s)] + g[s \ {OneOf(s)}]
      BY <2>1
    <3>2. CASE s # {}
      <4>1. OneOf(s) \in s /\ s \ {OneOf(s)} \in SUBSET S
        BY <3>2, OneOfIn
      <4>2. /\ Cardinality(s) = Cardinality(s \ {OneOf(s)}) + 1
            /\ Cardinality(s \ {OneOf(s)}) \in Nat
        BY <4>1, OneLess
      <4>3. Cardinality(s \ {OneOf(s)}) <= n
        BY <2>2, <4>2
      <4>4. h[s \ {OneOf(s)}] = g[s \ {OneOf(s)}]
        BY <4>1, <4>3
      <4> QED
        BY <3>1, <3>2, <4>4
    <3> QED
      BY <3>1, <3>2
  <2> HIDE DEF h
  <2>3. Up(n + 1, h)
    BY <2>2
  <2> HIDE DEF Up
  <2> QED
    BY <2>3
<1>3. Cardinality(S) \in Nat
  BY FS_CardinalityType
<1> HIDE DEF N
<1>4. Cardinality(S) \in N
  BY <1>1, <1>2, <1>3, AllNumbers
<1>5. PICK g : Up(Cardinality(S), g)
  BY <1>4 DEF N
<1> DEFINE h == [s \in SUBSET S |-> g[s]]
<1>6. ASSUME NEW s \in SUBSET S
      PROVE  h[s] = IF s = {} THEN 0 ELSE w[OneOf(s)] + h[s \ {OneOf(s)}]
  <2>1. Cardinality(s) <= Cardinality(S)
    BY FS_Subset
  <2>2. s # {} => s \ {OneOf(s)} \in SUBSET S
    BY OneOfIn
  <2> QED
    BY <1>5, <2>1, <2>2
<1>7. Sums(h, w, S)
  <2> DEFINE k == [s \in SUBSET S |-> IF s = {} THEN 0 ELSE w[OneOf(s)] + h[s \ {OneOf(s)}]]
  <2>1. h = k
    BY <1>6
  <2> QED
    BY <2>1 DEF Sums
<1> HIDE DEF h
<1> QED
  BY <1>7

LEMMA SumsEquation ==
  ASSUME NEW w, NEW S, NEW g, Sums(g, w, S), NEW s \in SUBSET S
  PROVE  /\ s = {} => g[s] = 0
         /\ s # {} => g[s] = w[OneOf(s)] + g[s \ {OneOf(s)}]
<1>1. g[s] = [t \in SUBSET S |-> IF t = {} THEN 0 ELSE w[OneOf(t)] + g[t \ {OneOf(t)}]][s]
  BY DEF Sums
<1> QED
  BY <1>1

\* The sums over the subsets that two sets have in common are the same.
LEMMA SumsAgree ==
  ASSUME NEW w, NEW S, IsFiniteSet(S), NEW g, Sums(g, w, S),
         NEW v, NEW T, NEW h, Sums(h, v, T),
         NEW r, r \in SUBSET S, r \in SUBSET T, \A x \in r : w[x] = v[x]
  PROVE  g[r] = h[r]
<1> DEFINE N == {n \in Nat : \A s \in SUBSET r : Cardinality(s) = n => g[s] = h[s]}
<1>1. ASSUME NEW s \in SUBSET r PROVE s \in SUBSET S /\ s \in SUBSET T
  OBVIOUS
<1>2. 0 \in N
  <2>1. ASSUME NEW s \in SUBSET r, Cardinality(s) = 0 PROVE g[s] = h[s]
    <3>1. IsFiniteSet(s)
      BY <1>1, FS_Subset
    <3>2. s = {}
      BY <2>1, <3>1, FS_EmptySet
    <3> QED
      BY <1>1, <3>2, SumsEquation
  <2> QED
    BY <2>1
<1>3. ASSUME NEW n \in Nat, n \in N PROVE n + 1 \in N
  <2>1. ASSUME NEW s \in SUBSET r, Cardinality(s) = n + 1 PROVE g[s] = h[s]
    <3>1. s # {}
      BY <2>1, FS_EmptySet
    <3>2. OneOf(s) \in s /\ s \ {OneOf(s)} \in SUBSET r
      BY <3>1, OneOfIn
    <3>3. Cardinality(s \ {OneOf(s)}) = n
      BY <1>1, <2>1, <3>2, OneLess
    <3>4. g[s \ {OneOf(s)}] = h[s \ {OneOf(s)}]
      BY <1>3, <3>2, <3>3
    <3>5. w[OneOf(s)] = v[OneOf(s)]
      BY <3>2
    <3>6. g[s] = w[OneOf(s)] + g[s \ {OneOf(s)}] /\ h[s] = v[OneOf(s)] + h[s \ {OneOf(s)}]
      BY <1>1, <3>1, SumsEquation
    <3> QED
      BY <3>4, <3>5, <3>6
  <2>2. n + 1 \in Nat
    OBVIOUS
  <2> QED
    BY <2>1, <2>2
<1> HIDE DEF N
<1>4. Cardinality(r) \in Nat
  BY FS_Subset, FS_CardinalityType
<1>5. Cardinality(r) \in N
  BY <1>2, <1>3, <1>4, AllNumbers
<1> QED
  BY <1>5 DEF N

\* Sums of numbers are numbers.
LEMMA SumsType ==
  ASSUME NEW w, NEW S, IsFiniteSet(S), NEW g, Sums(g, w, S), \A x \in S : w[x] \in Nat
  PROVE  \A s \in SUBSET S : g[s] \in Nat
<1> DEFINE N == {n \in Nat : \A s \in SUBSET S : Cardinality(s) = n => g[s] \in Nat}
<1>1. 0 \in N
  <2>1. ASSUME NEW s \in SUBSET S, Cardinality(s) = 0 PROVE g[s] \in Nat
    <3>1. s = {}
      BY <2>1, FS_Subset, FS_EmptySet
    <3>2. g[s] = 0
      BY <3>1, SumsEquation
    <3> QED
      BY <3>2
  <2> QED
    BY <2>1
<1>2. ASSUME NEW n \in Nat, n \in N PROVE n + 1 \in N
  <2>1. ASSUME NEW s \in SUBSET S, Cardinality(s) = n + 1 PROVE g[s] \in Nat
    <3>1. s # {}
      BY <2>1, FS_EmptySet
    <3>2. OneOf(s) \in s /\ s \ {OneOf(s)} \in SUBSET S
      BY <3>1, OneOfIn
    <3>3. Cardinality(s \ {OneOf(s)}) = n
      BY <2>1, <3>2, OneLess
    <3>4. g[s \ {OneOf(s)}] \in Nat /\ w[OneOf(s)] \in Nat
      BY <1>2, <3>2, <3>3
    <3>5. g[s] = w[OneOf(s)] + g[s \ {OneOf(s)}]
      BY <3>1, SumsEquation
    <3> QED
      BY <3>4, <3>5
  <2>2. n + 1 \in Nat
    OBVIOUS
  <2> QED
    BY <2>1, <2>2
<1> HIDE DEF N
<1>3. ASSUME NEW s \in SUBSET S PROVE g[s] \in Nat
  <2>1. Cardinality(s) \in Nat
    BY FS_Subset, FS_CardinalityType
  <2>2. Cardinality(s) \in N
    BY <1>1, <1>2, <2>1, AllNumbers
  <2> QED
    BY <2>2 DEF N
<1> QED
  BY <1>3

\* Whichever element is taken first.
LEMMA SumsStep ==
  ASSUME NEW w, NEW S, IsFiniteSet(S), NEW g, Sums(g, w, S), \A x \in S : w[x] \in Nat
  PROVE  \A s \in SUBSET S : \A x \in s : g[s] = w[x] + g[s \ {x}]
<1> DEFINE Ok(s) == \A x \in s : g[s] = w[x] + g[s \ {x}]
           N == {n \in Nat : \A s \in SUBSET S : Cardinality(s) = n => Ok(s)}
<1>1. 0 \in N
  <2>1. ASSUME NEW s \in SUBSET S, Cardinality(s) = 0 PROVE Ok(s)
    <3>1. s = {}
      BY <2>1, FS_Subset, FS_EmptySet
    <3> QED
      BY <3>1
  <2> HIDE DEF Ok
  <2> QED
    BY <2>1
<1>2. ASSUME NEW n \in Nat, n \in N PROVE n + 1 \in N
  <2>1. ASSUME NEW s \in SUBSET S, Cardinality(s) = n + 1 PROVE Ok(s)
    <3> DEFINE a == OneOf(s)
    <3>1. s # {}
      BY <2>1, FS_EmptySet
    <3>2. a \in s /\ s \ {a} \in SUBSET S
      BY <3>1, OneOfIn
    <3>3. g[s] = w[a] + g[s \ {a}]
      BY <3>1, SumsEquation
    <3> HIDE DEF a
    <3>4. ASSUME NEW x \in s PROVE s \ {x} \in SUBSET S /\ Ok(s \ {x})
      <4>1. Cardinality(s \ {x}) = n
        BY <2>1, OneLess
      <4> HIDE DEF Ok
      <4> QED
        BY <1>2, <4>1
    <3>5. ASSUME NEW x \in s, x # a PROVE g[s] = w[x] + g[s \ {x}]
      <4> DEFINE u == (s \ {a}) \ {x}
      <4>1. u = (s \ {x}) \ {a} /\ x \in s \ {a} /\ a \in s \ {x} /\ u \in SUBSET S
        BY <3>2, <3>5
      <4>2. g[s \ {a}] = w[x] + g[u]
        BY <3>2, <3>4, <4>1
      <4>3. g[s \ {x}] = w[a] + g[u]
        BY <3>4, <4>1
      <4> HIDE DEF u
      <4>4. g[u] \in Nat /\ w[x] \in Nat /\ w[a] \in Nat
        BY <3>2, <4>1, SumsType
      <4> QED
        BY <3>3, <4>2, <4>3, <4>4
    <3> QED
      BY <3>3, <3>5
  <2> HIDE DEF Ok
  <2>2. n + 1 \in Nat
    OBVIOUS
  <2> QED
    BY <2>1, <2>2
<1> HIDE DEF N
<1>3. ASSUME NEW s \in SUBSET S PROVE Ok(s)
  <2>1. Cardinality(s) \in Nat
    BY FS_Subset, FS_CardinalityType
  <2>2. Cardinality(s) \in N
    BY <1>1, <1>2, <2>1, AllNumbers
  <2> HIDE DEF Ok
  <2> QED
    BY <2>2 DEF N
<1> QED
  BY <1>3

LEMMA SumIs ==
  ASSUME NEW w, NEW S, IsFiniteSet(S)
  PROVE  \E g : Sums(g, w, S) /\ SumOf(w, S) = g[S]
<1> DEFINE g == CHOOSE g : Sums(g, w, S)
<1>1. Sums(g, w, S)
  BY SumsExists
<1>2. SumOf(w, S) = g[S]
  BY DEF SumOf
<1> HIDE DEF g
<1> QED
  BY <1>1, <1>2

\* What the proofs use: a sum is a number, nothing costs nothing, ...
LEMMA SumNone == \A w : SumOf(w, {}) = 0
<1> SUFFICES ASSUME NEW w PROVE SumOf(w, {}) = 0
  OBVIOUS
<1>1. IsFiniteSet({})
  BY FS_EmptySet
<1>2. PICK g : Sums(g, w, {}) /\ SumOf(w, {}) = g[{}]
  BY <1>1, SumIs
<1> QED
  BY <1>2, SumsEquation

\* ... each element adds what it costs, ...
LEMMA SumMore ==
  ASSUME NEW w, NEW S, IsFiniteSet(S), \A x \in S : w[x] \in Nat, NEW x \in S
  PROVE  SumOf(w, S) = w[x] + SumOf(w, S \ {x})
<1>1. PICK g : Sums(g, w, S) /\ SumOf(w, S) = g[S]
  BY SumIs
<1>2. IsFiniteSet(S \ {x})
  BY FS_RemoveElement
<1>3. PICK h : Sums(h, w, S \ {x}) /\ SumOf(w, S \ {x}) = h[S \ {x}]
  BY <1>2, SumIs
<1>4. g[S] = w[x] + g[S \ {x}]
  BY <1>1, SumsStep
<1>5. g[S \ {x}] = h[S \ {x}]
  BY <1>1, <1>3, SumsAgree
<1> QED
  BY <1>1, <1>3, <1>4, <1>5

LEMMA SumType ==
  ASSUME NEW w, NEW S, IsFiniteSet(S), \A x \in S : w[x] \in Nat
  PROVE  SumOf(w, S) \in Nat
<1>1. PICK g : Sums(g, w, S) /\ SumOf(w, S) = g[S]
  BY SumIs
<1> QED
  BY <1>1, SumsType

\* ... and a set costs no less than a part of it.
LEMMA SumGrows ==
  ASSUME NEW w, NEW S, IsFiniteSet(S), \A x \in S : w[x] \in Nat, NEW T \in SUBSET S
  PROVE  SumOf(w, T) <= SumOf(w, S)
<1> DEFINE Ok(s) == T \subseteq s => SumOf(w, T) <= SumOf(w, s)
           N == {n \in Nat : \A s \in SUBSET S : Cardinality(s) = n => Ok(s)}
<1>1. IsFiniteSet(T) /\ SumOf(w, T) \in Nat
  <2>1. IsFiniteSet(T)
    BY FS_Subset
  <2> QED
    BY <2>1, SumType
<1>2. ASSUME NEW s \in SUBSET S PROVE IsFiniteSet(s) /\ SumOf(w, s) \in Nat /\ \A x \in s : w[x] \in Nat
  <2>1. IsFiniteSet(s)
    BY FS_Subset
  <2>2. \A x \in s : w[x] \in Nat
    OBVIOUS
  <2> QED
    BY <2>1, <2>2, SumType
<1>3. 0 \in N
  <2>1. ASSUME NEW s \in SUBSET S, Cardinality(s) = 0, T \subseteq s PROVE SumOf(w, T) <= SumOf(w, s)
    <3>1. s = {} /\ T = {}
      BY <1>2, <2>1, FS_EmptySet
    <3> QED
      BY <1>1, <3>1
  <2> QED
    BY <2>1
<1>4. ASSUME NEW n \in Nat, n \in N PROVE n + 1 \in N
  <2>1. ASSUME NEW s \in SUBSET S, Cardinality(s) = n + 1, T \subseteq s PROVE SumOf(w, T) <= SumOf(w, s)
    <3>1. CASE T = s
      BY <1>1, <3>1
    <3>2. CASE T # s
      <4>1. PICK x \in s : x \notin T
        BY <2>1, <3>2
      <4>2. s \ {x} \in SUBSET S /\ T \subseteq s \ {x}
        BY <2>1, <4>1
      <4>3. Cardinality(s \ {x}) = n
        BY <2>1, OneLess
      <4>4. SumOf(w, T) <= SumOf(w, s \ {x})
        BY <1>4, <4>2, <4>3
      <4>5. SumOf(w, s) = w[x] + SumOf(w, s \ {x}) /\ w[x] \in Nat
        BY <1>2, SumMore
      <4>6. SumOf(w, s \ {x}) \in Nat
        BY <1>2, <4>2
      <4> QED
        BY <1>1, <4>4, <4>5, <4>6
    <3> QED
      BY <3>1, <3>2
  <2>2. n + 1 \in Nat
    OBVIOUS
  <2> HIDE DEF N
  <2> QED
    BY <2>1, <2>2 DEF N
<1> HIDE DEF N
<1>5. Cardinality(S) \in N
  BY <1>3, <1>4, FS_CardinalityType, AllNumbers
<1> QED
  BY <1>5 DEF N

\* Sums over numbers that follow one another.
Total(w, a, b) == SumOf(w, (a + 1)..b)

LEMMA TotalFacts ==
  ASSUME NEW n \in Nat, NEW w, \A i \in 1..n : w[i] \in Nat,
         NEW a \in 0..n, NEW b \in a..n
  PROVE  /\ Total(w, a, b) \in Nat /\ Total(w, a, a) = 0
         /\ b < n => Total(w, a, b + 1) = Total(w, a, b) + w[b + 1]
<1>1. (a + 1)..a = {} /\ a \in Nat /\ b \in Nat
  OBVIOUS
<1>2. \A c \in Nat : IsFiniteSet((a + 1)..c)
  BY <1>1, FS_Interval
<1>3. \A c \in Nat : c <= n => \A i \in (a + 1)..c : w[i] \in Nat
  BY <1>1
<1>4. Total(w, a, a) = 0
  BY <1>1, SumNone DEF Total
<1>5. Total(w, a, b) \in Nat
  BY <1>1, <1>2, <1>3, SumType DEF Total
<1>6. ASSUME b < n PROVE Total(w, a, b + 1) = Total(w, a, b) + w[b + 1]
  <2> DEFINE S == (a + 1)..(b + 1)
  <2>1. b + 1 \in S /\ S \ {b + 1} = (a + 1)..b /\ b + 1 \in Nat /\ b + 1 <= n
    BY <1>1, <1>6
  <2>2. IsFiniteSet(S) /\ \A i \in S : w[i] \in Nat
    BY <1>2, <1>3, <2>1
  <2> HIDE DEF S
  <2>3. SumOf(w, S) = w[b + 1] + SumOf(w, S \ {b + 1})
    BY <2>1, <2>2, SumMore
  <2>4. w[b + 1] \in Nat
    BY <2>1, <2>2
  <2>5. Total(w, a, b + 1) = w[b + 1] + Total(w, a, b)
    BY <2>1, <2>3 DEF S, Total
  <2> QED
    BY <1>5, <2>4, <2>5
<1> QED
  BY <1>4, <1>5, <1>6

\* Two stretches of which one is inside the other.
LEMMA TotalGrows ==
  ASSUME NEW n \in Nat, NEW w, \A i \in 1..n : w[i] \in Nat,
         NEW a \in 0..n, NEW b \in 0..n, NEW c \in 0..n, NEW d \in 0..n, a <= b, c <= d
  PROVE  Total(w, b, c) <= Total(w, a, d)
<1> DEFINE S == (a + 1)..d
           T == (b + 1)..c
<1>1. IsFiniteSet(S) /\ T \in SUBSET S /\ \A i \in S : w[i] \in Nat
  <2>1. a + 1 \in Int /\ d \in Int
    OBVIOUS
  <2> QED
    BY <2>1, FS_Interval
<1> HIDE DEF S, T
<1>2. SumOf(w, T) <= SumOf(w, S)
  BY <1>1, SumGrows
<1> QED
  BY <1>2 DEF S, T, Total

Numbers(w, n) == \A i \in 1..n : w[i] \in Nat

ShiftOf(v, w, a, m) == \A i \in 1..m : v[i] = w[a + i]

\* A stretch costs the same wherever it is counted.
LEMMA TotalShift ==
  ASSUME NEW n \in Nat, NEW w, Numbers(w, n),
         NEW a \in 0..n, NEW m \in Nat, a + m <= n,
         NEW v, ShiftOf(v, w, a, m)
  PROVE  Total(v, 0, m) = Total(w, a, a + m)
<1>0. (\A i \in 1..n : w[i] \in Nat) /\ (\A i \in 1..m : v[i] = w[a + i])
  BY DEF Numbers, ShiftOf
<1> DEFINE N == {k \in Nat : k <= m => Total(v, 0, k) = Total(w, a, a + k)}
<1>1. \A i \in 1..m : a + i \in 1..n /\ v[i] \in Nat
  BY <1>0
<1>2. 0 \in N
  <2>1. Total(v, 0, 0) = 0 /\ Total(w, a, a) = 0
    <3>1. (0 + 1)..0 = {} /\ (a + 1)..a = {}
      OBVIOUS
    <3> QED
      BY <3>1, SumNone DEF Total
  <2> QED
    BY <2>1
<1>3. ASSUME NEW k \in Nat, k \in N PROVE k + 1 \in N
  <2>1. SUFFICES ASSUME k + 1 <= m PROVE Total(v, 0, k + 1) = Total(w, a, a + (k + 1))
    OBVIOUS
  <2>2. Total(v, 0, k) = Total(w, a, a + k)
    BY <1>3, <2>1
  <2>3. Total(v, 0, k + 1) = Total(v, 0, k) + v[k + 1]
    <3>1. m \in Nat /\ 0 \in 0..m /\ k \in 0..m /\ k < m
      BY <2>1
    <3> QED
      BY <1>1, <3>1, TotalFacts
  <2>4. Total(w, a, (a + k) + 1) = Total(w, a, a + k) + w[(a + k) + 1]
    <3>1. a + k \in a..n /\ a + k < n
      BY <2>1
    <3> QED
      BY <1>0, <3>1, TotalFacts
  <2>5. (a + k) + 1 = a + (k + 1) /\ k + 1 \in 1..m
    BY <2>1
  <2>6. v[k + 1] = w[(a + k) + 1]
    BY <1>0, <2>5
  <2> QED
    BY <2>2, <2>3, <2>4, <2>5, <2>6
<1> HIDE DEF N
<1>4. m \in N
  BY <1>2, <1>3, AllNumbers
<1> QED
  BY <1>4 DEF N

-----------------------------------------------------------------------------
(* What parts and groups cost. *)

CostsOf(part) == [i \in DOMAIN part |-> SpanCost(part[i])]

\* The sums of the model are sums of the costs.
LEMMA MapThenSumIs ==
  ASSUME NEW part, NEW S, IsFiniteSet(S), S \subseteq DOMAIN part
  PROVE  MapThenSumSet(LAMBDA i : SpanCost(part[i]), S) = SumOf(CostsOf(part), S)
<1> DEFINE w == CostsOf(part)
           Fold(g) == g = [s \in SUBSET S |->
                             IF s = {} THEN 0
                             ELSE SpanCost(part[CHOOSE x \in s : TRUE])
                                  + g[s \ {CHOOSE x \in s : TRUE}]]
           f == CHOOSE g : Fold(g)
<1>1. ASSUME NEW g
      PROVE  [s \in SUBSET S |-> IF s = {} THEN 0
                                 ELSE SpanCost(part[CHOOSE x \in s : TRUE])
                                      + g[s \ {CHOOSE x \in s : TRUE}]]
             = [s \in SUBSET S |-> IF s = {} THEN 0 ELSE w[OneOf(s)] + g[s \ {OneOf(s)}]]
  <2>1. ASSUME NEW s \in SUBSET S, s # {}
        PROVE  SpanCost(part[CHOOSE x \in s : TRUE]) = w[OneOf(s)]
    <3>1. OneOf(s) \in DOMAIN part
      BY <2>1, OneOfIn
    <3>2. w[OneOf(s)] = SpanCost(part[OneOf(s)])
      BY <3>1 DEF CostsOf
    <3> QED
      BY <3>2 DEF OneOf
  <2> HIDE DEF w
  <2> QED
    BY <2>1 DEF OneOf
<1>2. \A g : Fold(g) <=> Sums(g, w, S)
  <2> HIDE DEF w
  <2> QED
    BY <1>1 DEF Sums
<1>3. \E g : Fold(g)
  <2> HIDE DEF Fold, w
  <2> QED
    BY <1>2, SumsExists
<1>4. Fold(f)
  <2> HIDE DEF Fold
  <2> QED
    BY <1>3
<1>5. Sums(f, w, S)
  <2> HIDE DEF Fold, f, w
  <2> QED
    BY <1>2, <1>4
<1>6. MapThenSumSet(LAMBDA i : SpanCost(part[i]), S) = f[S]
  BY DEF MapThenSumSet, MapThenFoldSet
<1> HIDE DEF f, w
<1>7. PICK g : Sums(g, w, S) /\ SumOf(w, S) = g[S]
  BY SumIs
<1>8. f[S] = g[S]
  BY <1>5, <1>7, SumsAgree
<1> QED
  BY <1>6, <1>7, <1>8 DEF w

LEMMA CostsType ==
  ASSUME NEW part \in Seq(FileMeta)
  PROVE  /\ Len(part) \in Nat /\ DOMAIN part = 1..Len(part)
         /\ \A i \in 1..Len(part) : /\ CostsOf(part)[i] = SpanCost(part[i])
                                    /\ CostsOf(part)[i] \in Nat
<1>1. Len(part) \in Nat /\ DOMAIN part = 1..Len(part)
  BY LenProperties
<1>2. \A i \in 1..Len(part) : part[i] \in FileMeta
  BY ElementOfSeq
<1> QED
  BY <1>1, <1>2 DEF CostsOf, SpanCost, FileMeta

LEMMA SpanTotalIs ==
  ASSUME NEW part \in Seq(FileMeta)
  PROVE  SpanTotal(part) = Total(CostsOf(part), 0, Len(part))
<1>1. Len(part) \in Nat /\ DOMAIN part = 1..Len(part) /\ IsFiniteSet(1..Len(part))
  BY CostsType, FS_Interval
<1>2. SpanTotal(part) = SumOf(CostsOf(part), 1..Len(part))
  BY <1>1, MapThenSumIs DEF SpanTotal
<1> QED
  BY <1>2 DEF Total

\* A part costs what its stretch of the files costs.
LEMMA PartTotal ==
  ASSUME NEW fs \in Seq(FileMeta), NEW a \in 0..Len(fs), NEW b \in a..Len(fs)
  PROVE  /\ SubSeq(fs, a + 1, b) \in Seq(FileMeta)
         /\ Len(SubSeq(fs, a + 1, b)) = b - a
         /\ \A i \in 1..(b - a) : SubSeq(fs, a + 1, b)[i] = fs[a + i]
         /\ SpanTotal(SubSeq(fs, a + 1, b)) = Total(CostsOf(fs), a, b)
<1> DEFINE part == SubSeq(fs, a + 1, b)
           m == b - a
<1>1. /\ a \in Int /\ b \in Int /\ m \in Nat /\ a + m = b /\ Len(fs) \in Nat
      /\ \A i \in (a + 1)..b : fs[i] \in FileMeta
  <2>1. Len(fs) \in Nat
    BY LenProperties
  <2> QED
    BY <2>1, ElementOfSeq
<1>2. /\ part \in Seq(FileMeta)
      /\ Len(part) = IF a + 1 <= b THEN b - (a + 1) + 1 ELSE 0
      /\ \A i \in 1..(b - (a + 1) + 1) : part[i] = fs[(a + 1) + i - 1]
  BY <1>1, SubSeqProperties
<1> HIDE DEF part
<1>3. Len(part) = m /\ \A i \in 1..m : part[i] = fs[a + i]
  <2>1. Len(part) = m
    BY <1>1, <1>2
  <2>2. ASSUME NEW i \in 1..m PROVE part[i] = fs[a + i]
    <3>1. i \in 1..(b - (a + 1) + 1) /\ (a + 1) + i - 1 = a + i
      BY <1>1
    <3> QED
      BY <1>2, <3>1
  <2> QED
    BY <2>1, <2>2
<1>4. SpanTotal(part) = Total(CostsOf(part), 0, m)
  BY <1>2, <1>3, SpanTotalIs
<1>5. \A i \in 1..m : CostsOf(part)[i] = CostsOf(fs)[a + i]
  <2>1. ASSUME NEW i \in 1..m PROVE CostsOf(part)[i] = CostsOf(fs)[a + i]
    <3>1. a + i \in 1..Len(fs) /\ i \in 1..Len(part)
      BY <1>1, <1>3
    <3> QED
      BY <1>2, <1>3, <3>1, CostsType
  <2> QED
    BY <2>1
<1>6. \A i \in 1..Len(fs) : CostsOf(fs)[i] \in Nat
  BY CostsType
<1>7. Total(CostsOf(part), 0, m) = Total(CostsOf(fs), a, a + m)
  <2> HIDE DEF m
  <2>1. Len(fs) \in Nat /\ a \in 0..Len(fs) /\ m \in Nat /\ a + m <= Len(fs)
    BY <1>1
  <2>2. Numbers(CostsOf(fs), Len(fs))
    BY <1>6 DEF Numbers
  <2>3. ShiftOf(CostsOf(part), CostsOf(fs), a, m)
    BY <1>5 DEF ShiftOf
  <2> QED
    BY <2>1, <2>2, <2>3, TotalShift
<1> QED
  BY <1>1, <1>2, <1>3, <1>4, <1>7 DEF part, m

-----------------------------------------------------------------------------
(* Parts joined to one sequence. *)

\* g joins the first sequences of s, one more at each place.
Joins(g, s) ==
  g = [i \in 1..Len(s) |-> IF i = 1 THEN s[i] ELSE g[i - 1] \o s[i]]

\* What was cut at e[1], e[2], ... and is joined again.
LEMMA JoinedAgain ==
  ASSUME NEW S, NEW fs \in Seq(S), NEW s, Len(s) \in Nat \ {0},
         NEW e \in [0..Len(s) -> 0..Len(fs)], e[0] = 0,
         \A k \in 1..Len(s) : e[k - 1] <= e[k] /\ s[k] = SubSeq(fs, e[k - 1] + 1, e[k])
  PROVE  FlattenSeq(s) = SubSeq(fs, 1, e[Len(s)])
<1> DEFINE n == Len(s)
           c == [i \in 1..n |-> SubSeq(fs, 1, e[i])]
           k == [i \in 1..n |-> IF i = 1 THEN s[i] ELSE c[i - 1] \o s[i]]
           h == CHOOSE g : Joins(g, s)
<1>1. n \in Nat \ {0} /\ Len(fs) \in Nat
  BY LenProperties
<1>2. ASSUME NEW i \in 1..n, i # 1
      PROVE  i - 1 \in 1..n /\ SubSeq(fs, 1, e[i - 1]) \o s[i] = SubSeq(fs, 1, e[i])
  <2>1. i - 1 \in 1..n /\ i - 1 \in 0..n /\ i \in 0..n
    BY <1>1, <1>2
  <2>2. e[i - 1] \in 0..Len(fs) /\ e[i] \in 0..Len(fs) /\ e[i - 1] <= e[i]
        /\ s[i] = SubSeq(fs, e[i - 1] + 1, e[i])
    BY <2>1
  <2> HIDE DEF n
  <2> DEFINE a == e[i - 1]
             b == e[i]
  <2>3. a \in 0..Len(fs) /\ b \in 0..Len(fs) /\ a <= b
    BY <2>2
  <2> HIDE DEF a, b
  <2>4. 1 \in 1..(Len(fs) + 1) /\ a \in (1 - 1)..Len(fs) /\ b \in a..Len(fs)
    BY <1>1, <2>3
  <2>5. SubSeq(fs, 1, a) \o SubSeq(fs, a + 1, b) = SubSeq(fs, 1, b)
    BY <2>4, ConcatAdjacentSubSeq
  <2> QED
    BY <2>1, <2>2, <2>5 DEF a, b
<1>3. s[1] = SubSeq(fs, 1, e[1])
  <2>1. 1 \in 1..n /\ 1 - 1 = 0
    BY <1>1
  <2>2. s[1] = SubSeq(fs, e[1 - 1] + 1, e[1])
    BY <2>1
  <2>3. e[1 - 1] + 1 = 1
    BY <2>1
  <2> QED
    BY <2>2, <2>3
<1>4. c = k
  <2>1. ASSUME NEW i \in 1..n PROVE c[i] = k[i]
    BY <1>2, <1>3
  <2> QED
    BY <2>1
<1>5. Joins(c, s)
  BY <1>4 DEF Joins
<1>6. Joins(h, s)
  <2> HIDE DEF c
  <2> QED
    BY <1>5
<1>7. FlattenSeq(s) = h[n]
  BY <1>1 DEF FlattenSeq, Joins
<1> HIDE DEF h
<1> DEFINE N == {m \in Nat : m \in 1..n => h[m] = SubSeq(fs, 1, e[m])}
<1>8. 0 \in N
  OBVIOUS
<1>9. ASSUME NEW m \in Nat, m \in N PROVE m + 1 \in N
  <2>1. SUFFICES ASSUME m + 1 \in 1..n PROVE h[m + 1] = SubSeq(fs, 1, e[m + 1])
    OBVIOUS
  <2>2. h[m + 1] = IF m + 1 = 1 THEN s[m + 1] ELSE h[(m + 1) - 1] \o s[m + 1]
    BY <1>6, <2>1 DEF Joins
  <2>3. (m + 1) - 1 = m /\ (m + 1 # 1 => m \in 1..n)
    BY <1>1, <2>1
  <2>4. CASE m + 1 = 1
    BY <1>3, <2>2, <2>4
  <2>5. CASE m + 1 # 1
    <3>1. h[m] = SubSeq(fs, 1, e[m])
      BY <1>9, <2>3, <2>5
    <3>2. SubSeq(fs, 1, e[(m + 1) - 1]) \o s[m + 1] = SubSeq(fs, 1, e[m + 1])
      BY <1>2, <2>1, <2>5
    <3> QED
      BY <2>2, <2>3, <2>5, <3>1, <3>2
  <2> QED
    BY <2>4, <2>5
<1> HIDE DEF N
<1>10. n \in N
  BY <1>1, <1>8, <1>9, AllNumbers
<1> QED
  BY <1>1, <1>7, <1>10 DEF N

-----------------------------------------------------------------------------
(* The invariant of the loop. *)

Costs == CostsOf(files)

\* The group of each file, and what the whole of a group costs.
Group == [i \in DOMAIN files |-> EntryGroup(files[i])]

Whole(w, G, key) == SumOf(w, {i \in DOMAIN G : G[i] = key})

Types ==
  /\ files \in Seq(FileMeta) /\ budget \in Nat /\ depth \in Nat
  /\ parts \in Seq(Seq(FileMeta)) /\ cur \in Seq(FileMeta)
  /\ TypeOK

\* The n parts end at the files e[1], ..., e[n].  Each one fits, the next one
\* would not have fitted behind it, and between the two no group is cut that
\* fits on a cassette.
Cuts(e, n) ==
  /\ n \in Nat \ {0} /\ n = Len(AllParts)
  /\ e \in [0..n -> 0..(next - 1)] /\ e[0] = 0 /\ e[n] = next - 1
  /\ \A k \in 1..n : /\ e[k - 1] <= e[k]
                     /\ AllParts[k] = SubSeq(files, e[k - 1] + 1, e[k])
                     /\ budget > 0 => Total(Costs, e[k - 1], e[k]) <= budget
  /\ \A k \in 1..(n - 1) :
       /\ e[k - 1] < e[k] /\ e[k] < next - 1
       /\ Total(Costs, e[k - 1], e[k + 1]) > budget
       /\ Grouped /\ Group[e[k]] = Group[e[k] + 1] => Whole(Costs, Group, Group[e[k]]) > budget

\* The group at the end of the part at work, which begins behind file s.
GroupAtWork(s) ==
  IF s = next - 1 THEN groupStart = 0
  ELSE /\ groupStart \in 1..(next - 1 - s)
       /\ \A i \in (s + groupStart)..(next - 1) : Group[i] = curKey
       /\ groupStart > 1 => Group[s + groupStart - 1] # curKey

\* What the part at work was opened with did not fit on the part before it,
\* which ends at file s and begins behind file r, and no later group has begun
\* in it.
Opened(r, s) ==
  \E o \in (s + 1)..(next - 1) :
    Total(Costs, r, o) > budget /\ (groupStart <= 1 \/ o < s + groupStart)

AtWork(e, n) ==
  /\ Grouped => GroupAtWork(e[n - 1])
  /\ n > 1 => Opened(e[n - 2], e[n - 1])

PInv ==
  /\ Types
  /\ used = SpanTotal(cur)
  /\ budget > 0 => \A i \in 1..(next - 1) : Costs[i] <= budget
  /\ result = "planned" => next = Len(files) + 1
  /\ \E e, n : Cuts(e, n) /\ (result = "planning" => AtWork(e, n))

\* What the model adds up is what the invariant speaks of.
LEMMA GroupTotalIs ==
  ASSUME files \in Seq(FileMeta), NEW key
  PROVE  GroupTotal(key) = Whole(Costs, Group, key)
<1> DEFINE S == {i \in DOMAIN Group : Group[i] = key}
<1>1. DOMAIN Group = DOMAIN files /\ \A i \in DOMAIN files : Group[i] = EntryGroup(files[i])
  BY DEF Group
<1>2. GroupOf(key) = S
  BY <1>1 DEF GroupOf
<1>3. DOMAIN files = 1..Len(files) /\ IsFiniteSet(1..Len(files))
  BY LenProperties, FS_Interval
<1>4. IsFiniteSet(S) /\ S \subseteq DOMAIN files
  BY <1>1, <1>3, FS_Subset
<1> HIDE DEF S
<1>5. MapThenSumSet(LAMBDA i : SpanCost(files[i]), S) = SumOf(Costs, S)
  BY <1>4, MapThenSumIs DEF Costs
<1> QED
  BY <1>2, <1>5 DEF GroupTotal, Whole, S

\* A stretch of one group costs no more than the whole group.
LEMMA StretchOfGroup ==
  ASSUME files \in Seq(FileMeta), NEW a \in 0..Len(files), NEW b \in 0..Len(files),
         NEW key, \A i \in (a + 1)..b : Group[i] = key
  PROVE  Total(Costs, a, b) <= Whole(Costs, Group, key)
<1> DEFINE S == {i \in DOMAIN Group : Group[i] = key}
           T == (a + 1)..b
<1>1. DOMAIN Group = 1..Len(files) /\ Len(files) \in Nat /\ IsFiniteSet(1..Len(files))
  BY LenProperties, FS_Interval DEF Group
<1>2. S \in SUBSET (1..Len(files)) /\ T \in SUBSET S
  BY <1>1
<1>3. IsFiniteSet(S) /\ \A i \in S : Costs[i] \in Nat
  BY <1>1, <1>2, FS_Subset, CostsType DEF Costs
<1> HIDE DEF S, T
<1>4. SumOf(Costs, T) <= SumOf(Costs, S)
  BY <1>2, <1>3, SumGrows
<1> QED
  BY <1>4 DEF S, T, Total, Whole

\* The loop at a file: the part at work is the last stretch, up to this file.
LEMMA AtFile ==
  ASSUME PInv, NEW e, NEW n, Cuts(e, n), result = "planning"
  PROVE  /\ n = Len(parts) + 1 /\ Len(AllParts) = n /\ AllParts = Append(parts, cur)
         /\ \A k \in 1..(n - 1) : AllParts[k] = parts[k]
         /\ AllParts[n] = cur
         /\ Len(files) \in Nat /\ next \in 1..(Len(files) + 1)
         /\ \A i \in 1..Len(files) : Costs[i] \in Nat
         /\ e[n - 1] \in 0..(next - 1)
         /\ cur = SubSeq(files, e[n - 1] + 1, next - 1)
         /\ Len(cur) = next - 1 - e[n - 1]
         /\ \A i \in 1..Len(cur) : cur[i] = files[e[n - 1] + i]
         /\ used = Total(Costs, e[n - 1], next - 1) /\ used \in Nat
         /\ budget > 0 => used <= budget
<1>1. /\ files \in Seq(FileMeta) /\ parts \in Seq(Seq(FileMeta)) /\ cur \in Seq(FileMeta)
      /\ used = SpanTotal(cur) /\ next \in 1..(Len(files) + 1)
  BY DEF PInv, Types, TypeOK
<1>2. /\ Len(files) \in Nat /\ Len(parts) \in Nat
      /\ \A i \in 1..Len(files) : Costs[i] \in Nat
  BY <1>1, CostsType, LenProperties DEF Costs
<1>3. /\ AllParts = Append(parts, cur) /\ Len(AllParts) = Len(parts) + 1
      /\ \A k \in 1..Len(parts) : AllParts[k] = parts[k]
      /\ AllParts[Len(parts) + 1] = cur
  BY <1>1, AppendProperties DEF AllParts
<1>4. /\ n \in Nat \ {0} /\ n = Len(AllParts)
      /\ e \in [0..n -> 0..(next - 1)] /\ e[n] = next - 1
      /\ e[n - 1] <= e[n] /\ AllParts[n] = SubSeq(files, e[n - 1] + 1, e[n])
      /\ budget > 0 => Total(Costs, e[n - 1], e[n]) <= budget
  BY DEF Cuts
<1>5. n = Len(parts) + 1 /\ e[n - 1] \in 0..(next - 1)
  BY <1>2, <1>3, <1>4
<1> DEFINE a == e[n - 1]
           b == next - 1
<1>6. a \in 0..Len(files) /\ b \in a..Len(files) /\ cur = SubSeq(files, a + 1, b)
  BY <1>1, <1>2, <1>3, <1>4, <1>5
<1> HIDE DEF a, b
<1>7. /\ Len(cur) = b - a
      /\ \A i \in 1..(b - a) : cur[i] = files[a + i]
      /\ used = Total(Costs, a, b)
  BY <1>1, <1>6, PartTotal DEF Costs
<1>8. Total(Costs, a, b) \in Nat
  BY <1>2, <1>6, TotalFacts
<1>9. used \in Nat /\ (budget > 0 => used <= budget)
  <2>1. e[n] = b
    BY <1>4 DEF b
  <2> QED
    BY <1>4, <1>7, <1>8, <2>1 DEF a
<1>10. \A k \in 1..(n - 1) : AllParts[k] = parts[k]
  BY <1>2, <1>3, <1>5
<1>11. AllParts[n] = cur
  BY <1>3, <1>5
<1>12. Len(cur) = next - 1 - e[n - 1]
  BY <1>7 DEF a, b
<1>13. \A i \in 1..Len(cur) : cur[i] = files[e[n - 1] + i]
  BY <1>7 DEF a
<1>14. cur = SubSeq(files, e[n - 1] + 1, next - 1) /\ used = Total(Costs, e[n - 1], next - 1)
  BY <1>6, <1>7 DEF a, b
<1> QED
  BY <1>1, <1>2, <1>3, <1>4, <1>5, <1>9, <1>10, <1>11, <1>12, <1>13, <1>14

\* The file the loop is at.
LEMMA TheFile ==
  ASSUME PInv, Planning
  PROVE  /\ next \in 1..Len(files) /\ Entry \in FileMeta /\ Entry = files[next]
         /\ Cost = Costs[next] /\ Cost \in Nat
         /\ Grouped => Key = Group[next]
         /\ budget \in Nat
<1>1. files \in Seq(FileMeta) /\ next \in 1..(Len(files) + 1) /\ next <= Len(files)
      /\ budget \in Nat
  BY DEF PInv, Types, TypeOK, Planning
<1>2. Len(files) \in Nat /\ DOMAIN files = 1..Len(files)
  BY <1>1, LenProperties
<1>3. next \in 1..Len(files)
  BY <1>1, <1>2
<1>4. files[next] \in FileMeta
  BY <1>1, <1>3, ElementOfSeq
<1> QED
  BY <1>1, <1>2, <1>3, <1>4, CostsType DEF Entry, Cost, Costs, Key, Group

-----------------------------------------------------------------------------
(* The steps of the loop. *)

LEMMA SameInput ==
  ASSUME UNCHANGED input
  PROVE  /\ files' = files /\ budget' = budget /\ depth' = depth
         /\ Costs' = Costs /\ Group' = Group /\ Grouped' = Grouped
<1>1. files' = files /\ budget' = budget /\ depth' = depth
  BY DEF input
<1> QED
  BY <1>1 DEF Costs, CostsOf, SpanCost, Group, EntryGroup, GroupKey, IsDir, Grouped

LEMMA InitHolds == Init => PInv
<1> SUFFICES ASSUME Init PROVE PInv
  OBVIOUS
<1>1. /\ files \in Seq(FileMeta) /\ budget \in Nat /\ depth \in Nat
      /\ next = 1 /\ parts = <<>> /\ cur = <<>> /\ used = 0
      /\ groupStart = 0 /\ result = "planning"
  BY PlanSpanAssumption DEF Init
<1>2. Len(files) \in Nat
  BY <1>1, LenProperties
<1>3. Types
  <2>1. <<>> \in Seq(FileMeta) /\ <<>> \in Seq(Seq(FileMeta)) /\ Len(<<>>) = 0
    BY EmptySeq
  <2> QED
    BY <1>1, <1>2, <2>1 DEF Types, TypeOK
<1>4. SubSeq(files, 1, 0) = <<>> /\ Total(Costs, 0, 0) = 0
  <2>1. \A i \in 1..Len(files) : Costs[i] \in Nat
    BY <1>1, CostsType DEF Costs
  <2>2. 0 \in 0..Len(files)
    BY <1>2
  <2>3. Total(Costs, 0, 0) = 0
    BY <1>2, <2>1, <2>2, TotalFacts
  <2>4. SubSeq(files, 1, 0) = <<>>
    BY SubSeqEmpty
  <2> QED
    BY <2>3, <2>4
<1>5. used = SpanTotal(cur)
  <2>1. 0 \in 0..Len(files) /\ SubSeq(files, 0 + 1, 0) = <<>>
    BY <1>2, <1>4
  <2>2. SpanTotal(SubSeq(files, 0 + 1, 0)) = Total(CostsOf(files), 0, 0)
    BY <1>1, <1>2, PartTotal
  <2> QED
    BY <1>1, <1>4, <2>1, <2>2 DEF Costs
<1> DEFINE e == [k \in 0..1 |-> 0]
<1>6. Cuts(e, 1)
  <2>1. AllParts = Append(<<>>, <<>>)
    BY <1>1 DEF AllParts
  <2>2. Len(AllParts) = 1 /\ AllParts[1] = <<>>
    BY <2>1
  <2>3. next - 1 = 0
    BY <1>1
  <2>4. e \in [0..1 -> 0..(next - 1)] /\ e[0] = 0 /\ e[1] = 0
    BY <2>3
  <2>5. \A k \in 1..1 : k = 1 /\ k - 1 = 0
    OBVIOUS
  <2> HIDE DEF e
  <2>6. \A k \in 1..1 : /\ e[k - 1] <= e[k]
                        /\ AllParts[k] = SubSeq(files, e[k - 1] + 1, e[k])
                        /\ budget > 0 => Total(Costs, e[k - 1], e[k]) <= budget
    <3>1. e[0] + 1 = 1
      BY <2>4
    <3>2. /\ e[0] <= e[1]
          /\ AllParts[1] = SubSeq(files, e[0] + 1, e[1])
          /\ budget > 0 => Total(Costs, e[0], e[1]) <= budget
      BY <1>1, <1>4, <2>2, <2>4, <3>1
    <3> QED
      BY <2>5, <3>2
  <2>7. \A k \in 1..(1 - 1) : FALSE
    OBVIOUS
  <2> QED
    BY <2>2, <2>3, <2>4, <2>6, <2>7 DEF Cuts
<1>7. AtWork(e, 1)
  BY <1>1 DEF AtWork, GroupAtWork
<1> HIDE DEF e
<1> QED
  BY <1>1, <1>3, <1>5, <1>6, <1>7 DEF PInv

\* The parts stay as they are.
LEMMA FrameHolds ==
  ASSUME PInv, UNCHANGED << input, next, cur, used, curKey, groupStart >>,
         AllParts' = AllParts, parts' \in Seq(Seq(FileMeta)),
         result' \in {"planning", "planned", "tooLarge"},
         result' = "planning" => result = "planning",
         result' = "planned" => next = Len(files) + 1
  PROVE  PInv'
<1>1. UNCHANGED input
  OBVIOUS
<1>2. /\ files' = files /\ budget' = budget /\ depth' = depth
      /\ Costs' = Costs /\ Group' = Group /\ Grouped' = Grouped
  BY <1>1, SameInput
<1>3. Types'
  BY <1>2 DEF PInv, Types, TypeOK
<1>4. used' = SpanTotal(cur)'
  BY DEF PInv, SpanTotal, MapThenSumSet, MapThenFoldSet, SpanCost
<1>5. (budget > 0 => \A i \in 1..(next - 1) : Costs[i] <= budget)'
  BY <1>2 DEF PInv
<1>6. PICK e, n : Cuts(e, n) /\ (result = "planning" => AtWork(e, n))
  BY DEF PInv
<1>7. Cuts(e, n)'
  BY <1>2, <1>6 DEF Cuts
<1>8. (result = "planning" => AtWork(e, n))'
  BY <1>2, <1>6 DEF AtWork, GroupAtWork, Opened
<1>9. (result = "planned" => next = Len(files) + 1)'
  BY <1>2
<1> QED
  BY <1>3, <1>4, <1>5, <1>7, <1>8, <1>9 DEF PInv

LEMMA TooLargeHolds == PInv /\ TooLarge => PInv'
<1> SUFFICES ASSUME PInv, TooLarge PROVE PInv'
  OBVIOUS
<1>1. result = "planning" /\ result' = "tooLarge" /\ parts' = parts /\ cur' = cur
  BY DEF TooLarge, Planning
<1>2. AllParts' = AllParts
  BY <1>1 DEF AllParts
<1> QED
  BY <1>1, <1>2, FrameHolds DEF TooLarge, PInv, Types

LEMMA DoneHolds == PInv /\ Done => PInv'
<1> SUFFICES ASSUME PInv, Done PROVE PInv'
  OBVIOUS
<1>1. /\ result = "planning" /\ result' = "planned" /\ parts' = Append(parts, cur)
      /\ cur' = cur /\ next > Len(files)
  BY DEF Done
<1>2. AllParts' = AllParts
  BY <1>1 DEF AllParts
<1>3. /\ parts \in Seq(Seq(FileMeta)) /\ cur \in Seq(FileMeta)
      /\ files \in Seq(FileMeta) /\ next \in 1..(Len(files) + 1)
  BY DEF PInv, Types, TypeOK
<1>4. next = Len(files) + 1
  BY <1>1, <1>3, LenProperties
<1>5. parts' \in Seq(Seq(FileMeta))
  BY <1>1, <1>3, AppendProperties
<1> QED
  BY <1>1, <1>2, <1>4, <1>5, FrameHolds DEF Done

\* A stretch of a stretch, and a stretch with one file more.
LEMMA SubPart ==
  ASSUME NEW fs \in Seq(FileMeta), NEW a \in 0..Len(fs), NEW b \in a..Len(fs),
         NEW c \in a..b, NEW d \in c..b
  PROVE  SubSeq(SubSeq(fs, a + 1, b), c - a + 1, d - a) = SubSeq(fs, c + 1, d)
<1> DEFINE part == SubSeq(fs, a + 1, b)
           t == SubSeq(part, c - a + 1, d - a)
           u == SubSeq(fs, c + 1, d)
<1>1. Len(fs) \in Nat /\ a \in Int /\ b \in Int /\ c \in Int /\ d \in Int
  BY LenProperties
<1>2. /\ part \in Seq(FileMeta) /\ Len(part) = b - a
      /\ \A i \in 1..(b - a) : part[i] = fs[a + i]
  BY <1>1, PartTotal
<1>3. c \in 0..Len(fs) /\ d \in c..Len(fs)
  BY <1>1
<1>4. u \in Seq(FileMeta) /\ Len(u) = d - c /\ \A i \in 1..(d - c) : u[i] = fs[c + i]
  BY <1>3, PartTotal
<1>5. c - a \in 0..Len(part) /\ d - a \in (c - a)..Len(part) /\ (d - a) - (c - a) = d - c
  BY <1>1, <1>2
<1> HIDE DEF part, u
<1>6. /\ t \in Seq(FileMeta) /\ Len(t) = d - c
      /\ \A i \in 1..(d - c) : t[i] = part[(c - a) + i]
  BY <1>2, <1>5, PartTotal
<1> HIDE DEF t
<1>7. \A i \in 1..(d - c) : t[i] = u[i]
  <2>1. ASSUME NEW i \in 1..(d - c) PROVE t[i] = u[i]
    <3>1. (c - a) + i \in 1..(b - a) /\ a + ((c - a) + i) = c + i
      BY <1>1
    <3>2. part[(c - a) + i] = fs[c + i]
      BY <1>2, <3>1
    <3> QED
      BY <1>4, <1>6, <3>2
  <2> QED
    BY <2>1
<1>8. t = u
  BY <1>4, <1>6, <1>7, SeqEqual
<1> QED
  BY <1>8 DEF t, u, part

LEMMA GrowPart ==
  ASSUME NEW fs \in Seq(FileMeta), NEW a \in 0..Len(fs), NEW b \in a..Len(fs), b < Len(fs)
  PROVE  Append(SubSeq(fs, a + 1, b), fs[b + 1]) = SubSeq(fs, a + 1, b + 1)
<1> DEFINE part == SubSeq(fs, a + 1, b)
           t == Append(part, fs[b + 1])
           u == SubSeq(fs, a + 1, b + 1)
<1>1. Len(fs) \in Nat /\ a \in Int /\ b \in Int /\ b + 1 \in a..Len(fs) /\ b + 1 \in 1..Len(fs)
  BY LenProperties
<1>2. /\ part \in Seq(FileMeta) /\ Len(part) = b - a
      /\ \A i \in 1..(b - a) : part[i] = fs[a + i]
  BY PartTotal
<1>3. /\ u \in Seq(FileMeta) /\ Len(u) = (b + 1) - a
      /\ \A i \in 1..((b + 1) - a) : u[i] = fs[a + i]
  BY <1>1, PartTotal
<1>4. fs[b + 1] \in FileMeta
  BY <1>1, ElementOfSeq
<1> HIDE DEF part, u
<1>5. /\ t \in Seq(FileMeta) /\ Len(t) = (b - a) + 1
      /\ \A i \in 1..(b - a) : t[i] = part[i]
      /\ t[(b - a) + 1] = fs[b + 1]
  <2> DEFINE x == fs[b + 1]
  <2>1. x \in FileMeta /\ part \in Seq(FileMeta)
    BY <1>2, <1>4
  <2> HIDE DEF x
  <2>2. /\ Append(part, x) \in Seq(FileMeta) /\ Len(Append(part, x)) = Len(part) + 1
        /\ \A i \in 1..Len(part) : Append(part, x)[i] = part[i]
        /\ Append(part, x)[Len(part) + 1] = x
    BY <2>1, AppendProperties
  <2>3. t = Append(part, x)
    BY DEF x
  <2> HIDE DEF t
  <2> QED
    BY <1>2, <2>2, <2>3 DEF x
<1> HIDE DEF t
<1>6. \A i \in 1..((b + 1) - a) : t[i] = u[i]
  <2>1. ASSUME NEW i \in 1..((b + 1) - a) PROVE t[i] = u[i]
    <3>1. CASE i \in 1..(b - a)
      BY <1>2, <1>3, <1>5, <2>1, <3>1
    <3>2. CASE i \notin 1..(b - a)
      <4>1. i = (b - a) + 1 /\ a + i = b + 1
        BY <1>1, <2>1, <3>2
      <4> QED
        BY <1>3, <1>5, <2>1, <4>1
    <3> QED
      BY <3>1, <3>2
  <2> QED
    BY <2>1
<1>7. (b + 1) - a = (b - a) + 1
  BY <1>1
<1>8. t = u
  BY <1>3, <1>5, <1>6, <1>7, SeqEqual
<1> QED
  BY <1>8 DEF t, u, part

\* A new part begins behind file p, with the file the loop is at as its last one:
\* the part at work, which is the n-th, ends there.
Splits(e, n, p) ==
  /\ p \in (e[n - 1] + 1)..(next - 1)
  /\ UNCHANGED << input, result >> /\ next' = next + 1
  /\ parts' = Append(parts, SubSeq(files, e[n - 1] + 1, p))
  /\ cur' = SubSeq(files, p + 1, next)
  /\ used' = SpanTotal(cur')
  /\ groupStart' \in {0, 1}
  /\ Grouped => groupStart' = 1 /\ \A i \in (p + 1)..next : Group[i] = curKey'

\* The cut at p is one that may be made.
MayCut(e, n, p) ==
  /\ budget > 0 /\ Cost <= budget
  /\ Total(Costs, e[n - 1], p) <= budget /\ Total(Costs, p, next) <= budget
  /\ Total(Costs, e[n - 1], next) > budget
  /\ n > 1 => Total(Costs, e[n - 2], p) > budget
  /\ Grouped /\ Group[p] = Group[p + 1] => Whole(Costs, Group, Group[p]) > budget

\* The cut points with one more.
WithCut(e, n, p) == [k \in 0..(n + 1) |-> IF k = n + 1 THEN next ELSE IF k = n THEN p ELSE e[k]]

LEMMA WithCutIs ==
  ASSUME NEW e, NEW n \in Nat \ {0}, NEW N \in Nat, next = N, N > 0,
         e \in [0..n -> 0..(N - 1)], NEW p \in 0..(N - 1)
  PROVE  /\ WithCut(e, n, p) \in [0..(n + 1) -> 0..N]
         /\ WithCut(e, n, p)[n + 1] = N /\ WithCut(e, n, p)[n] = p
         /\ \A k \in 0..(n - 1) : WithCut(e, n, p)[k] = e[k] /\ e[k] \in 0..(N - 1)
<1> DEFINE f == WithCut(e, n, p)
<1>1. /\ n + 1 \in 0..(n + 1) /\ n \in 0..(n + 1) /\ n # n + 1
      /\ \A k \in 0..(n - 1) : k \in 0..(n + 1) /\ k \in 0..n /\ k # n /\ k # n + 1
      /\ \A k \in 0..(n + 1) : k = n + 1 \/ k = n \/ k \in 0..(n - 1)
  OBVIOUS
<1>2. /\ DOMAIN f = 0..(n + 1) /\ f[n + 1] = N /\ f[n] = p
      /\ \A k \in 0..(n - 1) : f[k] = e[k]
  BY <1>1 DEF WithCut
<1>3. \A k \in 0..(n - 1) : e[k] \in 0..(N - 1)
  BY <1>1
<1>4. \A k \in 0..(n + 1) : f[k] \in 0..N
  BY <1>1, <1>2, <1>3
<1>5. f = [k \in 0..(n + 1) |-> f[k]]
  BY DEF WithCut
<1> HIDE DEF f
<1>6. f \in [0..(n + 1) -> 0..N]
  BY <1>4, <1>5
<1> QED
  BY <1>2, <1>3, <1>6 DEF f

\* What is known of a step that splits.
LEMMA SplitFacts ==
  ASSUME PInv, Planning, NEW e, NEW n, Cuts(e, n), NEW p, Splits(e, n, p),
         NEW s, s = e[n - 1]
  PROVE  /\ result = "planning" /\ result' = "planning"
         /\ n \in Nat \ {0} /\ next \in Nat /\ s \in Nat /\ p \in Nat /\ Len(files) \in Nat
         /\ s < p /\ p < next /\ next <= Len(files) /\ next' = next + 1
         /\ p \in 0..Len(files) /\ next \in p..Len(files)
         /\ s \in 0..Len(files) /\ p \in s..Len(files)
         /\ e \in [0..n -> 0..(next - 1)] /\ p \in 0..(next - 1)
         /\ files \in Seq(FileMeta) /\ budget \in Nat /\ depth \in Nat
         /\ \A i \in 1..Len(files) : Costs[i] \in Nat
<1>1. result = "planning" /\ result' = "planning" /\ next' = next + 1
  BY DEF Planning, Splits
<1>2. /\ Len(files) \in Nat /\ next \in 1..Len(files)
      /\ s \in 0..(next - 1) /\ \A i \in 1..Len(files) : Costs[i] \in Nat
  BY <1>1, AtFile, TheFile
<1>3. /\ files \in Seq(FileMeta) /\ budget \in Nat /\ depth \in Nat
      /\ n \in Nat \ {0} /\ e \in [0..n -> 0..(next - 1)]
  BY DEF PInv, Types, Cuts
<1>4. p \in (s + 1)..(next - 1)
  BY DEF Splits
<1> QED
  BY <1>1, <1>2, <1>3, <1>4, SMTT(60)

\* The parts after it.
LEMMA SplitParts ==
  ASSUME PInv, Planning, NEW e, NEW n, Cuts(e, n), NEW p, Splits(e, n, p),
         NEW s, s = e[n - 1]
  PROVE  /\ parts' \in Seq(Seq(FileMeta)) /\ cur' \in Seq(FileMeta) /\ Len(cur') = next - p
         /\ used' = Total(Costs, p, next) /\ used' \in Nat
         /\ Len(AllParts') = n + 1
         /\ \A k \in 1..(n - 1) : AllParts'[k] = AllParts[k]
         /\ AllParts'[n] = SubSeq(files, s + 1, p)
         /\ AllParts'[n + 1] = SubSeq(files, p + 1, next)
<1> DEFINE q == SubSeq(files, s + 1, p)
           c == SubSeq(files, p + 1, next)
<1>1. /\ result = "planning" /\ result' = "planning"
      /\ n \in Nat \ {0} /\ files \in Seq(FileMeta)
      /\ p \in 0..Len(files) /\ next \in p..Len(files)
      /\ s \in 0..Len(files) /\ p \in s..Len(files) /\ Len(files) \in Nat
      /\ \A i \in 1..Len(files) : Costs[i] \in Nat
  BY SplitFacts
<1>2. q \in Seq(FileMeta)
  BY <1>1, PartTotal
<1>3. c \in Seq(FileMeta) /\ Len(c) = next - p /\ SpanTotal(c) = Total(Costs, p, next)
  BY <1>1, PartTotal DEF Costs
<1>4. Total(Costs, p, next) \in Nat
  BY <1>1, TotalFacts
<1>5. /\ n = Len(parts) + 1 /\ parts \in Seq(Seq(FileMeta))
      /\ \A k \in 1..(n - 1) : AllParts[k] = parts[k]
  BY <1>1, AtFile DEF PInv, Types
<1>6. parts' = Append(parts, q) /\ cur' = c /\ used' = SpanTotal(cur')
  BY DEF Splits
<1>7. used' = SpanTotal(c)
  <2> HIDE DEF c
  <2> QED
    BY <1>6 DEF SpanTotal, SpanCost, MapThenSumSet, MapThenFoldSet
<1> HIDE DEF q, c
<1>8. Len(parts) = n - 1 /\ Len(parts) + 1 = n
  BY <1>1, <1>5, LenProperties
<1>9. /\ parts' \in Seq(Seq(FileMeta)) /\ Len(parts') = n
      /\ \A k \in 1..(n - 1) : parts'[k] = parts[k]
      /\ parts'[n] = q
  BY <1>2, <1>5, <1>6, <1>8, AppendProperties
<1>10. /\ Len(AllParts') = Len(parts') + 1
       /\ \A k \in 1..Len(parts') : AllParts'[k] = parts'[k]
       /\ AllParts'[Len(parts') + 1] = c
  <2>1. AllParts' = Append(parts', c)
    BY <1>1, <1>6 DEF AllParts
  <2> QED
    BY <1>3, <1>9, <2>1, AppendProperties
<1>11. n \in 1..n /\ \A k \in 1..(n - 1) : k \in 1..n
  BY <1>1
<1>12. /\ Len(AllParts') = n + 1 /\ AllParts'[n] = q /\ AllParts'[n + 1] = c
       /\ \A k \in 1..(n - 1) : AllParts'[k] = AllParts[k]
  BY <1>5, <1>9, <1>10, <1>11
<1> QED
  BY <1>3, <1>4, <1>6, <1>7, <1>9, <1>12 DEF q, c

\* What Cuts says of one part, and of one cut.
PartAt(e, k) ==
  /\ e[k - 1] <= e[k]
  /\ AllParts[k] = SubSeq(files, e[k - 1] + 1, e[k])
  /\ budget > 0 => Total(Costs, e[k - 1], e[k]) <= budget

CutAt(e, k) ==
  /\ e[k - 1] < e[k] /\ e[k] < next - 1
  /\ Total(Costs, e[k - 1], e[k + 1]) > budget
  /\ Grouped /\ Group[e[k]] = Group[e[k] + 1] => Whole(Costs, Group, Group[e[k]]) > budget

LEMMA CutsAre ==
  ASSUME NEW e, NEW n
  PROVE  Cuts(e, n) <=>
           /\ n \in Nat \ {0} /\ n = Len(AllParts)
           /\ e \in [0..n -> 0..(next - 1)] /\ e[0] = 0 /\ e[n] = next - 1
           /\ \A k \in 1..n : PartAt(e, k)
           /\ \A k \in 1..(n - 1) : CutAt(e, k)
BY ZenonT(60) DEF Cuts, PartAt, CutAt

\* And the cut points.
LEMMA SplitCuts ==
  ASSUME PInv, Planning, NEW e, NEW n, Cuts(e, n), NEW p, Splits(e, n, p), MayCut(e, n, p),
         NEW f, f = WithCut(e, n, p)
  PROVE  Cuts(f, n + 1)'
<1> DEFINE s == e[n - 1]
           r == e[n - 2]
<1>1. /\ n \in Nat \ {0} /\ next \in Nat /\ s \in Nat /\ p \in Nat
      /\ s < p /\ p < next /\ next' = next + 1 /\ next > 0
      /\ e \in [0..n -> 0..(next - 1)] /\ p \in 0..(next - 1)
      /\ budget \in Nat /\ result = "planning" /\ next <= Len(files) /\ Len(files) \in Nat
  BY SplitFacts
<1>2. /\ Len(AllParts') = n + 1
      /\ \A k \in 1..(n - 1) : AllParts'[k] = AllParts[k]
      /\ AllParts'[n] = SubSeq(files, s + 1, p)
      /\ AllParts'[n + 1] = SubSeq(files, p + 1, next)
  <2>1. s = e[n - 1]
    OBVIOUS
  <2> HIDE DEF s
  <2> QED
    BY <2>1, SplitParts, SMTT(60)
<1>3. /\ f \in [0..(n + 1) -> 0..next] /\ f[n + 1] = next /\ f[n] = p
      /\ \A k \in 0..(n - 1) : f[k] = e[k] /\ e[k] \in 0..(next - 1)
  <2>1. /\ WithCut(e, n, p) \in [0..(n + 1) -> 0..next]
        /\ WithCut(e, n, p)[n + 1] = next /\ WithCut(e, n, p)[n] = p
        /\ \A k \in 0..(n - 1) : WithCut(e, n, p)[k] = e[k] /\ e[k] \in 0..(next - 1)
    BY <1>1, WithCutIs, ZenonT(60)
  <2> QED
    BY <2>1
<1>4. /\ e[0] = 0
      /\ \A k \in 1..n : PartAt(e, k)
      /\ \A k \in 1..(n - 1) : CutAt(e, k)
  BY CutsAre
<1>5. /\ files' = files /\ budget' = budget
      /\ Costs' = Costs /\ Group' = Group /\ Grouped' = Grouped
  BY SameInput DEF Splits
<1>6. /\ budget > 0 /\ Total(Costs, s, p) <= budget /\ Total(Costs, p, next) <= budget
      /\ Total(Costs, s, next) > budget
      /\ n > 1 => Total(Costs, r, p) > budget
      /\ Grouped /\ Group[p] = Group[p + 1] => Whole(Costs, Group, Group[p]) > budget
  BY DEF MayCut
<1>7. f[n - 1] = s /\ (n > 1 => f[n - 2] = r)
  BY <1>1, <1>3
<1>8. e[n] = next - 1
  BY DEF Cuts
<1> HIDE DEF s, r
<1>9. ASSUME NEW k \in 1..(n + 1)
      PROVE  /\ f[k - 1] <= f[k]
             /\ AllParts'[k] = SubSeq(files, f[k - 1] + 1, f[k])
             /\ budget > 0 => Total(Costs, f[k - 1], f[k]) <= budget
  <2>1. CASE k \in 1..(n - 1)
    <3>1. k - 1 \in 0..(n - 1) /\ k \in 0..(n - 1) /\ k \in 1..n
      BY <1>1, <2>1
    <3>2. f[k - 1] = e[k - 1] /\ f[k] = e[k] /\ AllParts'[k] = AllParts[k]
      BY <1>2, <1>3, <2>1, <3>1
    <3>3. PartAt(e, k)
      BY <1>4, <3>1
    <3> QED
      BY <3>2, <3>3 DEF PartAt
  <2>2. CASE k = n
    <3>1. f[k - 1] = s /\ f[k] = p /\ AllParts'[k] = SubSeq(files, s + 1, p) /\ s <= p
      BY <1>1, <1>2, <1>3, <1>7, <2>2
    <3> QED
      BY <1>6, <3>1
  <2>3. CASE k = n + 1
    <3>1. k - 1 = n /\ p <= next
      BY <1>1, <2>3
    <3>2. f[k - 1] = p /\ f[k] = next /\ AllParts'[k] = SubSeq(files, p + 1, next)
      BY <1>2, <1>3, <2>3, <3>1
    <3> QED
      BY <1>6, <3>1, <3>2
  <2> QED
    BY <1>1, <2>1, <2>2, <2>3
<1>10. ASSUME NEW k \in 1..n
       PROVE  /\ f[k - 1] < f[k] /\ f[k] < next
              /\ Total(Costs, f[k - 1], f[k + 1]) > budget
              /\ Grouped /\ Group[f[k]] = Group[f[k] + 1] => Whole(Costs, Group, Group[f[k]]) > budget
  <2>1. CASE k \in 1..(n - 1)
    <3>1. k - 1 \in 0..(n - 1) /\ k \in 0..(n - 1)
      BY <1>1, <2>1
    <3>2. f[k - 1] = e[k - 1] /\ f[k] = e[k] /\ e[k] \in 0..(next - 1)
      BY <1>3, <3>1
    <3>3. CutAt(e, k)
      BY <1>4, <2>1
    <3>4. Total(Costs, f[k - 1], f[k + 1]) > budget
      <4>1. CASE k = n - 1
        <5>1. k - 1 = n - 2 /\ k + 1 = n /\ n > 1
          BY <1>1, <2>1, <4>1
        <5>2. f[k - 1] = r /\ f[k + 1] = p
          BY <1>3, <1>7, <5>1
        <5> QED
          BY <1>6, <5>1, <5>2
      <4>2. CASE k # n - 1
        <5>1. k + 1 \in 0..(n - 1)
          BY <1>1, <2>1, <4>2
        <5>2. f[k + 1] = e[k + 1]
          BY <1>3, <5>1
        <5> QED
          BY <3>2, <3>3, <5>2 DEF CutAt
      <4> QED
        BY <4>1, <4>2
    <3>5. f[k] < next
      BY <1>1, <3>2
    <3> QED
      BY <3>2, <3>3, <3>4, <3>5 DEF CutAt
  <2>2. CASE k = n
    <3>1. f[k - 1] = s /\ f[k] = p /\ f[k + 1] = next
      BY <1>3, <1>7, <2>2
    <3> QED
      BY <1>1, <1>6, <3>1
  <2> QED
    BY <1>1, <2>1, <2>2
<1>11. next' - 1 = next /\ (n + 1) - 1 = n /\ n + 1 \in Nat \ {0}
  BY <1>1
<1>12. \A k \in 1..(n + 1) : PartAt(f, k)'
  BY <1>5, <1>9 DEF PartAt
<1>13. \A k \in 1..n : CutAt(f, k)'
  BY <1>5, <1>10, <1>11 DEF CutAt
<1>14. f[0] = 0
  BY <1>1, <1>3, <1>4
<1>15. /\ (n + 1) = Len(AllParts') /\ f \in [0..(n + 1) -> 0..(next' - 1)] /\ f[n + 1] = next' - 1
  BY <1>2, <1>3, <1>11
<1> QED
  BY <1>11, <1>12, <1>13, <1>14, <1>15, ZenonT(60) DEF Cuts, PartAt, CutAt

\* And the part at work.
LEMMA SplitAtWork ==
  ASSUME PInv, Planning, NEW e, NEW n, Cuts(e, n), NEW p, Splits(e, n, p), MayCut(e, n, p),
         NEW f, f = WithCut(e, n, p)
  PROVE  AtWork(f, n + 1)'
<1> DEFINE s == e[n - 1]
<1>1. /\ n \in Nat \ {0} /\ next \in Nat /\ s \in Nat /\ p \in Nat
      /\ s < p /\ p < next /\ next' = next + 1 /\ next > 0
      /\ e \in [0..n -> 0..(next - 1)] /\ p \in 0..(next - 1)
  BY SplitFacts
<1>2. f[n] = p /\ f[n - 1] = s
  <2>1. /\ WithCut(e, n, p) \in [0..(n + 1) -> 0..next]
        /\ WithCut(e, n, p)[n + 1] = next /\ WithCut(e, n, p)[n] = p
        /\ \A k \in 0..(n - 1) : WithCut(e, n, p)[k] = e[k] /\ e[k] \in 0..(next - 1)
    BY <1>1, WithCutIs, ZenonT(60)
  <2>2. n - 1 \in 0..(n - 1)
    BY <1>1
  <2> QED
    BY <2>1, <2>2
<1>3. budget' = budget /\ Costs' = Costs /\ Group' = Group /\ Grouped' = Grouped
  BY SameInput DEF Splits
<1>4. Total(Costs, s, next) > budget
  BY DEF MayCut
<1>5. groupStart' <= 1 /\ (Grouped => groupStart' = 1 /\ \A i \in (p + 1)..next : Group[i] = curKey')
  BY DEF Splits
<1> HIDE DEF s
<1>6. next' - 1 = next /\ (n + 1) - 1 = n /\ (n + 1) - 2 = n - 1 /\ p # next
  BY <1>1
<1>7. Grouped => GroupAtWork(p)'
  <2>1. SUFFICES ASSUME Grouped PROVE GroupAtWork(p)'
    OBVIOUS
  <2>2. groupStart' = 1 /\ \A i \in (p + 1)..next : Group'[i] = curKey'
    BY <1>3, <1>5, <2>1
  <2>3. 1 \in 1..(next - p) /\ ~(1 > 1)
    BY <1>1
  <2> QED
    BY <1>6, <2>2, <2>3 DEF GroupAtWork
<1>8. Opened(s, p)'
  <2>1. next \in (p + 1)..(next' - 1)
    BY <1>1, <1>6
  <2>2. Total(Costs', s, next) > budget'
    BY <1>3, <1>4
  <2> QED
    BY <1>5, <2>1, <2>2 DEF Opened
<1>9. (Grouped' => GroupAtWork(f[(n + 1) - 1])') /\ Opened(f[(n + 1) - 2], f[(n + 1) - 1])'
  BY <1>2, <1>3, <1>6, <1>7, <1>8
<1> QED
  BY <1>9, ZenonT(60) DEF AtWork

LEMMA SplitHolds ==
  ASSUME PInv, Planning, NEW e, NEW n, Cuts(e, n), NEW p, Splits(e, n, p), MayCut(e, n, p)
  PROVE  PInv'
<1>1. /\ result = "planning" /\ result' = "planning"
      /\ next \in Nat /\ p \in Nat /\ Len(files) \in Nat /\ next' = next + 1
      /\ p < next /\ next <= Len(files) /\ next > 0
      /\ files \in Seq(FileMeta) /\ budget \in Nat /\ depth \in Nat
  BY SplitFacts
<1>2. /\ parts' \in Seq(Seq(FileMeta)) /\ cur' \in Seq(FileMeta) /\ Len(cur') = next - p
      /\ used' \in Nat
  BY SplitParts
<1>3. /\ files' = files /\ budget' = budget /\ depth' = depth /\ Costs' = Costs
  BY SameInput DEF Splits
<1>4. groupStart' \in {0, 1} /\ used' = SpanTotal(cur')
  BY DEF Splits
<1>5. Types'
  <2>1. next' \in 1..(Len(files) + 1) /\ groupStart' \in 0..Len(cur')
    BY <1>1, <1>2, <1>4
  <2> QED
    BY <1>1, <1>2, <1>3, <2>1 DEF Types, TypeOK
<1>6. used' = SpanTotal(cur)'
  BY <1>4 DEF SpanTotal, MapThenSumSet, MapThenFoldSet, SpanCost
<1>7. (budget > 0 => \A i \in 1..(next - 1) : Costs[i] <= budget)'
  <2>1. \A i \in 1..(next - 1) : Costs[i] <= budget
    BY DEF PInv, MayCut
  <2>2. Costs[next] <= budget
    BY TheFile DEF MayCut
  <2>3. next' - 1 = next /\ \A i \in 1..next : i = next \/ i \in 1..(next - 1)
    BY <1>1
  <2> QED
    BY <1>3, <2>1, <2>2, <2>3
<1>8. PICK f : f = WithCut(e, n, p)
  OBVIOUS
<1>9. Cuts(f, n + 1)' /\ AtWork(f, n + 1)'
  BY <1>8, SplitCuts, SplitAtWork
<1>10. \E g, m : Cuts(g, m)' /\ (result' = "planning" => AtWork(g, m)')
  BY <1>9
<1> QED
  BY <1>1, <1>5, <1>6, <1>7, <1>10, ZenonT(60) DEF PInv

LEMMA WholeType ==
  ASSUME files \in Seq(FileMeta), NEW key
  PROVE  Whole(Costs, Group, key) \in Nat
<1> DEFINE S == {i \in DOMAIN Group : Group[i] = key}
<1>1. DOMAIN Group = 1..Len(files) /\ Len(files) \in Nat /\ IsFiniteSet(1..Len(files))
  BY LenProperties, FS_Interval DEF Group
<1>2. S \in SUBSET (1..Len(files))
  BY <1>1
<1>3. IsFiniteSet(S) /\ \A i \in S : Costs[i] \in Nat
  BY <1>1, <1>2, FS_Subset, CostsType DEF Costs
<1> HIDE DEF S
<1>4. SumOf(Costs, S) \in Nat
  BY <1>3, SumType
<1> QED
  BY <1>4 DEF S, Whole

\* The loop at a file that does not fit any more.
LEMMA NoRoom ==
  ASSUME PInv, Planning, ~Fits, Cost <= budget,
         NEW e, NEW n, Cuts(e, n), AtWork(e, n), NEW s, s = e[n - 1]
  PROVE  /\ n \in Nat \ {0} /\ next \in Nat /\ s \in Nat /\ Len(files) \in Nat
         /\ s < next - 1 /\ next <= Len(files)
         /\ files \in Seq(FileMeta) /\ budget \in Nat /\ budget > 0
         /\ \A i \in 1..Len(files) : Costs[i] \in Nat
         /\ Total(Costs, s, next - 1) <= budget /\ Total(Costs, s, next) > budget
         /\ Total(Costs, next - 1, next) = Cost
         /\ n > 1 => e[n - 2] \in Nat /\ e[n - 2] <= s /\ Opened(e[n - 2], s)
         /\ Grouped => /\ groupStart \in 1..(next - 1 - s)
                       /\ \A i \in (s + groupStart)..(next - 1) : Group[i] = curKey
                       /\ groupStart > 1 => Group[s + groupStart - 1] # curKey
                       /\ Key = Group[next]
<1>1. result = "planning"
  BY DEF Planning
<1>2. /\ Len(files) \in Nat /\ s \in 0..(next - 1)
      /\ \A i \in 1..Len(files) : Costs[i] \in Nat
      /\ used = Total(Costs, s, next - 1) /\ used \in Nat
      /\ budget > 0 => used <= budget
  BY <1>1, AtFile
<1>3. /\ next \in 1..Len(files) /\ Cost = Costs[next] /\ Cost \in Nat /\ budget \in Nat
      /\ Grouped => Key = Group[next]
  BY TheFile
<1>4. budget > 0 /\ used + Cost > budget
  BY <1>2, <1>3 DEF Fits
<1> DEFINE m == next - 1
<1>5. /\ s \in 0..Len(files) /\ m \in 0..Len(files) /\ m \in s..Len(files) /\ m \in m..Len(files)
      /\ m < Len(files) /\ m + 1 = next
  BY <1>2, <1>3
<1> HIDE DEF m
<1>6. /\ Total(Costs, s, next) = Total(Costs, s, m) + Cost
      /\ Total(Costs, m, next) = Total(Costs, m, m) + Cost
      /\ Total(Costs, m, m) = 0 /\ Total(Costs, s, s) = 0
  <2> DEFINE w == Costs
             N == Len(files)
  <2>1. N \in Nat /\ \A i \in 1..N : w[i] \in Nat
    BY <1>2
  <2>2. s \in 0..N /\ m \in 0..N /\ m \in s..N /\ m \in m..N /\ m < N
    BY <1>5
  <2> HIDE DEF w, N
  <2>3. Total(w, s, s) = 0 /\ Total(w, s, m + 1) = Total(w, s, m) + w[m + 1]
    BY <2>1, <2>2, TotalFacts
  <2>4. Total(w, m, m) = 0 /\ Total(w, m, m + 1) = Total(w, m, m) + w[m + 1]
    BY <2>1, <2>2, TotalFacts
  <2> QED
    BY <1>3, <1>5, <2>3, <2>4 DEF w
<1>7. used = Total(Costs, s, m)
  BY <1>2 DEF m
<1>8. s # m
  BY <1>3, <1>4, <1>6, <1>7
<1>9. n \in Nat \ {0} /\ e \in [0..n -> 0..(next - 1)] /\ files \in Seq(FileMeta)
  BY DEF Cuts, PInv, Types
<1>10. n > 1 => e[n - 2] \in Nat /\ e[n - 2] <= s /\ Opened(e[n - 2], s)
  <2>1. SUFFICES ASSUME n > 1 PROVE e[n - 2] \in Nat /\ e[n - 2] <= s /\ Opened(e[n - 2], s)
    OBVIOUS
  <2>2. n - 1 \in 1..n /\ (n - 1) - 1 = n - 2 /\ n - 2 \in 0..n
    BY <1>9, <2>1
  <2>3. PartAt(e, n - 1)
    BY <2>2, CutsAre
  <2>4. e[n - 2] <= s
    BY <2>2, <2>3 DEF PartAt
  <2>5. e[n - 2] \in Nat
    BY <1>3, <1>9, <2>2
  <2> QED
    BY <2>1, <2>4, <2>5 DEF AtWork
<1>11. Grouped => GroupAtWork(s)
  BY DEF AtWork
<1>12. s < next - 1
  BY <1>5, <1>8 DEF m
<1>13. Grouped => /\ groupStart \in 1..(next - 1 - s)
                  /\ \A i \in (s + groupStart)..(next - 1) : Group[i] = curKey
                  /\ groupStart > 1 => Group[s + groupStart - 1] # curKey
  BY <1>2, <1>11, <1>12 DEF GroupAtWork
<1>14. Total(Costs, next - 1, next) = Cost
  BY <1>3, <1>6 DEF m
<1>15. Total(Costs, s, next - 1) <= budget /\ Total(Costs, s, next) > budget
  BY <1>2, <1>3, <1>4, <1>6, <1>7
<1> QED
  BY <1>2, <1>3, <1>4, <1>9, <1>10, <1>12, <1>13, <1>14, <1>15

LEMMA CutHolds == PInv /\ Cut => PInv'
<1> SUFFICES ASSUME PInv, Cut PROVE PInv'
  OBVIOUS
<1>1. /\ Planning /\ Cost <= budget /\ ~Fits /\ ~CanMoveGroup /\ result = "planning"
      /\ parts' = Append(parts, cur) /\ cur' = << Entry >> /\ used' = Cost
      /\ curKey' = Key /\ groupStart' = (IF Grouped THEN 1 ELSE 0)
      /\ next' = next + 1 /\ UNCHANGED << input, result >>
  BY DEF Cut, Planning
<1>2. PICK e, n : Cuts(e, n) /\ AtWork(e, n)
  BY <1>1 DEF PInv
<1>3. PICK s : s = e[n - 1]
  OBVIOUS
<1>4. PICK p : p = next - 1
  OBVIOUS
<1>5. /\ n \in Nat \ {0} /\ next \in Nat /\ s \in Nat /\ Len(files) \in Nat
      /\ s < next - 1 /\ next <= Len(files)
      /\ files \in Seq(FileMeta) /\ budget \in Nat /\ budget > 0
      /\ \A i \in 1..Len(files) : Costs[i] \in Nat
      /\ Total(Costs, s, next - 1) <= budget /\ Total(Costs, s, next) > budget
      /\ Total(Costs, next - 1, next) = Cost
      /\ n > 1 => e[n - 2] \in Nat /\ e[n - 2] <= s /\ Opened(e[n - 2], s)
      /\ Grouped => /\ groupStart \in 1..(next - 1 - s)
                    /\ \A i \in (s + groupStart)..(next - 1) : Group[i] = curKey
                    /\ Key = Group[next]
  BY <1>1, <1>2, <1>3, NoRoom
<1>6. /\ p \in Nat /\ p + 1 = next /\ p \in 0..Len(files) /\ p < Len(files) /\ p \in p..Len(files)
      /\ p \in (s + 1)..(next - 1) /\ next \in p..Len(files)
  BY <1>4, <1>5
<1>7. cur = SubSeq(files, s + 1, p)
  BY <1>1, <1>2, <1>3, <1>4, AtFile
<1>8. cur' = SubSeq(files, p + 1, next)
  <2>1. Append(SubSeq(files, p + 1, p), files[p + 1]) = SubSeq(files, p + 1, p + 1)
    BY <1>5, <1>6, GrowPart
  <2>2. SubSeq(files, p + 1, p) = <<>>
    BY <1>6, SubSeqEmpty
  <2>3. Entry = files[p + 1]
    BY <1>6 DEF Entry
  <2>4. << Entry >> = Append(<<>>, files[p + 1])
    BY <2>3
  <2> QED
    BY <1>1, <1>6, <2>1, <2>2, <2>4
<1>9. used' = SpanTotal(cur')
  <2>1. SpanTotal(SubSeq(files, p + 1, next)) = Total(CostsOf(files), p, next)
    BY <1>5, <1>6, PartTotal
  <2>2. Total(Costs, p, next) = Cost
    BY <1>4, <1>5
  <2>3. SpanTotal(cur') = SpanTotal(SubSeq(files, p + 1, next))
    BY <1>8
  <2> QED
    BY <1>1, <2>1, <2>2, <2>3 DEF Costs
<1>10. Grouped => /\ groupStart' = 1
                  /\ \A i \in (p + 1)..next : Group[i] = curKey'
  <2>1. \A i \in (p + 1)..next : i = next
    BY <1>5, <1>6
  <2> QED
    BY <1>1, <1>5, <2>1
<1>11. Splits(e, n, p)
  <2>1. groupStart' \in {0, 1}
    BY <1>1
  <2> QED
    BY <1>1, <1>3, <1>6, <1>7, <1>8, <1>9, <1>10, <2>1 DEF Splits
<1>12. n > 1 => Total(Costs, e[n - 2], p) > budget
  <2>1. SUFFICES ASSUME n > 1 PROVE Total(Costs, e[n - 2], p) > budget
    OBVIOUS
  <2> DEFINE r == e[n - 2]
  <2>2. r \in Nat /\ r <= s /\ Opened(r, s)
    BY <1>5, <2>1
  <2> HIDE DEF r
  <2>3. PICK o \in (s + 1)..(next - 1) : Total(Costs, r, o) > budget
    BY <2>2 DEF Opened
  <2>4. r \in 0..Len(files) /\ o \in 0..Len(files) /\ o \in r..Len(files) /\ p \in r..Len(files)
        /\ r <= r /\ o <= p
    BY <1>4, <1>5, <1>6, <2>2
  <2>5. Total(Costs, r, o) <= Total(Costs, r, p)
    BY <1>5, <1>6, <2>4, TotalGrows
  <2>6. Total(Costs, r, o) \in Nat /\ Total(Costs, r, p) \in Nat
    BY <1>5, <2>4, TotalFacts
  <2>7. Total(Costs, r, p) > budget
    BY <1>5, <2>3, <2>5, <2>6
  <2> QED
    BY <2>7 DEF r
<1>13. Grouped /\ Group[p] = Group[p + 1] => Whole(Costs, Group, Group[p]) > budget
  <2>1. SUFFICES ASSUME Grouped, Group[p] = Group[p + 1]
                 PROVE  Whole(Costs, Group, Group[p]) > budget
    OBVIOUS
  <2>2. p \in (s + groupStart)..(next - 1) /\ groupStart > 0
    BY <1>4, <1>5, <2>1
  <2>3. Group[p] = curKey /\ Key = Group[p]
    BY <1>5, <1>6, <2>1, <2>2
  <2>4. ~(GroupTotal(Key) <= budget)
    BY <1>1, <2>1, <2>2, <2>3 DEF CanMoveGroup
  <2>5. GroupTotal(Key) = Whole(Costs, Group, Group[p])
    BY <1>5, <2>3, GroupTotalIs
  <2>6. Whole(Costs, Group, Group[p]) \in Nat
    BY <1>5, WholeType
  <2> QED
    BY <1>5, <2>4, <2>5, <2>6
<1>14. MayCut(e, n, p)
  BY <1>1, <1>3, <1>4, <1>5, <1>12, <1>13 DEF MayCut
<1> QED
  BY <1>1, <1>2, <1>11, <1>14, SplitHolds

\* Not all of the part at work moves: it did not fit with the file, the group does.
LEMMA HeadStays == PInv /\ RollbackGroup => groupStart > 1
<1> SUFFICES ASSUME PInv, RollbackGroup, groupStart <= 1 PROVE FALSE
  <2>1. SUFFICES ASSUME PInv PROVE groupStart \in Nat
    BY <2>1
  <2>2. cur \in Seq(FileMeta) /\ groupStart \in 0..Len(cur)
    BY <2>1 DEF PInv, Types, TypeOK
  <2>3. Len(cur) \in Nat
    BY <2>2, LenProperties
  <2> QED
    BY <2>2, <2>3
<1>1. /\ Planning /\ Cost <= budget /\ ~Fits /\ result = "planning"
      /\ Grouped /\ Key = curKey /\ GroupTotal(Key) <= budget
  BY DEF RollbackGroup, Planning, CanMoveGroup
<1>2. PICK e, n : Cuts(e, n) /\ AtWork(e, n)
  BY <1>1 DEF PInv
<1>3. PICK s : s = e[n - 1]
  OBVIOUS
<1>4. /\ next \in Nat /\ s \in Nat /\ Len(files) \in Nat /\ s < next - 1 /\ next <= Len(files)
      /\ files \in Seq(FileMeta) /\ budget \in Nat
      /\ \A i \in 1..Len(files) : Costs[i] \in Nat
      /\ Total(Costs, s, next) > budget
      /\ groupStart \in 1..(next - 1 - s)
      /\ \A i \in (s + groupStart)..(next - 1) : Group[i] = curKey
      /\ Key = Group[next]
  BY <1>1, <1>2, <1>3, NoRoom
<1>5. \A i \in (s + 1)..next : Group[i] = curKey
  <2>1. \A i \in (s + 1)..next : i = next \/ i \in (s + groupStart)..(next - 1)
    BY <1>4
  <2> QED
    BY <1>1, <1>4, <2>1
<1>6. s \in 0..Len(files) /\ next \in 0..Len(files) /\ next \in s..Len(files)
  BY <1>4
<1>7. Total(Costs, s, next) <= Whole(Costs, Group, curKey)
  BY <1>4, <1>5, <1>6, StretchOfGroup
<1>8. Whole(Costs, Group, curKey) <= budget /\ Whole(Costs, Group, curKey) \in Nat
  BY <1>1, <1>4, GroupTotalIs, WholeType
<1>9. Total(Costs, s, next) \in Nat
  BY <1>4, <1>6, TotalFacts
<1> QED
  BY <1>4, <1>7, <1>8, <1>9

LEMMA RollbackHolds == PInv /\ RollbackGroup => PInv'
<1> SUFFICES ASSUME PInv, RollbackGroup PROVE PInv'
  OBVIOUS
<1>1. /\ Planning /\ Cost <= budget /\ ~Fits /\ CanMoveGroup /\ result = "planning"
      /\ parts' = (IF groupStart > 1 THEN Append(parts, SubSeq(cur, 1, groupStart - 1)) ELSE parts)
      /\ cur' = Append(SubSeq(cur, groupStart, Len(cur)), Entry) /\ used' = SpanTotal(cur')
      /\ groupStart' = 1 /\ curKey' = curKey
      /\ next' = next + 1 /\ UNCHANGED << input, result >>
  BY DEF RollbackGroup, Planning
<1>2. PICK e, n : Cuts(e, n) /\ AtWork(e, n)
  BY <1>1 DEF PInv
<1>3. PICK s : s = e[n - 1]
  OBVIOUS
<1>4. PICK p : p = s + groupStart - 1
  OBVIOUS
<1>5. PICK b : b = next - 1
  OBVIOUS
<1>6. Grouped /\ Key = curKey /\ GroupTotal(Key) <= budget
  BY <1>1 DEF CanMoveGroup
<1>7. /\ n \in Nat \ {0} /\ next \in Nat /\ s \in Nat /\ Len(files) \in Nat
      /\ s < next - 1 /\ next <= Len(files)
      /\ files \in Seq(FileMeta) /\ budget \in Nat /\ budget > 0
      /\ \A i \in 1..Len(files) : Costs[i] \in Nat
      /\ Total(Costs, s, next - 1) <= budget /\ Total(Costs, s, next) > budget
      /\ n > 1 => e[n - 2] \in Nat /\ e[n - 2] <= s /\ Opened(e[n - 2], s)
      /\ groupStart \in 1..(next - 1 - s)
      /\ \A i \in (s + groupStart)..(next - 1) : Group[i] = curKey
      /\ groupStart > 1 => Group[s + groupStart - 1] # curKey
      /\ Key = Group[next]
  BY <1>1, <1>2, <1>3, <1>6, NoRoom
<1>8. \A i \in (p + 1)..next : Group[i] = curKey
  <2>1. \A i \in (p + 1)..next : i = next \/ i \in (s + groupStart)..(next - 1)
    BY <1>4, <1>7
  <2> QED
    BY <1>6, <1>7, <2>1
<1>9. p \in 0..Len(files) /\ next \in 0..Len(files) /\ s \in 0..Len(files) /\ s <= p /\ p < b
      /\ b \in 0..Len(files) /\ b + 1 = next /\ next \in p..Len(files) /\ next \in s..Len(files)
  BY <1>4, <1>5, <1>7
\* The group fits on a cassette, and so does what of it is at hand.
<1>10. Total(Costs, p, next) <= budget /\ Total(Costs, p, next) \in Nat
  <2>1. Total(Costs, p, next) <= Whole(Costs, Group, curKey)
    BY <1>7, <1>8, <1>9, StretchOfGroup
  <2>2. Whole(Costs, Group, curKey) <= budget /\ Whole(Costs, Group, curKey) \in Nat
    BY <1>6, <1>7, GroupTotalIs, WholeType
  <2>3. Total(Costs, p, next) \in Nat
    BY <1>7, <1>9, TotalFacts
  <2> QED
    BY <1>7, <2>1, <2>2, <2>3
<1>11. groupStart > 1
  BY HeadStays
<1>12. /\ p \in (s + 1)..(next - 1) /\ p \in s..b /\ b \in p..b /\ s \in s..b /\ b \in s..Len(files)
       /\ p \in s..p /\ b \in p..Len(files) /\ b < Len(files)
       /\ groupStart - 1 = p - s /\ s - s + 1 = 1 /\ groupStart = p - s + 1
  BY <1>4, <1>5, <1>7, <1>9, <1>11
<1>13. cur = SubSeq(files, s + 1, b) /\ Len(cur) = b - s
  BY <1>1, <1>2, <1>3, <1>5, AtFile
<1>14. SubSeq(cur, 1, groupStart - 1) = SubSeq(files, s + 1, p)
  <2>1. SubSeq(SubSeq(files, s + 1, b), s - s + 1, p - s) = SubSeq(files, s + 1, p)
    BY <1>7, <1>9, <1>12, SubPart
  <2> QED
    BY <1>12, <1>13, <2>1
<1>15. cur' = SubSeq(files, p + 1, next)
  <2>1. SubSeq(SubSeq(files, s + 1, b), p - s + 1, b - s) = SubSeq(files, p + 1, b)
    BY <1>7, <1>9, <1>12, SubPart
  <2>2. SubSeq(cur, groupStart, Len(cur)) = SubSeq(files, p + 1, b)
    BY <1>12, <1>13, <2>1
  <2>3. Append(SubSeq(files, p + 1, b), files[b + 1]) = SubSeq(files, p + 1, b + 1)
    BY <1>7, <1>9, <1>12, GrowPart
  <2> QED
    BY <1>1, <1>9, <2>2, <2>3 DEF Entry
<1>16. Splits(e, n, p)
  <2>1. parts' = Append(parts, SubSeq(files, s + 1, p))
    BY <1>1, <1>11, <1>14
  <2>2. \A i \in (p + 1)..next : Group[i] = curKey'
    BY <1>1, <1>8
  <2> QED
    BY <1>1, <1>3, <1>12, <1>15, <2>1, <2>2 DEF Splits
<1>17. n > 1 => Total(Costs, e[n - 2], p) > budget
  <2>1. SUFFICES ASSUME n > 1 PROVE Total(Costs, e[n - 2], p) > budget
    OBVIOUS
  <2> DEFINE r == e[n - 2]
  <2>2. r \in Nat /\ r <= s /\ Opened(r, s)
    BY <1>7, <2>1
  <2> HIDE DEF r
  <2>3. PICK o \in (s + 1)..(next - 1) :
          Total(Costs, r, o) > budget /\ (groupStart <= 1 \/ o < s + groupStart)
    BY <2>2 DEF Opened
  <2>4. r \in 0..Len(files) /\ o \in 0..Len(files) /\ o \in r..Len(files) /\ p \in r..Len(files)
        /\ r <= r /\ o <= p
    BY <1>4, <1>7, <1>9, <1>11, <2>2, <2>3
  <2>5. Total(Costs, r, o) <= Total(Costs, r, p)
    BY <1>7, <1>9, <2>4, TotalGrows
  <2>6. Total(Costs, r, o) \in Nat /\ Total(Costs, r, p) \in Nat
    BY <1>7, <2>4, TotalFacts
  <2>7. Total(Costs, r, p) > budget
    BY <1>7, <2>3, <2>5, <2>6
  <2> QED
    BY <2>7 DEF r
<1>18. Group[p] # Group[p + 1]
  <2>1. p + 1 \in (p + 1)..next
    BY <1>9, <1>12
  <2> QED
    BY <1>4, <1>7, <1>8, <1>11, <2>1
<1>19. Total(Costs, s, p) <= budget
  <2>1. /\ Len(files) \in Nat /\ s \in 0..Len(files) /\ p \in 0..Len(files) /\ b \in 0..Len(files)
        /\ p \in s..Len(files) /\ b \in s..Len(files) /\ s <= s /\ p <= b
    BY <1>7, <1>9, <1>12
  <2>2. \A i \in 1..Len(files) : Costs[i] \in Nat
    BY <1>7
  <2>3. Total(Costs, s, p) <= Total(Costs, s, b)
    BY <2>1, <2>2, TotalGrows
  <2>4. Total(Costs, s, p) \in Nat /\ Total(Costs, s, b) \in Nat
    BY <2>1, <2>2, TotalFacts
  <2> QED
    BY <1>5, <1>7, <2>3, <2>4
<1>20. MayCut(e, n, p)
  BY <1>1, <1>3, <1>7, <1>10, <1>17, <1>18, <1>19 DEF MayCut
<1> QED
  BY <1>1, <1>2, <1>16, <1>20, SplitHolds

\* The loop at a file that fits.
LEMMA Room ==
  ASSUME PInv, Push, NEW e, NEW n, Cuts(e, n), NEW s, s = e[n - 1]
  PROVE  /\ result = "planning" /\ result' = "planning" /\ next' = next + 1 /\ parts' = parts
         /\ n \in Nat \ {0} /\ next \in Nat /\ s \in Nat /\ Len(files) \in Nat
         /\ s <= next - 1 /\ next <= Len(files)
         /\ e \in [0..n -> 0..(next - 1)] /\ e[n] = next - 1
         /\ files \in Seq(FileMeta) /\ budget \in Nat /\ depth \in Nat
         /\ \A i \in 1..Len(files) : Costs[i] \in Nat
         /\ cur' = SubSeq(files, s + 1, next) /\ cur' \in Seq(FileMeta)
         /\ Len(cur) = next - 1 - s /\ Len(cur') = next - s
         /\ used' = Total(Costs, s, next) /\ used' \in Nat /\ used' = SpanTotal(cur')
         /\ budget > 0 => used' <= budget /\ Costs[next] <= budget
         /\ Grouped => Key = Group[next]
<1>1. /\ Planning /\ Fits /\ result = "planning" /\ result' = "planning" /\ next' = next + 1
      /\ parts' = parts /\ cur' = Append(cur, Entry) /\ used' = used + Cost
  BY DEF Push, Planning
<1>2. /\ Len(files) \in Nat /\ s \in 0..(next - 1) /\ \A i \in 1..Len(files) : Costs[i] \in Nat
      /\ cur = SubSeq(files, s + 1, next - 1) /\ Len(cur) = next - 1 - s
      /\ used = Total(Costs, s, next - 1) /\ used \in Nat
  BY <1>1, AtFile
<1>3. /\ next \in 1..Len(files) /\ Entry = files[next] /\ Cost = Costs[next] /\ Cost \in Nat
      /\ budget \in Nat /\ (Grouped => Key = Group[next])
  BY <1>1, TheFile
<1>4. /\ n \in Nat \ {0} /\ e \in [0..n -> 0..(next - 1)] /\ e[n] = next - 1
      /\ files \in Seq(FileMeta) /\ depth \in Nat
  BY DEF PInv, Types, Cuts
<1> DEFINE b == next - 1
           w == Costs
           N == Len(files)
<1>5. /\ N \in Nat /\ \A i \in 1..N : w[i] \in Nat
      /\ s \in 0..N /\ b \in s..N /\ b < N /\ b + 1 = next /\ next \in s..N
  <2>1. N \in Nat /\ \A i \in 1..N : w[i] \in Nat
    BY <1>2
  <2>2. s \in 0..(next - 1) /\ next \in 1..N
    BY <1>2, <1>3
  <2> QED
    BY <2>1, <2>2
<1>6. used = Total(w, s, b)
  BY <1>2
<1> HIDE DEF b, w, N
<1>7. Total(w, s, b + 1) = Total(w, s, b) + w[b + 1]
  BY <1>5, TotalFacts
<1>8. used' = Total(w, s, next)
  BY <1>1, <1>3, <1>5, <1>6, <1>7 DEF w
<1>9. cur' = SubSeq(files, s + 1, next)
  <2>1. Append(SubSeq(files, s + 1, b), files[b + 1]) = SubSeq(files, s + 1, b + 1)
    BY <1>4, <1>5, GrowPart DEF N
  <2> QED
    BY <1>1, <1>2, <1>3, <1>5, <2>1 DEF b
<1>10. /\ SubSeq(files, s + 1, next) \in Seq(FileMeta) /\ Len(SubSeq(files, s + 1, next)) = next - s
       /\ SpanTotal(SubSeq(files, s + 1, next)) = Total(w, s, next)
  BY <1>4, <1>5, PartTotal DEF N, w, Costs
<1>11. used' \in Nat /\ (budget > 0 => used' <= budget /\ Costs[next] <= budget)
  <2>1. used \in Nat /\ Cost \in Nat /\ budget \in Nat /\ used' = used + Cost /\ Cost = Costs[next]
    BY <1>1, <1>2, <1>3
  <2>2. budget = 0 \/ Cost <= budget - used
    BY <1>1 DEF Fits
  <2> HIDE DEF Cost
  <2> QED
    BY <2>1, <2>2
<1>12. cur' \in Seq(FileMeta) /\ Len(cur') = next - s /\ used' = SpanTotal(cur')
  <2>1. SpanTotal(cur') = SpanTotal(SubSeq(files, s + 1, next))
    BY <1>9
  <2> QED
    BY <1>8, <1>9, <1>10, <2>1
<1>13. /\ s \in Nat /\ next \in Nat /\ s <= next - 1 /\ next <= Len(files)
  BY <1>2, <1>3
<1>14. used' = Total(Costs, s, next)
  BY <1>8 DEF w
<1> QED
  BY <1>1, <1>2, <1>3, <1>4, <1>9, <1>11, <1>12, <1>13, <1>14

LEMMA PushCuts ==
  ASSUME PInv, Push, NEW e, NEW n, Cuts(e, n), NEW f, f = [e EXCEPT ![n] = next]
  PROVE  Cuts(f, n)'
<1> PICK s : s = e[n - 1]
  OBVIOUS
<1>1. /\ result = "planning" /\ result' = "planning" /\ next' = next + 1 /\ parts' = parts
      /\ n \in Nat \ {0} /\ next \in Nat /\ s \in Nat /\ Len(files) \in Nat
      /\ s <= next - 1 /\ next <= Len(files)
      /\ e \in [0..n -> 0..(next - 1)] /\ e[n] = next - 1
      /\ budget \in Nat /\ \A i \in 1..Len(files) : Costs[i] \in Nat
      /\ cur' = SubSeq(files, s + 1, next) /\ cur' \in Seq(FileMeta)
      /\ used' = Total(Costs, s, next) /\ (budget > 0 => used' <= budget)
  BY Room, SMTT(60)
<1>2. /\ f \in [0..n -> 0..next] /\ f[n] = next
      /\ \A k \in 0..(n - 1) : f[k] = e[k] /\ e[k] \in 0..(next - 1)
  <2>1. n \in 0..n /\ \A k \in 0..(n - 1) : k \in 0..n /\ k # n
    BY <1>1
  <2>2. \A k \in 0..n : e[k] \in 0..(next - 1)
    BY <1>1
  <2>3. f = [k \in 0..n |-> IF k = n THEN next ELSE e[k]]
    BY <1>1
  <2>4. f[n] = next /\ \A k \in 0..(n - 1) : f[k] = e[k]
    BY <2>1, <2>3
  <2>5. \A k \in 0..n : f[k] \in 0..next
    BY <1>1, <2>2, <2>3, SMTT(60)
  <2>6. f \in [0..n -> 0..next]
    BY <2>3, <2>5
  <2> QED
    BY <2>1, <2>2, <2>4, <2>6
<1>3. /\ files' = files /\ budget' = budget
      /\ Costs' = Costs /\ Group' = Group /\ Grouped' = Grouped
  BY SameInput DEF Push
<1>4. /\ e[0] = 0 /\ \A k \in 1..n : PartAt(e, k)
      /\ \A k \in 1..(n - 1) : CutAt(e, k)
  BY CutsAre
<1>5. /\ Len(AllParts') = n
      /\ \A k \in 1..(n - 1) : AllParts'[k] = AllParts[k]
      /\ AllParts'[n] = SubSeq(files, s + 1, next)
  <2>1. /\ n = Len(parts) + 1 /\ parts \in Seq(Seq(FileMeta))
        /\ \A k \in 1..(n - 1) : AllParts[k] = parts[k]
    BY <1>1, AtFile DEF PInv, Types
  <2>2. AllParts' = Append(parts, cur')
    BY <1>1 DEF AllParts
  <2>3. Len(parts) = n - 1
    BY <1>1, <2>1, LenProperties
  <2>4. /\ Len(AllParts') = Len(parts) + 1
        /\ \A k \in 1..Len(parts) : AllParts'[k] = parts[k]
        /\ AllParts'[Len(parts) + 1] = cur'
    <3>1. cur' \in Seq(FileMeta) /\ parts \in Seq(Seq(FileMeta))
      BY <1>1, <2>1
    <3> QED
      BY <2>2, <3>1, AppendProperties
  <2> QED
    BY <1>1, <2>1, <2>3, <2>4
<1>6. f[n - 1] = s
  BY <1>1, <1>2
<1>7. ASSUME NEW k \in 1..n PROVE PartAt(f, k)'
  <2>1. CASE k \in 1..(n - 1)
    <3>1. k - 1 \in 0..(n - 1) /\ k \in 0..(n - 1) /\ k \in 1..n
      BY <1>1, <2>1
    <3>2. f[k - 1] = e[k - 1] /\ f[k] = e[k] /\ AllParts'[k] = AllParts[k]
      BY <1>2, <1>5, <2>1, <3>1
    <3>3. PartAt(e, k)
      BY <1>4
    <3> QED
      BY <1>3, <3>2, <3>3 DEF PartAt
  <2>2. CASE k = n
    <3>1. f[k - 1] = s /\ f[k] = next /\ AllParts'[k] = SubSeq(files, s + 1, next) /\ s <= next
      BY <1>1, <1>2, <1>5, <1>6, <2>2
    <3>2. budget > 0 => Total(Costs, s, next) <= budget
      BY <1>1
    <3> QED
      BY <1>3, <3>1, <3>2 DEF PartAt
  <2> QED
    BY <1>1, <2>1, <2>2
<1>8. next' - 1 = next
  BY <1>1
<1>9. ASSUME NEW k \in 1..(n - 1) PROVE CutAt(f, k)'
  <2>1. k - 1 \in 0..(n - 1) /\ k \in 0..(n - 1)
    BY <1>1
  <2>2. f[k - 1] = e[k - 1] /\ f[k] = e[k] /\ e[k] \in 0..(next - 1) /\ e[k - 1] \in 0..(next - 1)
    BY <1>2, <2>1
  <2>3. CutAt(e, k)
    BY <1>4
  <2>4. Total(Costs, f[k - 1], f[k + 1]) > budget
    <3>1. CASE k = n - 1
      <4>1. k + 1 = n /\ f[k + 1] = next /\ e[k + 1] = next - 1
        BY <1>1, <1>2, <3>1
      <4> DEFINE r == e[k - 1]
                 w == Costs
                 N == Len(files)
                 b == next - 1
      <4>2. Total(w, r, b) > budget
        BY <2>3, <4>1 DEF CutAt
      <4>3. r \in 0..N /\ b \in r..N /\ b < N /\ b + 1 = next /\ N \in Nat /\ b \in 0..N
            /\ \A i \in 1..N : w[i] \in Nat
        <5>1. r < e[k]
          BY <2>3 DEF CutAt
        <5>2. r \in 0..(next - 1)
          BY <2>2
        <5> HIDE DEF r
        <5> QED
          BY <1>1, <5>2, SMTT(60)
      <4> HIDE DEF r, w, N, b
      <4>4. Total(w, r, b + 1) = Total(w, r, b) + w[b + 1] /\ Total(w, r, b) \in Nat
        BY <4>3, TotalFacts
      <4>5. w[b + 1] \in Nat
        BY <4>3
      <4>6. Total(w, r, next) > budget
        <5>1. budget \in Nat
          BY <1>1
        <5> QED
          BY <4>2, <4>3, <4>4, <4>5, <5>1
      <4> QED
        BY <2>2, <4>1, <4>6 DEF r, w
    <3>2. CASE k # n - 1
      <4>1. k + 1 \in 0..(n - 1)
        BY <1>1, <2>1, <3>2
      <4>2. f[k + 1] = e[k + 1]
        BY <1>2, <4>1
      <4> QED
        BY <2>2, <2>3, <4>2 DEF CutAt
    <3> QED
      BY <3>1, <3>2
  <2>5. f[k - 1] < f[k]
    BY <2>2, <2>3 DEF CutAt
  <2>6. f[k] < next' - 1
    BY <1>1, <1>8, <2>2, SMTT(60)
  <2>7. Grouped /\ Group[f[k]] = Group[f[k] + 1] => Whole(Costs, Group, Group[f[k]]) > budget
    <3>1. Grouped /\ Group[e[k]] = Group[e[k] + 1] => Whole(Costs, Group, Group[e[k]]) > budget
      BY <2>3 DEF CutAt
    <3> QED
      BY <2>2, <3>1
  <2> QED
    BY <1>3, <2>4, <2>5, <2>6, <2>7 DEF CutAt
<1>10. f[0] = 0
  BY <1>1, <1>2, <1>4
<1>11. n = Len(AllParts') /\ f \in [0..n -> 0..(next' - 1)] /\ f[n] = next' - 1
  BY <1>2, <1>5, <1>8
<1> QED
  BY <1>1, <1>7, <1>9, <1>10, <1>11, ZenonT(60) DEF Cuts, PartAt, CutAt

LEMMA PushAtWork ==
  ASSUME PInv, Push, NEW e, NEW n, Cuts(e, n), AtWork(e, n), NEW f, f = [e EXCEPT ![n] = next]
  PROVE  AtWork(f, n)'
<1> PICK s : s = e[n - 1]
  OBVIOUS
<1>1. /\ next' = next + 1 /\ n \in Nat \ {0} /\ next \in Nat /\ s \in Nat /\ s <= next - 1
      /\ Len(cur) = next - 1 - s /\ next' - 1 = next /\ s # next
      /\ e \in [0..n -> 0..(next - 1)]
  <2>1. /\ next' = next + 1 /\ n \in Nat \ {0} /\ next \in Nat /\ s \in Nat /\ s <= next - 1
        /\ Len(cur) = next - 1 - s /\ e \in [0..n -> 0..(next - 1)]
    BY Room
  <2>2. next' - 1 = next /\ s # next
    BY <2>1
  <2> QED
    BY <2>1, <2>2
<1>2. Grouped => Key = Group[next]
  BY Room
<1>3. /\ budget' = budget /\ Costs' = Costs /\ Group' = Group /\ Grouped' = Grouped
  BY SameInput DEF Push
<1>4. \/ /\ Grouped /\ (groupStart = 0 \/ Key # curKey)
         /\ curKey' = Key /\ groupStart' = next - s
      \/ /\ ~(Grouped /\ (groupStart = 0 \/ Key # curKey))
         /\ curKey' = curKey /\ groupStart' = groupStart
  <2>1. Len(cur) + 1 = next - s
    BY <1>1
  <2> QED
    BY <2>1 DEF Push
<1>5. f[n - 1] = s /\ (n > 1 => f[n - 2] = e[n - 2])
  <2>1. n - 1 \in 0..n /\ n - 1 # n /\ (n > 1 => n - 2 \in 0..n /\ n - 2 # n)
    BY <1>1
  <2>2. f = [k \in 0..n |-> IF k = n THEN next ELSE e[k]]
    BY <1>1
  <2> QED
    BY <2>1, <2>2
<1>6. ASSUME Grouped PROVE GroupAtWork(s)'
  <2>1. GroupAtWork(s)
    BY <1>6 DEF AtWork
  <2>2. CASE s = next - 1
    <3>1. groupStart = 0
      BY <2>1, <2>2 DEF GroupAtWork
    <3>2. curKey' = Key /\ groupStart' = next - s
      BY <1>4, <1>6, <3>1
    <3>3. /\ next - s = 1 /\ next - s \in 1..(next - s) /\ ~(next - s > 1)
          /\ \A i \in (s + (next - s))..next : i = next
      BY <1>1, <2>2
    <3> QED
      BY <1>1, <1>2, <1>3, <1>6, <3>2, <3>3 DEF GroupAtWork
  <2>3. CASE s # next - 1
    <3>1. /\ groupStart \in 1..(next - 1 - s)
          /\ \A i \in (s + groupStart)..(next - 1) : Group[i] = curKey
          /\ groupStart > 1 => Group[s + groupStart - 1] # curKey
      BY <2>1, <2>3 DEF GroupAtWork
    <3>2. CASE Key # curKey
      <4>1. curKey' = Key /\ groupStart' = next - s
        BY <1>4, <1>6, <3>2
      <4>2. /\ next - s \in 1..(next - s) /\ s + (next - s) - 1 = next - 1
            /\ next - 1 \in (s + groupStart)..(next - 1)
            /\ \A i \in (s + (next - s))..next : i = next
        BY <1>1, <3>1, SMTT(60)
      <4>3. Group[next - 1] # Key
        BY <3>1, <3>2, <4>2
      <4> QED
        BY <1>1, <1>2, <1>3, <1>6, <4>1, <4>2, <4>3 DEF GroupAtWork
    <3>3. CASE Key = curKey
      <4>1. groupStart # 0
        BY <3>1
      <4>2. curKey' = curKey /\ groupStart' = groupStart
        BY <1>4, <3>3, <4>1
      <4>3. /\ groupStart \in 1..(next - s)
            /\ \A i \in (s + groupStart)..next : i = next \/ i \in (s + groupStart)..(next - 1)
        BY <1>1, <3>1
      <4>4. \A i \in (s + groupStart)..next : Group[i] = curKey
        BY <1>2, <1>6, <3>1, <3>3, <4>3
      <4> QED
        BY <1>1, <1>3, <3>1, <4>2, <4>3, <4>4 DEF GroupAtWork
    <3> QED
      BY <3>2, <3>3
  <2> QED
    BY <2>2, <2>3
<1>7. ASSUME n > 1 PROVE Opened(e[n - 2], s)'
  <2> PICK r : r = e[n - 2]
    OBVIOUS
  <2>1. Opened(r, s)
    BY <1>7 DEF AtWork
  <2>2. PICK o \in (s + 1)..(next - 1) :
          Total(Costs, r, o) > budget /\ (groupStart <= 1 \/ o < s + groupStart)
    BY <2>1 DEF Opened
  <2>3. o \in (s + 1)..(next' - 1)
    BY <1>1, <2>2
  <2>4. groupStart' <= 1 \/ o < s + groupStart'
    <3>1. o < s + (next - s)
      BY <1>1, <2>2
    <3> QED
      BY <1>4, <2>2, <3>1
  <2>5. Opened(r, s)'
    BY <1>3, <2>2, <2>3, <2>4 DEF Opened
  <2> QED
    BY <2>5
<1>8. (Grouped' => GroupAtWork(f[n - 1])') /\ (n > 1 => Opened(f[n - 2], f[n - 1])')
  BY <1>3, <1>5, <1>6, <1>7
<1> QED
  BY <1>8, ZenonT(60) DEF AtWork

LEMMA PushHolds == PInv /\ Push => PInv'
<1> SUFFICES ASSUME PInv, Push PROVE PInv'
  OBVIOUS
<1>1. result = "planning"
  BY DEF Push, Planning
<1>2. PICK e, n : Cuts(e, n) /\ AtWork(e, n)
  BY <1>1 DEF PInv
<1>3. PICK f : f = [e EXCEPT ![n] = next]
  OBVIOUS
<1>4. PICK s : s = e[n - 1]
  OBVIOUS
<1>5. /\ result' = "planning" /\ next' = next + 1 /\ parts' = parts
      /\ next \in Nat /\ s \in Nat /\ Len(files) \in Nat
      /\ s <= next - 1 /\ next <= Len(files)
      /\ files \in Seq(FileMeta) /\ budget \in Nat /\ depth \in Nat
      /\ cur' \in Seq(FileMeta)
      /\ Len(cur) = next - 1 - s /\ Len(cur') = next - s
      /\ used' \in Nat /\ used' = SpanTotal(cur')
      /\ budget > 0 => Costs[next] <= budget
  BY <1>2, <1>4, Room
<1>6. /\ files' = files /\ budget' = budget /\ depth' = depth /\ Costs' = Costs
  BY SameInput DEF Push
<1>7. Types'
  <2>1. groupStart \in 0..Len(cur) /\ parts \in Seq(Seq(FileMeta)) /\ next >= 1
    BY DEF PInv, Types, TypeOK
  <2>2. groupStart' \in 0..Len(cur')
    <3>1. groupStart' = groupStart \/ groupStart' = Len(cur) + 1
      BY DEF Push
    <3>2. \A g \in 0..Len(cur) : g \in 0..Len(cur')
      BY <1>5
    <3>3. Len(cur) + 1 \in 0..Len(cur')
      BY <1>5
    <3> QED
      BY <2>1, <3>1, <3>2, <3>3
  <2>3. next' \in 1..(Len(files) + 1)
    BY <1>5
  <2> QED
    BY <1>5, <1>6, <2>1, <2>2, <2>3 DEF Types, TypeOK
<1>8. used' = SpanTotal(cur)'
  BY <1>5 DEF SpanTotal, MapThenSumSet, MapThenFoldSet, SpanCost
<1>9. (budget > 0 => \A i \in 1..(next - 1) : Costs[i] <= budget)'
  <2>1. budget > 0 => \A i \in 1..(next - 1) : Costs[i] <= budget
    BY DEF PInv
  <2>2. next' - 1 = next /\ \A i \in 1..next : i = next \/ i \in 1..(next - 1)
    BY <1>5
  <2>3. budget > 0 => Costs[next] <= budget
    BY <1>5
  <2> QED
    BY <1>6, <2>1, <2>2, <2>3
<1>10. Cuts(f, n)' /\ AtWork(f, n)'
  BY <1>2, <1>3, PushCuts, PushAtWork
<1>11. \E g, m : Cuts(g, m)' /\ (result' = "planning" => AtWork(g, m)')
  BY <1>10
<1> QED
  BY <1>5, <1>7, <1>8, <1>9, <1>11, ZenonT(60) DEF PInv

LEMMA StutterHolds == PInv /\ UNCHANGED vars => PInv'
<1> SUFFICES ASSUME PInv, UNCHANGED vars PROVE PInv'
  OBVIOUS
<1>1. /\ UNCHANGED << input, next, cur, used, curKey, groupStart >>
      /\ parts' = parts /\ result' = result
  BY DEF vars
<1>2. AllParts' = AllParts
  BY <1>1 DEF AllParts
<1> QED
  BY <1>1, <1>2, FrameHolds DEF PInv, Types, TypeOK

\* The invariant that the properties of the planner follow from.
LEMMA PInvInvariant == Spec => []PInv
<1>1. Init => PInv
  BY InitHolds
<1>2. PInv /\ [Next]_vars => PInv'
  BY TooLargeHolds, PushHolds, RollbackHolds, CutHolds, DoneHolds, StutterHolds DEF Next
<1> QED
  BY <1>1, <1>2, PTL DEF Spec

-----------------------------------------------------------------------------
(* What follows from it. *)

LEMMA TotalAdds ==
  ASSUME NEW N \in Nat, NEW w, \A i \in 1..N : w[i] \in Nat,
         NEW a \in 0..N, NEW b \in a..N, NEW c \in b..N
  PROVE  Total(w, a, b) + Total(w, b, c) = Total(w, a, c)
<1> DEFINE D == {d \in Nat : b + d <= N => Total(w, a, b) + Total(w, b, b + d) = Total(w, a, b + d)}
<1>1. 0 \in D
  <2>1. b + 0 = b /\ b \in 0..N /\ b \in b..N
    OBVIOUS
  <2>2. Total(w, b, b) = 0 /\ Total(w, a, b) \in Nat
    BY <2>1, TotalFacts
  <2> QED
    BY <2>1, <2>2
<1>2. ASSUME NEW d \in Nat, d \in D PROVE d + 1 \in D
  <2>1. SUFFICES ASSUME b + (d + 1) <= N
                 PROVE  Total(w, a, b) + Total(w, b, b + (d + 1)) = Total(w, a, b + (d + 1))
    OBVIOUS
  <2> PICK x : x = b + d
    OBVIOUS
  <2>2. x \in a..N /\ x \in b..N /\ x < N /\ b + (d + 1) = x + 1 /\ x + 1 \in 1..N /\ b \in 0..N
    BY <2>1
  <2>3. Total(w, a, x + 1) = Total(w, a, x) + w[x + 1] /\ Total(w, a, x) \in Nat
    BY <2>2, TotalFacts
  <2>4. Total(w, b, x + 1) = Total(w, b, x) + w[x + 1] /\ Total(w, b, x) \in Nat
    BY <2>2, TotalFacts
  <2>5. Total(w, a, b) + Total(w, b, x) = Total(w, a, x)
    BY <1>2, <2>1
  <2>6. Total(w, a, b) \in Nat
    BY TotalFacts
  <2>7. w[x + 1] \in Nat
    BY <2>2
  <2> QED
    BY <2>2, <2>3, <2>4, <2>5, <2>6, <2>7
<1> HIDE DEF D
<1>3. Nat \subseteq D
  BY <1>1, <1>2, AllNumbers
<1>4. c - b \in Nat /\ b + (c - b) = c /\ c <= N
  OBVIOUS
<1> QED
  BY <1>3, <1>4 DEF D

\* The part k of a plan.
LEMMA PartIs ==
  ASSUME PInv, NEW e, NEW n, Cuts(e, n), NEW k \in 1..n
  PROVE  /\ n \in Nat /\ Len(files) \in Nat /\ k - 1 \in 0..n /\ k \in 0..n
         /\ e[k - 1] \in 0..Len(files) /\ e[k] \in e[k - 1]..Len(files) /\ e[k] \in 0..Len(files)
         /\ AllParts[k] = SubSeq(files, e[k - 1] + 1, e[k])
         /\ Len(AllParts[k]) = e[k] - e[k - 1]
         /\ DOMAIN AllParts[k] = 1..(e[k] - e[k - 1])
         /\ \A i \in 1..(e[k] - e[k - 1]) : AllParts[k][i] = files[e[k - 1] + i]
         /\ SpanTotal(AllParts[k]) = Total(Costs, e[k - 1], e[k])
<1>1. /\ files \in Seq(FileMeta) /\ next \in 1..(Len(files) + 1)
      /\ n \in Nat \ {0} /\ e \in [0..n -> 0..(next - 1)] /\ PartAt(e, k)
  BY CutsAre DEF PInv, Types, TypeOK
<1>2. Len(files) \in Nat
  BY <1>1, LenProperties
<1>3. k - 1 \in 0..n /\ k \in 0..n
  BY <1>1
<1>4. e[k - 1] \in 0..(next - 1) /\ e[k] \in 0..(next - 1)
  BY <1>1, <1>3
<1>5. AllParts[k] = SubSeq(files, e[k - 1] + 1, e[k]) /\ e[k - 1] <= e[k]
  BY <1>1 DEF PartAt
<1> DEFINE a == e[k - 1]
           b == e[k]
           q == AllParts[k]
<1>6. a \in 0..Len(files) /\ b \in a..Len(files) /\ b \in 0..Len(files) /\ q = SubSeq(files, a + 1, b)
  <2>1. a \in 0..(next - 1) /\ b \in 0..(next - 1) /\ a <= b
    BY <1>4, <1>5
  <2> HIDE DEF a, b, q
  <2>2. a \in 0..Len(files) /\ b \in a..Len(files) /\ b \in 0..Len(files)
    BY <1>1, <1>2, <2>1
  <2> QED
    BY <1>5, <2>2 DEF a, b, q
<1> HIDE DEF a, b, q
<1>7. /\ q \in Seq(FileMeta) /\ Len(q) = b - a
      /\ \A i \in 1..(b - a) : q[i] = files[a + i]
      /\ SpanTotal(q) = Total(Costs, a, b)
  BY <1>1, <1>6, PartTotal DEF Costs
<1>8. DOMAIN q = 1..(b - a)
  BY <1>7, LenProperties
<1> QED
  BY <1>1, <1>2, <1>3, <1>6, <1>7, <1>8 DEF a, b, q

\* The cuts are in order.
LEMMA CutsInOrder ==
  ASSUME PInv, NEW e, NEW n, Cuts(e, n), NEW k \in 1..n, NEW m \in k..n
  PROVE  e[k] <= e[m]
<1>1. n \in Nat
  BY DEF Cuts
<1> DEFINE D == {d \in Nat : k + d <= n => e[k] <= e[k + d]}
<1>2. \A i \in 1..n : e[i - 1] \in Nat /\ e[i] \in Nat /\ e[i - 1] <= e[i]
  <2>1. ASSUME NEW i \in 1..n PROVE e[i - 1] \in Nat /\ e[i] \in Nat /\ e[i - 1] <= e[i]
    <3>1. /\ Len(files) \in Nat /\ e[i - 1] \in 0..Len(files) /\ e[i] \in e[i - 1]..Len(files)
          /\ e[i] \in 0..Len(files)
      BY PartIs
    <3> QED
      BY <3>1
  <2> QED
    BY <2>1
<1>3. 0 \in D
  BY <1>1, <1>2
<1>4. ASSUME NEW d \in Nat, d \in D PROVE d + 1 \in D
  <2>1. SUFFICES ASSUME k + (d + 1) <= n PROVE e[k] <= e[k + (d + 1)]
    OBVIOUS
  <2> PICK x : x = k + (d + 1)
    OBVIOUS
  <2>2. x \in 1..n /\ x - 1 = k + d /\ k + d <= n
    BY <1>1, <2>1
  <2>3. e[x - 1] <= e[x] /\ e[x - 1] \in Nat /\ e[x] \in Nat /\ e[k] \in Nat
    BY <1>2, <2>2
  <2>4. e[k] <= e[x - 1]
    BY <1>4, <2>2
  <2>5. e[k] <= e[x]
    BY <2>3, <2>4
  <2> QED
    BY <2>5
<1> HIDE DEF D
<1>5. Nat \subseteq D
  BY <1>3, <1>4, AllNumbers
<1>6. m - k \in Nat /\ k + (m - k) = m /\ m <= n
  BY <1>1
<1> QED
  BY <1>5, <1>6 DEF D

LEMMA AllPartsType ==
  ASSUME PInv
  PROVE  /\ AllParts \in Seq(Seq(FileMeta)) /\ Len(AllParts) \in Nat
         /\ DOMAIN AllParts = 1..Len(AllParts)
<1>1. parts \in Seq(Seq(FileMeta)) /\ cur \in Seq(FileMeta)
  BY DEF PInv, Types
<1>2. AllParts \in Seq(Seq(FileMeta))
  BY <1>1, AppendProperties DEF AllParts
<1> QED
  BY <1>2, LenProperties

LEMMA OrderFollows == PInv => ScannerOrder
<1> SUFFICES ASSUME PInv PROVE ScannerOrder
  OBVIOUS
<1>1. PICK e, n : Cuts(e, n)
  BY DEF PInv
<1> PICK s : s = AllParts
  OBVIOUS
<1>2. /\ n \in Nat \ {0} /\ n = Len(s) /\ e \in [0..n -> 0..(next - 1)]
      /\ e[0] = 0 /\ e[n] = next - 1 /\ \A k \in 1..n : PartAt(e, k)
  BY <1>1, CutsAre
<1>3. files \in Seq(FileMeta) /\ Len(files) \in Nat /\ next \in 1..(Len(files) + 1)
  BY LenProperties DEF PInv, Types, TypeOK
<1>4. e \in [0..n -> 0..Len(files)]
  <2>1. \A x \in 0..(next - 1) : x \in 0..Len(files)
    BY <1>3
  <2> QED
    BY <1>2, <2>1
<1>5. \A k \in 1..n : e[k - 1] <= e[k] /\ s[k] = SubSeq(files, e[k - 1] + 1, e[k])
  BY <1>2 DEF PartAt
<1>6. FlattenSeq(s) = SubSeq(files, 1, e[n])
  <2>1. Len(s) \in Nat \ {0} /\ e \in [0..Len(s) -> 0..Len(files)]
    BY <1>2, <1>4
  <2>2. \A k \in 1..Len(s) : e[k - 1] <= e[k] /\ s[k] = SubSeq(files, e[k - 1] + 1, e[k])
    BY <1>2, <1>5
  <2>3. e[0] = 0 /\ e[Len(s)] = e[n]
    BY <1>2
  <2>4. files \in Seq(FileMeta)
    BY <1>3
  <2> HIDE DEF PInv
  <2>5. FlattenSeq(s) = SubSeq(files, 1, e[Len(s)])
    BY ONLY <2>1, <2>2, <2>3, <2>4, JoinedAgain
  <2> QED
    BY <2>3, <2>5
<1> QED
  BY <1>2, <1>6 DEF ScannerOrder

LEMMA FitFollows == PInv => PartsFit
<1> SUFFICES ASSUME PInv PROVE PartsFit
  OBVIOUS
<1>1. PICK e, n : Cuts(e, n)
  BY DEF PInv
<1>2. used = SpanTotal(cur)
  BY DEF PInv
<1>3. budget > 0 => \A k \in DOMAIN AllParts : SpanTotal(AllParts[k]) <= budget
  <2>1. SUFFICES ASSUME budget > 0, NEW k \in DOMAIN AllParts PROVE SpanTotal(AllParts[k]) <= budget
    OBVIOUS
  <2>2. k \in 1..n /\ PartAt(e, k)
    BY <1>1, AllPartsType, CutsAre
  <2>3. SpanTotal(AllParts[k]) = Total(Costs, e[k - 1], e[k])
    BY <1>1, <2>2, PartIs
  <2> QED
    BY <2>1, <2>2, <2>3 DEF PartAt
<1>4. result = "planned" => \A i \in DOMAIN files : budget = 0 \/ SpanCost(files[i]) <= budget
  <2>1. SUFFICES ASSUME result = "planned", NEW i \in DOMAIN files, budget # 0
                 PROVE  SpanCost(files[i]) <= budget
    OBVIOUS
  <2>2. files \in Seq(FileMeta) /\ budget \in Nat /\ next = Len(files) + 1
    BY <2>1 DEF PInv, Types
  <2>3. Len(files) \in Nat /\ i \in 1..Len(files) /\ Costs[i] = SpanCost(files[i])
    BY <2>1, <2>2, CostsType DEF Costs
  <2>4. budget > 0 /\ i \in 1..(next - 1)
    BY <2>1, <2>2, <2>3
  <2>5. Costs[i] <= budget
    BY <2>4 DEF PInv
  <2> QED
    BY <2>3, <2>5
<1> QED
  BY <1>2, <1>3, <1>4 DEF PartsFit

LEMMA NeedFollows == PInv => NoNeedlessCut
<1> SUFFICES ASSUME PInv, NEW k \in 1..(Len(AllParts) - 1)
             PROVE  /\ AllParts[k] # << >>
                    /\ SpanTotal(AllParts[k]) + SpanTotal(AllParts[k + 1]) > budget
  BY DEF NoNeedlessCut
<1>1. PICK e, n : Cuts(e, n)
  BY DEF PInv
<1>2. n \in Nat \ {0} /\ n = Len(AllParts) /\ CutAt(e, k)
  BY <1>1, CutsAre
<1>3. k \in 1..n /\ k + 1 \in 1..n /\ (k + 1) - 1 = k
  BY <1>2
<1> DEFINE a == e[k - 1]
           b == e[k]
           c == e[k + 1]
           w == Costs
           N == Len(files)
<1>4. /\ N \in Nat /\ a \in 0..N /\ b \in a..N /\ Len(AllParts[k]) = b - a
      /\ SpanTotal(AllParts[k]) = Total(w, a, b)
  BY <1>1, <1>3, PartIs
<1>5. c \in b..N /\ SpanTotal(AllParts[k + 1]) = Total(w, b, c)
  <2>1. e[k + 1] \in e[(k + 1) - 1]..Len(files)
        /\ SpanTotal(AllParts[k + 1]) = Total(Costs, e[(k + 1) - 1], e[k + 1])
    BY <1>1, <1>3, PartIs, SMTT(60)
  <2> QED
    BY <1>3, <2>1
<1>6. a < b /\ Total(w, a, c) > budget
  BY <1>2 DEF CutAt
<1>7. \A i \in 1..N : w[i] \in Nat
  BY CostsType DEF Costs, PInv, Types
<1> HIDE DEF a, b, c, w, N
<1>8. Total(w, a, b) + Total(w, b, c) = Total(w, a, c)
  BY <1>4, <1>5, <1>7, TotalAdds
<1>9. AllParts[k] # << >>
  <2>1. Len(<< >>) = 0 /\ b - a # 0
    BY <1>4, <1>6
  <2> QED
    BY <1>4, <2>1
<1> QED
  BY <1>4, <1>5, <1>6, <1>8, <1>9

\* The file that an entry of a part is.
LEMMA EntryIs ==
  ASSUME PInv, NEW e, NEW n, Cuts(e, n), NEW k \in 1..n, NEW i \in DOMAIN AllParts[k]
  PROVE  \E x \in (e[k - 1] + 1)..e[k] :
           /\ x \in 1..Len(files) /\ AllParts[k][i] = files[x]
           /\ e[k - 1] \in 0..Len(files) /\ e[k] \in 0..Len(files)
<1> DEFINE a == e[k - 1]
           b == e[k]
           q == AllParts[k]
<1>1. /\ Len(files) \in Nat /\ a \in 0..Len(files) /\ b \in a..Len(files) /\ b \in 0..Len(files)
      /\ DOMAIN q = 1..(b - a)
      /\ \A h \in 1..(b - a) : q[h] = files[a + h]
  BY PartIs
<1> HIDE DEF a, b
<1>2. i \in 1..(b - a)
  BY <1>1
<1>3. a + i \in (a + 1)..b /\ a + i \in 1..Len(files)
  BY <1>1, <1>2
<1>4. q[i] = files[a + i]
  BY <1>1, <1>2
<1> HIDE DEF q
<1>5. \E x \in (a + 1)..b :
         x \in 1..Len(files) /\ q[i] = files[x] /\ a \in 0..Len(files) /\ b \in 0..Len(files)
  BY <1>1, <1>3, <1>4
<1> QED
  BY <1>5 DEF a, b, q

\* Two parts that the same small group is in would have a cut through it.
LEMMA NotTorn ==
  ASSUME PInv, Grouped, NEW k \in DOMAIN AllParts, NEW m \in DOMAIN AllParts, k < m,
         NEW i \in DOMAIN AllParts[k], NEW j \in DOMAIN AllParts[m], NEW key,
         key = EntryGroup(AllParts[k][i]), key = EntryGroup(AllParts[m][j]),
         GroupTotal(key) <= budget, Contiguous(key)
  PROVE  FALSE
<1>1. PICK e, n : Cuts(e, n)
  BY DEF PInv
<1>2. n \in Nat \ {0} /\ n = Len(AllParts)
  BY <1>1 DEF Cuts
<1>3. k \in 1..n /\ m \in 1..n /\ k \in 1..(n - 1) /\ m - 1 \in 1..n /\ m - 1 \in k..n
  BY <1>2, AllPartsType
<1>4. files \in Seq(FileMeta) /\ budget \in Nat /\ Len(files) \in Nat /\ DOMAIN files = 1..Len(files)
  BY LenProperties DEF PInv, Types
<1> PICK c : c = e[k]
  OBVIOUS
<1>5. \E x \in 1..c : c \in 0..Len(files) /\ AllParts[k][i] = files[x]
  <2>1. PICK x \in (e[k - 1] + 1)..e[k] :
          /\ x \in 1..Len(files) /\ AllParts[k][i] = files[x]
          /\ e[k - 1] \in 0..Len(files) /\ e[k] \in 0..Len(files)
    BY <1>1, <1>3, EntryIs
  <2>2. x \in 1..c /\ c \in 0..Len(files)
    BY <1>4, <2>1
  <2> QED
    BY <2>1, <2>2
<1>6. \E y \in (c + 1)..Len(files) : AllParts[m][j] = files[y]
  <2>1. PICK y \in (e[m - 1] + 1)..e[m] :
          /\ y \in 1..Len(files) /\ AllParts[m][j] = files[y]
          /\ e[m - 1] \in 0..Len(files) /\ e[m] \in 0..Len(files)
    BY <1>1, <1>3, EntryIs
  <2>2. c <= e[m - 1]
    BY <1>1, <1>3, CutsInOrder
  <2>3. y \in (c + 1)..Len(files)
    BY <1>4, <1>5, <2>1, <2>2
  <2> QED
    BY <2>1, <2>3
<1> PICK x \in 1..c : c \in 0..Len(files) /\ AllParts[k][i] = files[x]
  BY <1>5
<1> PICK y \in (c + 1)..Len(files) : AllParts[m][j] = files[y]
  BY <1>6
<1>7. EntryGroup(files[c]) = key /\ EntryGroup(files[c + 1]) = key
  <2>1. x \in DOMAIN files /\ y \in DOMAIN files /\ c \in x..y /\ c + 1 \in x..y
    BY <1>4, <1>5, <1>6
  <2>2. EntryGroup(files[x]) = key /\ EntryGroup(files[y]) = key
    BY <1>5, <1>6
  <2> QED
    BY <2>1, <2>2 DEF Contiguous
<1>8. Group[c] = key /\ Group[c + 1] = key
  <2>1. c \in DOMAIN files /\ c + 1 \in DOMAIN files
    BY <1>4, <1>5, <1>6
  <2> QED
    BY <1>7, <2>1 DEF Group
<1>9. Whole(Costs, Group, key) > budget
  <2>1. CutAt(e, k)
    BY <1>1, <1>3, CutsAre
  <2> QED
    BY <1>8, <2>1 DEF CutAt
<1>10. GroupTotal(key) = Whole(Costs, Group, key) /\ Whole(Costs, Group, key) \in Nat
  BY <1>4, GroupTotalIs, WholeType
<1> QED
  BY <1>4, <1>9, <1>10

LEMMA WholeFollows == PInv => GroupsStayWhole
<1> SUFFICES ASSUME PInv, Grouped, NEW k \in DOMAIN AllParts, NEW m \in DOMAIN AllParts,
                    NEW i \in DOMAIN AllParts[k], NEW j \in DOMAIN AllParts[m], NEW key,
                    key = EntryGroup(AllParts[k][i]), key = EntryGroup(AllParts[m][j]),
                    GroupTotal(key) <= budget, Contiguous(key)
             PROVE  k = m
  BY DEF GroupsStayWhole
<1>1. ~(k < m)
  BY NotTorn
<1>2. ~(m < k)
  BY NotTorn
<1>3. k \in Nat /\ m \in Nat
  BY AllPartsType
<1> QED
  BY <1>1, <1>2, <1>3

-----------------------------------------------------------------------------
(* The theorems. *)

\* The counters of the loop stay in their ranges: the start of the group at work
\* is a place in the part at work, so that the slice `cur[:groupStart]` of
\* rollbackGroup is always one (span.go:161).
THEOREM PlannerTypes == Spec => []TypeOK
<1>1. PInv => TypeOK
  BY DEF PInv, Types
<1> QED
  BY <1>1, PInvInvariant, PTL

\* However the files, the budget and the groups are, the parts one after another
\* are the files that the loop has seen, in the order of the scanner (span.go:104):
\* a group that moves to the next part takes no file past another one.
THEOREM FilesKeepTheirOrder == Spec => []ScannerOrder
BY OrderFollows, PInvInvariant, PTL

\* No part costs more than the budget, the one that a group was moved into
\* included, and `used` never drifts from what the part at work costs
\* (span.go:112-127, 160-170).
THEOREM PartsFitTheBudget == Spec => []PartsFit
BY FitFollows, PInvInvariant, PTL

\* The cut never goes through a group that fits on a cassette (span.go:89-103),
\* where the list of the scanner does not leave the group and come back.
THEOREM GroupsAreNotTorn == Spec => []GroupsStayWhole
BY WholeFollows, PInvInvariant, PTL

\* Two parts that follow one another never fit on one cassette, and none but the
\* last is empty: also the move of a group to the next part leaves the parts
\* before it so full that no cassette is changed without need.
THEOREM NoCutIsNeedless == Spec => []NoNeedlessCut
BY NeedFollows, PInvInvariant, PTL

\* A group that is moved never began at the head of its part, so that something
\* stays behind: the question of rollbackGroup whether the head is empty
\* (span.go:161) is always answered with no, and there is no move without a cut.
THEOREM NoMoveWithoutCut == Spec => MoveLeavesAHead
<1>1. PInv /\ [Next]_vars => [RollbackGroup => groupStart > 1]_vars
  BY HeadStays
<1> QED
  BY <1>1, PInvInvariant, PTL DEF Spec, MoveLeavesAHead

=============================================================================
