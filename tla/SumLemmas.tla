----------------------------- MODULE SumLemmas -----------------------------
(***************************************************************************)
(* What the provers need to know of Totals: a running sum exists, is the   *)
(* one Totals defines, and is linear.  Induction over the positions is     *)
(* done with sets: a set of naturals that holds 0 and is closed under      *)
(* successor holds every natural, because a smallest missing one would be  *)
(* the successor of a member.                                              *)
(***************************************************************************)
EXTENDS Totals, FiniteSets, FiniteSetTheorems, WellFoundedInduction, TLAPS

\* A non-empty set of naturals has a least element: the initial segments below
\* its members are subsets of a finite set, and strict inclusion of those is
\* well founded.
LEMMA LeastElement ==
  ASSUME NEW B \in SUBSET Nat, NEW b \in B
  PROVE  \E m \in B : \A k \in B : m <= k
<1> DEFINE F == {0..k : k \in {j \in B : j <= b}}
           S == 0..b
<1>1. IsFiniteSet(S)
  BY FS_Interval
<1>2. FiniteSubsetsOf(S) = SUBSET S
  <2> HIDE DEF S
  <2> QED BY <1>1, FS_FiniteSubsetsOfFinite
<1>3. F \subseteq SUBSET S
  OBVIOUS
<1>4. F # {}
  OBVIOUS
<1>5. PICK x \in F : \A y \in F : ~ (<<y, x>> \in StrictSubsetOrdering(S))
  <2> HIDE DEF S, F
  <2> QED BY <1>2, <1>3, <1>4, WFMin, FS_StrictSubsetOrderingWellFounded
<1>6. PICK m \in B : m <= b /\ x = 0..m
  OBVIOUS
<1>7. ASSUME NEW k \in B, k < m PROVE FALSE
  <2>1. 0..k \in F /\ 0..k \in SUBSET S
    BY <1>6, <1>7
  <2>2. 0..k \subseteq x /\ 0..k # x
    <3>1. m \in x /\ m \notin 0..k
      BY <1>6, <1>7
    <3> QED BY <3>1, <1>6, <1>7
  <2>3. <<0..k, x>> \in StrictSubsetOrdering(S)
    BY <2>1, <2>2, <1>3 DEF StrictSubsetOrdering
  <2> QED BY <2>1, <2>3, <1>5
<1> QED
  BY <1>6, <1>7

\* Induction over the naturals, stated for a set instead of a predicate.
LEMMA SetInduction ==
  ASSUME NEW T, 0 \in T, \A n \in Nat : n \in T => n + 1 \in T
  PROVE  Nat \subseteq T
<1> DEFINE B == Nat \ T
<1>1. SUFFICES ASSUME NEW b \in B PROVE FALSE
  OBVIOUS
<1>3. PICK m \in B : \A y \in B : m <= y
  <2> B \in SUBSET Nat OBVIOUS
  <2> HIDE DEF B
  <2> QED BY <1>1, LeastElement
<1>4. m \in Nat /\ m # 0
  OBVIOUS
<1>5. m - 1 \in Nat /\ m - 1 \in B
  BY <1>4
<1> QED
  BY <1>3, <1>5, <1>4

\* s holds the running sums of a over 0..n
IsPrefixSum(s, a, n) ==
  /\ s \in [0..n -> Int]
  /\ s[0] = 0
  /\ \A i \in 1..n : s[i] = s[i - 1] + a[i]

\* Running sums of any integer list exist: by induction, one more position at
\* a time.
LEMMA PrefixSumExists ==
  ASSUME NEW n \in Nat, NEW a, \A i \in 1..n : a[i] \in Int
  PROVE  \E s : IsPrefixSum(s, a, n)
<1> DEFINE T == {k \in Nat : k <= n => \E s : IsPrefixSum(s, a, k)}
<1>1. 0 \in T
  <2>1. IsPrefixSum([i \in 0..0 |-> 0], a, 0)
    BY DEF IsPrefixSum
  <2> QED BY <2>1
<1>2. ASSUME NEW k \in Nat, k \in T PROVE k + 1 \in T
  <2>1. SUFFICES ASSUME k + 1 <= n PROVE \E s : IsPrefixSum(s, a, k + 1)
    OBVIOUS
  <2>2. PICK s : IsPrefixSum(s, a, k)
    BY <1>2, <2>1
  <2> DEFINE t == [i \in 0..(k + 1) |-> IF i = k + 1 THEN s[k] + a[k + 1] ELSE s[i]]
  <2>3. IsPrefixSum(t, a, k + 1)
    <3>1. a[k + 1] \in Int /\ s[k] \in Int
      BY <2>1, <2>2 DEF IsPrefixSum
    <3>2. t \in [0..(k + 1) -> Int]
      BY <2>2, <3>1 DEF IsPrefixSum
    <3>3. t[0] = 0
      BY <2>2 DEF IsPrefixSum
    <3>4. ASSUME NEW i \in 1..(k + 1) PROVE t[i] = t[i - 1] + a[i]
      <4>1. CASE i = k + 1
        BY <4>1
      <4>2. CASE i \in 1..k
        BY <4>2, <2>2 DEF IsPrefixSum
      <4> QED BY <4>1, <4>2
    <3> QED BY <3>2, <3>3, <3>4 DEF IsPrefixSum
  <2> QED BY <2>3
<1> HIDE DEF T
<1>3. Nat \subseteq T
  BY <1>1, <1>2, SetInduction
<1> QED
  BY <1>3 DEF T

\* So the recursive function PrefixSum is those running sums.
LEMMA PrefixSumIs ==
  ASSUME NEW n \in Nat, NEW a, \A i \in 1..n : a[i] \in Int
  PROVE  IsPrefixSum(PrefixSum(a, n), a, n)
<1> DEFINE Rec(s) == s = [i \in 0..n |-> IF i = 0 THEN 0 ELSE s[i - 1] + a[i]]
<1>1. PICK s : IsPrefixSum(s, a, n)
  BY PrefixSumExists
<1>2. Rec(s)
  BY <1>1 DEF IsPrefixSum
<1>3. Rec(PrefixSum(a, n))
  BY <1>2 DEF PrefixSum
<1> DEFINE p == PrefixSum(a, n)
<1>4. p = [i \in 0..n |-> IF i = 0 THEN 0 ELSE p[i - 1] + a[i]]
  BY <1>3
<1> HIDE DEF p
<1>5. p[0] = 0 /\ \A i \in 1..n : p[i] = p[i - 1] + a[i]
  BY <1>4
<1> DEFINE T == {k \in Nat : k <= n => p[k] \in Int}
<1>6. 0 \in T
  BY <1>5
<1>7. \A k \in Nat : k \in T => k + 1 \in T
  BY <1>5
<1> HIDE DEF T
<1>8. Nat \subseteq T
  BY <1>6, <1>7, SetInduction
<1>9. p \in [0..n -> Int]
  BY <1>4, <1>8 DEF T
<1> QED
  BY <1>5, <1>9 DEF IsPrefixSum, p

\* A sum of a[i] + k * b[i] is the sum of the a[i] plus k times the sum of the
\* b[i]: the churn price enters the solver's objective through the number of
\* changes alone.
LEMMA TotalLinear ==
  ASSUME NEW n \in Nat, NEW a, NEW b, NEW c, NEW k \in Int,
         \A i \in 1..n : a[i] \in Int,
         \A i \in 1..n : b[i] \in Int,
         \A i \in 1..n : c[i] = a[i] + k * b[i]
  PROVE  /\ Total(a, n) \in Int
         /\ Total(b, n) \in Int
         /\ Total(c, n) = Total(a, n) + k * Total(b, n)
<1> DEFINE A == PrefixSum(a, n)  B == PrefixSum(b, n)  C == PrefixSum(c, n)
<1>1. \A i \in 1..n : c[i] \in Int
  OBVIOUS
<1>2. IsPrefixSum(A, a, n) /\ IsPrefixSum(B, b, n) /\ IsPrefixSum(C, c, n)
  BY <1>1, PrefixSumIs
<1> HIDE DEF A, B, C
<1> DEFINE T == {j \in Nat : j <= n => C[j] = A[j] + k * B[j]}
<1>3. 0 \in T
  BY <1>2 DEF IsPrefixSum
<1>4. ASSUME NEW j \in Nat, j \in T PROVE j + 1 \in T
  <2>1. SUFFICES ASSUME j + 1 <= n PROVE C[j + 1] = A[j + 1] + k * B[j + 1]
    OBVIOUS
  <2>2. /\ C[j] = A[j] + k * B[j]
        /\ C[j + 1] = C[j] + c[j + 1]
        /\ A[j + 1] = A[j] + a[j + 1]
        /\ B[j + 1] = B[j] + b[j + 1]
        /\ c[j + 1] = a[j + 1] + k * b[j + 1]
        /\ A[j] \in Int /\ B[j] \in Int /\ a[j + 1] \in Int /\ b[j + 1] \in Int
    BY <1>4, <1>2, <2>1 DEF IsPrefixSum
  <2>3. k * (B[j] + b[j + 1]) = k * B[j] + k * b[j + 1]
    BY <2>2
  <2> QED BY <2>2, <2>3
<1> HIDE DEF T
<1>5. Nat \subseteq T
  BY <1>3, <1>4, SetInduction
<1>6. C[n] = A[n] + k * B[n] /\ A[n] \in Int /\ B[n] \in Int
  BY <1>5, <1>2 DEF T, IsPrefixSum
<1> QED
  BY <1>6 DEF A, B, C, Total

\* The sum of two lists added position by position.
LEMMA TotalPlus ==
  ASSUME NEW n \in Nat, NEW a, NEW b, NEW c,
         \A i \in 1..n : a[i] \in Int /\ b[i] \in Int /\ c[i] = a[i] + b[i]
  PROVE  /\ Total(a, n) \in Int
         /\ Total(b, n) \in Int
         /\ Total(c, n) = Total(a, n) + Total(b, n)
<1> DEFINE A == PrefixSum(a, n)  B == PrefixSum(b, n)  C == PrefixSum(c, n)
<1>1. IsPrefixSum(A, a, n) /\ IsPrefixSum(B, b, n) /\ IsPrefixSum(C, c, n)
  BY PrefixSumIs
<1> HIDE DEF A, B, C
<1> DEFINE T == {j \in Nat : j <= n => C[j] = A[j] + B[j]}
<1>2. 0 \in T
  BY <1>1 DEF IsPrefixSum
<1>3. ASSUME NEW j \in Nat, j \in T PROVE j + 1 \in T
  <2>1. SUFFICES ASSUME j + 1 <= n PROVE C[j + 1] = A[j + 1] + B[j + 1]
    OBVIOUS
  <2>2. /\ C[j] = A[j] + B[j]
        /\ C[j + 1] = C[j] + c[j + 1]
        /\ A[j + 1] = A[j] + a[j + 1]
        /\ B[j + 1] = B[j] + b[j + 1]
        /\ c[j + 1] = a[j + 1] + b[j + 1]
        /\ A[j] \in Int /\ B[j] \in Int /\ a[j + 1] \in Int /\ b[j + 1] \in Int
    BY <1>1, <1>3, <2>1 DEF IsPrefixSum
  <2> QED BY <2>2
<1> HIDE DEF T
<1>4. Nat \subseteq T
  BY <1>2, <1>3, SetInduction
<1>5. C[n] = A[n] + B[n] /\ A[n] \in Int /\ B[n] \in Int
  BY <1>1, <1>4 DEF T, IsPrefixSum
<1> QED
  BY <1>5 DEF A, B, C, Total

\* Sums of termwise smaller lists are smaller.
LEMMA TotalMonotone ==
  ASSUME NEW n \in Nat, NEW a, NEW b,
         \A i \in 1..n : a[i] \in Int /\ b[i] \in Int /\ a[i] <= b[i]
  PROVE  Total(a, n) <= Total(b, n)
<1> DEFINE A == PrefixSum(a, n)  B == PrefixSum(b, n)
<1>1. IsPrefixSum(A, a, n) /\ IsPrefixSum(B, b, n)
  BY PrefixSumIs
<1> HIDE DEF A, B
<1> DEFINE T == {j \in Nat : j <= n => A[j] <= B[j]}
<1>2. 0 \in T
  BY <1>1 DEF IsPrefixSum
<1>3. ASSUME NEW j \in Nat, j \in T PROVE j + 1 \in T
  <2>1. SUFFICES ASSUME j + 1 <= n PROVE A[j + 1] <= B[j + 1]
    OBVIOUS
  <2>2. /\ A[j] <= B[j] /\ a[j + 1] <= b[j + 1]
        /\ A[j + 1] = A[j] + a[j + 1] /\ B[j + 1] = B[j] + b[j + 1]
        /\ A[j] \in Int /\ B[j] \in Int /\ a[j + 1] \in Int /\ b[j + 1] \in Int
    BY <1>1, <1>3, <2>1 DEF IsPrefixSum
  <2> QED BY <2>2
<1> HIDE DEF T
<1>4. Nat \subseteq T
  BY <1>2, <1>3, SetInduction
<1> QED
  BY <1>4 DEF T, A, B, Total

\* A sum of zeros and ones counts the ones.
LEMMA TotalCounts ==
  ASSUME NEW n \in Nat, NEW S, NEW a, \A i \in 1..n : a[i] = IF i \in S THEN 1 ELSE 0
  PROVE  Total(a, n) = Cardinality({i \in 1..n : i \in S})
<1> DEFINE A == PrefixSum(a, n)
           Ones(j) == {i \in 1..j : i \in S}
           T == {j \in Nat : j <= n => IsFiniteSet(Ones(j)) /\ A[j] = Cardinality(Ones(j))}
<1>1. IsPrefixSum(A, a, n)
  BY PrefixSumIs
<1> HIDE DEF A
<1>2. 0 \in T
  <2>1. Ones(0) = {} /\ A[0] = 0
    BY <1>1 DEF IsPrefixSum
  <2> HIDE DEF Ones
  <2> QED BY <2>1, FS_EmptySet
<1>3. ASSUME NEW j \in Nat, j \in T PROVE j + 1 \in T
  <2> SUFFICES ASSUME j + 1 <= n
               PROVE  IsFiniteSet(Ones(j + 1)) /\ A[j + 1] = Cardinality(Ones(j + 1))
    OBVIOUS
  <2>1. IsFiniteSet(Ones(j)) /\ A[j] = Cardinality(Ones(j)) /\ A[j + 1] = A[j] + a[j + 1]
    BY <1>1, <1>3 DEF IsPrefixSum
  <2>2. CASE j + 1 \in S
    <3>1. Ones(j + 1) = Ones(j) \cup {j + 1} /\ j + 1 \notin Ones(j) /\ a[j + 1] = 1
      BY <2>2
    <3> HIDE DEF Ones
    <3> QED BY <2>1, <3>1, FS_AddElement
  <2>3. CASE j + 1 \notin S
    <3>1. Ones(j + 1) = Ones(j) /\ a[j + 1] = 0
      BY <2>3
    <3>2. Cardinality(Ones(j)) \in Nat
      BY <2>1, FS_CardinalityType
    <3> HIDE DEF Ones
    <3> QED BY <2>1, <3>1, <3>2
  <2> QED BY <2>2, <2>3
<1> HIDE DEF T
<1>4. Nat \subseteq T
  BY <1>2, <1>3, SetInduction
<1> QED
  BY <1>4 DEF T, A, Total

\* Two finite sets that share nothing.
LEMMA UnionApart ==
  ASSUME NEW S, IsFiniteSet(S), NEW T, IsFiniteSet(T), S \cap T = {}
  PROVE  /\ IsFiniteSet(S \cup T)
         /\ Cardinality(S \cup T) = Cardinality(S) + Cardinality(T)
<1>1. /\ IsFiniteSet(S \cup T)
      /\ Cardinality(S \cup T) = Cardinality(S) + Cardinality(T) - Cardinality(S \cap T)
  BY FS_Union
<1>2. Cardinality(S \cap T) = 0 /\ Cardinality(S) \in Nat /\ Cardinality(T) \in Nat
  BY FS_EmptySet, FS_CardinalityType
<1> QED BY <1>1, <1>2
=============================================================================
