-------------------------- MODULE ComputationProofs --------------------------
(***************************************************************************)
(* The features, and the rules on them, are what their definitions by days *)
(* say, for any ledger, day and history; and what the reference agents     *)
(* decide of any ledger and case passes the verifier at once.              *)
(*                                                                         *)
(* A sum or a sorted list is a fold, defined by CHOOSE: that it exists is  *)
(* proved by induction on the size of the set, and induction itself from   *)
(* well-founded orderings (WFMin), stated with a set of good values where  *)
(* a predicate would be an operator parameter.                             *)
(***************************************************************************)
EXTENDS FeatureVectors, ReferenceAgents, FiniteSetTheorems, FunctionTheorems, SequenceTheorems,
        TLAPS

(* Induction over the subsets of a finite set.                             *)
LEMMA SetInduction ==
    ASSUME NEW U, IsFiniteSet(U), NEW Good,
           \A S \in SUBSET U : (\A T \in SUBSET S : T # S => T \in Good) => S \in Good
    PROVE  \A S \in SUBSET U : S \in Good
<1> DEFINE Bad == (SUBSET U) \ Good
           R == StrictSubsetOrdering(U)
<1>1. IsWellFoundedOn(R, SUBSET U)
  BY FS_FiniteSubsetsOfFinite, FS_StrictSubsetOrderingWellFounded
<1>2. \A S \in Bad : S \in SUBSET U /\ S \notin Good
  OBVIOUS
<1>3. \A S \in SUBSET U : S \notin Good => S \in Bad
  OBVIOUS
<1> HIDE DEF Bad, R
<1>4. SUFFICES ASSUME Bad # {} PROVE FALSE
  BY <1>3
<1>5. \E S \in Bad : \A T \in Bad : ~ (<<T, S>> \in R)
  BY <1>1, <1>2, <1>4, WFMin
<1>6. PICK S \in Bad : \A T \in Bad : ~ (<<T, S>> \in R)
  BY <1>5
<1>7. ASSUME NEW T \in SUBSET S, T # S PROVE T \in Good
  <2>1. T \in SUBSET U /\ S \in SUBSET U
    BY <1>2
  <2>2. <<T, S>> \in R
    BY <1>7, <2>1 DEF StrictSubsetOrdering, R
  <2>3. QED BY <1>3, <1>6, <2>1, <2>2
<1>8. QED BY <1>2, <1>6, <1>7

(* A set of natural numbers has a least one.                               *)
LEMMA Least ==
    ASSUME NEW T \in SUBSET Nat, T # {}
    PROVE  \E m \in T : \A n \in T : m <= n
<1> DEFINE R == OpToRel(<, Nat)
<1>1. IsWellFoundedOn(R, Nat)
  BY NatLessThanWellFounded
<1>2. \A m, n \in Nat : m < n => <<m, n>> \in R
  BY DEF OpToRel
<1> HIDE DEF R
<1>3. \E m \in T : \A n \in T : ~ (<<n, m>> \in R)
  BY <1>1, WFMin
<1>4. PICK m \in T : \A n \in T : ~ (<<n, m>> \in R)
  BY <1>3
<1>5. ASSUME NEW n \in T PROVE m <= n
  <2>1. m \in Nat /\ n \in Nat /\ ~ (<<n, m>> \in R)
    BY <1>4
  <2>2. ~ (n < m)
    BY <1>2, <2>1
  <2>3. QED BY <2>1, <2>2
<1>6. QED BY <1>5

(* Induction over the natural numbers.                                     *)
LEMMA Induction ==
    ASSUME NEW Good, 0 \in Good, \A n \in Nat : n \in Good => n + 1 \in Good
    PROVE  \A n \in Nat : n \in Good
<1> DEFINE Bad == {n \in Nat : n \notin Good}
<1>1. SUFFICES ASSUME Bad # {} PROVE FALSE
  OBVIOUS
<1>2. PICK m \in Bad : \A n \in Bad : m <= n
  BY <1>1, Least
<1>3. m \in Nat /\ m \notin Good /\ m # 0
  OBVIOUS
<1>4. m - 1 \in Nat /\ ~ (m <= m - 1) /\ (m - 1) + 1 = m
  BY <1>3
<1>5. m - 1 \in Good
  BY <1>2, <1>4
<1>6. QED BY <1>3, <1>4, <1>5

(* The element of a set that a fold takes first.                           *)
Taken(s) == CHOOSE x \in s : TRUE

(* F takes a fold over U one element further; g is the fold of each subset.  *)
IsStep(F, base, U, V) == base \in V /\ F \in [U \X V -> V]

IsFold(g, F, base, U, V) ==
    /\ g \in [SUBSET U -> V]
    /\ \A s \in SUBSET U :
          g[s] = IF s = {} THEN base ELSE F[<<Taken(s), g[s \ {Taken(s)}]>>]

(* A fold has a value at every subset of a finite set.                     *)
LEMMA Foldable ==
    ASSUME NEW U, NEW V, NEW base, NEW F, IsFiniteSet(U), IsStep(F, base, U, V)
    PROVE  \E g : IsFold(g, F, base, U, V)
<1> USE DEF IsStep
<1> DEFINE Functions == [SUBSET U -> V]
           Body(g, s) == IF s = {} THEN base ELSE F[<<Taken(s), g[s \ {Taken(s)}]>>]
           Size(s) == Cardinality(s)
<1>1. ASSUME NEW s \in SUBSET U
      PROVE  /\ Size(s) \in Nat
             /\ Size(s) = 0 <=> s = {}
             /\ \A x \in s : Size(s \ {x}) = Size(s) - 1
  BY FS_Subset, FS_EmptySet, FS_RemoveElement, FS_CardinalityType
<1>2. ASSUME NEW g \in Functions, NEW s \in SUBSET U PROVE Body(g, s) \in V
  <2>1. CASE s = {}
    BY <2>1
  <2>2. CASE s # {}
    <3>1. PICK x \in s : x = Taken(s)
      BY <2>2 DEF Taken
    <3>2. x \in U /\ s \ {x} \in SUBSET U
      OBVIOUS
    <3>3. g[s \ {x}] \in V
      BY <3>2
    <3>4. F[<<x, g[s \ {x}]>>] \in V
      BY <3>2, <3>3
    <3>5. Body(g, s) = F[<<x, g[s \ {x}]>>]
      BY <2>2, <3>1
    <3>6. QED BY <3>4, <3>5
  <2>3. QED BY <2>1, <2>2
<1>3. ASSUME NEW g \in Functions, NEW h \in Functions, NEW s \in SUBSET U,
             \A r \in SUBSET U : Size(r) < Size(s) => g[r] = h[r]
      PROVE  Body(g, s) = Body(h, s)
  <2>1. CASE s = {}
    BY <2>1
  <2>2. CASE s # {}
    <3>1. PICK x \in s : x = Taken(s)
      BY <2>2 DEF Taken
    <3>2. s \ {x} \in SUBSET U /\ Size(s \ {x}) < Size(s)
      BY <1>1
    <3>3. g[s \ {x}] = h[s \ {x}]
      BY <1>3, <3>2
    <3>4. Body(g, s) = F[<<x, g[s \ {x}]>>] /\ Body(h, s) = F[<<x, h[s \ {x}]>>]
      BY <2>2, <3>1
    <3>5. QED BY <3>3, <3>4
  <2>3. QED BY <2>1, <2>2
<1> HIDE DEF Body, Size
<1> DEFINE Good == {n \in Nat : \E g \in Functions :
                       \A s \in SUBSET U : Size(s) < n => g[s] = Body(g, s)}
<1>4. 0 \in Good
  <2>1. [s \in SUBSET U |-> base] \in Functions
    OBVIOUS
  <2>2. \A s \in SUBSET U : ~ (Size(s) < 0)
    BY <1>1
  <2>3. QED BY <2>1, <2>2
<1>5. ASSUME NEW n \in Nat, n \in Good PROVE n + 1 \in Good
  <2>1. PICK g \in Functions : \A s \in SUBSET U : Size(s) < n => g[s] = Body(g, s)
    BY <1>5
  <2> DEFINE h == [s \in SUBSET U |-> Body(g, s)]
  <2>2. h \in Functions
    BY <1>2
  <2>3. ASSUME NEW s \in SUBSET U, Size(s) < n + 1 PROVE h[s] = Body(h, s)
    <3>1. ASSUME NEW r \in SUBSET U, Size(r) < Size(s) PROVE g[r] = h[r]
      <4>1. Size(r) < n
        BY <1>1, <2>3, <3>1
      <4>2. QED BY <2>1, <4>1
    <3>2. Body(g, s) = Body(h, s)
      BY <1>3, <2>2, <3>1
    <3>3. QED BY <3>2
  <2> HIDE DEF h
  <2>4. \E f \in Functions : \A s \in SUBSET U : Size(s) < n + 1 => f[s] = Body(f, s)
    BY <2>2, <2>3
  <2>5. QED BY <2>4
<1>6. Size(U) + 1 \in Good
  <2> HIDE DEF Good
  <2>1. \A n \in Nat : n \in Good
    BY <1>4, <1>5, Induction
  <2>2. Size(U) + 1 \in Nat
    BY <1>1
  <2>3. QED BY <2>1, <2>2
<1>7. PICK g \in Functions : \A s \in SUBSET U : Size(s) < Size(U) + 1 => g[s] = Body(g, s)
  BY <1>6
<1>8. ASSUME NEW s \in SUBSET U PROVE Size(s) < Size(U) + 1
  BY FS_Subset, <1>1 DEF Size
<1>9. \A s \in SUBSET U : g[s] = Body(g, s)
  BY <1>7, <1>8
<1>10. QED BY <1>9 DEF Body, IsFold

(* The sum of a fold is an integer.                                        *)
LEMMA SumType ==
    ASSUME NEW ts, IsFiniteSet(ts), \A t \in ts : t.amount \in Int
    PROVE  SumOf(ts) \in Int
<1> DEFINE F == [p \in ts \X Int |-> p[1].amount + p[2]]
           Body(g, s) == IF s = {} THEN 0 ELSE Taken(s).amount + g[s \ {Taken(s)}]
           IsSum(g) == g = [s \in SUBSET ts |-> Body(g, s)]
           sum == CHOOSE g : IsSum(g)
           zero == 0
<1>1. SumOf(ts) = sum[ts]
  BY DEF SumOf, MapThenSumSet, MapThenFoldSet, Taken
<1>2. F \in [ts \X Int -> Int] /\ zero \in Int
  OBVIOUS
<1> HIDE DEF F, zero
<1>3. PICK g : IsFold(g, F, zero, ts, Int)
  <2>1. IsStep(F, zero, ts, Int)
    BY <1>2 DEF IsStep
  <2>2. QED BY <2>1, Foldable
<1>4. ASSUME NEW s \in SUBSET ts PROVE g[s] = Body(g, s)
  <2>1. CASE s = {}
    BY <1>3, <2>1 DEF zero, IsFold
  <2>2. CASE s # {}
    <3>1. PICK x \in s : x = Taken(s)
      BY <2>2 DEF Taken
    <3>2. x \in ts /\ g[s \ {x}] \in Int
      BY <1>3 DEF IsFold
    <3>3. F[<<x, g[s \ {x}]>>] = x.amount + g[s \ {x}]
      BY <3>2 DEF F
    <3>4. QED BY <1>3, <2>2, <3>1, <3>3 DEF IsFold
  <2>3. QED BY <2>1, <2>2
<1>5. IsSum(g)
  BY <1>3, <1>4 DEF IsFold
<1>6. IsSum(sum)
  BY <1>5
<1> HIDE DEF sum
<1>7. \A s \in SUBSET ts : sum[s] = Body(sum, s)
  BY <1>6
<1> DEFINE Good == {s \in SUBSET ts : sum[s] \in Int}
<1>8. ASSUME NEW s \in SUBSET ts, \A r \in SUBSET s : r # s => r \in Good
      PROVE  s \in Good
  <2>1. CASE s = {}
    <3>1. sum[s] = 0
      BY <1>7, <2>1
    <3>2. QED BY <3>1
  <2>2. CASE s # {}
    <3>1. PICK x \in s : x = Taken(s)
      BY <2>2 DEF Taken
    <3>2. sum[s \ {x}] \in Int
      BY <1>8
    <3>3. sum[s] = x.amount + sum[s \ {x}]
      BY <1>7, <2>2, <3>1
    <3>4. QED BY <3>2, <3>3
  <2>3. QED BY <2>1, <2>2
<1>9. \A s \in SUBSET ts : s \in Good
  <2> HIDE DEF Good
  <2>1. QED BY <1>8, SetInduction
<1>10. QED BY <1>1, <1>9
-----------------------------------------------------------------------------
(* A set of positions with all that come before them is 1 to its size.     *)
LEMMA Prefix ==
    ASSUME NEW n \in Nat, NEW D \in SUBSET (1..n), \A i \in D : \A j \in 1..i : j \in D
    PROVE  Cardinality(D) \in 0..n /\ D = 1..Cardinality(D)
<1> DEFINE Bounds == {m \in Nat : \A i \in D : i <= m}
<1>1. Bounds # {} /\ Bounds \in SUBSET Nat
  <2>1. n \in Bounds
    OBVIOUS
  <2>2. QED BY <2>1
<1>2. PICK m \in Bounds : \A k \in Bounds : m <= k
  <2> HIDE DEF Bounds
  <2>1. QED BY <1>1, Least
<1>3. m \in Nat /\ D \subseteq 1..m
  OBVIOUS
<1>4. m # 0 => m \in D
  <2>1. SUFFICES ASSUME m # 0, m \notin D PROVE FALSE
    OBVIOUS
  <2>2. m - 1 \in Nat /\ \A i \in D : i <= m - 1
    BY <1>3, <2>1
  <2>3. m <= m - 1
    BY <1>2, <2>2
  <2>4. QED BY <1>3, <2>3
<1>5. D = 1..m
  <2>1. ASSUME NEW i \in 1..m PROVE i \in D
    <3>1. m \in D /\ i \in 1..m
      BY <1>3, <1>4
    <3>2. QED BY <3>1
  <2>2. QED BY <1>3, <2>1
<1>6. m <= n
  BY <1>1, <1>2
<1>7. Cardinality(1..m) = m
  BY <1>3, FS_Interval
<1>8. QED BY <1>3, <1>5, <1>6, <1>7

Dated(ts) == \A t \in ts : t.day \in Int

(* The columns of ts: all of it, each once, sorted by day.                 *)
IsColumns(arr, ts) ==
    /\ arr \in Seq(ts)
    /\ \A t \in ts : \E i \in 1..Len(arr) : arr[i] = t
    /\ \A i, j \in 1..Len(arr) : arr[i] = arr[j] => i = j
    /\ \A i, j \in 1..Len(arr) : i < j => arr[i].day <= arr[j].day

(* Where np.searchsorted cuts sorted columns.                              *)
LEMMA Positions ==
    ASSUME NEW ts, Dated(ts), NEW arr, IsColumns(arr, ts), NEW d \in Int
    PROVE  /\ Left(arr, d) \in 0..Len(arr) /\ Right(arr, d) \in 0..Len(arr)
           /\ \A i \in 1..Len(arr) : /\ arr[i].day < d <=> i <= Left(arr, d)
                                     /\ arr[i].day <= d <=> i <= Right(arr, d)
<1>1. Len(arr) \in Nat /\ \A i \in 1..Len(arr) : arr[i] \in ts /\ arr[i].day \in Int
  <2>1. arr \in Seq(ts)
    BY DEF IsColumns
  <2>2. Len(arr) \in Nat /\ \A i \in 1..Len(arr) : arr[i] \in ts
    BY <2>1, LenProperties, ElementOfSeq
  <2>3. QED BY <2>2 DEF Dated
<1>2. \A i, j \in 1..Len(arr) : i < j => arr[i].day <= arr[j].day
  BY DEF IsColumns
<1> DEFINE before == {i \in 1..Len(arr) : arr[i].day < d}
           upTo == {i \in 1..Len(arr) : arr[i].day <= d}
<1>3. /\ before \in SUBSET (1..Len(arr)) /\ \A i \in before : \A j \in 1..i : j \in before
      /\ upTo \in SUBSET (1..Len(arr)) /\ \A i \in upTo : \A j \in 1..i : j \in upTo
  <2>1. ASSUME NEW i \in 1..Len(arr), NEW j \in 1..i
        PROVE  j \in 1..Len(arr) /\ arr[j].day <= arr[i].day
    BY <1>1, <1>2
  <2>2. QED BY <1>1, <2>1
<1>4. /\ Cardinality(before) \in 0..Len(arr) /\ before = 1..Cardinality(before)
      /\ Cardinality(upTo) \in 0..Len(arr) /\ upTo = 1..Cardinality(upTo)
  <2> HIDE DEF before, upTo
  <2>1. QED BY <1>1, <1>3, Prefix
<1>5. Left(arr, d) = Cardinality(before) /\ Right(arr, d) = Cardinality(upTo)
  BY DEF Left, Right
<1>6. \A i \in 1..Len(arr) : (i \in before <=> arr[i].day < d) /\ (i \in upTo <=> arr[i].day <= d)
  OBVIOUS
<1> HIDE DEF before, upTo
<1>7. ASSUME NEW i \in 1..Len(arr)
      PROVE  /\ i \in before <=> i <= Cardinality(before)
             /\ i \in upTo <=> i <= Cardinality(upTo)
  BY <1>1, <1>4
<1>8. QED BY <1>4, <1>5, <1>6, <1>7

LEMMA InsertedKeepsColumns ==
    ASSUME NEW s, NEW t, Dated(s \cup {t}), t \notin s, NEW arr, IsColumns(arr, s)
    PROVE  IsColumns(Inserted(t, arr), s \cup {t})
<1> DEFINE n == Right(arr, t.day)
           N == Len(arr)
           new == Inserted(t, arr)
           S == s \cup {t}
<1>1. Dated(s) /\ t.day \in Int
  BY DEF Dated
<1>2. /\ arr \in Seq(s) /\ N \in Nat
      /\ \A i \in 1..N : arr[i] \in s /\ arr[i].day \in Int /\ arr[i] # t
  <2>1. arr \in Seq(s)
    BY DEF IsColumns
  <2>2. N \in Nat /\ \A i \in 1..N : arr[i] \in s
    BY <2>1, LenProperties, ElementOfSeq
  <2>3. QED BY <1>1, <2>1, <2>2 DEF Dated
<1>3. n \in 0..N /\ \A i \in 1..N : arr[i].day <= t.day <=> i <= n
  BY <1>1, Positions
<1> HIDE DEF n, N
<1>4. /\ new \in Seq(S) /\ Len(new) = N + 1
      /\ \A i \in 1..(N + 1) : new[i] = IF i <= n THEN arr[i] ELSE IF i = n + 1 THEN t ELSE arr[i - 1]
  <2> DEFINE p == SubSeq(arr, 1, n)
             q == SubSeq(arr, n + 1, N)
             a == Append(p, t)
  <2>1. n \in Int /\ N \in Int /\ n + 1 \in Int
    BY <1>2, <1>3
  <2>2. /\ \A i \in 1..n : arr[i] \in S
        /\ \A i \in (n + 1)..N : arr[i] \in S
    BY <1>2, <1>3
  <2>3. p \in Seq(S) /\ Len(p) = n /\ \A i \in 1..n : p[i] = arr[i]
    <3>1. /\ p \in Seq(S) /\ Len(p) = IF 1 <= n THEN n - 1 + 1 ELSE 0
          /\ \A i \in 1..(n - 1 + 1) : p[i] = arr[1 + i - 1]
      BY <2>1, <2>2, SubSeqProperties
    <3>2. QED BY <1>3, <2>1, <3>1
  <2>4. q \in Seq(S) /\ Len(q) = N - n /\ \A i \in 1..(N - n) : q[i] = arr[n + i]
    <3>1. /\ q \in Seq(S) /\ Len(q) = IF n + 1 <= N THEN N - (n + 1) + 1 ELSE 0
          /\ \A i \in 1..(N - (n + 1) + 1) : q[i] = arr[(n + 1) + i - 1]
      BY <2>1, <2>2, SubSeqProperties
    <3> HIDE DEF q
    <3>2. Len(q) = N - n
      BY <1>3, <2>1, <3>1
    <3>3. ASSUME NEW i \in 1..(N - n) PROVE q[i] = arr[n + i]
      <4>1. i \in 1..(N - (n + 1) + 1) /\ (n + 1) + i - 1 = n + i
        BY <2>1
      <4>2. QED BY <3>1, <4>1
    <3>4. QED BY <3>1, <3>2, <3>3
  <2> HIDE DEF p, q
  <2>5. /\ a \in Seq(S) /\ Len(a) = n + 1 /\ \A i \in 1..n : a[i] = arr[i]
        /\ a[n + 1] = t
    BY <2>3, AppendProperties
  <2> HIDE DEF a
  <2>6. /\ a \o q \in Seq(S) /\ Len(a \o q) = Len(a) + Len(q)
        /\ \A i \in 1..(Len(a) + Len(q)) : (a \o q)[i] = IF i <= Len(a) THEN a[i] ELSE q[i - Len(a)]
    BY <2>4, <2>5, ConcatProperties
  <2>7. new = a \o q
    BY DEF Inserted, n, N, a, p, q
  <2>8. ASSUME NEW i \in 1..(N + 1)
        PROVE  new[i] = IF i <= n THEN arr[i] ELSE IF i = n + 1 THEN t ELSE arr[i - 1]
    <3>1. new[i] = IF i <= n + 1 THEN a[i] ELSE q[i - (n + 1)]
      <4>1. Len(a) = n + 1 /\ Len(a) + Len(q) = N + 1
        BY <2>1, <2>4, <2>5
      <4>2. QED BY <2>6, <2>7, <4>1
    <3>2. CASE i > n + 1
      <4>1. i - (n + 1) \in 1..(N - n) /\ n + (i - (n + 1)) = i - 1
        BY <1>3, <2>1, <3>2
      <4>2. q[i - (n + 1)] = arr[i - 1]
        BY <2>4, <4>1
      <4>3. QED BY <2>1, <3>1, <3>2, <4>2
    <3>3. CASE i <= n + 1
      BY <1>3, <2>1, <2>5, <3>1, <3>3
    <3>4. QED BY <2>1, <3>2, <3>3
  <2>9. Len(a) + Len(q) = N + 1
    BY <2>1, <2>4, <2>5
  <2> HIDE DEF new
  <2>10. QED BY <2>6, <2>7, <2>8, <2>9
<1> HIDE DEF new
<1>5. ASSUME NEW u \in S PROVE \E i \in 1..(N + 1) : new[i] = u
  <2>1. CASE u = t
    <3>1. n + 1 \in 1..(N + 1) /\ new[n + 1] = t
      BY <1>2, <1>3, <1>4
    <3>2. QED BY <2>1, <3>1
  <2>2. CASE u \in s
    <3>1. PICK i \in 1..N : arr[i] = u
      BY <2>2 DEF IsColumns, N
    <3>2. CASE i <= n
      <4>1. i \in 1..(N + 1) /\ new[i] = u
        BY <1>2, <1>3, <1>4, <3>1, <3>2
      <4>2. QED BY <4>1
    <3>3. CASE i > n
      <4>1. i + 1 \in 1..(N + 1) /\ ~ (i + 1 <= n) /\ i + 1 # n + 1 /\ (i + 1) - 1 = i
        BY <1>2, <1>3, <3>3
      <4>2. new[i + 1] = u
        BY <1>4, <3>1, <4>1
      <4>3. QED BY <4>1, <4>2
    <3>4. QED BY <1>2, <1>3, <3>2, <3>3
  <2>3. QED BY <2>1, <2>2
(* The place in arr of what stands at i.                                   *)
<1> DEFINE old(i) == IF i <= n THEN i ELSE i - 1
<1>6. ASSUME NEW i \in 1..(N + 1), i # n + 1
      PROVE  old(i) \in 1..N /\ new[i] = arr[old(i)] /\ (old(i) <= n <=> i <= n)
  BY <1>2, <1>3, <1>4, <1>6
<1>7. new[n + 1] = t
  BY <1>2, <1>3, <1>4
<1>8. ASSUME NEW i \in 1..(N + 1), NEW j \in 1..(N + 1), new[i] = new[j] PROVE i = j
  <2>1. CASE i # n + 1 /\ j # n + 1
    <3>1. old(i) = old(j)
      BY <1>6, <1>8, <2>1 DEF IsColumns, N
    <3>2. QED BY <1>2, <1>3, <2>1, <3>1
  <2>2. CASE i = n + 1 /\ j # n + 1
    BY <1>2, <1>6, <1>7, <1>8, <2>2
  <2>3. CASE i # n + 1 /\ j = n + 1
    BY <1>2, <1>6, <1>7, <1>8, <2>3
  <2>4. QED BY <2>1, <2>2, <2>3
<1>9. ASSUME NEW i \in 1..(N + 1), NEW j \in 1..(N + 1), i < j PROVE new[i].day <= new[j].day
  <2>1. CASE i # n + 1 /\ j # n + 1
    <3>1. old(i) < old(j)
      BY <1>2, <1>3, <1>9, <2>1
    <3>2. old(i) \in 1..N /\ old(j) \in 1..N
      BY <1>6, <2>1
    <3>3. arr[old(i)].day <= arr[old(j)].day
      BY <3>1, <3>2 DEF IsColumns, N
    <3>4. QED BY <1>6, <2>1, <3>3
  <2>2. CASE i = n + 1
    <3>1. old(j) \in 1..N /\ new[j] = arr[old(j)] /\ ~ (old(j) <= n)
      BY <1>2, <1>3, <1>6, <1>9, <2>2
    <3>2. arr[old(j)].day \in Int /\ ~ (arr[old(j)].day <= t.day)
      BY <1>2, <1>3, <3>1
    <3>3. QED BY <1>1, <1>7, <2>2, <3>1, <3>2
  <2>3. CASE j = n + 1
    <3>1. i # n + 1 /\ i <= n
      BY <1>2, <1>3, <1>9, <2>3
    <3>2. old(i) \in 1..N /\ new[i] = arr[old(i)] /\ old(i) <= n
      BY <1>6, <3>1
    <3>3. arr[old(i)].day <= t.day
      BY <1>3, <3>2
    <3>4. QED BY <1>7, <2>3, <3>2, <3>3
  <2>4. QED BY <2>1, <2>2, <2>3
<1>10. QED BY <1>4, <1>5, <1>8, <1>9 DEF IsColumns, new
-----------------------------------------------------------------------------
LEMMA InsertedType ==
    ASSUME NEW S, NEW t \in S, NEW arr \in Seq(S)
    PROVE  Inserted(t, arr) \in Seq(S)
<1> DEFINE D == {i \in 1..Len(arr) : arr[i].day <= t.day}
           n == Cardinality(D)
<1>1. Len(arr) \in Nat /\ \A i \in 1..Len(arr) : arr[i] \in S
  BY LenProperties, ElementOfSeq
<1>2. n \in Nat /\ n <= Len(arr)
  <2>1. D \in SUBSET (1..Len(arr))
    OBVIOUS
  <2>2. IsFiniteSet(1..Len(arr)) /\ Cardinality(1..Len(arr)) = Len(arr)
    <3>1. \A k \in Nat : IsFiniteSet(1..k) /\ Cardinality(1..k) = k
      BY FS_Interval
    <3>2. QED BY <1>1, <3>1
  <2>3. QED BY <2>1, <2>2, FS_Subset, FS_CardinalityType
<1>3. n = Right(arr, t.day)
  BY DEF Right
<1> HIDE DEF n
<1>4. /\ \A i \in 1..n : arr[i] \in S
      /\ \A i \in (n + 1)..Len(arr) : arr[i] \in S
      /\ n \in Int /\ n + 1 \in Int /\ Len(arr) \in Int
  BY <1>1, <1>2
<1>5. SubSeq(arr, 1, n) \in Seq(S) /\ SubSeq(arr, n + 1, Len(arr)) \in Seq(S)
  BY <1>4, SubSeqProperties
<1>6. Append(SubSeq(arr, 1, n), t) \in Seq(S)
  BY <1>5, AppendProperties
<1>7. Append(SubSeq(arr, 1, n), t) \o SubSeq(arr, n + 1, Len(arr)) \in Seq(S)
  BY <1>5, <1>6, ConcatProperties
<1>8. QED BY <1>3, <1>7 DEF Inserted

(* CustomerArrays.from_frame sorts.                                        *)
LEMMA ArraysAreColumns ==
    ASSUME NEW ts, IsFiniteSet(ts), Dated(ts)
    PROVE  IsColumns(Arrays(ts), ts)
<1> DEFINE F == [p \in ts \X Seq(ts) |-> Inserted(p[1], p[2])]
           Body(g, s) == IF s = {} THEN <<>> ELSE Inserted(Taken(s), g[s \ {Taken(s)}])
           Folds(g) == g = [s \in SUBSET ts |-> Body(g, s)]
           sorted == CHOOSE g : Folds(g)
           none == <<>>
<1>1. Arrays(ts) = sorted[ts]
  BY DEF Arrays, FoldSet, MapThenFoldSet, Taken
<1>2. F \in [ts \X Seq(ts) -> Seq(ts)] /\ none \in Seq(ts)
  BY InsertedType
<1> HIDE DEF F
<1>3. PICK g : IsFold(g, F, none, ts, Seq(ts))
  <2>1. IsStep(F, none, ts, Seq(ts))
    BY <1>2 DEF IsStep
  <2> HIDE DEF none
  <2>2. QED BY <2>1, Foldable
<1>4. ASSUME NEW s \in SUBSET ts PROVE g[s] = Body(g, s)
  <2>1. CASE s = {}
    BY <1>3, <2>1 DEF IsFold
  <2>2. CASE s # {}
    <3>1. PICK x \in s : x = Taken(s)
      BY <2>2 DEF Taken
    <3>2. x \in ts /\ s \ {x} \in SUBSET ts
      OBVIOUS
    <3>3. g[s \ {x}] \in Seq(ts)
      BY <1>3, <3>2 DEF IsFold
    <3>4. <<x, g[s \ {x}]>> \in ts \X Seq(ts)
      BY <3>2, <3>3
    <3>5. F[<<x, g[s \ {x}]>>] = Inserted(x, g[s \ {x}])
      BY <3>4 DEF F
    <3>6. QED BY <1>3, <2>2, <3>1, <3>5 DEF IsFold
  <2>3. QED BY <2>1, <2>2
<1>5. Folds(g)
  BY <1>3, <1>4 DEF IsFold
<1>6. Folds(sorted)
  BY <1>5
<1> HIDE DEF sorted
<1>7. \A s \in SUBSET ts : sorted[s] = Body(sorted, s)
  BY <1>6
<1> DEFINE Good == {s \in SUBSET ts : IsColumns(sorted[s], s)}
<1>8. ASSUME NEW s \in SUBSET ts, \A r \in SUBSET s : r # s => r \in Good
      PROVE  s \in Good
  <2>1. CASE s = {}
    <3>1. sorted[s] = <<>>
      BY <1>7, <2>1
    <3>2. <<>> \in Seq(s) /\ Len(<<>>) = 0
      BY EmptySeq
    <3>3. IsColumns(<<>>, {})
      BY <2>1, <3>2 DEF IsColumns
    <3>4. QED BY <2>1, <3>1, <3>3
  <2>2. CASE s # {}
    <3>1. PICK x \in s : x = Taken(s)
      BY <2>2 DEF Taken
    <3> DEFINE rest == s \ {x}
    <3>2. rest \in SUBSET s /\ rest # s /\ x \notin rest /\ s = rest \cup {x}
      OBVIOUS
    <3>3. IsColumns(sorted[rest], rest)
      BY <1>8, <3>2
    <3>4. Dated(rest \cup {x})
      BY <3>2 DEF Dated
    <3>5. sorted[s] = Inserted(x, sorted[rest])
      BY <1>7, <2>2, <3>1
    <3> HIDE DEF rest
    <3>6. IsColumns(Inserted(x, sorted[rest]), rest \cup {x})
      BY <3>2, <3>3, <3>4, InsertedKeepsColumns
    <3>7. QED BY <3>2, <3>5, <3>6
  <2>3. QED BY <2>1, <2>2
<1>9. \A s \in SUBSET ts : s \in Good
  <2> HIDE DEF Good
  <2>1. QED BY <1>8, SetInduction
<1>10. QED BY <1>1, <1>9

(* What lies between two positions.                                        *)
LEMMA SliceSize ==
    ASSUME NEW ts, NEW arr, IsColumns(arr, ts),
           NEW a \in 0..Len(arr), NEW b \in 0..Len(arr), a <= b
    PROVE  Cardinality(Slice(arr, a, b)) = b - a
<1>1. Len(arr) \in Nat /\ a \in Nat /\ b \in Nat
  BY LenProperties DEF IsColumns
<1> DEFINE I == (a + 1)..b
           f == [i \in I |-> arr[i]]
<1>2. I \subseteq 1..Len(arr)
  BY <1>1
<1>3. IsFiniteSet(I) /\ Cardinality(I) = b - a
  <2>1. ASSUME NEW k \in Int, NEW n \in Int, k <= n + 1
        PROVE  IsFiniteSet(k..n) /\ Cardinality(k..n) = (n + 1) - k
    BY <2>1, FS_Interval
  <2>2. a + 1 \in Int /\ b \in Int /\ a + 1 <= b + 1 /\ (b + 1) - (a + 1) = b - a
    BY <1>1
  <2>3. QED BY <2>1, <2>2
<1>4. Slice(arr, a, b) = {arr[i] : i \in I}
  BY DEF Slice
<1>5. f \in [I -> Slice(arr, a, b)]
  BY <1>4
<1>6. \A i, j \in I : f[i] = f[j] => i = j
  BY <1>2 DEF IsColumns
<1>7. \A t \in Slice(arr, a, b) : \E i \in I : f[i] = t
  BY <1>4
<1> HIDE DEF f, I
<1>8. f \in Bijection(I, Slice(arr, a, b))
  BY <1>5, <1>6, <1>7, Fun_IsBij
<1>9. ExistsBijection(I, Slice(arr, a, b))
  BY <1>8, Fun_ExistsBij
<1>10. QED BY <1>3, <1>9, FS_Bijection

(* Up to the day e, and before it.                                         *)
Between(ts, d, e) == {t \in ts : d <= t.day /\ t.day <= e}
EarlierThan(ts, d, e) == {t \in ts : d <= t.day /\ t.day < e}

(* The transactions on the days of an interval are those between two       *)
(* positions, and so many as the positions are apart.                      *)
LEMMA SliceIsWindow ==
    ASSUME NEW ts, IsFiniteSet(ts), Dated(ts), NEW arr, IsColumns(arr, ts),
           NEW d \in Int, NEW e \in Int
    PROVE  /\ Slice(arr, Left(arr, d), Right(arr, e)) = Between(ts, d, e)
           /\ d <= e => /\ Left(arr, d) <= Right(arr, e)
                        /\ Cardinality(Between(ts, d, e)) = Right(arr, e) - Left(arr, d)
                        /\ Left(arr, d) <= Left(arr, e)
                        /\ Cardinality(EarlierThan(ts, d, e)) = Left(arr, e) - Left(arr, d)
<1> DEFINE l == Left(arr, d)
           m == Left(arr, e)
           r == Right(arr, e)
<1>1. Len(arr) \in Nat /\ \A i \in 1..Len(arr) : arr[i] \in ts /\ arr[i].day \in Int
  <2>1. arr \in Seq(ts)
    BY DEF IsColumns
  <2>2. Len(arr) \in Nat /\ \A i \in 1..Len(arr) : arr[i] \in ts
    BY <2>1, LenProperties, ElementOfSeq
  <2>3. QED BY <2>2 DEF Dated
<1>2. /\ l \in 0..Len(arr) /\ m \in 0..Len(arr) /\ r \in 0..Len(arr)
      /\ \A i \in 1..Len(arr) : /\ arr[i].day < d <=> i <= l
                                /\ arr[i].day < e <=> i <= m
                                /\ arr[i].day <= e <=> i <= r
  BY Positions
<1> HIDE DEF l, m, r
<1>3. \A t \in ts : t.day \in Int /\ \E i \in 1..Len(arr) : arr[i] = t
  BY DEF IsColumns, Dated
<1>4. Slice(arr, l, r) = Between(ts, d, e)
  <2>1. ASSUME NEW i \in (l + 1)..r PROVE arr[i] \in ts /\ d <= arr[i].day /\ arr[i].day <= e
    <3>1. i \in 1..Len(arr) /\ ~ (i <= l) /\ i <= r
      BY <1>1, <1>2
    <3>2. QED BY <1>1, <1>2, <3>1
  <2>2. ASSUME NEW t \in ts, d <= t.day, t.day <= e PROVE \E i \in (l + 1)..r : arr[i] = t
    <3>1. PICK i \in 1..Len(arr) : arr[i] = t
      BY <1>3
    <3>2. ~ (i <= l) /\ i <= r
      BY <1>2, <1>3, <2>2, <3>1
    <3>3. i \in (l + 1)..r
      BY <1>1, <1>2, <3>2
    <3>4. QED BY <3>1, <3>3
  <2>3. QED BY <2>1, <2>2 DEF Slice, Between, EarlierThan
<1>5. Slice(arr, l, m) = EarlierThan(ts, d, e)
  <2>1. ASSUME NEW i \in (l + 1)..m PROVE arr[i] \in ts /\ d <= arr[i].day /\ arr[i].day < e
    <3>1. i \in 1..Len(arr) /\ ~ (i <= l) /\ i <= m
      BY <1>1, <1>2
    <3>2. QED BY <1>1, <1>2, <3>1
  <2>2. ASSUME NEW t \in ts, d <= t.day, t.day < e PROVE \E i \in (l + 1)..m : arr[i] = t
    <3>1. PICK i \in 1..Len(arr) : arr[i] = t
      BY <1>3
    <3>2. ~ (i <= l) /\ i <= m
      BY <1>2, <1>3, <2>2, <3>1
    <3>3. i \in (l + 1)..m
      BY <1>1, <1>2, <3>2
    <3>4. QED BY <3>1, <3>3
  <2>3. QED BY <2>1, <2>2 DEF Slice, Between, EarlierThan
<1>6. ASSUME d <= e PROVE l <= r /\ l <= m
  <2>1. CASE l = 0
    BY <1>2, <2>1
  <2>2. CASE l # 0
    <3>1. l \in 1..Len(arr) /\ l <= l
      BY <1>1, <1>2, <2>2
    <3>2. arr[l].day < d /\ arr[l].day \in Int
      BY <1>1, <1>2, <3>1
    <3>3. arr[l].day < e /\ arr[l].day <= e
      BY <1>6, <3>2
    <3>4. QED BY <1>2, <3>1, <3>3
  <2>3. QED BY <2>1, <2>2
<1>7. ASSUME d <= e
      PROVE  /\ Cardinality(Slice(arr, l, r)) = r - l
             /\ Cardinality(Slice(arr, l, m)) = m - l
  BY <1>2, <1>6, <1>7, SliceSize
<1>8. QED BY <1>4, <1>5, <1>6, <1>7 DEF l, m, r
-----------------------------------------------------------------------------
LEMMA WindowDef ==
    ASSUME NEW ts, NEW e, NEW n
    PROVE  Window(ts, e, n) = Between(ts, e - n, e)
BY DEF Window, Between

(* The gap before the first transaction of the month.                      *)
LEMMA GapIsDormancy ==
    ASSUME NEW ts, IsFiniteSet(ts), Dated(ts), asOf \in Int, start \in Int
    PROVE  Gap(Arrays(ts)) = DormancyGap(ts, asOf, start)
<1> DEFINE arr == Arrays(ts)
           l == Left(arr, asOf - 30)
           r == Right(arr, asOf)
           window == Window(ts, asOf, 30)
           days == {t.day : t \in {x \in ts : x.day < asOf - 30}}
           first == CHOOSE t \in window : \A x \in window : t.day <= x.day
<1>1. IsColumns(arr, ts)
  BY ArraysAreColumns
<1> HIDE DEF arr
<1>2. Len(arr) \in Nat /\ \A i \in 1..Len(arr) : arr[i] \in ts /\ arr[i].day \in Int
  <2>1. arr \in Seq(ts)
    BY <1>1 DEF IsColumns
  <2>2. Len(arr) \in Nat /\ \A i \in 1..Len(arr) : arr[i] \in ts
    BY <2>1, LenProperties, ElementOfSeq
  <2>3. QED BY <2>2 DEF Dated
<1>3. /\ asOf - 30 \in Int /\ asOf - 30 <= asOf
      /\ l \in 0..Len(arr) /\ r \in 0..Len(arr)
      /\ \A i \in 1..Len(arr) : (arr[i].day < asOf - 30 <=> i <= l) /\ (arr[i].day <= asOf <=> i <= r)
  <2>1. asOf - 30 \in Int /\ asOf - 30 <= asOf
    OBVIOUS
  <2>2. QED BY <1>1, <2>1, Positions
<1>4. \A t \in ts : t.day \in Int /\ \E i \in 1..Len(arr) : arr[i] = t
  BY <1>1 DEF IsColumns, Dated
<1>5. \A i, j \in 1..Len(arr) : i < j => arr[i].day <= arr[j].day
  BY <1>1 DEF IsColumns
<1>6. \A t : t \in window <=> t \in ts /\ asOf - 30 <= t.day /\ t.day <= asOf
  BY DEF Window
<1>7. \A y : y \in days <=> \E t \in ts : t.day < asOf - 30 /\ y = t.day
  OBVIOUS
<1>8. Begin(arr, 30) = l /\ End(arr) = r
  BY DEF Begin, End
<1>9. DormancyGap(ts, asOf, start) =
        IF window = {} THEN 30 ELSE first.day - Max(days \cup {start})
  BY DEF DormancyGap
<1> HIDE DEF l, r, window, days, first
<1>10. CASE ~ (r > l)
  <2>1. ASSUME NEW t \in window PROVE FALSE
    <3>1. PICK i \in 1..Len(arr) : arr[i] = t
      BY <1>4, <1>6
    <3>2. t.day \in Int /\ asOf - 30 <= t.day /\ t.day <= asOf
      BY <1>4, <1>6
    <3>3. ~ (i <= l) /\ i <= r
      BY <1>3, <3>1, <3>2
    <3>4. QED BY <1>2, <1>3, <1>10, <3>3
  <2>2. window = {}
    BY <2>1
  <2>3. QED BY <1>8, <1>9, <1>10, <2>2 DEF Gap, arr
<1>11. CASE r > l
  <2> DEFINE first30 == arr[l + 1]
             v == IF Previous(arr) > start THEN Previous(arr) ELSE start
  <2>1. l + 1 \in 1..Len(arr) /\ ~ (l + 1 <= l) /\ l + 1 <= r
    BY <1>2, <1>3, <1>11
  <2>2. first30 \in window /\ first30.day \in Int
    BY <1>2, <1>3, <1>6, <2>1
  <2>3. ASSUME NEW t \in window PROVE first30.day <= t.day
    <3>1. PICK i \in 1..Len(arr) : arr[i] = t
      BY <1>4, <1>6
    <3>2. ~ (i <= l)
      BY <1>3, <1>4, <1>6, <3>1
    <3>3. i = l + 1 \/ l + 1 < i
      BY <1>2, <1>3, <3>2
    <3>4. QED BY <1>5, <2>1, <2>2, <3>1, <3>3
  <2>4. first.day = first30.day
    <3>1. first \in window /\ \A x \in window : first.day <= x.day
      BY <2>2, <2>3 DEF first
    <3>2. first.day \in Int /\ first.day <= first30.day /\ first30.day <= first.day
      BY <1>4, <1>6, <2>2, <2>3, <3>1
    <3>3. QED BY <2>2, <3>2
  <2>5. v \in Int /\ v \in days \cup {start} /\ \A y \in days \cup {start} : y \in Int /\ v >= y
    <3>1. CASE l = 0
      <4>1. v = start
        BY <1>8, <3>1 DEF Previous
      <4>2. ASSUME NEW y \in days PROVE FALSE
        <5>1. PICK t \in ts : t.day < asOf - 30 /\ y = t.day
          BY <1>7
        <5>2. PICK i \in 1..Len(arr) : arr[i] = t
          BY <1>4
        <5>3. QED BY <1>2, <1>3, <3>1, <5>1, <5>2
      <4>3. QED BY <4>1, <4>2
    <3>2. CASE l > 0
      <4>1. l \in 1..Len(arr) /\ l <= l
        BY <1>2, <1>3, <3>2
      <4>2. arr[l].day \in days /\ arr[l].day \in Int
        BY <1>2, <1>3, <1>7, <4>1
      <4>3. Previous(arr) = arr[l].day
        BY <1>8, <3>2 DEF Previous
      <4>4. ASSUME NEW y \in days PROVE y \in Int /\ y <= arr[l].day
        <5>1. PICK t \in ts : t.day < asOf - 30 /\ y = t.day
          BY <1>7
        <5>2. PICK i \in 1..Len(arr) : arr[i] = t
          BY <1>4
        <5>3. i <= l
          BY <1>3, <5>1, <5>2
        <5>4. i = l \/ i < l
          BY <1>2, <1>3, <5>3
        <5>5. arr[i].day <= arr[l].day
          BY <1>2, <1>5, <4>1, <4>2, <5>4
        <5>6. QED BY <1>4, <5>1, <5>2, <5>5
      <4>5. QED BY <4>2, <4>3, <4>4
    <3>3. QED BY <1>2, <1>3, <3>1, <3>2
  <2>6. Max(days \cup {start}) = v
    <3> DEFINE m == CHOOSE x \in days \cup {start} : \A y \in days \cup {start} : x >= y
    <3>1. m \in days \cup {start} /\ \A y \in days \cup {start} : m >= y
      BY <2>5
    <3>2. Max(days \cup {start}) = m
      BY DEF Max
    <3> HIDE DEF m, v
    <3>3. m \in Int /\ m >= v /\ v >= m
      BY <2>5, <3>1
    <3>4. QED BY <2>5, <3>2, <3>3
  <2>7. window # {}
    BY <2>2
  <2>8. Gap(arr) = first30.day - v
    BY <1>8, <1>11 DEF Gap
  <2> HIDE DEF v, first30
  <2>9. QED BY <1>9, <2>4, <2>6, <2>7, <2>8 DEF arr
<1>12. QED BY <1>2, <1>3, <1>10, <1>11

(* The velocity, by the days of the transactions.                          *)
VelocityByDay(ts) ==
    LET prior == asOf - 30 - start
        span == IF prior < 90 THEN prior ELSE 90
    IN  IF prior < 30 THEN <<1, 1>>
        ELSE <<Cardinality(Window(ts, asOf, 30)) * span,
               30 * Cardinality(Before(ts, asOf, start)) + span>>

LEMMA VelocityExact ==
    ASSUME NEW ts, IsFiniteSet(ts), Dated(ts), asOf \in Int, start \in Int
    PROVE  Velocity(Arrays(ts)) = VelocityByDay(ts)
<1> DEFINE arr == Arrays(ts)
           prior == asOf - 30 - start
           from == IF asOf - 120 > start THEN asOf - 120 ELSE start
           before == Before(ts, asOf, start)
<1>1. IsColumns(arr, ts)
  BY ArraysAreColumns
<1> HIDE DEF arr
<1>2. End(arr) = Right(arr, asOf) /\ Begin(arr, 30) = Left(arr, asOf - 30)
  BY DEF Begin, End
<1>3. End(arr) - Begin(arr, 30) = Cardinality(Window(ts, asOf, 30))
  <2>1. asOf - 30 \in Int /\ asOf - 30 <= asOf
    OBVIOUS
  <2>2. QED BY <1>1, <1>2, <2>1, SliceIsWindow, WindowDef
<1>4. ASSUME ~ (prior < 30) PROVE PriorCount(arr, from) = Cardinality(before)
  <2>1. from \in Int /\ asOf - 30 \in Int /\ from <= asOf - 30
    BY <1>4
  <2>2. before = EarlierThan(ts, from, asOf - 30)
    BY DEF Dated, Before, EarlierThan
  <2> HIDE DEF from, before
  <2>3. Cardinality(EarlierThan(ts, from, asOf - 30)) = Left(arr, asOf - 30) - Left(arr, from)
    BY <1>1, <2>1, SliceIsWindow
  <2>4. QED BY <1>2, <2>2, <2>3 DEF PriorCount
<1>5. CASE prior < 30
  BY <1>5 DEF Velocity, VelocityByDay
<1>6. CASE ~ (prior < 30)
  BY <1>3, <1>4, <1>6 DEF Velocity, VelocityByDay, arr
<1>7. QED BY <1>5, <1>6
-----------------------------------------------------------------------------
(* The features, by the days of the transactions.                          *)
FeaturesByDay(ts) ==
    LET w(days) == Window(ts, asOf, days)
    IN  Vector(w(30), w(7), Cardinality(w(30)), Cardinality(w(7)),
               VelocityByDay(ts), DormancyGap(ts, asOf, start))

LEMMA FeaturesAreByDay ==
    ASSUME NEW ts, IsFiniteSet(ts), Dated(ts), asOf \in Int, start \in Int
    PROVE  Features(ts) = FeaturesByDay(ts)
<1> DEFINE arr == Arrays(ts)
<1>1. IsColumns(arr, ts)
  BY ArraysAreColumns
<1>2. Gap(arr) = DormancyGap(ts, asOf, start) /\ Velocity(arr) = VelocityByDay(ts)
  BY GapIsDormancy, VelocityExact
<1> HIDE DEF arr
<1>3. ASSUME NEW n \in Nat
      PROVE  /\ Slice(arr, Begin(arr, n), End(arr)) = Window(ts, asOf, n)
             /\ End(arr) - Begin(arr, n) = Cardinality(Window(ts, asOf, n))
  <2>1. asOf - n \in Int /\ asOf - n <= asOf
    OBVIOUS
  <2>2. End(arr) = Right(arr, asOf) /\ Begin(arr, n) = Left(arr, asOf - n)
    BY DEF Begin, End
  <2>3. QED BY <1>1, <2>1, <2>2, SliceIsWindow, WindowDef
<1>4. 7 \in Nat /\ 30 \in Nat
  OBVIOUS
<1>5. /\ Slice(arr, Begin(arr, 7), End(arr)) = Window(ts, asOf, 7)
      /\ Slice(arr, Begin(arr, 30), End(arr)) = Window(ts, asOf, 30)
      /\ End(arr) - Begin(arr, 7) = Cardinality(Window(ts, asOf, 7))
      /\ End(arr) - Begin(arr, 30) = Cardinality(Window(ts, asOf, 30))
  BY <1>3, <1>4
<1>6. QED BY <1>2, <1>5 DEF Features, FeaturesByDay, arr

(* What the rules' definitions and the vector call by different names.     *)
LEMMA SameSums ==
    ASSUME NEW ts PROVE Amount(ts) = SumOf(ts)
BY DEF Amount, SumOf

(* What is known of the ledger, whatever was loaded.                       *)
LedgerOK ==
    /\ IsFiniteSet(ledger)
    /\ \A t \in ledger : t.day \in Int /\ t.amount \in Int
    /\ asOf \in Int /\ start \in Int

LEMMA RulesAgree ==
    ASSUME LedgerOK, NEW sme \in BOOLEAN, NEW rule \in RuleCodes
    PROVE  Fires(rule, Features(ledger), sme) <=> Condition(rule, ledger, asOf, start, sme)
<1> DEFINE f == Features(ledger)
           w == Window(ledger, asOf, 30)
           w7 == Window(ledger, asOf, 7)
           tin7 == SumOf(Incoming(w7))
           tout7 == SumOf(w7 \ Incoming(w7))
<1>1. f = FeaturesByDay(ledger)
  BY FeaturesAreByDay DEF LedgerOK, Dated
<1>2. /\ f.near_threshold_cash_count_30d = Cardinality(JustBelow(CashDeposits(w)))
      /\ f.high_risk_country_amount_30d = SumOf(HighRisk(w))
      /\ f.cash_in_amount_30d = SumOf(CashDeposits(w))
      /\ f.dormancy_gap_days = DormancyGap(ledger, asOf, start)
      /\ f.total_in_30d = SumOf(Incoming(w))
  BY <1>1 DEF FeaturesByDay, Vector
<1>8. /\ f.total_in_7d = tin7
      /\ f.pass_through_ratio_7d = IF tin7 > 0 THEN <<IF tout7 < tin7 THEN tout7 ELSE tin7, tin7>>
                                   ELSE <<0, 1>>
  BY <1>1 DEF FeaturesByDay, Vector
<1>9. f.velocity_ratio_30d = VelocityByDay(ledger) /\ f.txn_count_30d = Cardinality(w)
  BY <1>1 DEF FeaturesByDay, Vector
<1>3. tin7 \in Int /\ tout7 \in Int
  <2>1. w7 \in SUBSET ledger
    BY DEF Window
  <2>2. Incoming(w7) \in SUBSET ledger /\ w7 \ Incoming(w7) \in SUBSET ledger
    BY <2>1 DEF Incoming
  <2>3. ASSUME NEW ts \in SUBSET ledger PROVE SumOf(ts) \in Int
    BY FS_Subset, SumType DEF LedgerOK
  <2>4. QED BY <2>2, <2>3
<1> HIDE DEF f, w, w7, tin7, tout7
<1>4. (tin7 >= 500000 /\ AtLeast(f.pass_through_ratio_7d, 4, 5)) <=> (tin7 >= 500000 /\ 5 * tout7 >= 4 * tin7)
  <2>1. SUFFICES ASSUME tin7 >= 500000
                 PROVE  AtLeast(f.pass_through_ratio_7d, 4, 5) <=> 5 * tout7 >= 4 * tin7
    BY SMT
  <2>2. f.pass_through_ratio_7d = <<IF tout7 < tin7 THEN tout7 ELSE tin7, tin7>>
    BY <1>8, <1>3, <2>1, SMT
  <2>3. CASE tout7 < tin7
    BY <1>3, <2>2, <2>3, SMT DEF AtLeast
  <2>4. CASE ~ (tout7 < tin7)
    BY <1>3, <2>1, <2>2, <2>4, SMT DEF AtLeast
  <2>5. QED BY <2>3, <2>4, SMT
<1>5. (AtLeast(f.velocity_ratio_30d, 3, 1) /\ f.txn_count_30d >= 25) <=> VelocitySpike(ledger, asOf, start)
  <2> DEFINE prior == asOf - 30 - start
             span == IF prior < 90 THEN prior ELSE 90
             before == Before(ledger, asOf, start)
             a == Cardinality(w) * span
             b == 30 * Cardinality(before) + span
  <2>1. /\ Cardinality(w) \in Int /\ Cardinality(before) \in Int
        /\ prior \in Int /\ span \in Int /\ a \in Int /\ b \in Int
    <3>1. w \in SUBSET ledger /\ before \in SUBSET ledger
      BY DEF Window, Before, w
    <3> HIDE DEF before
    <3>2. Cardinality(w) \in Int /\ Cardinality(before) \in Int
      BY <3>1, FS_Subset, FS_CardinalityType DEF LedgerOK
    <3>3. QED BY <3>2 DEF LedgerOK
  <2>2. VelocityByDay(ledger) = IF prior < 30 THEN <<1, 1>> ELSE <<a, b>>
    BY DEF VelocityByDay, w
  <2>3. VelocitySpike(ledger, asOf, start) <=> prior >= 30 /\ a >= 3 * b /\ Cardinality(w) >= 25
    BY DEF VelocitySpike, w
  <2> HIDE DEF prior, span, before, a, b
  <2>4. AtLeast(f.velocity_ratio_30d, 3, 1) <=> prior >= 30 /\ a >= 3 * b
    <3>1. CASE prior < 30
      BY <1>9, <2>1, <2>2, <3>1 DEF AtLeast
    <3>2. CASE ~ (prior < 30)
      BY <1>9, <2>1, <2>2, <3>2 DEF AtLeast
    <3>3. QED BY <3>1, <3>2
  <2>5. QED BY <1>9, <2>3, <2>4
<1>6. Fires(rule, f, sme) <=> Condition(rule, ledger, asOf, start, sme)
  BY <1>2, <1>4, <1>5, <1>8, SameSums, SMT DEF Fires, Condition, w, w7, tin7, tout7
<1>7. QED BY <1>6 DEF f

(* A transaction after the day changes nothing.                            *)
LEMMA LaterIgnored ==
    ASSUME LedgerOK
    PROVE  Features(ledger) = Features({t \in ledger : t.day <= asOf})
<1> DEFINE past == {t \in ledger : t.day <= asOf}
<1>1. IsFiniteSet(past) /\ Dated(past) /\ Dated(ledger)
  BY FS_Subset DEF LedgerOK, Dated
<1>2. Features(ledger) = FeaturesByDay(ledger) /\ Features(past) = FeaturesByDay(past)
  <2> HIDE DEF past
  <2>1. QED BY <1>1, FeaturesAreByDay DEF LedgerOK
<1>3. ASSUME NEW n PROVE Window(ledger, asOf, n) = Window(past, asOf, n)
  BY DEF Window
<1>4. \A t \in ledger : t.day < asOf - 30 => t.day <= asOf
  BY DEF LedgerOK
<1>5. VelocityByDay(ledger) = VelocityByDay(past)
  <2>1. Before(ledger, asOf, start) = Before(past, asOf, start)
    BY <1>4 DEF Before
  <2>2. Window(ledger, asOf, 30) = Window(past, asOf, 30)
    BY <1>3
  <2> HIDE DEF past
  <2>3. QED BY <2>1, <2>2 DEF VelocityByDay
<1>6. DormancyGap(ledger, asOf, start) = DormancyGap(past, asOf, start)
  <2> DEFINE early(ts) == {x \in ts : x.day < asOf - 30}
             gap(window, before) ==
                LET first == CHOOSE t \in window : \A x \in window : t.day <= x.day
                IN  IF window = {} THEN 30
                    ELSE first.day - Max({t.day : t \in before} \cup {start})
  <2>1. early(ledger) = early(past)
    BY <1>4
  <2>2. Window(ledger, asOf, 30) = Window(past, asOf, 30)
    BY <1>3
  <2>3. ASSUME NEW ts PROVE DormancyGap(ts, asOf, start) = gap(Window(ts, asOf, 30), early(ts))
    BY DEF DormancyGap
  <2> HIDE DEF past, early, gap
  <2>4. QED BY <2>1, <2>2, <2>3
<1>7. FeaturesByDay(ledger) = FeaturesByDay(past)
  <2> HIDE DEF past
  <2>1. Window(ledger, asOf, 30) = Window(past, asOf, 30) /\ Window(ledger, asOf, 7) = Window(past, asOf, 7)
    BY <1>3
  <2>2. QED BY <1>5, <1>6, <2>1 DEF FeaturesByDay
<1>8. QED BY <1>2, <1>7

THEOREM FeaturesAlwaysExact == FeatureSpec => []FeaturesExact
<1> DEFINE Known == Loadable \cup UNION Histories
           Inv == ledger \subseteq Known /\ IsFiniteSet(ledger) /\ asOf \in AsOfs /\ start \in Starts
<1>1. FeatureInit => Inv
  BY FeatureAssumption DEF FeatureInit
<1>2. Inv /\ [FeatureNext]_featureVars => Inv'
  <2>1. SUFFICES ASSUME Inv, [FeatureNext]_featureVars PROVE Inv'
    OBVIOUS
  <2>2. ASSUME NEW t \in Loadable, Load(t) PROVE Inv'
    BY <2>1, <2>2, FS_AddElement DEF Load
  <2>3. CASE UNCHANGED featureVars
    BY <2>1, <2>3 DEF featureVars
  <2>4. QED BY <2>1, <2>2, <2>3 DEF FeatureNext
<1>3. Inv => FeaturesExact
  <2>1. SUFFICES ASSUME Inv PROVE FeaturesExact
    OBVIOUS
  <2>2. LedgerOK
    BY <2>1, FeatureAssumption DEF LedgerOK
  <2>3. ASSUME NEW sme \in BOOLEAN
        PROVE  {rule \in RuleCodes : Fires(rule, Features(ledger), sme)} = Evaluate(ledger, asOf, start, sme)
    BY <2>2, RulesAgree DEF Evaluate
  <2>4. QED BY <2>2, <2>3, LaterIgnored DEF FeaturesExact
<1>4. QED BY <1>1, <1>2, <1>3, PTL DEF FeatureSpec
-----------------------------------------------------------------------------
(* Reference agents: how many elements a set has                           *)

(* A finite set of at most n elements.                                     *)
AtMost(S, n) == IsFiniteSet(S) /\ Cardinality(S) <= n

(* Two sets together.                                                      *)
LEMMA AtMostUnion ==
    ASSUME NEW m \in Nat, NEW n \in Nat, NEW S, NEW T, AtMost(S, m), AtMost(T, n)
    PROVE  AtMost(S \cup T, m + n)
<1>1. IsFiniteSet(S) /\ IsFiniteSet(T) /\ Cardinality(S) <= m /\ Cardinality(T) <= n
  BY DEF AtMost
<1>2. /\ IsFiniteSet(S \cup T) /\ IsFiniteSet(S \cap T)
      /\ Cardinality(S \cup T) = Cardinality(S) + Cardinality(T) - Cardinality(S \cap T)
  BY <1>1, FS_Union, FS_Intersection
<1>3. Cardinality(S) \in Nat /\ Cardinality(T) \in Nat /\ Cardinality(S \cap T) \in Nat
  BY <1>1, <1>2, FS_CardinalityType
<1>4. Cardinality(S \cup T) <= m + n
  BY <1>1, <1>2, <1>3
<1>5. QED BY <1>2, <1>4 DEF AtMost

(* A set of one element, and none.                                         *)
LEMMA AtMostOne == \A x : AtMost({x}, 1) /\ AtMost({}, 1) /\ AtMost({}, 0)
<1>1. /\ \A x : IsFiniteSet({x}) /\ Cardinality({x}) = 1
      /\ IsFiniteSet({}) /\ Cardinality({}) = 0
  BY FS_Singleton, FS_EmptySet
<1>2. ASSUME NEW x PROVE Cardinality({x}) <= 1
  <2>1. Cardinality({x}) = 1 /\ Cardinality({x}) \in Nat
    BY <1>1, FS_CardinalityType
  <2>2. QED BY <2>1
<1>3. Cardinality({}) <= 1 /\ Cardinality({}) <= 0
  BY <1>1
<1>4. QED BY <1>1, <1>2, <1>3 DEF AtMost

(* A finding is made or not.                                               *)
LEMMA WhenAtMost == \A holds, note : AtMost(When(holds, note), 1)
BY AtMostOne DEF When

(* What is paired with a name is as many.                                  *)
LEMMA SameNumber ==
    ASSUME NEW S, IsFiniteSet(S), NEW f, f = [t \in S |-> <<"TX", t.id>>],
           \A t, u \in S : t.id = u.id => t = u
    PROVE  LET T == {<<"TX", t.id>> : t \in S}
           IN  IsFiniteSet(T) /\ Cardinality(T) = Cardinality(S)
<1> DEFINE T == {<<"TX", t.id>> : t \in S}
<1>1. f \in [S -> T]
  OBVIOUS
<1>2. \A t, u \in S : f[t] = f[u] => t = u
  OBVIOUS
<1>3. \A r \in T : \E t \in S : f[t] = r
  OBVIOUS
<1> HIDE DEF T
<1>4. f \in Bijection(S, T)
  BY <1>1, <1>2, <1>3 DEF Bijection, Injection, Surjection, IsInjective
<1>5. ExistsBijection(S, T)
  BY <1>4 DEF ExistsBijection
<1>6. QED BY <1>5, FS_Bijection DEF T

(* The n largest transactions are at most n, as no two have the same       *)
(* amount, and none only of none.                                          *)
LEMMA LargestSize ==
    ASSUME NEW S \in SUBSET Ledger, NEW n \in Nat
    PROVE  /\ Largest(S, n) \in SUBSET S
           /\ AtMost(Largest(S, n), n)
           /\ S # {} /\ n # 0 => Largest(S, n) # {}
<1> DEFINE above(t) == {u \in S : u.amount > t.amount}
           L == Largest(S, n)
<1>1. IsFiniteSet(S) /\ \A t \in S : t.amount \in Nat
  BY FS_Subset, ReferenceAssumption
<1>2. L = {t \in S : Cardinality(above(t)) < n}
  BY DEF Largest
<1>3. \A t \in S : above(t) \in SUBSET S /\ IsFiniteSet(above(t)) /\ Cardinality(above(t)) \in Nat
  BY <1>1, FS_Subset, FS_CardinalityType
<1> HIDE DEF L
<1>4. L \in SUBSET S /\ IsFiniteSet(L)
  BY <1>1, <1>2, FS_Subset
<1>5. Cardinality(L) <= n
  <2>1. CASE L = {}
    <3>1. Cardinality(L) = 0
      BY <2>1, FS_EmptySet
    <3>2. QED BY <3>1
  <2>2. CASE L # {}
    <3> DEFINE A == {t.amount : t \in L}
    <3>1. A \in SUBSET Nat /\ A # {}
      BY <1>1, <1>4, <2>2
    <3>2. PICK a \in A : \A b \in A : a <= b
      BY <3>1, Least
    <3>3. PICK m \in L : m.amount = a
      BY <3>2
    <3>4. \A t \in L : m.amount <= t.amount
      BY <3>2, <3>3
    <3>5. \A t \in L \ {m} : t.amount > m.amount
      <4>1. ASSUME NEW t \in L \ {m} PROVE t.amount > m.amount
        <5>1. t.amount \in Nat /\ m.amount \in Nat /\ t.amount # m.amount
          BY <1>1, <1>4, ReferenceAssumption
        <5>2. QED BY <3>4, <5>1
      <4>2. QED BY <4>1
    <3>6. L \ {m} \in SUBSET above(m)
      BY <1>4, <3>5
    <3>7. Cardinality(above(m)) < n /\ IsFiniteSet(above(m)) /\ Cardinality(above(m)) \in Nat
      BY <1>2, <1>3, <1>4
    <3> HIDE DEF above
    <3>8. Cardinality(L \ {m}) <= Cardinality(above(m))
      BY <3>6, <3>7, FS_Subset
    <3>9. Cardinality(L \ {m}) = Cardinality(L) - 1 /\ Cardinality(L) \in Nat
      BY <1>4, FS_RemoveElement, FS_CardinalityType
    <3>10. QED BY <3>7, <3>8, <3>9
  <2>3. QED BY <2>1, <2>2
<1>6. ASSUME S # {}, n # 0 PROVE L # {}
  <2> DEFINE N == {Cardinality(above(t)) : t \in S}
  <2>1. N \in SUBSET Nat /\ N # {}
    BY <1>3, <1>6
  <2>2. PICK k \in N : \A j \in N : k <= j
    BY <2>1, Least
  <2>3. PICK t \in S : Cardinality(above(t)) = k
    BY <2>2
  <2>4. \A u \in above(t) : FALSE
    <3>1. SUFFICES ASSUME NEW u \in above(t) PROVE FALSE
      OBVIOUS
    <3>2. u \in S /\ u.amount \in Nat /\ t.amount \in Nat /\ u.amount > t.amount
      BY <1>1
    <3>3. above(u) \in SUBSET above(t) /\ u \notin above(u)
      <4>1. ASSUME NEW v \in above(u) PROVE v \in above(t)
        <5>1. v \in S /\ v.amount \in Nat /\ v.amount > u.amount
          BY <1>1
        <5>2. v.amount > t.amount
          BY <3>2, <5>1
        <5>3. QED BY <5>1, <5>2
      <4>2. QED BY <3>2, <4>1
    <3>4. IsFiniteSet(above(t)) /\ Cardinality(above(t)) \in Nat /\ Cardinality(above(u)) \in Nat
      BY <1>3, <3>2
    <3>5. k <= Cardinality(above(u))
      BY <2>2, <3>2
    <3> HIDE DEF above
    <3>6. Cardinality(above(u)) <= Cardinality(above(t)) /\ above(u) # above(t)
      BY <3>3, <3>4, FS_Subset
    <3>7. Cardinality(above(u)) # Cardinality(above(t))
      BY <3>3, <3>4, <3>6, FS_Subset
    <3>8. QED BY <2>3, <3>4, <3>5, <3>6, <3>7
  <2>5. Cardinality(above(t)) = 0
    <3>1. above(t) = {}
      BY <2>4
    <3> HIDE DEF above
    <3>2. QED BY <3>1, FS_EmptySet
  <2>6. t \in L
    BY <1>2, <1>6, <2>5
  <2>7. QED BY <2>6
<1>7. QED BY <1>4, <1>5, <1>6 DEF L, AtMost
-----------------------------------------------------------------------------
(* Claims about what is cited, and findings that fit their schema          *)

(* Tool results so far: what the agents have seen was disclosed.           *)
Knowing ==
    /\ case \in Cases /\ dossier \in Dossiers /\ asked \subseteq Calls
    /\ disclosed = UNION {Discloses[c] : c \in asked}
    /\ asked # {} => "features" \in asked

(* A finding that fits its schema and whose evidence and claims the        *)
(* verifier accepts.                                                       *)
NoteOk(n) ==
    /\ n.refs # {} /\ n.refs \subseteq disclosed
    /\ Cardinality({r \in n.refs : r[1] = "TX"}) <= MaxEvidence
    /\ Cardinality(n.claims) <= 5
    /\ \A c \in n.claims : ClaimOk(c, n.refs)

(* What a call returned has been disclosed.                                *)
LEMMA ReturnedIsKnown ==
    ASSUME Knowing, NEW c \in asked
    PROVE  c \in Calls /\ Returned(c) \subseteq disclosed
<1>1. c \in Calls /\ Discloses[c] \subseteq disclosed
  BY DEF Knowing
<1>2. Discloses[c] = Returned(c)
  BY <1>1, ReferenceAssumption
<1>3. QED BY <1>1, <1>2

(* So have the transactions of its listings.                               *)
LEMMA SeenIsKnown ==
    ASSUME Knowing
    PROVE  Seen \in SUBSET Ledger /\ \A t \in Seen : <<"TX", t.id>> \in disclosed
<1>1. ASSUME NEW c \in asked \cap Listings, NEW t \in Listed(c)
      PROVE  t \in Ledger /\ <<"TX", t.id>> \in disclosed
  <2>1. t \in Ledger
    BY <1>1 DEF Listed, Largest, Matching
  <2>2. c # "features" /\ c # "profile" /\ c # "counterparties" /\ c # "prior"
    BY <1>1 DEF Listings
  <2>3. Returned(c) = {<<"TX", u.id>> : u \in Listed(c)} \cup Partners(Listed(c))
    BY <2>2 DEF Returned
  <2>4. QED BY <1>1, <2>1, <2>3, ReturnedIsKnown
<1>2. QED BY <1>1 DEF Seen

(* Transactions cited are the ones claims are computed over.               *)
LEMMA CitedAre ==
    ASSUME Knowing, NEW S \in SUBSET Seen
    PROVE  LET L == Largest(S, MaxEvidence)
               refs == TxRefs(S)
           IN  /\ L \in SUBSET S /\ IsFiniteSet(L)
               /\ refs \subseteq disclosed
               /\ {r \in refs : r[1] = "TX"} = refs
               /\ Cardinality(refs) = Cardinality(L)
               /\ Cardinality(L) <= MaxEvidence
               /\ {t \in Seen : <<"TX", t.id>> \in refs} = L
               /\ S # {} => L # {} /\ refs # {}
               /\ Total(L) \in Int
<1> DEFINE L == Largest(S, MaxEvidence)
           refs == TxRefs(S)
<1>1. S \in SUBSET Ledger /\ MaxEvidence \in Nat /\ MaxEvidence # 0
  BY SeenIsKnown, ReferenceAssumption
<1>2. L \in SUBSET S /\ AtMost(L, MaxEvidence) /\ (S # {} => L # {})
  BY <1>1, LargestSize
<1>3. refs = {<<"TX", t.id>> : t \in L}
  BY DEF TxRefs
<1> HIDE DEF L, refs
<1>4. \A t, u \in Ledger : t.id = u.id => t = u
  BY ReferenceAssumption
<1>5. IsFiniteSet(L) /\ Cardinality(L) <= MaxEvidence
  BY <1>2 DEF AtMost
<1>6. Cardinality(refs) = Cardinality(L)
  <2>1. \A t, u \in L : t.id = u.id => t = u
    BY <1>1, <1>2, <1>4
  <2> DEFINE f == [t \in L |-> <<"TX", t.id>>]
  <2>2. f = [t \in L |-> <<"TX", t.id>>]
    OBVIOUS
  <2> HIDE DEF f
  <2>3. QED BY <1>3, <1>5, <2>1, <2>2, SameNumber
<1>7. refs \subseteq disclosed
  BY <1>2, <1>3, SeenIsKnown
<1>8. \A r \in refs : r[1] = "TX"
  BY <1>3
<1>9. {t \in Seen : <<"TX", t.id>> \in refs} = L
  <2>1. ASSUME NEW t \in Seen, <<"TX", t.id>> \in refs PROVE t \in L
    <3>1. PICK u \in L : <<"TX", t.id>> = <<"TX", u.id>>
      BY <1>3, <2>1
    <3>2. t.id = u.id /\ t \in Ledger /\ u \in Ledger
      BY <1>1, <1>2, <3>1, SeenIsKnown
    <3>3. t = u
      BY <1>4, <3>2
    <3>4. QED BY <3>3
  <2>2. \A t \in L : t \in Seen /\ <<"TX", t.id>> \in refs
    BY <1>2, <1>3
  <2>3. QED BY <2>1, <2>2
<1>10. S # {} => L # {} /\ refs # {}
  BY <1>2, <1>3
<1>11. Total(L) \in Int
  <2>1. \A t \in L : t.amount \in Int
    BY <1>1, <1>2, ReferenceAssumption
  <2>2. SumOf(L) \in Int
    BY <1>5, <2>1, SumType
  <2>3. QED BY <2>2 DEF SumOf, Total
<1>12. QED BY <1>2, <1>5, <1>6, <1>7, <1>8, <1>9, <1>10, <1>11 DEF L, refs

(* A claim that repeats the number is within its tolerance.                *)
LEMMA Exact ==
    ASSUME NEW a \in Int, NEW b \in Int, b >= 1
    PROVE  Within(a, a, Max2(b, a)) /\ Within(a, a, Max2(a, b)) 
<1>1. 100 * (a - a) = 0
  OBVIOUS
<1>2. Max2(b, a) \in Int /\ Max2(b, a) >= 1 /\ Max2(a, b) \in Int /\ Max2(a, b) >= 1
  BY DEF Max2
<1>3. 0 <= Max2(b, a) /\ 0 <= Max2(a, b)
  BY <1>2
<1>4. QED BY <1>1, <1>3 DEF Within

(* Few claims and no more transactions than allowed.                       *)
LEMMA FitsSchema ==
    ASSUME NEW n, n.refs # {}, n.refs \subseteq disclosed, AtMost(n.claims, 2),
           \A c \in n.claims : ClaimOk(c, n.refs),
           Cardinality({r \in n.refs : r[1] = "TX"}) <= MaxEvidence
    PROVE  NoteOk(n)
<1>1. Cardinality(n.claims) \in Nat /\ Cardinality(n.claims) <= 2
  BY FS_CardinalityType DEF AtMost
<1>2. Cardinality(n.claims) <= 5
  BY <1>1
<1>3. QED BY <1>2 DEF NoteOk

(* Evidence without transactions.                                          *)
LEMMA NoTransactions ==
    ASSUME NEW refs, \A r \in refs : r[1] # "TX"
    PROVE  Cardinality({r \in refs : r[1] = "TX"}) <= MaxEvidence
<1>1. {r \in refs : r[1] = "TX"} = {}
  OBVIOUS
<1>2. Cardinality({r \in refs : r[1] = "TX"}) = 0
  BY <1>1, FS_EmptySet
<1>3. QED BY <1>2, ReferenceAssumption

(* A set of two elements.                                                  *)
LEMMA Two == \A x, y : AtMost({x, y}, 2)
<1>1. SUFFICES ASSUME NEW x, NEW y PROVE AtMost({x, y}, 2)
  OBVIOUS
<1>2. AtMost({x} \cup {y}, 1 + 1)
  BY AtMostOne, AtMostUnion
<1>3. {x} \cup {y} = {x, y} /\ 1 + 1 = 2
  OBVIOUS
<1>4. QED BY <1>2, <1>3

(* A weaker bound.                                                         *)
LEMMA AtMostMore ==
    ASSUME NEW m \in Nat, NEW n \in Nat, m <= n, NEW S, AtMost(S, m)
    PROVE  AtMost(S, n)
<1>1. IsFiniteSet(S) /\ Cardinality(S) <= m /\ Cardinality(S) \in Nat
  BY FS_CardinalityType DEF AtMost
<1>2. Cardinality(S) <= n
  BY <1>1
<1>3. QED BY <1>1, <1>2 DEF AtMost

(* Not more than two.                                                      *)
LEMMA Few == \A x : AtMost({x}, 2) /\ AtMost({}, 2)
BY AtMostOne, AtMostMore

(* A claim of a feature, and its reference.                                *)
LEMMA FeatureClaimsOk ==
    ASSUME Knowing, "features" \in asked, NEW M \in SUBSET FeatureMetrics
    PROVE  /\ FeatureRefs(M) \subseteq disclosed
           /\ \A r \in FeatureRefs(M) : r[1] # "TX"
           /\ \A c \in FeatureClaims(M), refs \in SUBSET disclosed : ClaimOk(c, refs)
<1>1. {<<"FEATURE", m>> : m \in FeatureMetrics} \subseteq disclosed
  <2>1. {<<"FEATURE", m>> : m \in FeatureMetrics} \subseteq Returned("features")
    BY DEF Returned
  <2>2. QED BY <2>1, ReturnedIsKnown
<1>2. FeatureRefs(M) \subseteq disclosed /\ \A r \in FeatureRefs(M) : r[1] # "TX"
  BY <1>1 DEF FeatureRefs
<1>3. ASSUME NEW c \in FeatureClaims(M), NEW refs PROVE ClaimOk(c, refs)
  <2>1. PICK m \in M : c = [metric |-> m, value |-> dossier.features[m]]
    BY <1>3 DEF FeatureClaims, Claim
  <2>2. c.metric = m /\ c.value = dossier.features[m] /\ m \in FeatureMetrics
    BY <2>1
  <2>3. m # "sum_amount_eur_of_refs" /\ m # "count_of_refs"
    BY <2>2 DEF FeatureMetrics
  <2>4. dossier.features[m] \in Int
    BY <2>2, ReferenceAssumption DEF Knowing
  <2>5. Within(dossier.features[m], dossier.features[m], Max2(1, dossier.features[m]))
    BY <2>4, Exact
  <2>6. QED BY <2>2, <2>3, <2>5 DEF ClaimOk
<1>4. QED BY <1>2, <1>3

(* A finding about features.                                               *)
LEMMA FeatureNoteOk ==
    ASSUME Knowing, "features" \in asked, NEW M \in SUBSET FeatureMetrics, M # {},
           AtMost(FeatureClaims(M), 2), NEW direction
    PROVE  NoteOk(Note(direction, FeatureRefs(M), FeatureClaims(M)))
<1> DEFINE n == Note(direction, FeatureRefs(M), FeatureClaims(M))
<1>1. n.refs = FeatureRefs(M) /\ n.claims = FeatureClaims(M)
  BY DEF Note
<1> HIDE DEF n
<1>2. FeatureRefs(M) # {}
  BY DEF FeatureRefs
<1>3. NoteOk(n)
  BY <1>1, <1>2, FeatureClaimsOk, NoTransactions, FitsSchema
<1>4. QED BY <1>3 DEF n

(* A finding about one feature.                                            *)
LEMMA OneMetric ==
    ASSUME NEW m \in FeatureMetrics
    PROVE  {m} \in SUBSET FeatureMetrics /\ AtMost(FeatureClaims({m}), 2)
<1>1. FeatureClaims({m}) = {Claim(m, dossier.features[m])}
  BY DEF FeatureClaims
<1>2. QED BY <1>1, Few

(* A finding about a feature above its limit.                              *)
LEMMA WhenAboveOk ==
    ASSUME Knowing, "features" \in asked, NEW m \in FeatureMetrics, NEW limit, NEW aggravating
    PROVE  \A n \in WhenAbove(m, limit, aggravating) : NoteOk(n)
<1>1. \A direction : NoteOk(Note(direction, FeatureRefs({m}), FeatureClaims({m})))
  BY OneMetric, FeatureNoteOk
<1>2. QED BY <1>1 DEF WhenAbove, When

(* Every finding about features.                                           *)
LEMMA FeatureNotesOk ==
    ASSUME Knowing, "features" \in asked
    PROVE  (\A n \in FeatureNotes : NoteOk(n)) /\ AtMost(FeatureNotes, 5)
<1> DEFINE f == dossier.features
           pass == {"pass_through_ratio_7d", "total_in_7d"}
           N(d) == Note(d, FeatureRefs(pass), FeatureClaims(pass))
           A == When(f["total_in_7d"] >= 5000,
                     Note(IF f["pass_through_ratio_7d"] >= 80 /\ f["unique_counterparties_in_30d"] >= 8
                          THEN "aggravating" ELSE "neutral", FeatureRefs(pass), FeatureClaims(pass)))
           B == WhenAbove("unique_cash_branches_30d", 4, TRUE)
           C == WhenAbove("unique_counterparties_in_30d", 12, TRUE)
           D == WhenAbove("high_risk_country_amount_30d", 1, f["high_risk_country_amount_30d"] > 5000)
           E1 == WhenAbove("dormancy_gap_days", 60, TRUE)
<1>1. FeatureNotes = A \cup B \cup C \cup D \cup E1
  BY DEF FeatureNotes
<1>2. \A n \in A : NoteOk(n)
  <2>1. pass \in SUBSET FeatureMetrics /\ pass # {}
    BY DEF FeatureMetrics
  <2>2. FeatureClaims(pass) = {Claim("pass_through_ratio_7d", f["pass_through_ratio_7d"]),
                               Claim("total_in_7d", f["total_in_7d"])}
    BY DEF FeatureClaims
  <2>3. AtMost(FeatureClaims(pass), 2)
    BY <2>2, Two
  <2> HIDE DEF pass
  <2>4. \A d : NoteOk(N(d))
    BY <2>1, <2>3, FeatureNoteOk
  <2>5. QED BY <2>4 DEF When
<1>3. \A n \in B \cup C \cup D \cup E1 : NoteOk(n)
  <2>1. {"unique_cash_branches_30d", "unique_counterparties_in_30d",
         "high_risk_country_amount_30d", "dormancy_gap_days"} \subseteq FeatureMetrics
    BY DEF FeatureMetrics
  <2>2. \A n \in B : NoteOk(n)
    BY <2>1, WhenAboveOk
  <2>3. \A n \in C : NoteOk(n)
    BY <2>1, WhenAboveOk
  <2>4. \A n \in D : NoteOk(n)
    BY <2>1, WhenAboveOk
  <2>5. \A n \in E1 : NoteOk(n)
    BY <2>1, WhenAboveOk
  <2> HIDE DEF B, C, D, E1
  <2>6. QED BY <2>2, <2>3, <2>4, <2>5
<1>4. AtMost(A, 1) /\ AtMost(B, 1) /\ AtMost(C, 1) /\ AtMost(D, 1) /\ AtMost(E1, 1)
  BY WhenAtMost DEF WhenAbove
<1> HIDE DEF A, B, C, D, E1
<1>5. AtMost(A \cup B \cup C \cup D \cup E1, 5)
  <2>1. AtMost(A \cup B, 2)
    BY <1>4, AtMostUnion, 1 + 1 = 2
  <2>2. AtMost(A \cup B \cup C, 3)
    BY <1>4, <2>1, AtMostUnion, 2 + 1 = 3
  <2>3. AtMost(A \cup B \cup C \cup D, 4)
    BY <1>4, <2>2, AtMostUnion, 3 + 1 = 4
  <2>4. QED BY <1>4, <2>3, AtMostUnion, 4 + 1 = 5
<1>6. QED BY <1>1, <1>2, <1>3, <1>5
-----------------------------------------------------------------------------
(* The findings of simulate_investigation                                  *)

(* What is claimed of transactions that are cited.                         *)
LEMMA TotalsOk ==
    ASSUME Knowing, NEW S \in SUBSET Seen, S # {}
    PROVE  LET L == Largest(S, MaxEvidence)
           IN  /\ ClaimOk(Claim("sum_amount_eur_of_refs", Total(L)), TxRefs(S))
               /\ ClaimOk(Claim("count_of_refs", Cardinality(L)), TxRefs(S))
<1> DEFINE L == Largest(S, MaxEvidence)
           refs == TxRefs(S)
           sum == "sum_amount_eur_of_refs"
           count == "count_of_refs"
           c == Claim(sum, Total(L))
           d == Claim(count, Cardinality(L))
<1>1. /\ {r \in refs : r[1] = "TX"} = refs /\ Cardinality(refs) = Cardinality(L)
      /\ {t \in Seen : <<"TX", t.id>> \in refs} = L
      /\ L # {} /\ Total(L) \in Int
  BY CitedAre
<1>2. c.metric = sum /\ c.value = Total(L) /\ d.metric = count /\ d.value = Cardinality(L)
  BY DEF Claim
<1>3. sum # count /\ sum \notin FeatureMetrics /\ count \notin FeatureMetrics
  BY DEF FeatureMetrics
<1>4. Within(Total(L), Total(L), Max2(100, Total(L)))
  BY <1>1, Exact
<1> HIDE DEF L, refs, c, d
<1>5. ClaimOk(c, refs)
  BY <1>1, <1>2, <1>3, <1>4 DEF ClaimOk
<1>6. ClaimOk(d, refs)
  BY <1>1, <1>2, <1>3 DEF ClaimOk
<1>7. QED BY <1>5, <1>6 DEF c, d, L, refs

(* A finding that cites transactions.                                      *)
LEMMA TxNoteOk ==
    ASSUME Knowing, NEW S \in SUBSET Seen, S # {}, NEW direction, NEW claims, AtMost(claims, 2),
           \A c \in claims : ClaimOk(c, TxRefs(S))
    PROVE  NoteOk(Note(direction, TxRefs(S), claims))
<1> DEFINE n == Note(direction, TxRefs(S), claims)
<1>1. n.refs = TxRefs(S) /\ n.claims = claims
  BY DEF Note
<1>2. /\ TxRefs(S) # {} /\ TxRefs(S) \subseteq disclosed
      /\ Cardinality({r \in TxRefs(S) : r[1] = "TX"}) <= MaxEvidence
  BY CitedAre
<1> HIDE DEF n
<1>3. NoteOk(n)
  BY <1>1, <1>2, FitsSchema
<1>4. QED BY <1>3 DEF n

(* Cash deposits below the reporting threshold.                            *)
LEMMA CashNoteOk ==
    ASSUME Knowing
    PROVE  (\A n \in CashNote : NoteOk(n)) /\ AtMost(CashNote, 1)
<1> DEFINE S == NearThreshold
           L == Largest(S, MaxEvidence)
           claims == {Claim("sum_amount_eur_of_refs", Total(L)), Claim("count_of_refs", Cardinality(L))}
           N(d) == Note(d, TxRefs(S), claims)
<1>1. S \in SUBSET Seen
  BY DEF NearThreshold
<1>2. PICK d : CashNote = When(Cardinality(L) >= 2, N(d))
  BY DEF CashNote, Cited
<1>3. ASSUME Cardinality(L) >= 2 PROVE NoteOk(N(d))
  <2>1. L # {}
    <3>1. Cardinality(L) # 0
      BY <1>3
    <3>2. QED BY <3>1, FS_EmptySet
  <2>2. S # {}
    BY <1>1, <2>1, CitedAre
  <2>3. AtMost(claims, 2)
    BY Two
  <2>4. \A c \in claims : ClaimOk(c, TxRefs(S))
    BY <1>1, <2>2, TotalsOk
  <2> HIDE DEF claims, L, S
  <2>5. QED BY <1>1, <2>2, <2>3, <2>4, TxNoteOk
<1> HIDE DEF N, L
<1>4. QED BY <1>2, <1>3, WhenAtMost DEF When

(* Money that leaves by crypto exchange or international wire.             *)
LEMMA ExitsNoteOk ==
    ASSUME Knowing
    PROVE  (\A n \in ExitsNote : NoteOk(n)) /\ AtMost(ExitsNote, 1)
<1> DEFINE S == Exits
           L == Largest(S, MaxEvidence)
           claims == {Claim("sum_amount_eur_of_refs", Total(L))}
           N(d) == Note(d, TxRefs(S), claims)
<1>1. S \in SUBSET Seen
  BY DEF Exits
<1>2. PICK d : ExitsNote = When(L # {}, N(d))
  BY DEF ExitsNote, Cited
<1>3. ASSUME L # {} PROVE NoteOk(N(d))
  <2>1. S # {}
    BY <1>1, <1>3, CitedAre
  <2>2. AtMost(claims, 2)
    BY Few
  <2>3. \A c \in claims : ClaimOk(c, TxRefs(S))
    BY <1>1, <2>1, TotalsOk
  <2> HIDE DEF claims, L, S
  <2>4. QED BY <1>1, <2>1, <2>2, <2>3, TxNoteOk
<1> HIDE DEF N, L
<1>4. QED BY <1>2, <1>3, WhenAtMost DEF When

(* Turnover against what was expected.                                     *)
LEMMA TurnoverNoteOk ==
    ASSUME Knowing
    PROVE  (\A n \in TurnoverNote : NoteOk(n)) /\ AtMost(TurnoverNote, 1)
<1> DEFINE M == {"turnover_vs_expected_30d"}
           profile == <<"PROFILE", "customer">>
           refs == {profile} \cup FeatureRefs(M)
           N(d) == Note(d, refs, FeatureClaims(M))
<1>1. PICK d : TurnoverNote = When("profile" \in asked, N(d))
  BY DEF TurnoverNote
<1>2. M \in SUBSET FeatureMetrics /\ AtMost(FeatureClaims(M), 2)
  <2>1. "turnover_vs_expected_30d" \in FeatureMetrics
    BY DEF FeatureMetrics
  <2>2. QED BY <2>1, OneMetric
<1> HIDE DEF M
<1>3. ASSUME "profile" \in asked PROVE NoteOk(N(d))
  <2>1. "features" \in asked
    BY <1>3 DEF Knowing
  <2>2. profile \in disclosed
    <3>1. profile \in Returned("profile")
      BY DEF Returned
    <3>2. QED BY <1>3, <3>1, ReturnedIsKnown
  <2>3. /\ refs # {} /\ refs \subseteq disclosed /\ \A r \in refs : r[1] # "TX"
        /\ \A c \in FeatureClaims(M) : ClaimOk(c, refs)
    BY <1>2, <2>1, <2>2, FeatureClaimsOk
  <2> DEFINE n == N(d)
  <2>4. n.refs = refs /\ n.claims = FeatureClaims(M)
    BY DEF Note
  <2> HIDE DEF refs, n
  <2>5. NoteOk(n)
    BY <1>2, <2>3, <2>4, NoTransactions, FitsSchema
  <2>6. QED BY <2>5 DEF n
<1> HIDE DEF N
<1>4. QED BY <1>1, <1>3, WhenAtMost DEF When

(* A note without claims or transactions.                                  *)
LEMMA PlainNoteOk ==
    ASSUME NEW refs, refs # {}, refs \subseteq disclosed, \A r \in refs : r[1] # "TX", NEW direction
    PROVE  NoteOk(Note(direction, refs, {}))
<1> DEFINE n == Note(direction, refs, {})
<1>1. n.refs = refs /\ n.claims = {}
  BY DEF Note
<1> HIDE DEF n
<1>2. NoteOk(n)
  BY <1>1, Few, NoTransactions, FitsSchema
<1>3. QED BY <1>2 DEF n

(* Payments to regular payees.                                             *)
LEMMA PayrollNoteOk ==
    ASSUME Knowing
    PROVE  (\A n \in PayrollNote : NoteOk(n)) /\ AtMost(PayrollNote, 1)
<1> DEFINE payees == {t \in Matching("recent") : t.out /\ t.channel = "sepa"}
           holds == "counterparties" \in asked /\ case.sme /\ payees # {} /\ Exits = {}
           n == Note("mitigating", Partners(payees), {})
<1>1. PayrollNote = When(holds, n)
  BY DEF PayrollNote
<1>2. ASSUME holds PROVE NoteOk(n)
  <2>1. Returned("counterparties") = Partners(Matching("recent"))
    BY DEF Returned
  <2>2. Partners(payees) \subseteq Partners(Matching("recent"))
    BY DEF Partners
  <2>3. Partners(payees) # {}
    <3>1. PICK t \in payees : TRUE
      BY <1>2
    <3>2. <<"CP", t.partner>> \in Partners(payees)
      BY DEF Partners
    <3>3. QED BY <3>2
  <2>4. \A r \in Partners(payees) : r[1] = "CP"
    BY DEF Partners
  <2>5. Partners(payees) \subseteq disclosed
    BY <1>2, <2>1, <2>2, ReturnedIsKnown
  <2> HIDE DEF payees
  <2>6. \A r \in Partners(payees) : r[1] # "TX"
    BY <2>4
  <2>7. QED BY <2>3, <2>5, <2>6, PlainNoteOk
<1> HIDE DEF holds, n
<1>3. QED BY <1>1, <1>2, WhenAtMost DEF When

(* Earlier alerts, and references that read like instructions.             *)
LEMMA HistoryNotesOk ==
    ASSUME Knowing
    PROVE  (\A n \in HistoryNotes : NoteOk(n)) /\ AtMost(HistoryNotes, 2)
<1> DEFINE prior == {<<"ALERT", a>> : a \in PriorAlerts}
           injected == {t \in Seen : t.flagged}
           h1 == "prior" \in asked /\ PriorAlerts # {}
           n1 == Note("neutral", prior, {})
           n2 == Note("aggravating", TxRefs(injected), {})
<1>1. HistoryNotes = When(h1, n1) \cup When(injected # {}, n2)
  BY DEF HistoryNotes
<1>2. ASSUME h1 PROVE NoteOk(n1)
  <2>1. Returned("prior") = prior
    BY DEF Returned
  <2>2. \A r \in prior : r[1] = "ALERT"
    OBVIOUS
  <2>3. prior # {}
    <3>1. PICK a \in PriorAlerts : TRUE
      BY <1>2
    <3>2. <<"ALERT", a>> \in prior
      OBVIOUS
    <3>3. QED BY <3>2
  <2> HIDE DEF prior
  <2>4. prior \subseteq disclosed
    BY <1>2, <2>1, ReturnedIsKnown
  <2>5. \A r \in prior : r[1] # "TX"
    BY <2>2
  <2>6. QED BY <2>3, <2>4, <2>5, PlainNoteOk
<1>3. ASSUME injected # {} PROVE NoteOk(n2)
  <2>1. injected \in SUBSET Seen
    OBVIOUS
  <2> HIDE DEF injected
  <2>2. AtMost({}, 2) /\ \A c \in {} : ClaimOk(c, TxRefs(injected))
    BY Few
  <2>3. QED BY <1>3, <2>1, <2>2, TxNoteOk
<1> HIDE DEF h1, n1, n2, injected
<1>4. AtMost(HistoryNotes, 1 + 1)
  BY <1>1, WhenAtMost, AtMostUnion
<1>5. AtMost(HistoryNotes, 2)
  BY <1>4, 1 + 1 = 2
<1>6. QED BY <1>1, <1>2, <1>3, <1>5 DEF When

(* One element or none within the bounds that occur.                       *)
LEMMA OneIsFew == \A x : AtMost({x}, 11) /\ AtMost({}, 5)
<1>1. SUFFICES ASSUME NEW x PROVE AtMost({x}, 11) /\ AtMost({}, 5)
  OBVIOUS
<1>2. /\ IsFiniteSet({x}) /\ Cardinality({x}) = 1
      /\ IsFiniteSet({}) /\ Cardinality({}) = 0
  BY FS_Singleton, FS_EmptySet
<1>3. Cardinality({x}) <= 11 /\ Cardinality({}) <= 5
  BY <1>2
<1>4. QED BY <1>2, <1>3 DEF AtMost

(* All findings of simulate_investigation, and their number.               *)
LEMMA AllNotesOk ==
    ASSUME Knowing
    PROVE  (\A n \in SimNotes : NoteOk(n)) /\ AtMost(SimNotes, 11)
<1> DEFINE F == IF "features" \in asked THEN FeatureNotes ELSE {}
           U == CashNote \cup ExitsNote \cup TurnoverNote \cup PayrollNote \cup HistoryNotes \cup F
           nothing == Note("mitigating", {<<"ALERT", "this">>}, {})
<1>1. AllNotes = U
  BY DEF AllNotes
<1>2. (\A n \in F : NoteOk(n)) /\ AtMost(F, 5)
  <2>1. CASE "features" \in asked
    BY <2>1, FeatureNotesOk
  <2>2. CASE "features" \notin asked
    <3>1. AtMost({}, 5)
      BY OneIsFew
    <3>2. F = {}
      BY <2>2
    <3>3. QED BY <3>1, <3>2
  <2>3. QED BY <2>1, <2>2
<1> HIDE DEF F
<1>3. \A n \in U : NoteOk(n)
  BY <1>2, CashNoteOk, ExitsNoteOk, TurnoverNoteOk, PayrollNoteOk, HistoryNotesOk
<1>4. AtMost(U, 11)
  <2>1. AtMost(CashNote \cup ExitsNote, 2)
    BY CashNoteOk, ExitsNoteOk, AtMostUnion, 1 + 1 = 2
  <2>2. AtMost(CashNote \cup ExitsNote \cup TurnoverNote, 3)
    BY <2>1, TurnoverNoteOk, AtMostUnion, 2 + 1 = 3
  <2>3. AtMost(CashNote \cup ExitsNote \cup TurnoverNote \cup PayrollNote, 4)
    BY <2>2, PayrollNoteOk, AtMostUnion, 3 + 1 = 4
  <2>4. AtMost(CashNote \cup ExitsNote \cup TurnoverNote \cup PayrollNote \cup HistoryNotes, 6)
    BY <2>3, HistoryNotesOk, AtMostUnion, 4 + 2 = 6
  <2>5. QED BY <1>2, <2>4, AtMostUnion, 6 + 5 = 11
<1> HIDE DEF U
<1>5. ASSUME "features" \in asked PROVE NoteOk(nothing)
  <2> DEFINE this == {<<"ALERT", "this">>}
  <2>1. <<"ALERT", "this">> \in Returned("features")
    BY DEF Returned
  <2>2. this # {} /\ this \subseteq disclosed /\ \A r \in this : r[1] # "TX"
    BY <1>5, <2>1, ReturnedIsKnown
  <2> HIDE DEF this
  <2>3. NoteOk(Note("mitigating", this, {}))
    BY <2>2, PlainNoteOk
  <2>4. QED BY <2>3 DEF this
<1>6. AtMost({nothing}, 11)
  BY OneIsFew
<1> HIDE DEF nothing
<1>7. SimNotes = IF AllNotes = {} /\ "features" \in asked THEN {nothing} ELSE AllNotes
  BY DEF SimNotes, nothing
<1>8. QED BY <1>1, <1>3, <1>4, <1>5, <1>6, <1>7

(* What the verifier reads of the findings.                                *)
LEMMA SummaryOk ==
    ASSUME Knowing
    PROVE  LET f == Summary(SimNotes)
           IN  /\ f.refs \subseteq disclosed /\ f.numbers = TRUE
               /\ f.aggravating \in 0..2
<1> DEFINE f == Summary(SimNotes)
           k == Cardinality(Aggravating(SimNotes))
           refs == UNION {n.refs : n \in SimNotes}
           exact == \A n \in SimNotes : \A c \in n.claims : ClaimOk(c, n.refs)
           many == IF k >= 2 THEN 2 ELSE k
<1>1. f = [refs |-> refs, numbers |-> exact, aggravating |-> many]
  BY DEF Summary
<1> HIDE DEF f, refs, exact, many
<1>2. f.refs = refs /\ f.numbers = exact /\ f.aggravating = many
  BY <1>1
<1>3. \A n \in SimNotes : n.refs \subseteq disclosed /\ \A c \in n.claims : ClaimOk(c, n.refs)
  BY AllNotesOk DEF NoteOk
<1>4. k \in Nat
  <2>1. IsFiniteSet(SimNotes) /\ Aggravating(SimNotes) \in SUBSET SimNotes
    BY AllNotesOk DEF AtMost, Aggravating
  <2>2. QED BY <2>1, FS_Subset, FS_CardinalityType
<1> HIDE DEF k
<1>5. f.aggravating \in 0..2
  BY <1>2, <1>4 DEF many
<1>6. f.refs \subseteq disclosed
  BY <1>2, <1>3 DEF refs
<1>7. f.numbers = TRUE
  BY <1>2, <1>3 DEF exact
<1>8. QED BY <1>5, <1>6, <1>7 DEF f
-----------------------------------------------------------------------------
(* An execution of the reference agents                                    *)

(* Findings and guidance rest on what was disclosed and retrieved, every   *)
(* answer has its turn, and fits its schema.                               *)
Grounded ==
    /\ Knowing /\ AnswersFit
    /\ stage \in {"triage", "investigation", "policy", "decision", "ended"}
    /\ Cardinality(asked) <= MaxToolSteps
    /\ stage \in {"triage", "investigation"} => turns = Cardinality(asked)
    /\ stage \in {"policy", "decision"} =>
          /\ findings.refs \subseteq disclosed /\ findings.numbers = TRUE
          /\ findings.aggravating \in 0..2
    /\ stage = "decision" => policy.guidance \subseteq retrieved /\ retrieved \subseteq Chunks

(* There is no attempt and no outcome before the decision.                 *)
Untried == stage \in {"triage", "investigation", "policy"} => attempt = 0 /\ outcome = None

ReferenceInv ==
    Grounded /\ Untried /\ AcceptedUnlessAtRisk /\ attempt \in 0..DecisionRetries

(* At the beginning nothing is known or claimed.                           *)
LEMMA ReferenceInitInv == ReferenceInit => ReferenceInv
<1> SUFFICES ASSUME ReferenceInit PROVE ReferenceInv
  OBVIOUS
<1>1. /\ stage = "triage" /\ case \in Cases /\ dossier \in Dossiers /\ asked = {} /\ disclosed = {}
      /\ turns = 0 /\ attempt = 0 /\ outcome = None /\ notes = {} /\ triage.types = {}
  BY DEF ReferenceInit, PipelineInit
<1>2. Knowing
  BY <1>1 DEF Knowing
<1>3. Cardinality({}) = 0
  BY FS_EmptySet
<1>4. AnswersFit
  <2>1. Cardinality(triage.types) <= 3 /\ Cardinality(notes) <= 12
    BY <1>1, <1>3
  <2>2. QED BY <1>1, <2>1 DEF AnswersFit
<1>5. Grounded
  <2>1. Cardinality(asked) = 0 /\ MaxToolSteps \in Nat
    BY <1>1, <1>3, PipelineAssumption
  <2>2. QED BY <1>1, <1>2, <1>4, <2>1 DEF Grounded
<1>6. AcceptedUnlessAtRisk /\ Untried /\ attempt \in 0..DecisionRetries
  BY <1>1, <1>4, PipelineAssumption DEF AcceptedUnlessAtRisk, Untried
<1>7. QED BY <1>5, <1>6 DEF ReferenceInv

(* Triage names at most two typologies.                                    *)
LEMMA SimTriageInv ==
    ASSUME Grounded, SimTriage
    PROVE  Grounded' /\ UNCHANGED <<attempt, outcome>>
<1>1. /\ stage = "triage" /\ stage' = "investigation"
      /\ UNCHANGED <<case, asked, turns, disclosed, findings, policy, retrieved, attempt, outcome>>
      /\ triage' = [types |-> Typologies, enhanced |-> Enhanced]
      /\ UNCHANGED <<dossier, notes>>
  BY DEF SimTriage, Triage, scope
<1>2. triage'.types = Typologies
  BY <1>1
<1>3. Cardinality(Typologies) <= 3
  <2>1. PICK x, T : Typologies = {x} \cup T /\ (T = {} \/ T = {"HIGH_RISK_JURISDICTION"})
    BY DEF Typologies
  <2>2. T = {} => Typologies = {x, x}
    BY <2>1
  <2>3. \E y : Typologies = {x, y}
    BY <2>1, <2>2
  <2>4. AtMost(Typologies, 2)
    BY <2>3, Two
  <2>5. Cardinality(Typologies) \in Nat /\ Cardinality(Typologies) <= 2
    BY <2>4, FS_CardinalityType DEF AtMost
  <2>6. QED BY <2>5
<1>4. AnswersFit'
  BY <1>1, <1>2, <1>3 DEF Grounded, AnswersFit
<1>5. QED BY <1>1, <1>4 DEF Grounded, Knowing

(* The plan begins with the features.                                      *)
LEMMA PlanFacts == Plan \in Seq(Calls) /\ Len(Plan) \in Nat /\ Len(Plan) >= 1 /\ Plan[1] = "features"
<1> DEFINE A == <<"features", "profile", "recent", "counterparties", "prior">>
           B == IF triage.enhanced /\ triage.types \cap {"STRUCTURING", "FUNNEL_ACCOUNT"} # {}
                THEN <<"cash60">> ELSE <<>>
           C == IF triage.enhanced /\ triage.types \ {"STRUCTURING", "FUNNEL_ACCOUNT"} # {}
                THEN <<"out60">> ELSE <<>>
<1>1. Calls = {"features", "profile", "counterparties", "prior", "recent", "cash60", "out60"}
  BY ReferenceAssumption DEF Listings
<1>2. A \in Seq(Calls) /\ Len(A) = 5 /\ A[1] = "features"
  BY <1>1
<1>3. B \in Seq(Calls) /\ C \in Seq(Calls)
  <2>1. <<"cash60">> \in Seq(Calls) /\ <<"out60">> \in Seq(Calls) /\ <<>> \in Seq(Calls)
    BY <1>1
  <2>2. QED BY <2>1
<1>4. Plan = A \o B \o C
  BY DEF Plan
<1> HIDE DEF A, B, C
<1> DEFINE D == A \o B
<1>5. /\ D \in Seq(Calls) /\ Len(D) = Len(A) + Len(B)
      /\ \A i \in 1..Len(A) : D[i] = A[i]
  <2>1. /\ D \in Seq(Calls) /\ Len(D) = Len(A) + Len(B)
        /\ \A i \in 1..Len(A) + Len(B) : D[i] = IF i <= Len(A) THEN A[i] ELSE B[i - Len(A)]
    BY <1>2, <1>3, ConcatProperties
  <2>2. Len(A) \in Nat /\ Len(B) \in Nat
    BY <1>2, <1>3, LenProperties
  <2> HIDE DEF D
  <2>3. QED BY <2>1, <2>2
<1> HIDE DEF D
<1> DEFINE E1 == D \o C
<1>6. /\ E1 \in Seq(Calls) /\ Len(E1) = Len(D) + Len(C)
      /\ \A i \in 1..Len(D) : E1[i] = D[i]
  <2>0. D \in Seq(Calls) /\ C \in Seq(Calls)
    BY <1>3, <1>5
  <2>1. /\ E1 \in Seq(Calls) /\ Len(E1) = Len(D) + Len(C)
        /\ \A i \in 1..Len(D) + Len(C) : E1[i] = IF i <= Len(D) THEN D[i] ELSE C[i - Len(D)]
    BY <2>0, ConcatProperties
  <2>2. Len(D) \in Nat /\ Len(C) \in Nat
    BY <1>3, <1>5, LenProperties
  <2> HIDE DEF E1
  <2>3. QED BY <2>1, <2>2
<1>7. Plan = E1
  BY <1>4 DEF D
<1> HIDE DEF E1
<1>8. Len(B) \in Nat /\ Len(C) \in Nat
  BY <1>3, LenProperties
<1>9. Len(D) \in Nat /\ Len(D) >= 1 /\ Len(E1) \in Nat /\ Len(E1) >= 1
  BY <1>2, <1>5, <1>6, <1>8
<1>10. E1[1] = "features"
  <2>1. 1 \in 1..Len(A) /\ 1 \in 1..Len(D)
    BY <1>2, <1>9
  <2>2. D[1] = A[1] /\ E1[1] = D[1]
    BY <1>5, <1>6, <2>1
  <2>3. QED BY <1>2, <2>2
<1>11. QED BY <1>6, <1>7, <1>9, <1>10

(* The first call is for the features.                                     *)
LEMMA NextCall ==
    ASSUME Pending # {}
    PROVE  Plan[Min(Pending)] \in Calls /\ (asked = {} => Plan[Min(Pending)] = "features")
<1> DEFINE P == Pending
           m == Min(P)
<1>1. P = {i \in 1..Len(Plan) : Plan[i] \notin asked /\ Cardinality(asked) < MaxToolSteps}
  BY DEF Pending
<1>2. P \in SUBSET Nat
  BY <1>1, PlanFacts
<1>3. \E k \in P : \A j \in P : k <= j
  BY <1>2, Least
<1>4. m \in P /\ \A j \in P : m <= j
  BY <1>3 DEF Min
<1> HIDE DEF m
<1>5. Plan[m] \in Calls
  BY <1>1, <1>4, PlanFacts, ElementOfSeq
<1>6. ASSUME asked = {} PROVE Plan[m] = "features"
  <2>1. 1 \in 1..Len(Plan)
    BY PlanFacts
  <2>2. 1 \in P
    BY <1>1, <1>4, <1>6, <2>1
  <2>3. m \in Nat /\ m >= 1 /\ m <= 1
    BY <1>1, <1>4, <2>2, PlanFacts
  <2>4. m = 1
    BY <2>3
  <2>5. QED BY <2>4, PlanFacts
<1>7. QED BY <1>5, <1>6 DEF m

(* The calls made are finitely many.                                       *)
LEMMA AskedFinite == Grounded => IsFiniteSet(asked) /\ Cardinality(asked) \in Nat
BY PipelineAssumption, FS_Subset, FS_CardinalityType DEF Grounded, Knowing

(* A call discloses what it returns, and takes one turn.                   *)
LEMMA SimCallInv ==
    ASSUME Grounded, SimCall
    PROVE  Grounded' /\ UNCHANGED <<attempt, outcome>>
<1> DEFINE c == Plan[Min(Pending)]
<1>1. c \in Calls /\ (asked = {} => c = "features")
  BY NextCall DEF SimCall
<1>2. /\ stage = "investigation" /\ stage' = stage /\ turns' = turns + 1
      /\ asked' = asked \cup {c} /\ disclosed' = disclosed \cup Discloses[c]
      /\ c \notin asked /\ Cardinality(asked) < MaxToolSteps
      /\ UNCHANGED <<case, findings, policy, retrieved, attempt, outcome>>
      /\ UNCHANGED <<dossier, triage, notes>>
  BY DEF SimCall, CallTool, MayCall
<1> HIDE DEF c
<1>3. Knowing'
  BY <1>1, <1>2 DEF Grounded, Knowing
<1>4. AnswersFit'
  BY <1>2 DEF Grounded, AnswersFit
<1>5. Cardinality(asked') = Cardinality(asked) + 1 /\ Cardinality(asked) \in Nat
  BY <1>2, AskedFinite, FS_AddElement
<1>6. Cardinality(asked') <= MaxToolSteps /\ turns' = Cardinality(asked')
  BY <1>2, <1>5, PipelineAssumption DEF Grounded
<1>7. QED BY <1>2, <1>3, <1>4, <1>6 DEF Grounded

(* Findings are made of what was disclosed.                                *)
LEMMA SimFinishInv ==
    ASSUME Grounded, SimFinish
    PROVE  Grounded' /\ UNCHANGED <<attempt, outcome>>
<1>1. /\ stage' = "policy" /\ findings' = Summary(SimNotes)
      /\ UNCHANGED <<case, asked, disclosed, policy, retrieved, attempt, outcome>>
      /\ notes' = SimNotes /\ UNCHANGED <<dossier, triage>>
  BY DEF SimFinish, FinishInvestigation
<1>2. Knowing /\ AnswersFit
  BY DEF Grounded
<1>3. Cardinality(SimNotes) <= 12 /\ \A n \in SimNotes : NoteOk(n)
  <2>1. AtMost(SimNotes, 11) /\ \A n \in SimNotes : NoteOk(n)
    BY <1>2, AllNotesOk
  <2>2. Cardinality(SimNotes) \in Nat /\ Cardinality(SimNotes) <= 11
    BY <2>1, FS_CardinalityType DEF AtMost
  <2>3. QED BY <2>1, <2>2
<1>4. AnswersFit'
  <2>1. \A n \in SimNotes : /\ n.refs # {}
                            /\ Cardinality({r \in n.refs : r[1] = "TX"}) <= MaxEvidence
                            /\ Cardinality(n.claims) <= 5
    BY <1>3 DEF NoteOk
  <2>2. Cardinality(triage.types) <= 3
    BY <1>2 DEF AnswersFit
  <2> DEFINE N == SimNotes
  <2>3. notes' = N /\ triage' = triage
    BY <1>1
  <2>4. Cardinality(N) <= 12
    BY <1>3
  <2> HIDE DEF N
  <2>5. QED BY <2>1, <2>2, <2>3, <2>4 DEF AnswersFit, N
<1>5. Knowing'
  BY <1>1, <1>2 DEF Knowing
<1>6. /\ findings'.refs \subseteq disclosed' /\ findings'.numbers = TRUE
      /\ findings'.aggravating \in 0..2
  BY <1>1, <1>2, SummaryOk
<1>7. QED BY <1>1, <1>4, <1>5, <1>6 DEF Grounded

(* Guidance is of what was retrieved.                                      *)
LEMMA SimPolicyInv ==
    ASSUME Grounded, NEW found \in SUBSET Chunks, SimPolicy(found)
    PROVE  Grounded' /\ UNCHANGED <<attempt, outcome>>
<1> DEFINE used == {k \in found : Relevance[k] # "unused"}
<1>1. /\ stage = "policy" /\ stage' = "decision" /\ retrieved' = found
      /\ policy' = [guidance |-> used]
      /\ UNCHANGED <<case, asked, disclosed, findings, attempt, outcome>>
      /\ UNCHANGED <<dossier, triage, notes>>
  BY DEF SimPolicy, MapPolicy, scope
<1>2. policy'.guidance \subseteq retrieved' /\ retrieved' \subseteq Chunks
  BY <1>1
<1>3. Knowing' /\ AnswersFit'
  BY <1>1 DEF Grounded, Knowing, AnswersFit
<1>4. QED BY <1>1, <1>2, <1>3 DEF Grounded

(* The verifier finds nothing critical but a closure at risk.              *)
LEMMA OnlyTheRisk ==
    ASSUME Grounded, stage = "decision"
    PROVE  CriticalIssues(SimDecision) = IF ClosesAtRisk THEN {"close_contradicts_model"} ELSE {}
<1> DEFINE d == SimDecision
           wanted == IF SimAction = "CLOSE_FALSE_POSITIVE" THEN "supports_legitimate"
                     ELSE "supports_suspicion"
<1>1. /\ d.action = SimAction /\ d.refs = findings.refs /\ d.pii = FALSE
      /\ d.citations = {k \in policy.guidance : Relevance[k] \in {wanted, "procedural"}}
  BY DEF SimDecision
<1>2. /\ findings.refs \subseteq disclosed /\ findings.numbers = TRUE
      /\ findings.aggravating \in Int /\ policy.guidance \subseteq retrieved
  BY DEF Grounded
<1>3. SimAction = "CLOSE_FALSE_POSITIVE" => ~ (findings.aggravating >= 2)
  <2>1. ASSUME SimAction = "CLOSE_FALSE_POSITIVE" PROVE ~ (findings.aggravating >= 1)
    BY <2>1 DEF SimAction
  <2>2. QED BY <1>2, <2>1
<1>4. SimAction \in Severe => findings.aggravating # 0
  <2>1. ASSUME SimAction \in Severe PROVE findings.aggravating >= 2
    BY <2>1 DEF SimAction, Severe
  <2>2. QED BY <1>2, <2>1
<1> HIDE DEF d
<1>5. d.citations \subseteq retrieved /\ findings.refs \cup d.refs \subseteq disclosed
  BY <1>1, <1>2
<1>6. CriticalIssues(d) = IF ClosesAtRisk THEN {"close_contradicts_model"} ELSE {}
  BY <1>1, <1>2, <1>3, <1>4, <1>5 DEF CriticalIssues, ClosesAtRisk
<1>7. QED BY <1>6 DEF d

(* The decision changes nothing it rests on, ...                           *)
LEMMA SimDecideInv ==
    ASSUME Grounded, SimDecide
    PROVE  Grounded'
<1>1. /\ stage = "decision" /\ stage' \in {"decision", "ended"}
      /\ UNCHANGED <<case, asked, disclosed, findings, policy, retrieved>>
      /\ UNCHANGED <<dossier, triage, notes>>
  BY DEF SimDecide, Decide, Repair, scope
<1>2. Knowing' /\ AnswersFit'
  BY <1>1 DEF Grounded, Knowing, AnswersFit
<1>3. QED BY <1>1, <1>2 DEF Grounded

(* ... nor what it is, ...                                                 *)
LEMMA RiskStays ==
    ASSUME SimDecide
    PROVE  ClosesAtRisk' <=> ClosesAtRisk
<1>1. UNCHANGED <<case, findings, dossier, triage>>
  BY DEF SimDecide, Decide
<1>2. QED BY <1>1 DEF ClosesAtRisk, SimAction, Threshold

(* ... and passes at once, or is repeated until a human has to see it.     *)
LEMMA SimDecideAccepted ==
    ASSUME ReferenceInv, SimDecide
    PROVE  AcceptedUnlessAtRisk' /\ attempt' \in 0..DecisionRetries
<1> DEFINE d == SimDecision
           passed == CriticalIssues(d) = {}
<1>1. stage = "decision" /\ Grounded /\ attempt \in 0..DecisionRetries /\ DecisionRetries \in Nat
      /\ (attempt > 0 => ClosesAtRisk) /\ (outcome # None => outcome.verified <=> ~ ClosesAtRisk)
  BY PipelineAssumption DEF SimDecide, Decide, ReferenceInv, AcceptedUnlessAtRisk
<1>2. passed <=> ~ ClosesAtRisk
  BY <1>1, OnlyTheRisk
<1>3. IF ~ passed /\ MayRepair THEN attempt' = attempt + 1 /\ UNCHANGED outcome
      ELSE outcome' = Ruling(d, passed) /\ attempt' = attempt
  BY DEF SimDecide, Decide, Repair
<1>4. passed \in BOOLEAN
  OBVIOUS
<1> HIDE DEF passed, d
<1>5. AnswersFit'
  BY <1>1, SimDecideInv DEF Grounded
<1>6. CASE ~ passed /\ MayRepair
  <2>1. attempt' \in 0..DecisionRetries /\ outcome' = outcome
    BY <1>1, <1>3, <1>6 DEF MayRepair
  <2>2. ClosesAtRisk'
    BY <1>2, <1>6, RiskStays
  <2>3. outcome = None
    <3>1. outcome # None => ~ outcome.verified
      BY <1>1, <1>2, <1>6
    <3>2. attempt # DecisionRetries
      BY <1>1, <1>6 DEF MayRepair
    <3>3. QED BY <3>1, <3>2 DEF ReferenceInv, AcceptedUnlessAtRisk
  <2>4. QED BY <1>5, <2>1, <2>2, <2>3 DEF AcceptedUnlessAtRisk
<1>7. CASE ~ (~ passed /\ MayRepair)
  <2>1. outcome' = Ruling(d, passed) /\ attempt' = attempt
    BY <1>3, <1>7
  <2>2. outcome'.kind = "recommended" /\ outcome'.verified = passed
        /\ outcome'.automatic = ~ RequiresApproval(d.action, RuledCase, passed)
    BY <2>1 DEF Ruling
  <2>3. ASSUME ~ passed PROVE attempt' = DecisionRetries /\ ~ outcome'.automatic
    <3>1. attempt' = DecisionRetries
      BY <1>1, <1>7, <2>1, <2>3 DEF MayRepair
    <3>2. "verification_failed" \in Blockers(d.action, RuledCase, passed)
      BY <2>3 DEF Blockers
    <3>3. RequiresApproval(d.action, RuledCase, passed)
      BY <3>2 DEF RequiresApproval
    <3>4. QED BY <2>2, <3>1, <3>3
  <2>4. attempt' > 0 => ClosesAtRisk'
    BY <1>1, <2>1, RiskStays
  <2>5. outcome'.verified <=> ~ ClosesAtRisk'
    BY <1>2, <1>4, <2>2, RiskStays
  <2>6. QED BY <1>1, <1>5, <2>1, <2>2, <2>3, <2>4, <2>5 DEF AcceptedUnlessAtRisk
<1>8. QED BY <1>6, <1>7

LEMMA GroundedStep == Grounded /\ [ReferenceNext]_refVars => Grounded'
<1> SUFFICES ASSUME Grounded, [ReferenceNext]_refVars PROVE Grounded'
  OBVIOUS
<1>1. CASE UNCHANGED refVars
  <2>1. UNCHANGED <<stage, case, asked, turns, disclosed, findings, policy, retrieved,
                    dossier, triage, notes>>
    BY <1>1 DEF refVars, pipelineVars, scope
  <2>2. QED BY <2>1 DEF Grounded, Knowing, AnswersFit
<1>2. CASE SimTriage \/ SimCall \/ SimFinish \/ SimDecide
  BY <1>2, SimTriageInv, SimCallInv, SimFinishInv, SimDecideInv
<1>3. CASE \E found \in SUBSET Chunks : SimPolicy(found)
  BY <1>3, SimPolicyInv
<1>4. QED BY <1>1, <1>2, <1>3 DEF ReferenceNext

THEOREM ReferenceGrounded == ReferenceSpec => []Grounded
<1>1. ReferenceInit => Grounded
  BY ReferenceInitInv DEF ReferenceInv
<1>2. QED BY <1>1, GroundedStep, PTL DEF ReferenceSpec

(* AcceptedUnlessAtRisk, the safety of ReferenceRecommends: whatever the   *)
(* customer's transactions, features and earlier alerts are, and whatever  *)
(* the threshold in production, nothing the deterministic agents claim is  *)
(* refused by the verifier or their schemas, except a closure at a risk    *)
(* that is below the threshold and at least 0.5, which is repeated to the  *)
(* last attempt and then goes to a human (ai/simulators.py against         *)
(* agents/verifier.py, agents/orchestrator.py).                            *)
THEOREM ReferenceAccepted == ReferenceSpec => []AcceptedUnlessAtRisk
<1>1. ASSUME ReferenceInv, [ReferenceNext]_refVars PROVE ReferenceInv'
  <2>1. /\ Grounded /\ Grounded' /\ AnswersFit'
        /\ Untried /\ AcceptedUnlessAtRisk /\ attempt \in 0..DecisionRetries
    <3>1. Grounded'
      BY <1>1, GroundedStep DEF ReferenceInv
    <3>2. AnswersFit'
      BY <3>1 DEF Grounded
    <3>3. QED BY <1>1, <3>1, <3>2 DEF ReferenceInv
  <2>2. CASE SimDecide
    <3>1. AcceptedUnlessAtRisk' /\ attempt' \in 0..DecisionRetries
      BY <1>1, <2>2, SimDecideAccepted
    <3>2. stage' \in {"decision", "ended"}
      BY <2>2 DEF SimDecide, Decide, Repair
    <3>3. Untried'
      BY <3>2 DEF Untried
    <3>4. QED BY <2>1, <3>1, <3>3 DEF ReferenceInv
  <2>3. CASE UNCHANGED refVars
    <3>1. UNCHANGED <<stage, attempt, outcome, case, findings, dossier, triage>>
      BY <2>3 DEF refVars, pipelineVars, scope
    <3>2. ClosesAtRisk' <=> ClosesAtRisk
      BY <3>1 DEF ClosesAtRisk, SimAction, Threshold
    <3>3. AcceptedUnlessAtRisk'
      BY <2>1, <3>1, <3>2 DEF AcceptedUnlessAtRisk
    <3>4. QED BY <2>1, <3>1, <3>3 DEF ReferenceInv, Untried
  <2>4. CASE SimTriage \/ SimCall \/ SimFinish \/ \E found \in SUBSET Chunks : SimPolicy(found)
    <3>1. stage \in {"triage", "investigation", "policy"}
      BY <2>4 DEF SimTriage, Triage, SimCall, CallTool, MayCall, SimFinish, FinishInvestigation,
                  SimPolicy, MapPolicy
    <3>2. UNCHANGED <<attempt, outcome>>
      BY <2>1, <2>4, SimTriageInv, SimCallInv, SimFinishInv, SimPolicyInv
    <3>3. attempt' = 0 /\ outcome' = None
      BY <2>1, <3>1, <3>2 DEF Untried
    <3>4. AcceptedUnlessAtRisk'
      BY <2>1, <3>3 DEF AcceptedUnlessAtRisk
    <3>5. QED BY <2>1, <3>2, <3>3, <3>4 DEF ReferenceInv, Untried
  <2>5. QED BY <1>1, <2>2, <2>3, <2>4 DEF ReferenceNext
<1>2. ReferenceInv => AcceptedUnlessAtRisk
  BY DEF ReferenceInv
<1>3. QED BY <1>1, <1>2, ReferenceInitInv, PTL DEF ReferenceSpec
-----------------------------------------------------------------------------
(* The reference agents are agents like any others                         *)

(* A model may answer whatever its schema allows.                          *)
AnyAnswer == RefSets = SUBSET Refs /\ ChunkSets = SUBSET Chunks

(* Every answer of a simulator is one that a language model could have     *)
(* given: the deterministic agents implement the pipeline of arbitrary     *)
(* ones, so that all that is proved of it holds with them                  *)
(* (DeterministicProvider behind the gateway's interface).                 *)
THEOREM ReferenceImplementsPipeline ==
    ASSUME AnyAnswer
    PROVE  ReferenceSpec => PipelineSpec
<1>1. ReferenceInit => PipelineInit
  BY DEF ReferenceInit
<1>2. ASSUME Grounded, ReferenceNext PROVE PipelineNext
  <2>1. disclosed \subseteq Refs
    BY <1>2, PipelineAssumption DEF Grounded, Knowing
  <2>2. CASE SimTriage
    BY <2>2 DEF SimTriage, PipelineNext
  <2>3. CASE SimCall
    <3>1. Plan[Min(Pending)] \in Calls
      BY <2>3, NextCall DEF SimCall
    <3>2. QED BY <2>3, <3>1 DEF SimCall, PipelineNext, Investigate
  <2>4. CASE SimFinish
    <3> DEFINE f == Summary(SimNotes)
    <3>1. f.refs \subseteq disclosed /\ f.numbers = TRUE /\ f.aggravating \in 0..2
      BY <1>2, SummaryOk DEF Grounded
    <3>2. f = [refs |-> f.refs, numbers |-> f.numbers, aggravating |-> f.aggravating]
      BY DEF Summary
    <3>3. FinishInvestigation(f)
      BY <2>4 DEF SimFinish
    <3> HIDE DEF f
    <3>4. f.refs \in RefSets /\ f.numbers \in BOOLEAN
      BY <2>1, <3>1, AnyAnswer DEF AnyAnswer
    <3>5. f \in Findings
      BY <3>1, <3>2, <3>4 DEF Findings
    <3>6. QED BY <3>3, <3>5 DEF PipelineNext, Investigate
  <2>5. ASSUME NEW found \in SUBSET Chunks, SimPolicy(found) PROVE PipelineNext
    <3> DEFINE used == {k \in found : Relevance[k] # "unused"}
    <3>1. MapPolicy(found, [guidance |-> used])
      BY <2>5 DEF SimPolicy
    <3>2. [guidance |-> used] \in PolicyOutput
      BY AnyAnswer DEF AnyAnswer, PolicyOutput
    <3>3. QED BY <3>1, <3>2 DEF PipelineNext
  <2>6. CASE SimDecide
    <3> DEFINE d == SimDecision
    <3>1. Decide(d) /\ stage = "decision"
      BY <2>6 DEF SimDecide, Decide
    <3>2. /\ d.refs = findings.refs /\ d.citations \subseteq policy.guidance
          /\ d.pii = FALSE /\ d.action = SimAction
          /\ d = [action |-> d.action, refs |-> d.refs, citations |-> d.citations, pii |-> d.pii]
      BY DEF SimDecision
    <3> HIDE DEF d
    <3>3. d.refs \in RefSets /\ d.citations \in ChunkSets
      BY <1>2, <2>1, <3>1, <3>2, AnyAnswer DEF AnyAnswer, Grounded
    <3>4. SimAction \in Actions
      BY DEF SimAction, Actions
    <3>5. d \in Decisions
      BY <3>2, <3>3, <3>4 DEF Decisions
    <3>6. QED BY <3>1, <3>5 DEF PipelineNext
  <2>7. QED BY <1>2, <2>2, <2>3, <2>4, <2>5, <2>6 DEF ReferenceNext
<1>3. Grounded /\ [ReferenceNext]_refVars => [PipelineNext]_pipelineVars
  BY <1>2 DEF refVars
<1>4. QED BY <1>1, <1>3, ReferenceGrounded, PTL DEF ReferenceSpec, PipelineSpec

(* The guard of the step that is next.                                     *)
CanGoOn ==
    stage = "investigation" =>
       /\ turns < MaxToolSteps + 2
       /\ IF Pending = {} THEN SimNotes # {} ELSE MayCall(Plan[Min(Pending)])

(* The agents never come to a halt before their decision: the plan asks    *)
(* for no call twice and for none beyond the budget, and when it is done,  *)
(* or the budget, there is something to report, because the first call is  *)
(* for the features.  With ExecutionsAreBounded this is why every          *)
(* execution of theirs ends (simulate_investigation, _plan).               *)
THEOREM ReferenceNeverStuck ==
    ASSUME MaxToolSteps # 0
    PROVE  ReferenceSpec => []CanGoOn
<1>1. ASSUME Grounded, stage = "investigation"
      PROVE  /\ turns < MaxToolSteps + 2
             /\ IF Pending = {} THEN SimNotes # {} ELSE MayCall(Plan[Min(Pending)])
  <2>1. turns = Cardinality(asked) /\ Cardinality(asked) \in Nat /\ Cardinality(asked) <= MaxToolSteps
        /\ MaxToolSteps \in Nat
    BY <1>1, AskedFinite, PipelineAssumption DEF Grounded
  <2>2. turns < MaxToolSteps + 2
    BY <2>1
  <2>3. ASSUME Pending = {} PROVE SimNotes # {}
    <3>1. asked # {}
      <4>1. SUFFICES ASSUME asked = {} PROVE FALSE
        OBVIOUS
      <4>2. Cardinality(asked) < MaxToolSteps
        <5>1. Cardinality(asked) = 0
          BY <4>1, FS_EmptySet
        <5>2. QED BY <2>1, <5>1
      <4>3. 1 \in 1..Len(Plan)
        BY PlanFacts
      <4>4. 1 \in Pending
        BY <4>1, <4>2, <4>3 DEF Pending
      <4>5. QED BY <2>3, <4>4
    <3>2. "features" \in asked
      BY <1>1, <3>1 DEF Grounded, Knowing
    <3>3. QED BY <3>2 DEF SimNotes
  <2>4. ASSUME Pending # {} PROVE MayCall(Plan[Min(Pending)])
    <3> DEFINE m == Min(Pending)
    <3>1. Pending \in SUBSET Nat
      BY PlanFacts DEF Pending
    <3>2. \E k \in Pending : \A j \in Pending : k <= j
      BY <2>4, <3>1, Least
    <3>3. m \in Pending
      BY <3>2 DEF Min
    <3> HIDE DEF m
    <3>4. MayCall(Plan[m])
      BY <3>3 DEF Pending, MayCall
    <3>5. QED BY <3>4 DEF m
  <2>5. QED BY <2>2, <2>3, <2>4
<1>2. Grounded => CanGoOn
  BY <1>1 DEF CanGoOn
<1>3. QED BY <1>2, ReferenceGrounded, PTL
=============================================================================
