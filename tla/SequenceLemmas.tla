---- MODULE SequenceLemmas ----
(***************************************************************************)
(* Facts about numbers, and about the operators on sequences that the      *)
(* models are written with.  What such an operator gives for every input   *)
(* is proved by induction over the numbers up to its length: the set of    *)
(* those for which it holds has 0, and n + 1 with n.                       *)
(***************************************************************************)
EXTENDS Integers, Sequences, FiniteSets, SequencesExt, FiniteSetTheorems, WellFoundedInduction, TLAPS

----
(* Numbers. *)

(* There is no infinite descent, so a set of numbers has a least one. *)
LEMMA Least ==
  ASSUME NEW S, S \subseteq Nat, S # {}
  PROVE  \E n \in S : \A m \in S : n <= m
<1>. DEFINE R == OpToRel(<, Nat)
<1>1. IsWellFoundedOn(R, Nat)
  BY NatLessThanWellFounded
<1>2. \A x, y \in Nat : y < x => <<y, x>> \in R
  BY DEF OpToRel
<1>. HIDE DEF R
<1>3. \E x \in S : \A y \in S : ~ (<<y, x>> \in R)
  BY <1>1, WFMin
<1>4. PICK n \in S : \A m \in S : ~ (m < n)
  BY <1>2, <1>3
<1>5. \A m, k \in Nat : ~ (m < k) => k <= m
  OBVIOUS
<1>. QED BY <1>4, <1>5

(* A set that has 0 and the successor of each of its numbers has them all. *)
LEMMA Induction ==
  ASSUME NEW S, 0 \in S, \A n \in Nat : n \in S => n + 1 \in S
  PROVE  Nat \subseteq S
<1>. SUFFICES ASSUME Nat \ S # {} PROVE FALSE
  OBVIOUS
<1>1. PICK n \in Nat \ S : \A m \in Nat \ S : n <= m
  BY Least
<1>2. n # 0 /\ n - 1 \in Nat
  BY <1>1
<1>3. n - 1 \in S
  BY <1>1, <1>2
<1>4. n \in S
  BY <1>1, <1>2, <1>3
<1>. QED BY <1>1, <1>4

(* The same up to a bound. *)
LEMMA InductionTo ==
  ASSUME NEW bound \in Nat, NEW S, 0 \in S, \A n \in 0..(bound - 1) : n \in S => n + 1 \in S
  PROVE  0..bound \subseteq S
<1>. DEFINE T == {n \in Nat : n \in 0..bound => n \in S}
<1>1. 0 \in T
  OBVIOUS
<1>2. ASSUME NEW n \in Nat, n \in T PROVE n + 1 \in T
  <2>1. CASE n + 1 \in 0..bound
    <3>1. n \in 0..(bound - 1) /\ n \in 0..bound
      BY <2>1
    <3>. QED BY <1>2, <3>1
  <2>2. CASE n + 1 \notin 0..bound
    BY <2>2
  <2>. QED BY <2>1, <2>2
<1>3. Nat \subseteq T
  <2>. HIDE DEF T
  <2>. QED BY <1>1, <1>2, Induction
<1>. QED BY <1>3

----
(* Max and Min: a bounded set has a largest number in it. *)
LEMMA MaxIs ==
  ASSUME NEW bound \in Nat, NEW S, S \subseteq 0..bound, S # {}
  PROVE  Max(S) \in S /\ \A n \in S : n <= Max(S)
<1>. DEFINE T == {m \in Nat : \A n \in S : n <= m}
<1>1. T \subseteq Nat /\ bound \in T
  OBVIOUS
<1>2. PICK m \in T : \A k \in T : m <= k
  BY <1>1, Least
<1>3. m \in S
  <2>1. CASE m = 0
    <3>1. PICK n \in S : n <= m
      OBVIOUS
    <3>2. n = 0
      BY <2>1, <3>1
    <3>. QED BY <2>1, <3>1, <3>2
  <2>2. CASE m # 0 /\ m \notin S
    <3>1. \A n \in S : n <= m - 1
      BY <2>2
    <3>2. m - 1 \in T
      BY <2>2, <3>1
    <3>. QED BY <1>2, <3>2
  <2>. QED BY <2>1, <2>2
<1>4. \E x \in S : \A y \in S : x >= y
  BY <1>3
<1>5. Max(S) \in S /\ \A y \in S : Max(S) >= y
  BY <1>4 DEF Max
<1>. QED BY <1>5

(* The largest number of a set is its bound, if that is in it. *)
LEMMA MaxOf ==
  ASSUME NEW k \in Nat, NEW S, S \subseteq 0..k, k \in S
  PROVE  Max(S) = k
<1>1. PICK m : m = Max(S)
  OBVIOUS
<1>2. m \in S /\ k <= m
  BY <1>1, MaxIs
<1>3. m \in 0..k
  BY <1>2
<1>. QED BY <1>1, <1>2, <1>3

(* A set of numbers has a least one in it. *)
LEMMA MinIs ==
  ASSUME NEW S, S \subseteq Nat, S # {}
  PROVE  Min(S) \in S /\ \A n \in S : Min(S) <= n
BY Least DEF Min

(* The places up to k + 1 are those up to k, or the last of them is k + 1. *)
LEMMA LastPlace ==
  ASSUME NEW k \in Nat, NEW d, d \subseteq 1..(k + 1)
  PROVE  \/ d \subseteq 1..k
         \/ /\ k + 1 \in d /\ Max(d) = k + 1
            /\ d \ {k + 1} \subseteq 1..k /\ \A i \in d \ {k + 1} : i < k + 1
<1>1. CASE k + 1 \notin d
  BY <1>1
<1>2. CASE k + 1 \in d
  <2>1. \A x, y \in d : x <= k + 1 /\ (k + 1 <= x => x = k + 1) /\ (x >= y <=> y <= x)
    OBVIOUS
  <2>2. \E x \in d : \A y \in d : x >= y
    BY <1>2, <2>1
  <2>3. PICK m : m = Max(d)
    OBVIOUS
  <2>4. m \in d /\ \A y \in d : m >= y
    BY <2>2, <2>3 DEF Max
  <2>5. m = k + 1
    BY <1>2, <2>1, <2>4
  <2>. QED  BY <1>2, <2>3, <2>5
<1>. QED  BY <1>1, <1>2

----
(* FlattenSeq, as the sequences one after the other: f[i] is the first i   *)
(* of them.                                                                *)

Flattened(seqs, f, n) ==
  f = [i \in 1..n |-> IF i = 1 THEN seqs[i] ELSE f[i - 1] \o seqs[i]]

(* There is such a function: each sequence is put after those before it. *)
LEMMA FlattenedExists ==
  ASSUME NEW seqs, NEW n \in Nat PROVE \E f : Flattened(seqs, f, n)
<1>. DEFINE S == {m \in Nat : \E f : Flattened(seqs, f, m)}
<1>1. 0 \in S
  <2>. DEFINE f == [i \in 1..0 |-> 0]
  <2>1. Flattened(seqs, f, 0)
    BY DEF Flattened
  <2>. QED BY <2>1
<1>2. ASSUME NEW m \in Nat, m \in S PROVE m + 1 \in S
  <2>1. PICK f : Flattened(seqs, f, m)
    BY <1>2
  <2>. DEFINE last == IF m = 0 THEN seqs[1] ELSE f[m] \o seqs[m + 1]
              g == [i \in 1..(m + 1) |-> IF i = m + 1 THEN last ELSE f[i]]
  <2>2. ASSUME NEW i \in 1..(m + 1)
        PROVE  g[i] = IF i = 1 THEN seqs[i] ELSE g[i - 1] \o seqs[i]
    <3>1. CASE i = m + 1 /\ i = 1
      BY <3>1
    <3>2. CASE i = m + 1 /\ i # 1
      <4>1. i - 1 \in 1..(m + 1) /\ i - 1 # m + 1 /\ i - 1 = m /\ m # 0
        BY <3>2
      <4>2. g[i - 1] = f[m]
        BY <4>1
      <4>. QED BY <3>2, <4>1, <4>2
    <3>3. CASE i # m + 1
      <4>1. i \in 1..m /\ (i # 1 => i - 1 \in 1..m)
        BY <3>3
      <4>2. f[i] = IF i = 1 THEN seqs[i] ELSE f[i - 1] \o seqs[i]
        BY <2>1, <4>1 DEF Flattened
      <4>3. g[i] = f[i] /\ (i # 1 => g[i - 1] = f[i - 1])
        BY <3>3, <4>1
      <4>. QED BY <4>2, <4>3
    <3>. QED BY <3>1, <3>2, <3>3
  <2>. HIDE DEF g
  <2>3. g = [i \in 1..(m + 1) |-> g[i]]
    BY DEF g
  <2>4. Flattened(seqs, g, m + 1)
    BY <2>2, <2>3 DEF Flattened
  <2>. QED BY <2>4
<1>. HIDE DEF S
<1>3. Nat \subseteq S
  BY <1>1, <1>2, Induction
<1>. QED BY <1>3 DEF S

(* The elements of two sequences, one after the other. *)
LEMMA ConcatRange ==
  ASSUME NEW T, NEW a \in Seq(T), NEW b \in Seq(T)
  PROVE  a \o b \in Seq(T) /\ ToSet(a \o b) = ToSet(a) \cup ToSet(b)
<1>1. /\ a \o b \in Seq(T) /\ Len(a \o b) = Len(a) + Len(b)
      /\ \A i \in 1..Len(a) + Len(b) : (a \o b)[i] = IF i <= Len(a) THEN a[i] ELSE b[i - Len(a)]
  OBVIOUS
<1>2. Len(a) \in Nat /\ Len(b) \in Nat
  OBVIOUS
<1>3. PICK c : c = a \o b
  OBVIOUS
<1>4. DOMAIN a = 1..Len(a) /\ DOMAIN b = 1..Len(b) /\ DOMAIN c = 1..(Len(a) + Len(b))
  BY <1>1, <1>3
<1>5. PICK m \in Nat, n \in Nat : m = Len(a) /\ n = Len(b)
  BY <1>2
<1>6. \A i \in 1..(m + n) : c[i] = IF i <= m THEN a[i] ELSE b[i - m]
  BY <1>1, <1>3, <1>5
<1>7. ASSUME NEW x \in ToSet(c) PROVE x \in ToSet(a) \cup ToSet(b)
  <2>1. PICK i \in 1..(m + n) : x = c[i]
    BY <1>4, <1>5 DEF ToSet
  <2>2. i <= m => i \in 1..m
    OBVIOUS
  <2>3. ~ (i <= m) => i - m \in 1..n
    OBVIOUS
  <2>. QED BY <1>4, <1>5, <1>6, <2>1, <2>2, <2>3 DEF ToSet
<1>8. ASSUME NEW x \in ToSet(a) PROVE x \in ToSet(c)
  <2>1. PICK i \in 1..m : x = a[i]
    BY <1>4, <1>5 DEF ToSet
  <2>2. i \in 1..(m + n) /\ i <= m
    OBVIOUS
  <2>. QED BY <1>4, <1>5, <1>6, <2>1, <2>2 DEF ToSet
<1>9. ASSUME NEW x \in ToSet(b) PROVE x \in ToSet(c)
  <2>1. PICK i \in 1..n : x = b[i]
    BY <1>4, <1>5 DEF ToSet
  <2>2. i + m \in 1..(m + n) /\ ~ (i + m <= m) /\ (i + m) - m = i
    OBVIOUS
  <2>. QED BY <1>4, <1>5, <1>6, <2>1, <2>2 DEF ToSet
<1>. QED BY <1>1, <1>3, <1>7, <1>8, <1>9

(* The elements of the whole are those of the parts. *)
LEMMA FlattenRange ==
  ASSUME NEW T, NEW seqs, NEW n \in Nat, DOMAIN seqs = 1..n, Len(seqs) = n,
         \A i \in 1..n : seqs[i] \in Seq(T)
  PROVE  /\ FlattenSeq(seqs) \in Seq(T)
         /\ ToSet(FlattenSeq(seqs)) = UNION {ToSet(seqs[i]) : i \in 1..n}
<1>1. CASE n = 0
  <2>1. FlattenSeq(seqs) = <<>>
    BY <1>1 DEF FlattenSeq
  <2>. QED BY <1>1, <2>1 DEF ToSet
<1>2. CASE n # 0
  <2>. DEFINE f == CHOOSE f : Flattened(seqs, f, n)
  <2>1. Flattened(seqs, f, n)
    BY FlattenedExists
  <2>2. FlattenSeq(seqs) = f[n]
    BY <1>2 DEF FlattenSeq, Flattened
  <2>. HIDE DEF f
  <2>. DEFINE Good(m) == f[m] \in Seq(T) /\ ToSet(f[m]) = UNION {ToSet(seqs[i]) : i \in 1..m}
              S == {m \in 0..n : m # 0 => Good(m)}
  <2>3. ASSUME NEW m \in 0..(n - 1), m \in S PROVE m + 1 \in S
    <3>1. m + 1 \in 1..n /\ seqs[m + 1] \in Seq(T) /\ (m + 1) - 1 = m /\ m \in 0..n
      OBVIOUS
    <3>2. f[m + 1] = IF m = 0 THEN seqs[1] ELSE f[m] \o seqs[m + 1]
      <4>1. \A k \in 1..n : f[k] = IF k = 1 THEN seqs[k] ELSE f[k - 1] \o seqs[k]
        BY <2>1 DEF Flattened
      <4>2. m + 1 = 1 <=> m = 0
        OBVIOUS
      <4>. HIDE DEF S
      <4>. QED BY <3>1, <4>1, <4>2
    <3>3. CASE m = 0
      <4>1. 1..1 = {1} /\ m + 1 = 1
        BY <3>3
      <4>. QED BY <3>1, <3>2, <3>3, <4>1
    <3>4. CASE m # 0
      <4>1. Good(m)
        BY <2>3, <3>4
      <4>2. /\ ToSet(f[m] \o seqs[m + 1]) = ToSet(f[m]) \cup ToSet(seqs[m + 1])
            /\ f[m] \o seqs[m + 1] \in Seq(T)
        BY <3>1, <4>1, ConcatRange
      <4>3. 1..(m + 1) = (1..m) \cup {m + 1}
        BY <3>1
      <4>4. ToSet(f[m + 1]) = ToSet(f[m]) \cup ToSet(seqs[m + 1]) /\ f[m + 1] \in Seq(T)
        BY <3>2, <3>4, <4>2
      <4>5. ToSet(f[m + 1]) = UNION {ToSet(seqs[i]) : i \in 1..(m + 1)}
        BY <4>1, <4>3, <4>4
      <4>. QED BY <3>1, <4>4, <4>5
    <3>. QED BY <3>3, <3>4
  <2>4. 0..n \subseteq S
    <3>1. 0 \in S
      OBVIOUS
    <3>. HIDE DEF S
    <3>. QED BY <2>3, <3>1, InductionTo
  <2>5. Good(n)
    <3>1. n \in 0..n
      OBVIOUS
    <3>. QED BY <1>2, <2>4, <3>1
  <2>. QED BY <2>2, <2>5
<1>. QED BY <1>1, <1>2

(* As many elements as the set has that goes with a part, and no two of    *)
(* the sets have anything in common.                                       *)
CountedBy(seqs, A, n, T) ==
  /\ DOMAIN seqs = 1..n /\ Len(seqs) = n
  /\ \A i \in 1..n : seqs[i] \in Seq(T) /\ IsFiniteSet(A[i]) /\ Len(seqs[i]) = Cardinality(A[i])
  /\ \A i, j \in 1..n : i # j => A[i] \cap A[j] = {}

Together(A, n) == UNION {A[i] : i \in 1..n}

(* The whole has as many elements as those sets have together.             *)
LEMMA FlattenCounts ==
  ASSUME NEW T, NEW seqs, NEW n \in Nat, NEW A, CountedBy(seqs, A, n, T)
  PROVE  /\ IsFiniteSet(Together(A, n))
         /\ Len(FlattenSeq(seqs)) = Cardinality(Together(A, n))
<1>. USE DEF Together, CountedBy
<1>1. CASE n = 0
  <2>1. FlattenSeq(seqs) = <<>>
    BY <1>1 DEF FlattenSeq
  <2>2. UNION {A[i] : i \in 1..n} = {}
    BY <1>1
  <2>. QED BY <2>1, <2>2, FS_EmptySet
<1>2. CASE n # 0
  <2>. DEFINE f == CHOOSE f : Flattened(seqs, f, n)
              U(m) == UNION {A[i] : i \in 1..m}
              Good(m) == f[m] \in Seq(T) /\ IsFiniteSet(U(m)) /\ Len(f[m]) = Cardinality(U(m))
              S == {m \in 0..n : m # 0 => Good(m)}
  <2>1. Flattened(seqs, f, n)
    BY FlattenedExists
  <2>2. FlattenSeq(seqs) = f[n]
    BY <1>2 DEF FlattenSeq, Flattened
  <2>. HIDE DEF f
  <2>3. ASSUME NEW m \in 0..(n - 1), m \in S PROVE m + 1 \in S
    <3>1. m + 1 \in 1..n /\ seqs[m + 1] \in Seq(T) /\ (m + 1) - 1 = m /\ m \in 0..n
      OBVIOUS
    <3>2. f[m + 1] = IF m = 0 THEN seqs[1] ELSE f[m] \o seqs[m + 1]
      <4>1. \A k \in 1..n : f[k] = IF k = 1 THEN seqs[k] ELSE f[k - 1] \o seqs[k]
        BY <2>1 DEF Flattened
      <4>2. m + 1 = 1 <=> m = 0
        OBVIOUS
      <4>. HIDE DEF S
      <4>. QED BY <3>1, <4>1, <4>2
    <3>3. CASE m = 0
      <4>1. U(m + 1) = A[m + 1] /\ m + 1 = 1
        <5>1. 1..1 = {1} /\ m + 1 = 1
          BY <3>3
        <5>. QED BY <5>1
      <4>2. Good(m + 1)
        <5>. HIDE DEF U, S
        <5>. QED BY <3>1, <3>2, <3>3, <4>1
      <4>. QED BY <3>1, <4>2
    <3>4. CASE m # 0
      <4>1. Good(m)
        BY <2>3, <3>4
      <4>2. U(m + 1) = U(m) \cup A[m + 1]
        <5>1. 1..(m + 1) = (1..m) \cup {m + 1}
          BY <3>1
        <5>. HIDE DEF S
        <5>. QED BY <5>1
      <4>3. U(m) \cap A[m + 1] = {}
        <5>1. \A i \in 1..m : i \in 1..n /\ i # m + 1
          BY <3>1
        <5>2. \A i \in 1..m : A[i] \cap A[m + 1] = {}
          BY <3>1, <5>1
        <5>. HIDE DEF S
        <5>. QED BY <5>2
      <4>. HIDE DEF U, S
      <4>4. /\ IsFiniteSet(A[m + 1]) /\ Len(seqs[m + 1]) = Cardinality(A[m + 1])
            /\ Cardinality(A[m + 1]) \in Nat /\ Cardinality(U(m)) \in Nat
        BY <3>1, <4>1, FS_CardinalityType
      <4>5. PICK a, b : a = U(m) /\ b = A[m + 1]
        OBVIOUS
      <4>6. /\ IsFiniteSet(a \cup b)
            /\ Cardinality(a \cup b) = Cardinality(a) + Cardinality(b)
        <5>1. /\ IsFiniteSet(a \cup b)
              /\ Cardinality(a \cup b) = Cardinality(a) + Cardinality(b) - Cardinality(a \cap b)
          BY <4>1, <4>4, <4>5, FS_Union
        <5>2. a \cap b = {}
          BY <4>3, <4>5
        <5>3. Cardinality(a \cap b) = 0
          BY <5>2, FS_EmptySet
        <5>. QED BY <4>4, <4>5, <5>1, <5>3
      <4>7. f[m] \o seqs[m + 1] \in Seq(T) /\ Len(f[m] \o seqs[m + 1]) = Len(f[m]) + Len(seqs[m + 1])
        <5>1. \A s, t \in Seq(T) : s \o t \in Seq(T) /\ Len(s \o t) = Len(s) + Len(t)
          OBVIOUS
        <5>. QED BY <3>1, <4>1, <5>1 DEF Good
      <4>8. Good(m + 1)
        BY <3>2, <3>4, <4>1, <4>2, <4>4, <4>5, <4>6, <4>7 DEF Good
      <4>. QED BY <3>1, <4>8 DEF S
    <3>. QED BY <3>3, <3>4
  <2>4. 0..n \subseteq S
    <3>1. 0 \in S
      OBVIOUS
    <3>. HIDE DEF S
    <3>. QED BY <2>3, <3>1, InductionTo
  <2>5. Good(n)
    <3>1. n \in 0..n
      OBVIOUS
    <3>. QED BY <1>2, <2>4, <3>1
  <2>. QED BY <2>2, <2>5
<1>. QED BY <1>1, <1>2
====
