------------------------------ MODULE Vec0Proofs ------------------------------
(***************************************************************************)
(* Proofs about Vec0 for any declarations, keys, rows and bounds: any      *)
(* number of rows and chunks, chunks of any size.                          *)
(***************************************************************************)
EXTENDS Vec0Correct, Functions, FiniteSetTheorems, WellFoundedInduction, TLAPS

\* A set of numbers has a smallest member, a bounded one a largest.
LEMMA SmallestExists ==
    ASSUME NEW S \in SUBSET Nat, S # {}
    PROVE  \E m \in S : \A n \in S : m <= n
<1>1. PICK m \in S : \A n \in S : ~ (<<n, m>> \in OpToRel(<, Nat))
  BY NatLessThanWellFounded, WFMin
<1>2. \A n \in S : ~ (n < m)
  BY <1>1 DEF OpToRel
<1> QED
  BY <1>2

LEMMA LargestExists ==
    ASSUME NEW k \in Nat, NEW S \in SUBSET (1..k), S # {}
    PROVE  \E m \in S : \A n \in S : n <= m
<1> DEFINE T == {n \in Nat : \A s \in S : s <= n}
<1>1. T \in SUBSET Nat /\ T # {}
  <2>1. k \in T
    OBVIOUS
  <2> QED
    BY <2>1
<1>2. PICK m \in T : \A n \in T : m <= n
  <2> HIDE DEF T
  <2> QED
    BY <1>1, SmallestExists
<1>3. m \in S
  <2> SUFFICES ASSUME m \notin S PROVE FALSE
    OBVIOUS
  <2>0. \A x \in S : x >= 1 /\ x \in Nat
    OBVIOUS
  <2>1. PICK x \in S : x >= 1 /\ x \in Nat
    <3> HIDE DEF T
    <3> QED
      BY <2>0
  <2>2. m \in Nat /\ \A s \in S : s <= m /\ s # m /\ s \in Nat
    OBVIOUS
  <2>3. m - 1 \in Nat /\ \A s \in S : s <= m - 1
    BY <2>1, <2>2
  <2>4. m - 1 \in T
    BY <2>3
  <2> QED
    BY <1>2, <2>2, <2>4
<1> QED
  BY <1>3

\* R orders S, and s lists S in that order.
Orders(R, S) ==
    /\ \A x, y, z \in S : <<x, y>> \in R /\ <<y, z>> \in R => <<x, z>> \in R
    /\ \A x \in S : <<x, x>> \notin R
    /\ \A x, y \in S : x # y => <<x, y>> \in R \/ <<y, x>> \in R
Below(S, R, x) == {y \in S : <<y, x>> \in R}
RankedBy(S, R) ==
    [i \in 1..Cardinality(S) |-> CHOOSE x \in S : Cardinality(Below(S, R, x)) = i - 1]
Listing(s, n, S, R) ==
    /\ n \in Nat
    /\ s \in [1..n -> S]
    /\ \A i, j \in 1..n : i < j => <<s[i], s[j]>> \in R
    /\ \A i, j \in 1..n : s[i] = s[j] => i = j
    /\ \A x \in S : \E i \in 1..n : s[i] = x

\* The elements of an ordered finite set in the order of how many are below them.
LEMMA RankedByIs ==
    ASSUME NEW S, IsFiniteSet(S), NEW R, Orders(R, S)
    PROVE  Listing(RankedBy(S, R), Cardinality(S), S, R)
<1> DEFINE n == Cardinality(S)
           rank == [x \in S |-> Cardinality(Below(S, R, x))]
           s == RankedBy(S, R)
<1>1. n \in Nat
  BY FS_CardinalityType
<1>2. ASSUME NEW x \in S
      PROVE  IsFiniteSet(Below(S, R, x)) /\ Below(S, R, x) \in SUBSET S /\ x \notin Below(S, R, x)
  <2>1. Below(S, R, x) \in SUBSET S /\ x \notin Below(S, R, x)
    BY DEF Below, Orders
  <2> QED
    BY <2>1, FS_Subset
<1>3. ASSUME NEW x \in S PROVE rank[x] \in 0..(n - 1)
  <2>1. Cardinality(Below(S, R, x)) \in Nat /\ Cardinality(Below(S, R, x)) <= n
    BY <1>2, FS_Subset, FS_CardinalityType
  <2>2. Cardinality(Below(S, R, x)) # n
    BY <1>2, FS_Subset
  <2> HIDE DEF n
  <2> QED
    BY <1>1, <2>1, <2>2
<1>4. ASSUME NEW x \in S, NEW y \in S, <<x, y>> \in R PROVE rank[x] < rank[y]
  <2>1. Below(S, R, x) \in SUBSET Below(S, R, y)
    BY <1>4 DEF Below, Orders
  <2>2. x \in Below(S, R, y) /\ x \notin Below(S, R, x)
    BY <1>2, <1>4 DEF Below
  <2>3. IsFiniteSet(Below(S, R, y))
    BY <1>2
  <2>4. Cardinality(Below(S, R, x)) <= Cardinality(Below(S, R, y))
        /\ Cardinality(Below(S, R, x)) # Cardinality(Below(S, R, y))
    BY <2>1, <2>2, <2>3, FS_Subset
  <2>5. rank[x] \in Int /\ rank[y] \in Int
    BY <1>1, <1>3
  <2> QED
    BY <2>4, <2>5
<1>5. \A x, y \in S : rank[x] = rank[y] => x = y
  <2> SUFFICES ASSUME NEW x \in S, NEW y \in S, x # y PROVE rank[x] # rank[y]
    OBVIOUS
  <2>1. <<x, y>> \in R \/ <<y, x>> \in R
    BY DEF Orders
  <2>2. rank[x] < rank[y] \/ rank[y] < rank[x]
    BY <1>4, <2>1
  <2>3. rank[x] \in Int /\ rank[y] \in Int
    BY <1>1, <1>3
  <2> HIDE DEF rank
  <2> QED
    BY <2>2, <2>3
<1>6. \A i \in 0..(n - 1) : \E x \in S : rank[x] = i
  <2> DEFINE T == 0..(n - 1)
  <2>1. rank \in [S -> T]
    BY <1>3
  <2>2. rank \in Injection(S, T)
    <3> HIDE DEF rank, T
    <3> QED
      BY <1>5, <2>1 DEF Injection, IsInjective
  <2>3. IsFiniteSet(T) /\ Cardinality(T) = n
    <3> HIDE DEF n
    <3>1. Cardinality(T) = IF 0 > n - 1 THEN 0 ELSE (n - 1) - 0 + 1
      BY <1>1, FS_Interval
    <3> QED
      BY <1>1, <3>1, FS_Interval
  <2> HIDE DEF T, rank
  <2>4. rank \in Surjection(S, T)
    BY <2>2, <2>3, FS_Injection
  <2> QED
    BY <2>4 DEF Surjection, T
<1>7. ASSUME NEW i \in 1..n PROVE s[i] \in S /\ rank[s[i]] = i - 1
  <2>1. i - 1 \in 0..(n - 1)
    BY <1>1
  <2>2. \E x \in S : Cardinality(Below(S, R, x)) = i - 1
    BY <1>6, <2>1
  <2>3. s[i] = CHOOSE x \in S : Cardinality(Below(S, R, x)) = i - 1
    BY DEF RankedBy
  <2> QED
    BY <2>2, <2>3
<1>8. DOMAIN s = 1..n /\ s = [i \in 1..n |-> s[i]]
  BY DEF RankedBy
<1> HIDE DEF n, s, rank
<1>9. s \in [1..n -> S]
  BY <1>7, <1>8
<1>10. ASSUME NEW i \in 1..n, NEW j \in 1..n, i < j PROVE <<s[i], s[j]>> \in R
  <2>1. s[i] \in S /\ s[j] \in S /\ rank[s[i]] = i - 1 /\ rank[s[j]] = j - 1
    BY <1>7
  <2>2. s[i] # s[j]
    BY <1>1, <1>10, <2>1
  <2>3. ~(<<s[j], s[i]>> \in R)
    BY <1>1, <1>4, <1>10, <2>1
  <2> QED
    BY <2>1, <2>2, <2>3 DEF Orders
<1>11. ASSUME NEW i \in 1..n, NEW j \in 1..n, s[i] = s[j] PROVE i = j
  BY <1>1, <1>7, <1>11
<1>12. ASSUME NEW x \in S PROVE \E i \in 1..n : s[i] = x
  <2>1. rank[x] \in 0..(n - 1)
    BY <1>3
  <2>2. rank[x] + 1 \in 1..n
    BY <1>1, <2>1
  <2>3. s[rank[x] + 1] \in S /\ rank[s[rank[x] + 1]] = rank[x]
    BY <1>1, <1>7, <2>1, <2>2
  <2> QED
    BY <1>5, <2>2, <2>3
<1> QED
  BY <1>1, <1>9, <1>10, <1>11, <1>12 DEF Listing, n, s

\* A set of numbers can be listed in increasing order.
Increasing(s, n, S) ==
    /\ s \in [1..n -> S]
    /\ \A a, b \in 1..n : a < b => s[a] < s[b]

\* So every set of numbers up to k can be listed.
LEMMA Enumerated ==
    ASSUME NEW k \in Nat, NEW S \in SUBSET (1..k)
    PROVE  IsFiniteSet(S) /\ Cardinality(S) \in Nat /\ \E s : Increasing(s, Cardinality(S), S)
<1> DEFINE R == {p \in S \X S : p[1] < p[2]}
           n == Cardinality(S)
           s == RankedBy(S, R)
<1>1. IsFiniteSet(S) /\ n \in Nat
  <2>1. IsFiniteSet(1..k)
    BY FS_Interval
  <2> QED
    BY <2>1, FS_Subset, FS_CardinalityType
<1>2. \A x \in S : x \in Nat
  OBVIOUS
<1>3. \A x, y \in S : <<x, y>> \in R <=> x < y
  OBVIOUS
<1> HIDE DEF R, n
<1>4. Orders(R, S)
  BY <1>2, <1>3 DEF Orders
<1>5. Listing(s, n, S, R)
  BY <1>1, <1>4, RankedByIs DEF n
<1> HIDE DEF s
<1>6. s \in [1..n -> S] /\ \A a, b \in 1..n : a < b => s[a] < s[b]
  BY <1>3, <1>5 DEF Listing
<1> QED
  BY <1>1, <1>6 DEF Increasing, n

\* Induction up to n, for a property given as a set.
LEMMA UpTo ==
    ASSUME NEW n \in Nat, NEW S, 0 \in S, \A i \in 1..n : i - 1 \in S => i \in S
    PROVE  \A i \in 0..n : i \in S
<1> DEFINE B == {i \in 0..n : i \notin S}
<1> SUFFICES ASSUME B # {} PROVE FALSE
  OBVIOUS
<1>1. PICK m \in B : \A i \in B : m <= i
  <2>1. B \in SUBSET Nat /\ B # {}
    OBVIOUS
  <2> HIDE DEF B
  <2> QED
    BY <2>1, SmallestExists
<1>2. m \in 0..n /\ m \notin S /\ m # 0
  OBVIOUS
<1>3. m - 1 \in 0..n /\ m - 1 \notin B
  BY <1>1, <1>2
<1> QED
  BY <1>2, <1>3

Top(s) == CHOOSE x \in s : \A y \in s : x >= y

LEMMA TopIs ==
    ASSUME NEW k \in Nat, NEW s \in SUBSET (1..k), s # {}
    PROVE  Top(s) \in s /\ \A y \in s : Top(s) >= y
<1>1. PICK m \in s : \A n \in s : n <= m
  BY LargestExists
<1>2. m \in s /\ \A y \in s : m >= y
  BY <1>1
<1> QED
  BY <1>2 DEF Top

LEMMA TopOfInterval ==
    ASSUME NEW k \in Nat, k # 0
    PROVE  Top(1..k) = k /\ (1..k) \ {k} = 1..(k - 1)
<1>1. k \in 1..k /\ (1..k) \ {k} = 1..(k - 1)
  OBVIOUS
<1>2. Top(1..k) \in 1..k /\ \A y \in 1..k : Top(1..k) >= y
  BY <1>1, TopIs
<1>3. Top(1..k) >= k /\ Top(1..k) <= k /\ Top(1..k) \in Int
  BY <1>1, <1>2
<1> QED
  BY <1>1, <1>3

\* What FoldLeft computes with, on the positions of a sequence: a function F of
\* the value so far and a position.
IsChain(F, base, n, h) ==
    h = [s \in SUBSET (1..n) |-> IF s = {} THEN base ELSE F[<<h[s \ {Top(s)}], Top(s)>>]]

LEMMA ChainExists ==
    ASSUME NEW n \in Nat, NEW D, NEW base \in D, NEW F, \A x \in D, i \in 1..n : F[<<x, i>>] \in D
    PROVE  \E h \in [SUBSET (1..n) -> D] : IsChain(F, base, n, h)
<1> DEFINE Good(k) == \E h \in [SUBSET (1..k) -> D] : IsChain(F, base, k, h)
           S == {k \in 0..n : Good(k)}
<1>1. 0 \in S
  <2> DEFINE h == [s \in SUBSET (1..0) |-> base]
  <2>1. \A s \in SUBSET (1..0) : s = {}
    OBVIOUS
  <2>2. h \in [SUBSET (1..0) -> D]
    OBVIOUS
  <2>3. IsChain(F, base, 0, h)
    BY <2>1 DEF IsChain
  <2> HIDE DEF h
  <2>4. Good(0)
    BY <2>2, <2>3
  <2> HIDE DEF Good
  <2> QED
    BY <2>4
<1>2. ASSUME NEW k \in 1..n, k - 1 \in S PROVE k \in S
  <2>1. PICK h \in [SUBSET (1..(k - 1)) -> D] : IsChain(F, base, k - 1, h)
    BY <1>2
  <2> DEFINE P == SUBSET (1..k)
             Q == SUBSET (1..(k - 1))
             w == [s \in P |-> IF s \in Q THEN h[s] ELSE F[<<h[s \ {k}], k>>]]
  <2>2. ASSUME NEW s \in P, s \notin Q
        PROVE  s # {} /\ s \ {k} \in Q /\ Top(s) = k
    <3>1. k \in s
      BY <2>2
    <3>2. s \ {k} \in Q
      <4>1. \A x \in s \ {k} : x \in 1..(k - 1)
        BY <2>2
      <4> QED
        BY <4>1
    <3>3. Top(s) \in s /\ \A y \in s : Top(s) >= y
      <4>1. k \in Nat /\ s \in SUBSET (1..k) /\ s # {}
        BY <3>1
      <4> QED
        BY <4>1, TopIs
    <3>4. Top(s) \in 1..k /\ Top(s) >= k
      BY <3>1, <3>3, <2>2
    <3> QED
      BY <3>1, <3>2, <3>4
  <2>3. ASSUME NEW s \in Q, s # {} PROVE s \ {Top(s)} \in Q /\ Top(s) \in 1..n
    <3>1. k - 1 \in Nat /\ s \in SUBSET (1..(k - 1))
      OBVIOUS
    <3>2. Top(s) \in s
      BY <2>3, <3>1, TopIs
    <3>3. Top(s) \in 1..(k - 1)
      BY <3>1, <3>2
    <3>4. s \ {Top(s)} \in Q
      BY <3>1
    <3> QED
      BY <3>3, <3>4
  <2>4. w \in [P -> D]
    <3>1. ASSUME NEW s \in P PROVE w[s] \in D
      <4>1. CASE s \in Q
        BY <4>1
      <4>2. CASE s \notin Q
        <5>1. s \ {k} \in Q
          BY <2>2, <4>2
        <5>2. h[s \ {k}] \in D
          BY <5>1
        <5> QED
          BY <4>2, <5>2
      <4> QED
        BY <4>1, <4>2
    <3> QED
      BY <3>1
  <2>5. ASSUME NEW s \in P
        PROVE  w[s] = IF s = {} THEN base ELSE F[<<w[s \ {Top(s)}], Top(s)>>]
    <3>1. CASE s \in Q
      <4>1. h[s] = IF s = {} THEN base ELSE F[<<h[s \ {Top(s)}], Top(s)>>]
        BY <2>1, <3>1 DEF IsChain
      <4>2. w[s] = h[s]
        BY <3>1
      <4>3. s # {} => w[s \ {Top(s)}] = h[s \ {Top(s)}]
        <5>1. s # {} => s \ {Top(s)} \in Q /\ s \ {Top(s)} \in P
          BY <2>3, <3>1
        <5> QED
          BY <5>1
      <4> QED
        BY <4>1, <4>2, <4>3
    <3>2. CASE s \notin Q
      <4>1. s # {} /\ s \ {k} \in Q /\ Top(s) = k /\ s \ {k} \in P
        BY <2>2, <3>2
      <4>2. w[s] = F[<<h[s \ {k}], k>>] /\ w[s \ {k}] = h[s \ {k}]
        BY <3>2, <4>1
      <4> HIDE DEF w
      <4> QED
        BY <4>1, <4>2
    <3> QED
      BY <3>1, <3>2
  <2>6. IsChain(F, base, k, w)
    <3>1. w = [s \in P |-> w[s]]
      OBVIOUS
    <3> HIDE DEF w
    <3>2. [s \in P |-> w[s]] = [s \in P |-> IF s = {} THEN base ELSE F[<<w[s \ {Top(s)}], Top(s)>>]]
      BY <2>5
    <3> QED
      BY <3>1, <3>2 DEF IsChain
  <2> HIDE DEF w
  <2> QED
    BY <2>4, <2>6
<1>3. n \in S
  <2> HIDE DEF S
  <2> QED
    BY <1>1, <1>2, UpTo
<1> QED
  BY <1>3

RankIn(S, x) == Cardinality({y \in S : y < x})

Ranks(s, n, S) == /\ \A x \in S : \E i \in 1..n : s[i] = x
                  /\ \A i \in 1..n : RankIn(S, s[i]) = i - 1

LEMMA RankOf ==
    ASSUME NEW k \in Nat, NEW S \in SUBSET (1..k), NEW s, Increasing(s, Cardinality(S), S)
    PROVE  Ranks(s, Cardinality(S), S)
<1> DEFINE n == Cardinality(S)
<1>f. IsFiniteSet(S) /\ S \subseteq Nat
  <2>1. S \subseteq Nat
    OBVIOUS
  <2> QED
    BY <2>1, Enumerated
<1>0. n \in Nat /\ s \in [1..n -> S] /\ \A a, b \in 1..n : a < b => s[a] < s[b]
  BY <1>f, FS_CardinalityType DEF Increasing
<1> HIDE DEF n
<1>n. \A i \in 1..n : s[i] \in S /\ s[i] \in Nat
  BY <1>0, <1>f
<1>1. ASSUME NEW a \in 1..n, NEW b \in 1..n, s[a] = s[b] PROVE a = b
  BY <1>0, <1>1, <1>n
<1>2. s \in Injection(1..n, S)
  BY <1>0, <1>1 DEF Injection, IsInjective
<1>3. IsFiniteSet(1..n) /\ Cardinality(1..n) = n
  BY <1>0, FS_Interval
<1>4. s \in Surjection(1..n, S)
  BY <1>2, <1>3, <1>f, FS_Injection DEF n
<1>5. \A x \in S : \E i \in 1..n : s[i] = x
  BY <1>4 DEF Surjection
<1>6. ASSUME NEW i \in 1..n PROVE RankIn(S, s[i]) = i - 1
  <2> DEFINE T == {y \in S : y < s[i]}
             f == [j \in 1..(i - 1) |-> s[j]]
  <2>0. i \in Nat /\ i - 1 \in Nat /\ \A j \in 1..(i - 1) : j \in 1..n /\ j < i
    BY <1>0
  <2>1. \A j \in 1..(i - 1) : s[j] \in T
    BY <1>0, <1>n, <2>0
  <2>2. f \in [1..(i - 1) -> T]
    BY <2>1
  <2>3. ASSUME NEW y \in T PROVE \E j \in 1..(i - 1) : f[j] = y
    <3>1. PICK j \in 1..n : s[j] = y
      BY <1>5
    <3>2. s[j] < s[i]
      BY <3>1
    <3>3. j < i
      <4>1. s[j] \in Nat /\ s[i] \in Nat
        BY <1>n
      <4>2. i < j => s[i] < s[j]
        BY <1>0
      <4> QED
        BY <3>2, <4>1, <4>2, <1>0
    <3>4. j \in 1..(i - 1)
      BY <3>3, <1>0
    <3> QED
      BY <3>1, <3>4
  <2>4. f \in Surjection(1..(i - 1), T)
    BY <2>2, <2>3 DEF Surjection
  <2>5. f \in Injection(1..(i - 1), T)
    <3>1. \A a, b \in 1..(i - 1) : f[a] = f[b] => a = b
      BY <1>1, <2>0
    <3> QED
      BY <2>2, <3>1 DEF Injection, IsInjective
  <2>6. IsFiniteSet(1..(i - 1)) /\ Cardinality(1..(i - 1)) = i - 1
    BY <2>0, FS_Interval
  <2> HIDE DEF f, T
  <2>7. Cardinality(T) = Cardinality(1..(i - 1))
    BY <2>4, <2>5, <2>6, FS_Surjection
  <2> QED
    BY <2>6, <2>7 DEF T, RankIn
<1> QED
  BY <1>5, <1>6 DEF Ranks, n

\* How many of the first n positions there are at most.
LEMMA CountIs ==
    ASSUME NEW n \in Nat, NEW S \in SUBSET (1..n)
    PROVE  Cardinality(S) \in 0..n
<1>1. IsFiniteSet(1..n) /\ Cardinality(1..n) = n
  BY FS_Interval
<1>2. Cardinality(S) \in Nat /\ Cardinality(S) <= n
  <2>1. IsFiniteSet(S) /\ Cardinality(S) <= Cardinality(1..n)
    BY <1>1, FS_Subset
  <2> QED
    BY <1>1, <2>1, FS_CardinalityType
<1> QED
  BY <1>2

\* Of the numbers F, those that are among the first k are at most k, and some.
Within(F, k) == {i \in F : Cardinality(F \cap 1..i) <= k}

LEMMA FirstFew ==
    ASSUME NEW n \in Nat, NEW F \in SUBSET (1..n), NEW k \in Nat
    PROVE  /\ Cardinality(Within(F, k)) <= k
           /\ F # {} /\ k # 0 => Within(F, k) # {}
<1> DEFINE S == Within(F, k)
<1>1. S \in SUBSET (1..n) /\ S \in SUBSET F /\ \A i \in S : Cardinality(F \cap 1..i) <= k
  BY DEF Within
<1>2. ASSUME NEW i \in 1..n PROVE IsFiniteSet(F \cap 1..i)
  <2>1. IsFiniteSet(1..i) /\ F \cap 1..i \in SUBSET (1..i)
    BY FS_Interval
  <2> QED
    BY <2>1, FS_Subset
<1>3. Cardinality(S) <= k
  <2>1. CASE S = {}
    BY <2>1, FS_EmptySet
  <2>2. CASE S # {}
    <3> DEFINE t == Top(S)
    <3> HIDE DEF S
    <3>1. t \in S /\ \A i \in S : i <= t
      BY <1>1, <2>2, TopIs
    <3> HIDE DEF t
    <3>2. t \in 1..n /\ Cardinality(F \cap 1..t) <= k
      BY <1>1, <3>1
    <3>3. S \in SUBSET (F \cap 1..t)
      <4>1. ASSUME NEW i \in S PROVE i \in F \cap 1..t
        BY <1>1, <3>1, <3>2
      <4> QED
        BY <4>1
    <3>4. IsFiniteSet(F \cap 1..t)
      BY <1>2, <3>2
    <3>5. Cardinality(S) <= Cardinality(F \cap 1..t)
      BY <3>3, <3>4, FS_Subset
    <3>6. Cardinality(S) \in Nat /\ Cardinality(F \cap 1..t) \in Nat
      BY <3>3, <3>4, FS_Subset, FS_CardinalityType
    <3> QED
      BY <3>2, <3>5, <3>6
  <2> QED
    BY <2>1, <2>2
<1>4. ASSUME F # {}, k # 0 PROVE S # {}
  <2>1. F \in SUBSET Nat
    OBVIOUS
  <2>2. PICK i \in F : \A j \in F : i <= j
    BY <1>4, <2>1, SmallestExists
  <2>3. F \cap 1..i = {i}
    BY <2>1, <2>2
  <2>4. Cardinality(F \cap 1..i) = 1
    BY <2>3, FS_Singleton
  <2>5. i \in S
    BY <1>4, <2>4 DEF Within
  <2> QED
    BY <2>5
<1> QED
  BY <1>3, <1>4

-----------------------------------------------------------------------------

Fields == {"rowids", "chunks", "vectors", "coarse", "full", "meta", "text", "aux", "graph",
           "rowidSeq", "chunkSeq"}

\* Rowids and chunks stay below the AUTOINCREMENT marks, so a new one is free.
RowsShape(s) ==
    /\ DOMAIN s = Fields
    /\ s.rowidSeq \in Nat
    /\ s.chunkSeq \in Nat
    /\ \A r \in DOMAIN s.rowids : /\ r \in Int
                                  /\ r <= s.rowidSeq
                                  /\ DOMAIN s.rowids[r] = {"id", "chunk", "offset"}

ChunksShape(s, t) ==
    \A c \in DOMAIN s.chunks : /\ c \in 1..s.chunkSeq
                               /\ DOMAIN s.chunks[c] = {"part", "validity", "rowids"}
                               /\ DOMAIN s.chunks[c].rowids = Offsets(t)
                               /\ s.chunks[c].validity \subseteq Offsets(t)

\* A per-chunk table of a column has the chunks of _chunks, each of full size.
Column(f, s, t) == /\ DOMAIN f = DOMAIN s.chunks
                   /\ \A c \in DOMAIN f : DOMAIN f[c] = Offsets(t)
ColumnsShape(s, t) ==
    /\ t.index = "flat" => Column(s.vectors, s, t)
    /\ t.index = "rescore" => Column(s.coarse, s, t)
    /\ t.meta # "none" => Column(s.meta, s, t)

\* A row is where it says it is, a valid slot is its row's, another one zeroed.
RowPlaced(s, r) ==
    LET at == s.rowids[r]
    IN  /\ at.chunk \in DOMAIN s.chunks
        /\ at.offset \in s.chunks[at.chunk].validity
        /\ s.chunks[at.chunk].rowids[at.offset] = r
SlotAgrees(s, c, o) ==
    LET r == s.chunks[c].rowids[o]
    IN  IF o \in s.chunks[c].validity
        THEN r \in DOMAIN s.rowids /\ s.rowids[r].chunk = c /\ s.rowids[r].offset = o
        ELSE r = 0
Placed(s, t) ==
    /\ \A r \in DOMAIN s.rowids : RowPlaced(s, r)
    /\ \A c \in DOMAIN s.chunks : \A o \in Offsets(t) : SlotAgrees(s, c, o)

\* For a row whose place is known.
LEMMA RowPlacedAt ==
    ASSUME NEW s, NEW r, NEW c, NEW o, s.rowids[r].chunk = c, s.rowids[r].offset = o
    PROVE  RowPlaced(s, r) <=> /\ c \in DOMAIN s.chunks
                               /\ o \in s.chunks[c].validity
                               /\ s.chunks[c].rowids[o] = r
  BY DEF RowPlaced

\* What the tables of the columns hold for a row.
RescoreAgrees(s, r) ==
    s.coarse[s.rowids[r].chunk][s.rowids[r].offset] = RescoreQuantize(s.full[r])
Cell(s, r) == s.meta[s.rowids[r].chunk][s.rowids[r].offset]
TextAgrees(s, r) == IF Cell(s, r).n > ViewLength
                    THEN r \in DOMAIN s.text /\ TextView(s.text[r]) = Cell(s, r)
                    ELSE r \notin DOMAIN s.text
Filled(s, t) ==
    /\ t.aux => DOMAIN s.aux = DOMAIN s.rowids
    /\ t.index = "rescore" => /\ DOMAIN s.full = DOMAIN s.rowids
                              /\ \A r \in DOMAIN s.rowids : RescoreAgrees(s, r)
    /\ t.meta = "text" => /\ DOMAIN s.text \subseteq DOMAIN s.rowids
                          /\ \A r \in DOMAIN s.rowids : TextAgrees(s, r)

\* A text key is one row's.
KeysDiffer(s, t) ==
    t.pk = "text" => \A r, q \in DOMAIN s.rowids : s.rowids[r].id = s.rowids[q].id => r = q

NoneEmpty(s) == \A c \in DOMAIN s.chunks : s.chunks[c].validity # {}

StoreOK(s, t) ==
    /\ RowsShape(s)
    /\ KeysDiffer(s, t)
    /\ Chunked(t) => /\ ChunksShape(s, t) /\ ColumnsShape(s, t)
                     /\ Placed(s, t) /\ NoneEmpty(s)
    /\ Filled(s, t)

Accepts(args) == args \in Declarations /\ Declare(args).ok

\* What commands do not change, and all that the shape of a store depends on.
KindFields == {"pk", "part", "meta", "aux", "chunkSize", "index", "slots", "bufferThreshold"}
SameKind(t, u) == KindFields \subseteq DOMAIN t /\ \A f \in KindFields : t[f] = u[f]

SchemaInv ==
    schema # Absent =>
        /\ DOMAIN schema = {"name", "args"}
        /\ Accepts(schema.args)
        /\ schema.name \in NamesOf(TableOf[schema.args])
        /\ shadow = {schema.name} \X CreatedTables(TableOf[schema.args])
        /\ StoreOK(store, TableOf[schema.args])

AbsentInv ==
    schema = Absent => table = Absent /\ shadow = {} /\ store = Absent

TableInv == table # Absent => SameKind(table, TableOf[schema.args])

IInv == AbsentInv /\ SchemaInv /\ TableInv
-----------------------------------------------------------------------------
\* A chunk has a slot, and slots are counted from 0.
LEMMA OffsetsAre ==
    ASSUME NEW t, IsDeclared(t)
    PROVE  Offsets(t) \subseteq Nat /\ 0 \in Offsets(t)
  BY DEF IsDeclared, Offsets

\* vec0_new_chunk adds a blank chunk to every per-chunk table.
Grown(b, s, t, c) ==
    /\ b.chunkSeq = c /\ c = s.chunkSeq + 1 /\ c \notin DOMAIN s.chunks
    /\ DOMAIN b.chunks = DOMAIN s.chunks \cup {c}
    /\ \A x \in DOMAIN s.chunks : b.chunks[x] = s.chunks[x]
    /\ DOMAIN b.chunks[c] = {"part", "validity", "rowids"}
    /\ b.chunks[c].validity = {}
    /\ b.chunks[c].rowids = Blank(t, 0)
    /\ IF t.index = "flat"
       THEN b.vectors = Put(s.vectors, c, Blank(t, 0)) ELSE b.vectors = s.vectors
    /\ IF t.index = "rescore"
       THEN b.coarse = Put(s.coarse, c, Blank(t, 0)) ELSE b.coarse = s.coarse
    /\ IF t.meta # "none"
       THEN b.meta = Put(s.meta, c, Blank(t, ZeroMeta(t))) ELSE b.meta = s.meta

SameRows(b, s) ==
    /\ DOMAIN b = Fields
    /\ b.rowids = s.rowids /\ b.rowidSeq = s.rowidSeq
    /\ b.full = s.full /\ b.text = s.text /\ b.aux = s.aux /\ b.graph = s.graph

\* vec0_new_chunk touches nothing but the per-chunk tables.
LEMMA NewChunkIs ==
    ASSUME NEW s, NEW t, NEW part, RowsShape(s), ChunksShape(s, t)
    PROVE  /\ SameRows(NewChunk(s, t, part), s)
           /\ Grown(NewChunk(s, t, part), s, t, s.chunkSeq + 1)
           /\ t.part => NewChunk(s, t, part).chunks[s.chunkSeq + 1].part = part
<1> DEFINE n == NewChunk(s, t, part)
           c == s.chunkSeq + 1
           new == [part |-> IF t.part THEN part ELSE None,
                   validity |-> {}, rowids |-> Blank(t, 0)]
<1>1. DOMAIN s = Fields /\ c \notin DOMAIN s.chunks
  BY DEF ChunksShape, RowsShape
<1>2. SameRows(n, s)
  BY <1>1 DEF NewChunk, NewRescoreChunk, NewMetadataChunk, Fields, SameRows
<1>3. n.chunks = Put(s.chunks, c, new) /\ n.chunkSeq = c
  BY <1>1 DEF NewChunk, NewRescoreChunk, NewMetadataChunk, Fields
<1>4. /\ DOMAIN new = {"part", "validity", "rowids"}
      /\ new.validity = {} /\ new.rowids = Blank(t, 0)
      /\ t.part => new.part = part
  OBVIOUS
<1>5. /\ IF t.index = "flat"
         THEN n.vectors = Put(s.vectors, c, Blank(t, 0)) ELSE n.vectors = s.vectors
      /\ IF t.index = "rescore"
         THEN n.coarse = Put(s.coarse, c, Blank(t, 0)) ELSE n.coarse = s.coarse
      /\ IF t.meta # "none"
         THEN n.meta = Put(s.meta, c, Blank(t, ZeroMeta(t))) ELSE n.meta = s.meta
  BY <1>1 DEF NewChunk, NewRescoreChunk, NewMetadataChunk, Fields
<1> HIDE DEF n, new
<1>6. /\ DOMAIN n.chunks = DOMAIN s.chunks \cup {c}
      /\ n.chunks[c] = new
      /\ \A x \in DOMAIN s.chunks : n.chunks[x] = s.chunks[x]
  BY <1>1, <1>3 DEF Put
<1>7. Grown(n, s, t, c)
  BY <1>1, <1>3, <1>4, <1>5, <1>6 DEF Grown
<1> QED
  BY <1>2, <1>4, <1>6, <1>7 DEF n

\* InsertNextAvailableStep finds a free slot of a chunk that is there, in the
\* store as it was or with one blank chunk more, of the row's partition.
LEMMA NextAvailableIs ==
    ASSUME NEW s, NEW t, NEW part, IsDeclared(t), RowsShape(s), ChunksShape(s, t)
    PROVE  LET at == NextAvailable(s, t, part)
               b == at.store
           IN  /\ SameRows(b, s)
               /\ at.chunk \in DOMAIN b.chunks
               /\ at.offset \in Offsets(t) /\ at.offset \notin b.chunks[at.chunk].validity
               /\ b = s \/ Grown(b, s, t, at.chunk)
               /\ t.part => b.chunks[at.chunk].part = part
<1> DEFINE latest == LatestChunk(s, t, part)
           cs == IF t.part THEN PartitionChunks(s, part) ELSE DOMAIN s.chunks
<1>1. cs \in SUBSET (1..s.chunkSeq) /\ cs \subseteq DOMAIN s.chunks
  BY DEF PartitionChunks, ChunksShape
<1>2. latest # None => latest \in cs
  <2>1. ASSUME cs # {} PROVE Largest(cs) \in cs
    <3> HIDE DEF cs
    <3>1. PICK m \in cs : \A n \in cs : n <= m
      BY <1>1, <2>1, LargestExists DEF RowsShape
    <3> QED
      BY <3>1 DEF Largest
  <2> QED
    BY <1>1, <2>1 DEF LatestChunk
<1>3. CASE latest # None /\ FreeOffsets(s, t, latest) # {}
  <2> DEFINE free == FreeOffsets(s, t, latest)
  <2>1. free \subseteq Nat
    BY OffsetsAre DEF FreeOffsets
  <2>2. Smallest(free) \in free
    <3> HIDE DEF free
    <3>1. PICK m \in free : \A n \in free : m <= n
      BY <1>3, <2>1, SmallestExists DEF free
    <3> QED
      BY <3>1 DEF Smallest
  <2>3. /\ NextAvailable(s, t, part).store = s
        /\ NextAvailable(s, t, part).chunk = latest
        /\ NextAvailable(s, t, part).offset = Smallest(free)
    BY <1>3 DEF NextAvailable
  <2>4. latest \in DOMAIN s.chunks /\ (t.part => s.chunks[latest].part = part)
    BY <1>1, <1>2, <1>3 DEF PartitionChunks
  <2> HIDE DEF latest, cs
  <2> QED
    BY <1>3, <2>2, <2>3, <2>4 DEF FreeOffsets, RowsShape, SameRows
<1>4. CASE ~(latest # None /\ FreeOffsets(s, t, latest) # {})
  <2> DEFINE c == s.chunkSeq + 1
             n == NewChunk(s, t, part)
  <2>1. /\ NextAvailable(s, t, part).store = n
        /\ NextAvailable(s, t, part).chunk = c
        /\ NextAvailable(s, t, part).offset = 0
    BY <1>4 DEF NextAvailable
  <2>2. SameRows(n, s) /\ Grown(n, s, t, c) /\ (t.part => n.chunks[c].part = part)
    BY NewChunkIs
  <2> HIDE DEF c, n
  <2> QED
    BY <2>1, <2>2, OffsetsAre DEF Grown
<1> QED
  BY <1>3, <1>4

\* g is f with one cell written.
CellSet(g, f, c, o, v) ==
    /\ DOMAIN g = DOMAIN f
    /\ \A x \in DOMAIN f : DOMAIN g[x] = DOMAIN f[x]
    /\ \A x \in DOMAIN f : x # c => g[x] = f[x]
    /\ \A y \in DOMAIN f[c] : g[c][y] = IF y = o THEN v ELSE f[c][y]

LEMMA CellIsSet ==
    ASSUME NEW f, NEW c \in DOMAIN f, NEW o, NEW v
    PROVE  CellSet([f EXCEPT ![c][o] = v], f, c, o, v)
  BY DEF CellSet

\* A write of one cell keeps the chunks of a column and their size; a deleted
\* chunk leaves it those of the others.
LEMMA ColumnOfCellSet ==
    ASSUME NEW f, NEW g, NEW s, NEW d, NEW t, NEW c, NEW o, NEW v,
           Column(f, s, t), CellSet(g, f, c, o, v), DOMAIN d.chunks = DOMAIN s.chunks
    PROVE  Column(g, d, t)
  BY DEF Column, CellSet

LEMMA ColumnWithout ==
    ASSUME NEW f, NEW s, NEW d, NEW t, NEW c,
           Column(f, s, t), DOMAIN d.chunks = DOMAIN s.chunks \ {c}
    PROVE  Column(Without(f, c), d, t) /\ \A x \in DOMAIN d.chunks : Without(f, c)[x] = f[x]
  BY DEF Column, Without

\* What vec0_write_metadata_value leaves in the chunk, and in the text table.
Written(v, t) == IF t.meta = "text" THEN TextView(v) ELSE v

\* The columns of p are those of b but for row r in slot <<c, o>>.
RowWritten(p, b, t, r, c, o, row) ==
    /\ DOMAIN p = Fields
    /\ p.rowidSeq = b.rowidSeq /\ p.chunkSeq = b.chunkSeq /\ p.graph = b.graph
    /\ DOMAIN p.rowids = DOMAIN b.rowids
    /\ \A q \in DOMAIN b.rowids : q # r => p.rowids[q] = b.rowids[q]
    /\ DOMAIN p.rowids[r] = DOMAIN b.rowids[r]
    /\ p.rowids[r].id = b.rowids[r].id
    /\ p.rowids[r].chunk = c /\ p.rowids[r].offset = o
    /\ DOMAIN p.chunks = DOMAIN b.chunks
    /\ \A x \in DOMAIN b.chunks : x # c => p.chunks[x] = b.chunks[x]
    /\ DOMAIN p.chunks[c] = DOMAIN b.chunks[c]
    /\ p.chunks[c].part = b.chunks[c].part
    /\ p.chunks[c].validity = b.chunks[c].validity \cup {o}
    /\ p.chunks[c].rowids = [b.chunks[c].rowids EXCEPT ![o] = r]
ColumnsWritten(p, b, t, r, c, o, row) ==
    /\ IF t.index = "flat" THEN CellSet(p.vectors, b.vectors, c, o, row.vector)
       ELSE p.vectors = b.vectors
    /\ IF t.index = "rescore"
       THEN /\ CellSet(p.coarse, b.coarse, c, o, RescoreQuantize(row.vector))
            /\ p.full = Put(b.full, r, row.vector)
       ELSE p.coarse = b.coarse /\ p.full = b.full
    /\ IF t.aux THEN p.aux = Put(b.aux, r, row.aux) ELSE p.aux = b.aux

PlaceRow(b, t, r, c, o, row) ==
    WriteAux(RescoreWrite(WriteFinal(b, t, r, c, o, row.vector), t, r, c, o, row.vector),
             t, r, row.aux)

\* InsertWriteFinalStep, rescore_on_insert and the auxiliary row.
LEMMA RowIsWritten ==
    ASSUME NEW b, NEW t, NEW r, NEW c, NEW o, NEW row,
           IsDeclared(t), Chunked(t), DOMAIN b = Fields, ColumnsShape(b, t),
           r \in DOMAIN b.rowids, DOMAIN b.rowids[r] = {"id", "chunk", "offset"},
           c \in DOMAIN b.chunks, DOMAIN b.chunks[c] = {"part", "validity", "rowids"}
    PROVE  /\ RowWritten(PlaceRow(b, t, r, c, o, row), b, t, r, c, o, row)
           /\ ColumnsWritten(PlaceRow(b, t, r, c, o, row), b, t, r, c, o, row)
           /\ PlaceRow(b, t, r, c, o, row).meta = b.meta
           /\ PlaceRow(b, t, r, c, o, row).text = b.text
<1> DEFINE w == WriteFinal(b, t, r, c, o, row.vector)
           x == RescoreWrite(w, t, r, c, o, row.vector)
           p == WriteAux(x, t, r, row.aux)
<1>1. /\ DOMAIN w = Fields
      /\ \A f \in Fields \ {"rowids", "chunks", "vectors"} : w[f] = b[f]
      /\ w.rowids = [b.rowids EXCEPT ![r].chunk = c, ![r].offset = o]
      /\ w.chunks = [b.chunks EXCEPT ![c].validity = @ \cup {o}, ![c].rowids[o] = r]
      /\ w.vectors = IF t.index = "flat" THEN [b.vectors EXCEPT ![c][o] = row.vector]
                     ELSE b.vectors
  BY DEF WriteFinal, UpdatePosition, MarkSlot, WriteVector, Fields
<1>2. /\ DOMAIN x = Fields
      /\ \A f \in Fields \ {"coarse", "full"} : x[f] = w[f]
      /\ IF t.index = "rescore"
         THEN /\ x.coarse = [w.coarse EXCEPT ![c][o] = RescoreQuantize(row.vector)]
              /\ x.full = Put(w.full, r, row.vector)
         ELSE x.coarse = w.coarse /\ x.full = w.full
  BY <1>1 DEF RescoreWrite, Fields
<1>3. /\ DOMAIN p = Fields
      /\ \A f \in Fields \ {"aux"} : p[f] = x[f]
      /\ IF t.aux THEN p.aux = Put(x.aux, r, row.aux) ELSE p.aux = x.aux
  BY <1>2 DEF WriteAux, Fields
<1>4. p = PlaceRow(b, t, r, c, o, row)
  BY DEF PlaceRow
<1> HIDE DEF w, x, p
<1>5. RowWritten(p, b, t, r, c, o, row)
  <2>1. /\ DOMAIN w.rowids = DOMAIN b.rowids
        /\ \A q \in DOMAIN b.rowids : q # r => w.rowids[q] = b.rowids[q]
        /\ DOMAIN w.rowids[r] = DOMAIN b.rowids[r]
        /\ w.rowids[r].id = b.rowids[r].id
        /\ w.rowids[r].chunk = c /\ w.rowids[r].offset = o
    BY <1>1
  <2>2. /\ DOMAIN w.chunks = DOMAIN b.chunks
        /\ \A y \in DOMAIN b.chunks : y # c => w.chunks[y] = b.chunks[y]
        /\ DOMAIN w.chunks[c] = DOMAIN b.chunks[c]
        /\ w.chunks[c].part = b.chunks[c].part
        /\ w.chunks[c].validity = b.chunks[c].validity \cup {o}
        /\ w.chunks[c].rowids = [b.chunks[c].rowids EXCEPT ![o] = r]
    BY <1>1
  <2>3. /\ p.rowids = w.rowids /\ p.chunks = w.chunks
        /\ p.rowidSeq = b.rowidSeq /\ p.chunkSeq = b.chunkSeq /\ p.graph = b.graph
    BY <1>1, <1>2, <1>3 DEF Fields
  <2> QED
    BY <1>3, <2>1, <2>2, <2>3 DEF RowWritten
<1>6. ColumnsWritten(p, b, t, r, c, o, row)
  BY <1>1, <1>2, <1>3, CellIsSet DEF ColumnsWritten, Fields, ColumnsShape, Column
<1> QED
  BY <1>1, <1>2, <1>3, <1>4, <1>5, <1>6 DEF Fields

\* The text table has the text of row r exactly if it is too long for its view.
TextWritten(m, a, r, v) ==
    /\ DOMAIN m.text = (DOMAIN a.text \ {r}) \cup (IF Len(v) > ViewLength THEN {r} ELSE {})
    /\ \A q \in DOMAIN a.text : q # r => m.text[q] = a.text[q]
    /\ Len(v) > ViewLength => m.text[r] = v

\* vec0_write_metadata_value, if the length in the view tells whether the text
\* table has a text of the row.
LEMMA MetadataIsWritten ==
    ASSUME NEW a, NEW t, NEW r, NEW c, NEW o, NEW v, NEW isUpdate \in BOOLEAN,
           IsDeclared(t), DOMAIN a = Fields, t.meta # "none" => c \in DOMAIN a.meta,
           t.meta = "text" => (r \in DOMAIN a.text <=> isUpdate /\ a.meta[c][o].n > ViewLength),
           NEW m, m = WriteMetadata(a, t, r, c, o, v, isUpdate)
    PROVE  /\ DOMAIN m = Fields
           /\ \A f \in Fields \ {"meta", "text"} : m[f] = a[f]
           /\ IF t.meta = "none" THEN m.meta = a.meta
              ELSE CellSet(m.meta, a.meta, c, o, Written(v, t))
           /\ IF t.meta = "text" THEN TextWritten(m, a, r, v) ELSE m.text = a.text
<1>1. CASE t.meta = "none"
  BY <1>1 DEF WriteMetadata
<1>2. CASE t.meta \in {"integer", "boolean"}
  <2>1. m = [a EXCEPT !.meta[c][o] = v]
    BY <1>2 DEF WriteMetadata
  <2>2. m.meta = [a.meta EXCEPT ![c][o] = v] /\ Written(v, t) = v
    BY <1>2, <2>1 DEF Fields, Written
  <2>3. CellSet(m.meta, a.meta, c, o, Written(v, t))
    BY <1>2, <2>2, CellIsSet
  <2>4. /\ DOMAIN m = Fields
        /\ \A f \in Fields \ {"meta", "text"} : m[f] = a[f]
        /\ m.text = a.text
    BY <2>1 DEF Fields
  <2> QED
    BY <1>2, <2>3, <2>4
<1>3. CASE t.meta = "text"
  <2> DEFINE long == Len(v) > ViewLength
             wasLong == a.meta[c][o].n > ViewLength
             text == CASE long /\ isUpdate /\ wasLong ->
                             IF r \in DOMAIN a.text THEN Put(a.text, r, v) ELSE a.text
                       [] long /\ ~(isUpdate /\ wasLong) -> Put(a.text, r, v)
                       [] ~long /\ wasLong -> Without(a.text, r)
                       [] OTHER -> a.text
  <2>1. m = [a EXCEPT !.meta[c][o] = TextView(v), !.text = text]
    BY <1>3 DEF WriteMetadata
  <2>2. m.meta = [a.meta EXCEPT ![c][o] = TextView(v)] /\ Written(v, t) = TextView(v)
    BY <1>3, <2>1 DEF Fields, Written
  <2>3. CellSet(m.meta, a.meta, c, o, Written(v, t))
    BY <1>3, <2>2, CellIsSet
  <2>4. /\ DOMAIN m = Fields
        /\ \A f \in Fields \ {"meta", "text"} : m[f] = a[f]
        /\ m.text = text
    BY <2>1 DEF Fields
  <2>5. TextWritten(m, a, r, v)
    <3>1. CASE long
      BY <1>3, <2>4, <3>1 DEF TextWritten, Put
    <3>2. CASE ~long
      BY <1>3, <2>4, <3>2 DEF TextWritten, Without
    <3> QED
      BY <3>1, <3>2
  <2> HIDE DEF text
  <2> QED
    BY <1>3, <2>3, <2>4, <2>5
<1> QED
  BY <1>1, <1>2, <1>3 DEF IsDeclared

\* A store in which row r is known and nothing but its slot <<c, o>> is missing.
Ready(b, t, r, c, o) ==
    /\ RowsShape(b) /\ KeysDiffer(b, t) /\ ChunksShape(b, t) /\ ColumnsShape(b, t)
    /\ r \in DOMAIN b.rowids
    /\ c \in DOMAIN b.chunks /\ o \in Offsets(t) /\ o \notin b.chunks[c].validity
    /\ \A q \in DOMAIN b.rowids : q # r => RowPlaced(b, q)
    /\ \A x \in DOMAIN b.chunks : \A y \in Offsets(t) :
          SlotAgrees(b, x, y) /\ (y \in b.chunks[x].validity => b.chunks[x].rowids[y] # r)
    /\ \A x \in DOMAIN b.chunks : x # c => b.chunks[x].validity # {}
    /\ t.aux => DOMAIN b.aux = DOMAIN b.rowids \ {r}
    /\ t.index = "rescore" => /\ DOMAIN b.full = DOMAIN b.rowids \ {r}
                              /\ \A q \in DOMAIN b.full : RescoreAgrees(b, q)
    /\ t.meta = "text" => /\ DOMAIN b.text \subseteq DOMAIN b.rowids \ {r}
                          /\ \A q \in DOMAIN b.rowids : q # r => TextAgrees(b, q)

\* Once its slot and its columns are written, the tables agree on the row.
LEMMA PlacedRowKeeps ==
    ASSUME NEW b, NEW t, NEW r, NEW c, NEW o, NEW row, NEW m,
           IsDeclared(t), Chunked(t), Ready(b, t, r, c, o),
           RowWritten(m, b, t, r, c, o, row), ColumnsWritten(m, b, t, r, c, o, row),
           t.meta # "none" => CellSet(m.meta, b.meta, c, o, Written(row.meta, t)),
           t.meta = "text" => TextWritten(m, b, r, row.meta)
    PROVE  StoreOK(m, t)
\* What is known before.
<1>5. RowsShape(b) /\ KeysDiffer(b, t) /\ ChunksShape(b, t) /\ ColumnsShape(b, t)
  BY DEF Ready
<1>6. r \in DOMAIN b.rowids /\ c \in DOMAIN b.chunks /\ o \in Offsets(t)
  BY DEF Ready
<1>7. \A q \in DOMAIN b.rowids : q # r => RowPlaced(b, q)
  BY DEF Ready
<1>8. \A x \in DOMAIN b.chunks : \A y \in Offsets(t) :
          SlotAgrees(b, x, y) /\ (y \in b.chunks[x].validity => b.chunks[x].rowids[y] # r)
  BY DEF Ready
<1>9. o \notin b.chunks[c].validity
  BY DEF Ready
\* And after.
<1>10. /\ DOMAIN m.rowids = DOMAIN b.rowids /\ m.rowidSeq = b.rowidSeq /\ m.chunkSeq = b.chunkSeq
       /\ \A q \in DOMAIN b.rowids : q # r => m.rowids[q] = b.rowids[q]
       /\ DOMAIN m.rowids[r] = {"id", "chunk", "offset"}
       /\ m.rowids[r].id = b.rowids[r].id /\ m.rowids[r].chunk = c /\ m.rowids[r].offset = o
  BY <1>5, <1>6 DEF RowWritten, RowsShape
<1>11. /\ DOMAIN m.chunks = DOMAIN b.chunks
       /\ \A x \in DOMAIN b.chunks : x # c => m.chunks[x] = b.chunks[x]
       /\ DOMAIN m.chunks[c] = {"part", "validity", "rowids"}
       /\ DOMAIN m.chunks[c].rowids = Offsets(t)
       /\ m.chunks[c].validity = b.chunks[c].validity \cup {o}
       /\ \A y \in Offsets(t) :
             m.chunks[c].rowids[y] = IF y = o THEN r ELSE b.chunks[c].rowids[y]
  BY <1>5, <1>6 DEF RowWritten, ChunksShape
<1>12. RowsShape(m)
  <2>1. DOMAIN m = Fields
    BY DEF RowWritten
  <2> QED
    BY <1>5, <1>10, <2>1 DEF RowsShape
<1>13. KeysDiffer(m, t)
  <2>1. \A q \in DOMAIN b.rowids : m.rowids[q].id = b.rowids[q].id
    BY <1>10
  <2> QED
    BY <1>5, <1>10, <2>1 DEF KeysDiffer
<1>14. ChunksShape(m, t)
  BY <1>5, <1>6, <1>10, <1>11 DEF ChunksShape
<1>15. NoneEmpty(m)
  BY <1>11 DEF Ready, NoneEmpty
<1>16. ColumnsShape(m, t)
  BY <1>5, <1>6, <1>11 DEF ColumnsShape, Column, ColumnsWritten, CellSet
\* Another row's slot is valid, so it is not this one.
<1>17. \A q \in DOMAIN b.rowids : q # r =>
          /\ b.rowids[q].chunk \in DOMAIN b.chunks
          /\ b.rowids[q].offset \in Offsets(t)
          /\ ~(b.rowids[q].chunk = c /\ b.rowids[q].offset = o)
  BY <1>5, <1>7, <1>9 DEF RowPlaced, ChunksShape
<1>18. Placed(m, t)
  <2>1. ASSUME NEW q \in DOMAIN m.rowids PROVE RowPlaced(m, q)
    <3>1. CASE q = r
      BY <1>6, <1>10, <1>11, <3>1 DEF RowPlaced
    <3>2. CASE q # r
      <4>1. RowPlaced(b, q) /\ m.rowids[q] = b.rowids[q]
        BY <1>7, <1>10, <3>2
      <4>2. b.rowids[q].offset \in Offsets(t)
        BY <1>10, <1>17, <3>2
      <4>3. ~(b.rowids[q].chunk = c /\ b.rowids[q].offset = o)
        BY <1>10, <1>17, <3>2
      <4>4. PICK x, y : b.rowids[q].chunk = x /\ b.rowids[q].offset = y
        OBVIOUS
      <4>5. /\ x \in DOMAIN b.chunks /\ y \in b.chunks[x].validity
            /\ b.chunks[x].rowids[y] = q
        BY <4>1, <4>4, RowPlacedAt
      <4>6. /\ x \in DOMAIN m.chunks /\ y \in m.chunks[x].validity
            /\ m.chunks[x].rowids[y] = q
        BY <1>11, <4>2, <4>3, <4>4, <4>5
      <4> QED
        BY <4>1, <4>4, <4>6, RowPlacedAt
    <3> QED
      BY <3>1, <3>2
  <2>2. ASSUME NEW x \in DOMAIN m.chunks, NEW y \in Offsets(t)
        PROVE  SlotAgrees(m, x, y)
    <3>1. SlotAgrees(b, x, y) /\ (y \in b.chunks[x].validity => b.chunks[x].rowids[y] # r)
      BY <1>8, <1>11
    <3>2. CASE x = c /\ y = o
      BY <1>6, <1>10, <1>11, <3>2 DEF SlotAgrees
    <3>3. CASE ~(x = c /\ y = o)
      <4>1. /\ m.chunks[x].rowids[y] = b.chunks[x].rowids[y]
            /\ y \in m.chunks[x].validity <=> y \in b.chunks[x].validity
        BY <1>11, <3>3
      <4> QED
        BY <1>10, <3>1, <4>1 DEF SlotAgrees
    <3> QED
      BY <3>2, <3>3
  <2> QED
    BY <2>1, <2>2 DEF Placed
<1>19. ASSUME t.aux PROVE DOMAIN m.aux = DOMAIN m.rowids
  <2>1. m.aux = Put(b.aux, r, row.aux) /\ DOMAIN b.aux = DOMAIN b.rowids \ {r}
    BY <1>19 DEF Ready, ColumnsWritten
  <2> QED
    BY <1>6, <1>10, <2>1 DEF Put
<1>20. ASSUME t.index = "rescore"
       PROVE  /\ DOMAIN m.full = DOMAIN m.rowids
              /\ \A q \in DOMAIN m.rowids : RescoreAgrees(m, q)
  <2>1. /\ m.full = Put(b.full, r, row.vector)
        /\ CellSet(m.coarse, b.coarse, c, o, RescoreQuantize(row.vector))
    BY <1>20, <1>19 DEF ColumnsWritten
  <2>2. /\ DOMAIN b.full = DOMAIN b.rowids \ {r}
        /\ \A q \in DOMAIN b.full : RescoreAgrees(b, q)
    BY <1>20 DEF Ready
  <2>3. Column(b.coarse, b, t)
    BY <1>5, <1>20 DEF ColumnsShape
  <2>4. /\ DOMAIN m.full = DOMAIN m.rowids
        /\ m.full[r] = row.vector
        /\ \A q \in DOMAIN b.full : m.full[q] = b.full[q]
    BY <1>6, <1>10, <2>1, <2>2 DEF Put
  <2>5. RescoreAgrees(m, r)
    BY <1>6, <1>10, <2>1, <2>3, <2>4 DEF RescoreAgrees, CellSet, Column
  <2>6. ASSUME NEW q \in DOMAIN m.rowids, q # r
        PROVE  RescoreAgrees(m, q)
    <3>1. RescoreAgrees(b, q) /\ m.full[q] = b.full[q] /\ m.rowids[q] = b.rowids[q]
      BY <1>10, <2>2, <2>4, <2>6
    <3>2. m.coarse[b.rowids[q].chunk][b.rowids[q].offset]
            = b.coarse[b.rowids[q].chunk][b.rowids[q].offset]
      BY <1>10, <1>17, <2>1, <2>3, <2>6 DEF CellSet, Column
    <3> QED
      BY <3>1, <3>2 DEF RescoreAgrees
  <2> QED
    BY <2>4, <2>5, <2>6
<1>21. ASSUME t.meta = "text"
       PROVE  /\ DOMAIN m.text \subseteq DOMAIN m.rowids
              /\ \A q \in DOMAIN m.rowids : TextAgrees(m, q)
  <2>1. /\ TextWritten(m, b, r, row.meta)
        /\ CellSet(m.meta, b.meta, c, o, TextView(row.meta))
    BY <1>21 DEF Written
  <2>2. /\ DOMAIN b.text \subseteq DOMAIN b.rowids \ {r}
        /\ \A q \in DOMAIN b.rowids : q # r => TextAgrees(b, q)
    BY <1>21 DEF Ready
  <2>3. Column(b.meta, b, t)
    BY <1>5, <1>21 DEF ColumnsShape
  <2>4. DOMAIN m.text \subseteq DOMAIN m.rowids
    BY <1>6, <1>10, <2>1, <2>2 DEF TextWritten
  <2>5. TextAgrees(m, r)
    <3>1. Cell(m, r) = TextView(row.meta)
      BY <1>6, <1>10, <2>1, <2>3 DEF Cell, CellSet, Column
    <3>2. Cell(m, r).n = Len(row.meta)
      BY <3>1 DEF TextView
    <3> QED
      BY <2>1, <2>2, <3>1, <3>2 DEF TextAgrees, TextWritten
  <2>6. ASSUME NEW q \in DOMAIN m.rowids, q # r
        PROVE  TextAgrees(m, q)
    <3>1. TextAgrees(b, q)
      BY <1>10, <2>2, <2>6
    <3>2. Cell(m, q) = Cell(b, q)
      BY <1>10, <1>17, <2>1, <2>3, <2>6 DEF Cell, CellSet, Column
    <3>3. /\ q \in DOMAIN m.text <=> q \in DOMAIN b.text
          /\ q \in DOMAIN b.text => m.text[q] = b.text[q]
      BY <2>1, <2>6 DEF TextWritten
    <3> QED
      BY <3>1, <3>2, <3>3 DEF TextAgrees
  <2> QED
    BY <2>4, <2>5, <2>6
<1>22. Filled(m, t)
  BY <1>19, <1>20, <1>21 DEF Filled
<1> QED
  BY <1>12, <1>13, <1>14, <1>15, <1>16, <1>18, <1>22 DEF StoreOK

\* The metadata of a new row.
NewMetadata(m, a, t, r, c, o, v) ==
    /\ DOMAIN m = Fields
    /\ \A f \in Fields \ {"meta", "text"} : m[f] = a[f]
    /\ t.meta # "none" => CellSet(m.meta, a.meta, c, o, Written(v, t))
    /\ t.meta = "text" => TextWritten(m, a, r, v)

LEMMA NewMetadataIs ==
    ASSUME NEW a, NEW t, NEW r, NEW c, NEW o, NEW v, IsDeclared(t), DOMAIN a = Fields,
           t.meta # "none" => c \in DOMAIN a.meta,
           t.meta = "text" => r \notin DOMAIN a.text
    PROVE  NewMetadata(WriteMetadata(a, t, r, c, o, v, FALSE), a, t, r, c, o, v)
<1>1. \A isUpdate \in BOOLEAN : isUpdate = FALSE =>
          NewMetadata(WriteMetadata(a, t, r, c, o, v, isUpdate), a, t, r, c, o, v)
  <2> TAKE isUpdate \in BOOLEAN
  <2> HAVE isUpdate = FALSE
  <2>1. t.meta = "text" => (r \in DOMAIN a.text <=> isUpdate /\ a.meta[c][o].n > ViewLength)
    OBVIOUS
  <2> QED
    BY <2>1, MetadataIsWritten DEF NewMetadata
<1> QED
  BY <1>1

\* InsertRowidStep under a rowid and a key that are free.
LEMMA InsertedRowIs ==
    ASSUME NEW s, NEW t, NEW id, NEW r \in Int, StoreOK(s, t), r \notin DOMAIN s.rowids,
           t.pk = "text" => ~HasId(s, t, id),
           NEW s1, s1 = InsertRowid(s, t, id, r)
    PROVE  /\ RowsShape(s1) /\ KeysDiffer(s1, t)
           /\ \A f \in Fields \ {"rowids", "rowidSeq"} : s1[f] = s[f]
           /\ DOMAIN s1.rowids = DOMAIN s.rowids \cup {r}
           /\ \A q \in DOMAIN s.rowids : s1.rowids[q] = s.rowids[q]
<1>1. RowsShape(s) /\ KeysDiffer(s, t)
  BY DEF StoreOK
<1> DEFINE key == IF t.pk = "text" THEN id ELSE None
<1>2. /\ DOMAIN s1 = Fields
      /\ s1.rowids = Put(s.rowids, r, [id |-> key, chunk |-> None, offset |-> None])
      /\ s1.rowidSeq = IF r > s.rowidSeq THEN r ELSE s.rowidSeq
      /\ \A f \in Fields \ {"rowids", "rowidSeq"} : s1[f] = s[f]
  BY <1>1 DEF InsertRowid, RowsShape, Fields
<1>3. /\ DOMAIN s1.rowids = DOMAIN s.rowids \cup {r}
      /\ \A q \in DOMAIN s.rowids : s1.rowids[q] = s.rowids[q]
      /\ DOMAIN s1.rowids[r] = {"id", "chunk", "offset"}
      /\ s1.rowids[r].id = key
  BY <1>2 DEF Put
<1>4. s1.rowidSeq \in Nat /\ r <= s1.rowidSeq /\ s.rowidSeq <= s1.rowidSeq
  BY <1>1, <1>2 DEF RowsShape
<1>5. RowsShape(s1)
  <2>1. s1.chunkSeq = s.chunkSeq
    BY <1>2 DEF Fields
  <2>2. ASSUME NEW q \in DOMAIN s1.rowids
        PROVE  q \in Int /\ q <= s1.rowidSeq /\ DOMAIN s1.rowids[q] = {"id", "chunk", "offset"}
    <3>1. CASE q = r
      BY <1>3, <1>4, <3>1
    <3>2. CASE q # r
      BY <1>1, <1>3, <1>4, <3>2 DEF RowsShape
    <3> QED
      BY <3>1, <3>2
  <2> QED
    BY <1>1, <1>2, <1>4, <2>1, <2>2 DEF RowsShape
<1>6. KeysDiffer(s1, t)
  BY <1>1, <1>3 DEF KeysDiffer, HasId
<1> QED
  BY <1>2, <1>3, <1>5, <1>6

\* What InsertNextAvailableStep finds is a slot for the row.
LEMMA SlotIsReady ==
    ASSUME NEW s, NEW t, NEW s1, NEW b, NEW r, NEW c, NEW o, IsDeclared(t), Chunked(t),
           StoreOK(s, t), r \notin DOMAIN s.rowids,
           RowsShape(s1), KeysDiffer(s1, t),
           \A f \in Fields \ {"rowids", "rowidSeq"} : s1[f] = s[f],
           DOMAIN s1.rowids = DOMAIN s.rowids \cup {r},
           \A q \in DOMAIN s.rowids : s1.rowids[q] = s.rowids[q],
           SameRows(b, s1), b = s1 \/ Grown(b, s1, t, c),
           c \in DOMAIN b.chunks, o \in Offsets(t), o \notin b.chunks[c].validity
    PROVE  Ready(b, t, r, c, o)
<1>1. /\ RowsShape(s) /\ KeysDiffer(s, t) /\ ChunksShape(s, t) /\ ColumnsShape(s, t)
      /\ Placed(s, t) /\ NoneEmpty(s) /\ Filled(s, t)
  BY DEF StoreOK
<1>2. /\ DOMAIN b = Fields
      /\ DOMAIN b.rowids = DOMAIN s.rowids \cup {r}
      /\ \A q \in DOMAIN s.rowids : b.rowids[q] = s.rowids[q]
      /\ b.rowids = s1.rowids /\ b.rowidSeq = s1.rowidSeq
      /\ b.full = s.full /\ b.text = s.text /\ b.aux = s.aux
  BY DEF SameRows, Fields
<1>3. /\ s1.chunks = s.chunks /\ s1.chunkSeq = s.chunkSeq
      /\ s1.vectors = s.vectors /\ s1.coarse = s.coarse /\ s1.meta = s.meta
  BY DEF Fields
<1>4. /\ \A x \in DOMAIN s.chunks : x \in DOMAIN b.chunks /\ b.chunks[x] = s.chunks[x]
      /\ \A x \in DOMAIN b.chunks : x \notin DOMAIN s.chunks =>
            /\ x = c /\ x = b.chunkSeq
            /\ DOMAIN b.chunks[x] = {"part", "validity", "rowids"}
            /\ b.chunks[x].validity = {}
            /\ b.chunks[x].rowids = Blank(t, 0)
  BY <1>3 DEF Grown
<1>5. b.chunkSeq \in Nat /\ s.chunkSeq <= b.chunkSeq /\ s.chunkSeq \in Nat
      /\ \A x \in DOMAIN b.chunks : x \notin DOMAIN s.chunks => x \in 1..b.chunkSeq
  BY <1>1, <1>3, <1>4 DEF Grown, RowsShape
<1>6. RowsShape(b)
  BY <1>2, <1>5 DEF RowsShape
<1>7. KeysDiffer(b, t)
  BY <1>2 DEF KeysDiffer
<1>8. \A y \in Offsets(t) : Blank(t, 0)[y] = 0
  BY DEF Blank
<1>9. ChunksShape(b, t)
  <2>1. ASSUME NEW x \in DOMAIN b.chunks
        PROVE  /\ x \in 1..b.chunkSeq
               /\ DOMAIN b.chunks[x] = {"part", "validity", "rowids"}
               /\ DOMAIN b.chunks[x].rowids = Offsets(t)
               /\ b.chunks[x].validity \subseteq Offsets(t)
    <3>1. CASE x \in DOMAIN s.chunks
      <4>1. x \in 1..s.chunkSeq
        BY <1>1, <3>1 DEF ChunksShape
      <4>2. x \in 1..b.chunkSeq
        BY <1>5, <4>1
      <4> QED
        BY <1>1, <1>4, <3>1, <4>2 DEF ChunksShape
    <3>2. CASE x \notin DOMAIN s.chunks
      BY <1>4, <1>5, <3>2 DEF Blank
    <3> QED
      BY <3>1, <3>2
  <2> QED
    BY <2>1 DEF ChunksShape
<1>10. ColumnsShape(b, t)
  <2>1. CASE b = s1
    BY <1>1, <1>3, <2>1 DEF ColumnsShape, Column
  <2>2. CASE Grown(b, s1, t, c)
    <3>1. DOMAIN b.chunks = DOMAIN s.chunks \cup {c}
      BY <1>3, <2>2 DEF Grown
    <3>2. t.index = "flat" => Column(b.vectors, b, t)
      BY <1>1, <1>3, <2>2, <3>1 DEF ColumnsShape, Column, Grown, Put, Blank
    <3>3. t.index = "rescore" => Column(b.coarse, b, t)
      BY <1>1, <1>3, <2>2, <3>1 DEF ColumnsShape, Column, Grown, Put, Blank
    <3>4. t.meta # "none" => Column(b.meta, b, t)
      BY <1>1, <1>3, <2>2, <3>1 DEF ColumnsShape, Column, Grown, Put, Blank
    <3> QED
      BY <3>2, <3>3, <3>4 DEF ColumnsShape
  <2> QED
    BY <2>1, <2>2
<1>11. ASSUME NEW q \in DOMAIN b.rowids, q # r
       PROVE  RowPlaced(b, q)
  <2>1. RowPlaced(s, q) /\ b.rowids[q] = s.rowids[q]
    BY <1>1, <1>2, <1>11 DEF Placed
  <2>2. PICK x, y : s.rowids[q].chunk = x /\ s.rowids[q].offset = y
    OBVIOUS
  <2>3. x \in DOMAIN s.chunks /\ y \in s.chunks[x].validity /\ s.chunks[x].rowids[y] = q
    BY <2>1, <2>2, RowPlacedAt
  <2>4. x \in DOMAIN b.chunks /\ b.chunks[x] = s.chunks[x]
    BY <1>4, <2>3
  <2> QED
    BY <2>1, <2>2, <2>3, <2>4, RowPlacedAt
<1>12. ASSUME NEW x \in DOMAIN b.chunks, NEW y \in Offsets(t)
       PROVE  SlotAgrees(b, x, y) /\ (y \in b.chunks[x].validity => b.chunks[x].rowids[y] # r)
  <2>1. CASE x \in DOMAIN s.chunks
    <3>1. SlotAgrees(s, x, y) /\ b.chunks[x] = s.chunks[x]
      BY <1>1, <1>4, <2>1 DEF Placed
    <3> QED
      BY <1>2, <3>1, ZenonT(30) DEF SlotAgrees
  <2>2. CASE x \notin DOMAIN s.chunks
    BY <1>4, <1>8, <2>2 DEF SlotAgrees
  <2> QED
    BY <2>1, <2>2
<1>13. \A x \in DOMAIN b.chunks : x # c => b.chunks[x].validity # {}
  BY <1>1, <1>4 DEF NoneEmpty
\* A row's cell in the chunk is as it was: a new chunk is nobody's.
<1>14. \A q \in DOMAIN s.rowids : /\ s.rowids[q].chunk \in DOMAIN s.chunks
                                  /\ b.rowids[q] = s.rowids[q]
  BY <1>1, <1>2 DEF Placed, RowPlaced
<1>15. t.aux => DOMAIN b.aux = DOMAIN b.rowids \ {r}
  BY <1>1, <1>2 DEF Filled
<1>16. ASSUME t.index = "rescore"
       PROVE  /\ DOMAIN b.full = DOMAIN b.rowids \ {r}
              /\ \A q \in DOMAIN b.full : RescoreAgrees(b, q)
  <2>1. DOMAIN s.full = DOMAIN s.rowids /\ \A q \in DOMAIN s.rowids : RescoreAgrees(s, q)
    BY <1>1, <1>16 DEF Filled
  <2>2. DOMAIN s.coarse = DOMAIN s.chunks
    BY <1>1, <1>16 DEF ColumnsShape, Column
  <2>3. \A x \in DOMAIN s.coarse : b.coarse[x] = s.coarse[x]
    BY <1>3, <1>16, <2>2 DEF Grown, Put
  <2>4. ASSUME NEW q \in DOMAIN s.rowids PROVE RescoreAgrees(b, q)
    BY <1>2, <1>14, <2>1, <2>2, <2>3, <2>4 DEF RescoreAgrees
  <2> QED
    BY <1>2, <2>1, <2>4
<1>17. ASSUME t.meta = "text"
       PROVE  /\ DOMAIN b.text \subseteq DOMAIN b.rowids \ {r}
              /\ \A q \in DOMAIN b.rowids : q # r => TextAgrees(b, q)
  <2>1. /\ DOMAIN s.text \subseteq DOMAIN s.rowids
        /\ \A q \in DOMAIN s.rowids : TextAgrees(s, q)
    BY <1>1, <1>17 DEF Filled
  <2>2. DOMAIN s.meta = DOMAIN s.chunks
    BY <1>1, <1>17 DEF ColumnsShape, Column
  <2>3. \A x \in DOMAIN s.meta : b.meta[x] = s.meta[x]
    BY <1>3, <1>17, <2>2 DEF Grown, Put
  <2>4. ASSUME NEW q \in DOMAIN s.rowids PROVE TextAgrees(b, q)
    <3>1. Cell(b, q) = Cell(s, q)
      BY <1>14, <2>2, <2>3 DEF Cell
    <3> QED
      BY <1>2, <2>1, <3>1 DEF TextAgrees
  <2> QED
    BY <1>2, <2>1, <2>4
<1> QED
  BY <1>2, <1>6, <1>7, <1>9, <1>10, <1>11, <1>12, <1>13, <1>15, <1>16, <1>17 DEF Ready

\* What vec0Update_Insert makes of s, a table with chunks: b is s with the rowid
\* and with the chunk that has the free slot <<c, o>>, m is b with the row in it.
\* There is always such a slot, and never a text left over under the rowid.
RowInserted(m, s, t, id, r, row, b, c, o) ==
    /\ SameRows(b, InsertRowid(s, t, id, r))
    /\ b = InsertRowid(s, t, id, r) \/ Grown(b, InsertRowid(s, t, id, r), t, c)
    /\ t.part => b.chunks[c].part = row.part
    /\ Ready(b, t, r, c, o)
    /\ RowWritten(m, b, t, r, c, o, row)
    /\ ColumnsWritten(m, b, t, r, c, o, row)
    /\ t.meta # "none" => CellSet(m.meta, b.meta, c, o, Written(row.meta, t))
    /\ t.meta = "text" => TextWritten(m, b, r, row.meta)

LEMMA InsertChunkedIs ==
    ASSUME NEW s, NEW t, NEW id, NEW r \in Int, NEW row, IsDeclared(t), Chunked(t),
           StoreOK(s, t), r \notin DOMAIN s.rowids, t.pk = "text" => ~HasId(s, t, id)
    PROVE  /\ InsertChunked(InsertRowid(s, t, id, r), t, r, row).ok
           /\ \E b, c, o : RowInserted(InsertChunked(InsertRowid(s, t, id, r), t, r, row).store,
                                       s, t, id, r, row, b, c, o)
<1> DEFINE s1 == InsertRowid(s, t, id, r)
           at == NextAvailable(s1, t, row.part)
           b == at.store
           c == at.chunk
           o == at.offset
           p == PlaceRow(b, t, r, c, o, row)
           m == WriteMetadata(p, t, r, c, o, row.meta, FALSE)
<1>1. /\ InsertChunked(s1, t, r, row).store = m
      /\ InsertChunked(s1, t, r, row).ok = MetadataWritable(p, t, r, c, o, row.meta, FALSE)
  BY DEF InsertChunked, PlaceRow
<1>2. /\ RowsShape(s1) /\ KeysDiffer(s1, t)
      /\ \A f \in Fields \ {"rowids", "rowidSeq"} : s1[f] = s[f]
      /\ DOMAIN s1.rowids = DOMAIN s.rowids \cup {r}
      /\ \A q \in DOMAIN s.rowids : s1.rowids[q] = s.rowids[q]
  BY InsertedRowIs
<1> HIDE DEF s1
<1>3. ChunksShape(s1, t)
  BY <1>2 DEF StoreOK, ChunksShape, Fields
<1>4. /\ SameRows(b, s1)
      /\ c \in DOMAIN b.chunks /\ o \in Offsets(t) /\ o \notin b.chunks[c].validity
      /\ b = s1 \/ Grown(b, s1, t, c)
      /\ t.part => b.chunks[c].part = row.part
  BY <1>2, <1>3, NextAvailableIs
<1> HIDE DEF at
<1>5. Ready(b, t, r, c, o)
  BY <1>2, <1>4, SlotIsReady
<1> HIDE DEF b, c, o
<1>6. /\ DOMAIN b = Fields
      /\ r \in DOMAIN b.rowids /\ DOMAIN b.rowids[r] = {"id", "chunk", "offset"}
      /\ c \in DOMAIN b.chunks /\ DOMAIN b.chunks[c] = {"part", "validity", "rowids"}
      /\ ColumnsShape(b, t)
      /\ t.meta # "none" => c \in DOMAIN b.meta
      /\ t.meta = "text" => r \notin DOMAIN b.text
  BY <1>5 DEF Ready, RowsShape, ChunksShape, ColumnsShape, Column
<1>7. /\ RowWritten(p, b, t, r, c, o, row)
      /\ ColumnsWritten(p, b, t, r, c, o, row)
      /\ p.meta = b.meta /\ p.text = b.text
  BY <1>6, RowIsWritten
<1> HIDE DEF p
<1>8. MetadataWritable(p, t, r, c, o, row.meta, FALSE)
  BY <1>6, <1>7 DEF MetadataWritable
<1>9. NewMetadata(m, p, t, r, c, o, row.meta)
  BY <1>6, <1>7, NewMetadataIs DEF RowWritten
<1> HIDE DEF m
<1>10. /\ m.rowids = p.rowids /\ m.chunks = p.chunks /\ m.vectors = p.vectors
      /\ m.coarse = p.coarse /\ m.full = p.full /\ m.aux = p.aux /\ m.graph = p.graph
      /\ m.rowidSeq = p.rowidSeq /\ m.chunkSeq = p.chunkSeq /\ DOMAIN m = Fields
  BY <1>9 DEF NewMetadata, Fields
<1>11. RowWritten(m, b, t, r, c, o, row)
  BY <1>7, <1>10 DEF RowWritten
<1>12. ColumnsWritten(m, b, t, r, c, o, row)
  BY <1>7, <1>10 DEF ColumnsWritten
<1>13. t.meta # "none" => CellSet(m.meta, b.meta, c, o, Written(row.meta, t))
  BY <1>7, <1>9 DEF NewMetadata
<1>14. t.meta = "text" => TextWritten(m, b, r, row.meta)
  BY <1>7, <1>9 DEF NewMetadata, TextWritten
<1>15. RowInserted(m, s, t, id, r, row, b, c, o)
  BY <1>4, <1>5, <1>11, <1>12, <1>13, <1>14 DEF RowInserted, s1
<1> QED
  BY <1>1, <1>15, <1>8 DEF s1

LEMMA InsertChunkedKeeps ==
    ASSUME NEW s, NEW t, NEW id, NEW r \in Int, NEW row, IsDeclared(t), Chunked(t),
           StoreOK(s, t), r \notin DOMAIN s.rowids, t.pk = "text" => ~HasId(s, t, id)
    PROVE  StoreOK(InsertChunked(InsertRowid(s, t, id, r), t, r, row).store, t)
<1> DEFINE m == InsertChunked(InsertRowid(s, t, id, r), t, r, row).store
<1>1. PICK b, c, o : RowInserted(m, s, t, id, r, row, b, c, o)
  BY InsertChunkedIs
<1> HIDE DEF m
<1>2. StoreOK(m, t)
  BY <1>1, PlacedRowKeeps DEF RowInserted
<1> QED
  BY <1>2 DEF m

\* An INSERT that succeeds leaves tables that agree.
LEMMA InsertRowKeeps ==
    ASSUME NEW s, NEW t, NEW id, NEW row, IsDeclared(t), StoreOK(s, t),
           t.pk = "int" => id \in Int \cup {None}, InsertRow(s, t, id, row).ok
    PROVE  StoreOK(InsertRow(s, t, id, row).store, t)
<1> DEFINE r == NewRowid(s, t, id)
           s1 == InsertRowid(s, t, id, r)
           taken == IF id = None THEN t.pk = "text" ELSE HasId(s, t, id)
<1>1. ~taken
  BY DEF InsertRow
<1>2. InsertRow(s, t, id, row).store
        = IF Chunked(t) THEN InsertChunked(s1, t, r, row).store
          ELSE InsertGraphRow(s1, t, r, row).store
  BY <1>1 DEF InsertRow
<1>3. RowsShape(s)
  BY DEF StoreOK
<1>4. r \in Int /\ r \notin DOMAIN s.rowids
  <2>1. s.rowidSeq + 1 \in Int /\ s.rowidSeq + 1 \notin DOMAIN s.rowids
    BY <1>3 DEF RowsShape
  <2> QED
    BY <1>1, <2>1 DEF NewRowid, HasId, IsDeclared
<1>5. t.pk = "text" => ~HasId(s, t, id)
  BY <1>1
<1> HIDE DEF r, taken
<1>6. CASE Chunked(t)
  BY <1>2, <1>4, <1>5, <1>6, InsertChunkedKeeps
<1>7. CASE ~Chunked(t)
  <2> DEFINE g == [s1 EXCEPT !.graph = Insert(s1.graph, r, row.vector, t.bufferThreshold,
                                              InsertBeam(t)).index]
             m == WriteAux(g, t, r, row.aux)
  <2>1. InsertRow(s, t, id, row).store = m
    BY <1>2, <1>7 DEF InsertGraphRow, WithGraph
  <2>2. /\ RowsShape(s1) /\ KeysDiffer(s1, t)
        /\ \A f \in Fields \ {"rowids", "rowidSeq"} : s1[f] = s[f]
        /\ DOMAIN s1.rowids = DOMAIN s.rowids \cup {r}
    BY <1>4, <1>5, InsertedRowIs
  <2> HIDE DEF s1
  <2>3. DOMAIN g = Fields /\ \A f \in Fields \ {"graph"} : g[f] = s1[f]
    BY <2>2 DEF RowsShape, Fields
  <2> HIDE DEF g
  <2>4. /\ DOMAIN m = Fields /\ \A f \in Fields \ {"aux"} : m[f] = g[f]
        /\ t.aux => m.aux = Put(g.aux, r, row.aux)
    BY <2>3 DEF WriteAux, Fields
  <2> HIDE DEF m
  <2>5. /\ m.rowids = s1.rowids /\ m.rowidSeq = s1.rowidSeq /\ m.chunkSeq = s1.chunkSeq
        /\ t.aux => m.aux = Put(s.aux, r, row.aux)
    BY <2>2, <2>3, <2>4 DEF Fields
  <2>6. RowsShape(m) /\ KeysDiffer(m, t)
    BY <2>2, <2>4, <2>5 DEF RowsShape, KeysDiffer
  <2>7. Filled(m, t)
    <3>1. t.index = "diskann" /\ t.meta = "none"
      BY <1>7 DEF Chunked, IsDeclared
    <3>2. t.aux => DOMAIN s.aux = DOMAIN s.rowids
      BY DEF StoreOK, Filled
    <3>3. t.aux => DOMAIN m.aux = DOMAIN m.rowids
      BY <2>2, <2>5, <3>2 DEF Put
    <3> QED
      BY <3>1, <3>3 DEF Filled
  <2> QED
    BY <1>7, <2>1, <2>6, <2>7 DEF StoreOK
<1> QED
  BY <1>6, <1>7

\* A store whose chunk c may be left without a valid slot.
Vacated(d, t, c) ==
    /\ RowsShape(d) /\ KeysDiffer(d, t) /\ ChunksShape(d, t) /\ ColumnsShape(d, t)
    /\ Placed(d, t) /\ Filled(d, t)
    /\ \A x \in DOMAIN d.chunks : x # c => d.chunks[x].validity # {}

\* vec0Update_Delete_DeleteChunkIfEmpty.
LEMMA EmptyChunkGoes ==
    ASSUME NEW d, NEW t, NEW c, IsDeclared(t), Vacated(d, t, c)
    PROVE  StoreOK(DeleteChunkIfEmpty(d, t, c), t)
<1> DEFINE m == DeleteChunkIfEmpty(d, t, c)
<1>0. /\ RowsShape(d) /\ KeysDiffer(d, t) /\ ChunksShape(d, t) /\ ColumnsShape(d, t)
      /\ Placed(d, t) /\ Filled(d, t)
      /\ \A x \in DOMAIN d.chunks : x # c => d.chunks[x].validity # {}
  BY DEF Vacated
<1>1. CASE d.chunks[c].validity # {}
  BY <1>0, <1>1 DEF StoreOK, NoneEmpty, DeleteChunkIfEmpty
<1>2. CASE d.chunks[c].validity = {}
  <2>1. /\ DOMAIN m = Fields
        /\ \A f \in Fields \ {"chunks", "vectors", "coarse", "meta"} : m[f] = d[f]
        /\ m.chunks = Without(d.chunks, c) /\ m.vectors = Without(d.vectors, c)
        /\ m.coarse = Without(d.coarse, c) /\ m.meta = Without(d.meta, c)
    BY <1>0, <1>2 DEF DeleteChunkIfEmpty, DeleteRescoreChunk, RowsShape, Fields
  <2> HIDE DEF m
  <2>2. /\ m.rowids = d.rowids /\ m.rowidSeq = d.rowidSeq /\ m.chunkSeq = d.chunkSeq
        /\ m.full = d.full /\ m.text = d.text /\ m.aux = d.aux
    BY <2>1 DEF Fields
  <2>3. /\ DOMAIN m.chunks = DOMAIN d.chunks \ {c}
        /\ \A x \in DOMAIN m.chunks : m.chunks[x] = d.chunks[x]
    BY <2>1 DEF Without
  <2>4. RowsShape(m) /\ KeysDiffer(m, t)
    BY <1>0, <2>1, <2>2 DEF RowsShape, KeysDiffer
  <2>5. ChunksShape(m, t) /\ NoneEmpty(m)
    BY <1>0, <2>2, <2>3 DEF ChunksShape, NoneEmpty
  <2>6. ColumnsShape(m, t)
    <3>1. t.index = "flat" => Column(m.vectors, m, t)
      BY <1>0, <2>1, <2>3, ColumnWithout DEF ColumnsShape
    <3>2. t.index = "rescore" => Column(m.coarse, m, t)
      BY <1>0, <2>1, <2>3, ColumnWithout DEF ColumnsShape
    <3>3. t.meta # "none" => Column(m.meta, m, t)
      BY <1>0, <2>1, <2>3, ColumnWithout DEF ColumnsShape
    <3> QED
      BY <3>1, <3>2, <3>3 DEF ColumnsShape
  <2>7. ASSUME NEW q \in DOMAIN d.rowids
        PROVE  d.rowids[q].chunk \in DOMAIN m.chunks /\ RowPlaced(m, q)
    <3>1. RowPlaced(d, q) /\ m.rowids[q] = d.rowids[q]
      BY <1>0, <2>2 DEF Placed
    <3>2. PICK x, y : d.rowids[q].chunk = x /\ d.rowids[q].offset = y
      OBVIOUS
    <3>3. x \in DOMAIN d.chunks /\ y \in d.chunks[x].validity /\ d.chunks[x].rowids[y] = q
      BY <3>1, <3>2, RowPlacedAt
    <3>4. x \in DOMAIN m.chunks /\ m.chunks[x] = d.chunks[x]
      BY <1>2, <2>3, <3>3
    <3> QED
      BY <3>1, <3>2, <3>3, <3>4, RowPlacedAt
  <2>8. Placed(m, t)
    <3>1. ASSUME NEW x \in DOMAIN m.chunks, NEW y \in Offsets(t) PROVE SlotAgrees(m, x, y)
      <4>1. SlotAgrees(d, x, y) /\ m.chunks[x] = d.chunks[x]
        BY <1>0, <2>3 DEF Placed
      <4> QED
        BY <2>2, <4>1, ZenonT(30) DEF SlotAgrees
    <3> QED
      BY <2>2, <2>7, <3>1 DEF Placed
  <2>9. Filled(m, t)
    <3>1. t.index = "rescore" => \A q \in DOMAIN m.rowids : RescoreAgrees(m, q)
      <4>1. ASSUME t.index = "rescore", NEW q \in DOMAIN m.rowids PROVE RescoreAgrees(m, q)
        <5>1. RescoreAgrees(d, q) /\ d.rowids[q].chunk \in DOMAIN m.chunks
          BY <1>0, <2>2, <2>7, <4>1 DEF Filled
        <5>2. m.coarse[d.rowids[q].chunk] = d.coarse[d.rowids[q].chunk]
          BY <1>0, <2>1, <2>3, <4>1, <5>1 DEF ColumnsShape, Column, Without
        <5> QED
          BY <2>2, <5>1, <5>2 DEF RescoreAgrees
      <4> QED
        BY <4>1
    <3>2. t.meta = "text" => \A q \in DOMAIN m.rowids : TextAgrees(m, q)
      <4>1. ASSUME t.meta = "text", NEW q \in DOMAIN m.rowids PROVE TextAgrees(m, q)
        <5>1. TextAgrees(d, q) /\ d.rowids[q].chunk \in DOMAIN m.chunks
          BY <1>0, <2>2, <2>7, <4>1 DEF Filled
        <5>2. m.meta[d.rowids[q].chunk] = d.meta[d.rowids[q].chunk]
          BY <1>0, <2>1, <2>3, <4>1, <5>1 DEF ColumnsShape, Column, Without
        <5>3. Cell(m, q) = Cell(d, q)
          BY <2>2, <5>2 DEF Cell
        <5> QED
          BY <2>2, <5>1, <5>3 DEF TextAgrees
      <4> QED
        BY <4>1
    <3> QED
      BY <1>0, <2>2, <3>1, <3>2 DEF Filled
  <2>10. StoreOK(m, t)
    BY <2>4, <2>5, <2>6, <2>8, <2>9 DEF StoreOK
  <2> QED
    BY <2>10 DEF m
<1> QED
  BY <1>1, <1>2

\* A store from which row r, of slot <<c, o>>, is gone.
RowCleared(d, s, t, r, c, o) ==
    /\ DOMAIN d = Fields
    /\ d.rowidSeq = s.rowidSeq /\ d.chunkSeq = s.chunkSeq
    /\ d.rowids = Without(s.rowids, r)
    /\ DOMAIN d.chunks = DOMAIN s.chunks
    /\ \A x \in DOMAIN s.chunks : x # c => d.chunks[x] = s.chunks[x]
    /\ DOMAIN d.chunks[c] = DOMAIN s.chunks[c]
    /\ d.chunks[c].part = s.chunks[c].part
    /\ d.chunks[c].validity = s.chunks[c].validity \ {o}
    /\ d.chunks[c].rowids = [s.chunks[c].rowids EXCEPT ![o] = 0]
ColumnsCleared(d, s, t, r, c, o) ==
    /\ t.index = "flat" => CellSet(d.vectors, s.vectors, c, o, 0)
    /\ t.index = "rescore" => /\ CellSet(d.coarse, s.coarse, c, o, 0)
                              /\ d.full = Without(s.full, r)
    /\ t.aux => d.aux = Without(s.aux, r)
    /\ t.meta # "none" => CellSet(d.meta, s.meta, c, o, ZeroMeta(t))
    /\ t.meta = "text" => d.text = IF s.meta[c][o].n > ViewLength THEN Without(s.text, r)
                                   ELSE s.text

ClearRow(s, t, r, c, o) ==
    ClearMetadata(
        DeleteAux(DeleteRowids(
            RescoreOnDelete(ClearVectors(ClearRowid(ClearValidity(s, c, o), c, o), t, c, o),
                            t, r, c, o), r), t, r), t, r, c, o)

\* The steps of vec0Update_Delete before the chunk is looked at.
LEMMA RowIsCleared ==
    ASSUME NEW s, NEW t, NEW r, NEW c, NEW o, IsDeclared(t), Chunked(t), DOMAIN s = Fields,
           ColumnsShape(s, t),
           c \in DOMAIN s.chunks, DOMAIN s.chunks[c] = {"part", "validity", "rowids"}
    PROVE  /\ RowCleared(ClearRow(s, t, r, c, o), s, t, r, c, o)
           /\ ColumnsCleared(ClearRow(s, t, r, c, o), s, t, r, c, o)
<1> DEFINE w == ClearVectors(ClearRowid(ClearValidity(s, c, o), c, o), t, c, o)
           x == RescoreOnDelete(w, t, r, c, o)
           p == DeleteAux(DeleteRowids(x, r), t, r)
           d == ClearMetadata(p, t, r, c, o)
<1>1. /\ DOMAIN w = Fields
      /\ \A f \in Fields \ {"chunks", "vectors"} : w[f] = s[f]
      /\ w.chunks = [s.chunks EXCEPT ![c].validity = @ \ {o}, ![c].rowids[o] = 0]
      /\ w.vectors = IF t.index = "flat" THEN [s.vectors EXCEPT ![c][o] = 0] ELSE s.vectors
  BY DEF ClearVectors, ClearRowid, ClearValidity, Fields
<1>2. /\ DOMAIN x = Fields
      /\ \A f \in Fields \ {"coarse", "full"} : x[f] = w[f]
      /\ t.index = "rescore" => /\ x.coarse = [w.coarse EXCEPT ![c][o] = 0]
                                /\ x.full = Without(w.full, r)
  BY <1>1 DEF RescoreOnDelete, Fields
<1> HIDE DEF w
<1>3. /\ DOMAIN p = Fields
      /\ \A f \in Fields \ {"aux", "rowids"} : p[f] = x[f]
      /\ p.rowids = Without(x.rowids, r)
      /\ t.aux => p.aux = Without(x.aux, r)
  <2> HIDE DEF x
  <2> QED
    BY <1>2 DEF DeleteAux, DeleteRowids, Fields
<1> HIDE DEF x
<1>4. /\ DOMAIN d = Fields
      /\ \A f \in Fields \ {"meta", "text"} : d[f] = p[f]
      /\ t.meta # "none" => d.meta = [p.meta EXCEPT ![c][o] = ZeroMeta(t)]
      /\ t.meta = "text" => d.text = IF p.meta[c][o].n > ViewLength THEN Without(p.text, r)
                                     ELSE p.text
  <2> HIDE DEF p
  <2> QED
    BY <1>3 DEF ClearMetadata, Fields
<1>5. d = ClearRow(s, t, r, c, o)
  BY DEF d, p, x, w, ClearRow
<1> HIDE DEF p, d
<1>6. RowCleared(d, s, t, r, c, o)
  <2>1. /\ DOMAIN w.chunks = DOMAIN s.chunks
        /\ \A y \in DOMAIN s.chunks : y # c => w.chunks[y] = s.chunks[y]
        /\ DOMAIN w.chunks[c] = DOMAIN s.chunks[c]
        /\ w.chunks[c].part = s.chunks[c].part
        /\ w.chunks[c].validity = s.chunks[c].validity \ {o}
        /\ w.chunks[c].rowids = [s.chunks[c].rowids EXCEPT ![o] = 0]
    BY <1>1
  <2>2. /\ d.rowids = Without(s.rowids, r) /\ d.chunks = w.chunks
        /\ d.rowidSeq = s.rowidSeq /\ d.chunkSeq = s.chunkSeq
    BY <1>1, <1>2, <1>3, <1>4 DEF Fields
  <2> QED
    BY <1>4, <2>1, <2>2 DEF RowCleared
<1>7. ColumnsCleared(d, s, t, r, c, o)
  <2>1. /\ d.vectors = w.vectors /\ d.coarse = x.coarse /\ d.full = x.full /\ d.aux = p.aux
        /\ p.meta = s.meta /\ p.text = s.text /\ w.coarse = s.coarse /\ w.full = s.full
        /\ x.aux = s.aux
    BY <1>1, <1>2, <1>3, <1>4 DEF Fields
  <2>2. /\ t.index = "flat" => c \in DOMAIN s.vectors
        /\ t.index = "rescore" => c \in DOMAIN s.coarse
        /\ t.meta # "none" => c \in DOMAIN s.meta
    BY DEF ColumnsShape, Column
  <2>3. t.index = "flat" => CellSet(d.vectors, s.vectors, c, o, 0)
    BY <1>1, <2>1, <2>2, CellIsSet
  <2>4. t.index = "rescore" => CellSet(d.coarse, s.coarse, c, o, 0)
    BY <1>2, <2>1, <2>2, CellIsSet
  <2>5. t.meta # "none" => CellSet(d.meta, s.meta, c, o, ZeroMeta(t))
    BY <1>4, <2>1, <2>2, CellIsSet
  <2> QED
    BY <1>2, <1>3, <1>4, <2>1, <2>3, <2>4, <2>5 DEF ColumnsCleared
<1> QED
  BY <1>5, <1>6, <1>7

\* They leave nothing of the row, and every other row as it was.
LEMMA ClearedIsVacated ==
    ASSUME NEW s, NEW t, NEW r, NEW d, IsDeclared(t), Chunked(t), StoreOK(s, t),
           r \in DOMAIN s.rowids, NEW c, NEW o,
           c = s.rowids[r].chunk, o = s.rowids[r].offset,
           RowCleared(d, s, t, r, c, o), ColumnsCleared(d, s, t, r, c, o)
    PROVE  Vacated(d, t, c)
<1>1. /\ RowsShape(s) /\ KeysDiffer(s, t) /\ ChunksShape(s, t) /\ ColumnsShape(s, t)
      /\ Placed(s, t) /\ NoneEmpty(s) /\ Filled(s, t)
  BY DEF StoreOK
<1>2. /\ DOMAIN d.rowids = DOMAIN s.rowids \ {r}
      /\ \A q \in DOMAIN d.rowids : d.rowids[q] = s.rowids[q]
      /\ DOMAIN d = Fields /\ d.rowidSeq = s.rowidSeq /\ d.chunkSeq = s.chunkSeq
  BY DEF RowCleared, Without
<1>3. RowPlaced(s, r)
  BY <1>1 DEF Placed
<1>4. c \in DOMAIN s.chunks /\ o \in Offsets(t) /\ o \in s.chunks[c].validity
      /\ s.chunks[c].rowids[o] = r
  BY <1>1, <1>3 DEF RowPlaced, ChunksShape
<1>5. /\ DOMAIN d.chunks = DOMAIN s.chunks
      /\ \A x \in DOMAIN s.chunks : x # c => d.chunks[x] = s.chunks[x]
      /\ DOMAIN d.chunks[c] = {"part", "validity", "rowids"}
      /\ DOMAIN d.chunks[c].rowids = Offsets(t)
      /\ d.chunks[c].validity = s.chunks[c].validity \ {o}
      /\ \A y \in Offsets(t) :
            d.chunks[c].rowids[y] = IF y = o THEN 0 ELSE s.chunks[c].rowids[y]
  BY <1>1, <1>4 DEF RowCleared, ChunksShape
<1>6. RowsShape(d)
  BY <1>1, <1>2 DEF RowsShape
<1>7. KeysDiffer(d, t)
  BY <1>1, <1>2 DEF KeysDiffer
<1>8. ChunksShape(d, t)
  BY <1>1, <1>2, <1>4, <1>5 DEF ChunksShape
<1>9. ColumnsShape(d, t)
  <2>0. DOMAIN d.chunks = DOMAIN s.chunks
    BY <1>5
  <2>1. ASSUME t.index = "flat" PROVE Column(d.vectors, d, t)
    <3>1. Column(s.vectors, s, t) /\ CellSet(d.vectors, s.vectors, c, o, 0)
      BY <1>1, <2>1 DEF ColumnsShape, ColumnsCleared
    <3> QED
      BY <2>0, <3>1, ColumnOfCellSet
  <2>2. ASSUME t.index = "rescore" PROVE Column(d.coarse, d, t)
    <3>1. Column(s.coarse, s, t) /\ CellSet(d.coarse, s.coarse, c, o, 0)
      BY <1>1, <2>2 DEF ColumnsShape, ColumnsCleared
    <3> QED
      BY <2>0, <3>1, ColumnOfCellSet
  <2>3. ASSUME t.meta # "none" PROVE Column(d.meta, d, t)
    <3>1. Column(s.meta, s, t) /\ CellSet(d.meta, s.meta, c, o, ZeroMeta(t))
      BY <1>1, <2>3 DEF ColumnsShape, ColumnsCleared
    <3> QED
      BY <2>0, <3>1, ColumnOfCellSet
  <2> QED
    BY <2>1, <2>2, <2>3 DEF ColumnsShape
<1>10. \A x \in DOMAIN d.chunks : x # c => d.chunks[x].validity # {}
  BY <1>1, <1>5 DEF NoneEmpty
\* No other row is in the slot.
<1>11. \A q \in DOMAIN d.rowids :
          /\ RowPlaced(s, q)
          /\ s.rowids[q].chunk \in DOMAIN s.chunks
          /\ s.rowids[q].offset \in Offsets(t)
          /\ ~(s.rowids[q].chunk = c /\ s.rowids[q].offset = o)
  BY <1>1, <1>2, <1>4 DEF Placed, RowPlaced, ChunksShape
<1>12. Placed(d, t)
  <2>1. ASSUME NEW q \in DOMAIN d.rowids PROVE RowPlaced(d, q)
    <3>1. RowPlaced(s, q) /\ d.rowids[q] = s.rowids[q]
      BY <1>2, <1>11
    <3>2. s.rowids[q].offset \in Offsets(t)
      BY <1>11
    <3>3. ~(s.rowids[q].chunk = c /\ s.rowids[q].offset = o)
      BY <1>11
    <3>4. PICK x, y : s.rowids[q].chunk = x /\ s.rowids[q].offset = y
      OBVIOUS
    <3>5. x \in DOMAIN s.chunks /\ y \in s.chunks[x].validity /\ s.chunks[x].rowids[y] = q
      BY <3>1, <3>4, RowPlacedAt
    <3>6. x \in DOMAIN d.chunks /\ y \in d.chunks[x].validity /\ d.chunks[x].rowids[y] = q
      BY <1>5, <3>2, <3>3, <3>4, <3>5
    <3> QED
      BY <3>1, <3>4, <3>6, RowPlacedAt
  <2>2. ASSUME NEW x \in DOMAIN d.chunks, NEW y \in Offsets(t) PROVE SlotAgrees(d, x, y)
    <3>1. SlotAgrees(s, x, y)
      BY <1>1, <1>5 DEF Placed
    <3>2. CASE x = c /\ y = o
      BY <1>5, <3>2 DEF SlotAgrees
    <3>3. CASE ~(x = c /\ y = o)
      <4>1. /\ d.chunks[x].rowids[y] = s.chunks[x].rowids[y]
            /\ y \in d.chunks[x].validity <=> y \in s.chunks[x].validity
        BY <1>5, <3>3
      <4>2. d.chunks[x].rowids[y] = r => y \notin d.chunks[x].validity
        <5>1. s.rowids[r].chunk = c /\ s.rowids[r].offset = o
          OBVIOUS
        <5> QED
          BY <3>1, <3>3, <4>1, <5>1 DEF SlotAgrees
      <4> QED
        BY <1>2, <3>1, <4>1, <4>2 DEF SlotAgrees
    <3> QED
      BY <3>2, <3>3
  <2> QED
    BY <2>1, <2>2 DEF Placed
<1>13. t.aux => DOMAIN d.aux = DOMAIN d.rowids
  BY <1>1, <1>2 DEF Filled, ColumnsCleared, Without
<1>14. ASSUME t.index = "rescore"
       PROVE  DOMAIN d.full = DOMAIN d.rowids /\ \A q \in DOMAIN d.rowids : RescoreAgrees(d, q)
  <2>1. /\ CellSet(d.coarse, s.coarse, c, o, 0)
        /\ DOMAIN d.full = DOMAIN s.full \ {r}
        /\ \A q \in DOMAIN d.full : d.full[q] = s.full[q]
    BY <1>14 DEF ColumnsCleared, Without
  <2>2. DOMAIN s.full = DOMAIN s.rowids /\ \A q \in DOMAIN s.rowids : RescoreAgrees(s, q)
    BY <1>1, <1>14 DEF Filled
  <2>3. Column(s.coarse, s, t)
    BY <1>1, <1>14 DEF ColumnsShape
  <2>4. ASSUME NEW q \in DOMAIN d.rowids PROVE RescoreAgrees(d, q)
    <3>1. s.rowids[q].chunk \in DOMAIN s.chunks /\ s.rowids[q].offset \in Offsets(t)
      BY <1>11
    <3>2. ~(s.rowids[q].chunk = c /\ s.rowids[q].offset = o)
      BY <1>11
    <3>3. d.coarse[s.rowids[q].chunk][s.rowids[q].offset]
            = s.coarse[s.rowids[q].chunk][s.rowids[q].offset]
      BY <2>1, <2>3, <3>1, <3>2 DEF CellSet, Column
    <3>4. RescoreAgrees(s, q) /\ d.full[q] = s.full[q] /\ d.rowids[q] = s.rowids[q]
      BY <1>2, <2>1, <2>2
    <3> QED
      BY <3>3, <3>4 DEF RescoreAgrees
  <2> QED
    BY <1>2, <2>1, <2>2, <2>4
<1>15. ASSUME t.meta = "text"
       PROVE  DOMAIN d.text \subseteq DOMAIN d.rowids /\ \A q \in DOMAIN d.rowids : TextAgrees(d, q)
  <2>1. /\ CellSet(d.meta, s.meta, c, o, ZeroMeta(t))
        /\ d.text = IF s.meta[c][o].n > ViewLength THEN Without(s.text, r) ELSE s.text
    BY <1>15 DEF ColumnsCleared
  <2>2. DOMAIN s.text \subseteq DOMAIN s.rowids /\ \A q \in DOMAIN s.rowids : TextAgrees(s, q)
    BY <1>1, <1>15 DEF Filled
  <2>3. Column(s.meta, s, t)
    BY <1>1, <1>15 DEF ColumnsShape
  <2>4. s.meta[c][o].n > ViewLength <=> r \in DOMAIN s.text
    <3>1. TextAgrees(s, r) /\ Cell(s, r) = s.meta[c][o]
      BY <2>2 DEF Cell
    <3> QED
      BY <3>1 DEF TextAgrees
  <2>5. /\ DOMAIN d.text = DOMAIN s.text \ {r}
        /\ \A q \in DOMAIN d.text : d.text[q] = s.text[q]
    BY <2>1, <2>4 DEF Without
  <2>6. ASSUME NEW q \in DOMAIN d.rowids PROVE TextAgrees(d, q)
    <3>1. s.rowids[q].chunk \in DOMAIN s.chunks /\ s.rowids[q].offset \in Offsets(t)
      BY <1>11
    <3>2. ~(s.rowids[q].chunk = c /\ s.rowids[q].offset = o)
      BY <1>11
    <3>3. d.meta[s.rowids[q].chunk][s.rowids[q].offset]
            = s.meta[s.rowids[q].chunk][s.rowids[q].offset]
      BY <2>1, <2>3, <3>1, <3>2 DEF CellSet, Column
    <3>4. Cell(d, q) = Cell(s, q)
      BY <1>2, <3>3 DEF Cell
    <3>5. TextAgrees(s, q) /\ q # r
      BY <1>2, <2>2
    <3> QED
      BY <2>5, <3>4, <3>5 DEF TextAgrees
  <2> QED
    BY <1>2, <2>2, <2>5, <2>6
<1>16. Filled(d, t)
  BY <1>13, <1>14, <1>15 DEF Filled
<1> QED
  BY <1>6, <1>7, <1>8, <1>9, <1>10, <1>12, <1>16 DEF Vacated

\* A DELETE of a row that is there leaves tables that agree.
LEMMA DeleteRowKeeps ==
    ASSUME NEW s, NEW t, NEW id, IsDeclared(t), StoreOK(s, t),
           Chunked(t) => RowidFromId(s, t, id) \in DOMAIN s.rowids
    PROVE  StoreOK(DeleteRow(s, t, id), t)
<1> DEFINE r == RowidFromId(s, t, id)
<1>1. RowsShape(s) /\ KeysDiffer(s, t)
  BY DEF StoreOK
<1>2. CASE Chunked(t)
  <2> DEFINE c == s.rowids[r].chunk
             o == s.rowids[r].offset
             d == ClearRow(s, t, r, c, o)
  <2>1. DeleteRow(s, t, id) = DeleteChunkIfEmpty(d, t, c)
    BY <1>2 DEF DeleteRow, DeleteChunked, ClearRow
  <2> HIDE DEF r
  <2>2. /\ ColumnsShape(s, t) /\ DOMAIN s = Fields
        /\ c \in DOMAIN s.chunks
        /\ DOMAIN s.chunks[c] = {"part", "validity", "rowids"}
    BY <1>2 DEF StoreOK, RowsShape, ChunksShape, Placed, RowPlaced, r
  <2>3. RowCleared(d, s, t, r, c, o) /\ ColumnsCleared(d, s, t, r, c, o)
    BY <1>2, <2>2, RowIsCleared
  <2>4. r \in DOMAIN s.rowids
    BY <1>2 DEF r
  <2> HIDE DEF d
  <2>5. Vacated(d, t, c)
    BY <1>2, <2>3, <2>4, ClearedIsVacated
  <2> QED
    BY <2>1, <2>5, EmptyChunkGoes
<1>3. CASE ~Chunked(t)
  <2> DEFINE g == [s EXCEPT !.graph = Delete(s.graph, r, t.bufferThreshold)]
             m == DeleteAux(DeleteRowids(g, r), t, r)
  <2>1. DeleteRow(s, t, id) = m
    BY <1>3 DEF DeleteRow
  <2> HIDE DEF r
  <2>2. DOMAIN g = Fields /\ \A f \in Fields \ {"graph"} : g[f] = s[f]
    BY <1>1 DEF RowsShape, Fields
  <2> HIDE DEF g
  <2>3. /\ DOMAIN m = Fields
        /\ m.rowids = Without(g.rowids, r)
        /\ m.rowidSeq = g.rowidSeq /\ m.chunkSeq = g.chunkSeq
        /\ t.aux => m.aux = Without(g.aux, r)
    BY <2>2 DEF DeleteAux, DeleteRowids, Fields
  <2> HIDE DEF m
  <2>4. /\ m.rowids = Without(s.rowids, r)
        /\ m.rowidSeq = s.rowidSeq /\ m.chunkSeq = s.chunkSeq
        /\ t.aux => m.aux = Without(s.aux, r)
    BY <2>2, <2>3 DEF Fields
  <2>5. /\ DOMAIN m.rowids = DOMAIN s.rowids \ {r}
        /\ \A q \in DOMAIN m.rowids : m.rowids[q] = s.rowids[q]
    BY <2>4 DEF Without
  <2>6. RowsShape(m) /\ KeysDiffer(m, t)
    BY <1>1, <2>3, <2>4, <2>5 DEF RowsShape, KeysDiffer
  <2>7. Filled(m, t)
    <3>1. t.index = "diskann" /\ t.meta = "none"
      BY <1>3 DEF Chunked, IsDeclared
    <3>2. t.aux => DOMAIN s.aux = DOMAIN s.rowids
      BY DEF StoreOK, Filled
    <3>3. t.aux => DOMAIN m.aux = DOMAIN m.rowids
      BY <2>4, <2>5, <3>2 DEF Without
    <3> QED
      BY <3>1, <3>3 DEF Filled
  <2> QED
    BY <1>3, <2>1, <2>6, <2>7 DEF StoreOK
<1> QED
  BY <1>2, <1>3

\* So does INSERT OR REPLACE.
LEMMA ReplaceRowKeeps ==
    ASSUME NEW s, NEW t, NEW id, NEW row, IsDeclared(t), StoreOK(s, t),
           t.pk = "int" => id \in Int \cup {None}, ReplaceRow(s, t, id, row).ok
    PROVE  StoreOK(ReplaceRow(s, t, id, row).store, t)
<1>1. HasId(s, t, id) => RowidFromId(s, t, id) \in DOMAIN s.rowids
  BY DEF HasId, RowidFromId
<1>2. CASE id # None /\ HasId(s, t, id)
  <2>1. StoreOK(DeleteRow(s, t, id), t)
    BY <1>1, <1>2, DeleteRowKeeps
  <2>2. ReplaceRow(s, t, id, row) = InsertRow(DeleteRow(s, t, id), t, id, row)
    BY <1>2 DEF ReplaceRow
  <2> QED
    BY <2>1, <2>2, InsertRowKeeps
<1>3. CASE ~(id # None /\ HasId(s, t, id))
  <2>1. ReplaceRow(s, t, id, row) = InsertRow(s, t, id, row)
    BY <1>3 DEF ReplaceRow
  <2> QED
    BY <2>1, InsertRowKeeps
<1> QED
  BY <1>2, <1>3

\* A store with the rows where they were.
SamePlaces(m, s) ==
    /\ DOMAIN m = Fields
    /\ m.rowids = s.rowids /\ m.rowidSeq = s.rowidSeq
    /\ m.chunks = s.chunks /\ m.chunkSeq = s.chunkSeq

\* It is as good as before if its columns are.
LEMMA SamePlacesKeep ==
    ASSUME NEW s, NEW t, NEW m, IsDeclared(t), StoreOK(s, t), SamePlaces(m, s),
           Chunked(t) => ColumnsShape(m, t), Filled(m, t)
    PROVE  StoreOK(m, t)
<1>1. RowsShape(m) /\ KeysDiffer(m, t)
  BY DEF SamePlaces, StoreOK, RowsShape, KeysDiffer
<1>2. ASSUME Chunked(t) PROVE ChunksShape(m, t) /\ Placed(m, t) /\ NoneEmpty(m)
  <2>1. ChunksShape(s, t) /\ Placed(s, t) /\ NoneEmpty(s)
    BY <1>2 DEF StoreOK
  <2>2. m.rowids = s.rowids /\ m.chunks = s.chunks /\ m.chunkSeq = s.chunkSeq
    BY DEF SamePlaces
  <2>3. ChunksShape(m, t) /\ NoneEmpty(m)
    BY <2>1, <2>2 DEF ChunksShape, NoneEmpty
  <2>4. \A q : RowPlaced(m, q) <=> RowPlaced(s, q)
    BY <2>2 DEF RowPlaced
  <2>5. \A x, y : SlotAgrees(m, x, y) <=> SlotAgrees(s, x, y)
    BY <2>2 DEF SlotAgrees
  <2> QED
    BY <2>1, <2>2, <2>3, <2>4, <2>5 DEF Placed
<1> QED
  BY <1>1, <1>2 DEF StoreOK

\* The three parts of vec0Update_Update: auxiliary, metadata and vector columns.
LEMMA UpdateAuxKeeps ==
    ASSUME NEW s, NEW t, NEW r, NEW v, IsDeclared(t), StoreOK(s, t)
    PROVE  /\ StoreOK(UpdateAux(s, t, r, v), t)
           /\ UpdateAux(s, t, r, v).rowids = s.rowids
<1> DEFINE m == UpdateAux(s, t, r, v)
<1>1. DOMAIN s = Fields
  BY DEF StoreOK, RowsShape
<1>2. CASE m = s
  BY <1>2
<1>3. CASE m # s
  <2>1. r \in DOMAIN s.aux /\ m = [s EXCEPT !.aux = Put(@, r, v)]
    BY <1>3 DEF UpdateAux, WriteAux
  <2>2. /\ DOMAIN m = Fields
        /\ \A f \in Fields \ {"aux"} : m[f] = s[f]
        /\ DOMAIN m.aux = DOMAIN s.aux
    BY <1>1, <2>1 DEF Put, Fields
  <2> HIDE DEF m
  <2>3. /\ m.vectors = s.vectors /\ m.coarse = s.coarse /\ m.full = s.full
        /\ m.meta = s.meta /\ m.text = s.text /\ m.rowids = s.rowids /\ m.chunks = s.chunks
    BY <2>2 DEF Fields
  <2>4. SamePlaces(m, s)
    BY <2>2 DEF SamePlaces, Fields
  <2>5. Chunked(t) => ColumnsShape(m, t)
    BY <2>3 DEF StoreOK, ColumnsShape, Column
  <2>6. Filled(m, t)
    <3>1. Filled(s, t)
      BY DEF StoreOK
    <3> QED
      BY <2>2, <2>3, <3>1 DEF Filled, RescoreAgrees, TextAgrees, Cell
  <2>7. StoreOK(m, t)
    BY <2>4, <2>5, <2>6, SamePlacesKeep
  <2> QED
    BY <2>3, <2>7 DEF m
<1> QED
  BY <1>2, <1>3

\* The metadata of a row that is there.
UpdateMetadata(a, t, r, c, o, v) == WriteMetadata(a, t, r, c, o, v, TRUE)

LEMMA OldMetadataIs ==
    ASSUME NEW a, NEW t, NEW r, NEW c, NEW o, NEW v, IsDeclared(t), DOMAIN a = Fields,
           t.meta # "none" => c \in DOMAIN a.meta,
           t.meta = "text" => (r \in DOMAIN a.text <=> a.meta[c][o].n > ViewLength)
    PROVE  NewMetadata(UpdateMetadata(a, t, r, c, o, v), a, t, r, c, o, v)
<1>1. \A isUpdate \in BOOLEAN : isUpdate # FALSE =>
          NewMetadata(WriteMetadata(a, t, r, c, o, v, isUpdate), a, t, r, c, o, v)
  <2> TAKE isUpdate \in BOOLEAN
  <2> HAVE isUpdate # FALSE
  <2>1. t.meta = "text" => (r \in DOMAIN a.text <=> isUpdate /\ a.meta[c][o].n > ViewLength)
    OBVIOUS
  <2> QED
    BY <2>1, MetadataIsWritten DEF NewMetadata
<1> QED
  BY <1>1 DEF UpdateMetadata

LEMMA UpdateMetadataKeeps ==
    ASSUME NEW s, NEW t, NEW r, NEW v, IsDeclared(t), Chunked(t), StoreOK(s, t),
           r \in DOMAIN s.rowids, NEW c, NEW o,
           c = s.rowids[r].chunk, o = s.rowids[r].offset
    PROVE  /\ StoreOK(UpdateMetadata(s, t, r, c, o, v), t)
           /\ UpdateMetadata(s, t, r, c, o, v).rowids = s.rowids
<1> DEFINE m == UpdateMetadata(s, t, r, c, o, v)
<1>1. /\ RowsShape(s) /\ ChunksShape(s, t) /\ ColumnsShape(s, t)
      /\ Placed(s, t) /\ Filled(s, t) /\ DOMAIN s = Fields
  BY DEF StoreOK, RowsShape
<1>2. c \in DOMAIN s.chunks /\ o \in Offsets(t)
  BY <1>1 DEF Placed, RowPlaced, ChunksShape
<1>3. t.meta # "none" => c \in DOMAIN s.meta
  BY <1>1, <1>2 DEF ColumnsShape, Column
<1>4. t.meta = "text" => (r \in DOMAIN s.text <=> s.meta[c][o].n > ViewLength)
  <2>1. t.meta = "text" => TextAgrees(s, r) /\ Cell(s, r) = s.meta[c][o]
    BY <1>1 DEF Filled, Cell
  <2> QED
    BY <2>1 DEF TextAgrees
<1>5. NewMetadata(m, s, t, r, c, o, v)
  BY <1>1, <1>3, <1>4, OldMetadataIs
<1> HIDE DEF m
<1>6. /\ DOMAIN m = Fields
      /\ m.rowids = s.rowids /\ m.chunks = s.chunks /\ m.vectors = s.vectors
      /\ m.coarse = s.coarse /\ m.full = s.full /\ m.aux = s.aux
      /\ m.rowidSeq = s.rowidSeq /\ m.chunkSeq = s.chunkSeq
  BY <1>5 DEF NewMetadata, Fields
<1>7. t.meta # "none" => CellSet(m.meta, s.meta, c, o, Written(v, t))
  BY <1>5 DEF NewMetadata
<1>8. SamePlaces(m, s)
  BY <1>6 DEF SamePlaces
<1>9. ColumnsShape(m, t)
  BY <1>1, <1>6, <1>7 DEF ColumnsShape, Column, CellSet
<1>10. ASSUME t.meta = "text"
       PROVE  DOMAIN m.text \subseteq DOMAIN m.rowids /\ \A q \in DOMAIN m.rowids : TextAgrees(m, q)
  <2>1. /\ TextWritten(m, s, r, v)
        /\ CellSet(m.meta, s.meta, c, o, TextView(v))
    BY <1>5, <1>10 DEF NewMetadata, Written
  <2>2. DOMAIN s.text \subseteq DOMAIN s.rowids /\ \A q \in DOMAIN s.rowids : TextAgrees(s, q)
    BY <1>1, <1>10 DEF Filled
  <2>3. Column(s.meta, s, t)
    BY <1>1, <1>10 DEF ColumnsShape
  <2>4. DOMAIN m.text \subseteq DOMAIN m.rowids
    BY <1>6, <2>1, <2>2 DEF TextWritten
  <2>5. TextAgrees(m, r)
    <3>1. Cell(m, r) = TextView(v)
      BY <1>2, <1>6, <2>1, <2>3 DEF Cell, CellSet, Column
    <3>2. Cell(m, r).n = Len(v)
      BY <3>1 DEF TextView
    <3> QED
      BY <2>1, <2>2, <3>1, <3>2 DEF TextAgrees, TextWritten
  <2>6. ASSUME NEW q \in DOMAIN m.rowids, q # r
        PROVE  TextAgrees(m, q)
    <3>1. q \in DOMAIN s.rowids /\ TextAgrees(s, q) /\ RowPlaced(s, q) /\ RowPlaced(s, r)
      BY <1>1, <1>6, <2>2 DEF Placed
    <3>2. s.rowids[q].chunk \in DOMAIN s.chunks /\ s.rowids[q].offset \in Offsets(t)
      BY <1>1, <3>1 DEF RowPlaced, ChunksShape
    <3>3. ~(s.rowids[q].chunk = c /\ s.rowids[q].offset = o)
      BY <2>6, <3>1 DEF RowPlaced
    <3>4. m.meta[s.rowids[q].chunk][s.rowids[q].offset]
            = s.meta[s.rowids[q].chunk][s.rowids[q].offset]
      BY <2>1, <2>3, <3>2, <3>3 DEF CellSet, Column
    <3>5. Cell(m, q) = Cell(s, q)
      BY <1>6, <3>4 DEF Cell
    <3>6. /\ q \in DOMAIN m.text <=> q \in DOMAIN s.text
          /\ q \in DOMAIN s.text => m.text[q] = s.text[q]
      BY <2>1, <2>6 DEF TextWritten
    <3> QED
      BY <3>1, <3>5, <3>6 DEF TextAgrees
  <2> QED
    BY <1>6, <2>4, <2>5, <2>6
<1>11. Filled(m, t)
  BY <1>1, <1>6, <1>10 DEF Filled, RescoreAgrees
<1>12. StoreOK(m, t)
  BY <1>8, <1>9, <1>11, SamePlacesKeep
<1> QED
  BY <1>6, <1>12 DEF m

LEMMA UpdateVectorKeeps ==
    ASSUME NEW s, NEW t, NEW r, NEW v, IsDeclared(t), StoreOK(s, t),
           Chunked(t) => r \in DOMAIN s.rowids
    PROVE  StoreOK(UpdateVector(s, t, r, v), t)
<1> DEFINE c == s.rowids[r].chunk
           o == s.rowids[r].offset
           m == UpdateVector(s, t, r, v)
<1>1. CASE v = None \/ t.index = "diskann"
  BY <1>1 DEF UpdateVector
<1>2. ASSUME v # None, t.index # "diskann" PROVE StoreOK(m, t)
  <2>1. /\ RowsShape(s) /\ ChunksShape(s, t) /\ ColumnsShape(s, t)
        /\ Placed(s, t) /\ Filled(s, t) /\ DOMAIN s = Fields /\ Chunked(t)
    BY <1>2 DEF StoreOK, RowsShape, Chunked
  <2>2. r \in DOMAIN s.rowids /\ c \in DOMAIN s.chunks /\ o \in Offsets(t)
    BY <2>1 DEF Placed, RowPlaced, ChunksShape
  <2> HIDE DEF c, o
  <2>3. CASE t.index = "flat"
    <3>1. m = [s EXCEPT !.vectors[c][o] = v]
      BY <1>2, <2>3 DEF UpdateVector, WriteVector, c, o
    <3>2. c \in DOMAIN s.vectors
      BY <2>1, <2>2, <2>3 DEF ColumnsShape, Column
    <3>3. /\ DOMAIN m = Fields
          /\ \A f \in Fields \ {"vectors"} : m[f] = s[f]
          /\ m.vectors = [s.vectors EXCEPT ![c][o] = v]
      BY <2>1, <3>1 DEF Fields
    <3> HIDE DEF m
    <3>4. CellSet(m.vectors, s.vectors, c, o, v)
      BY <3>2, <3>3, CellIsSet
    <3>5. SamePlaces(m, s) /\ m.text = s.text /\ m.meta = s.meta /\ m.aux = s.aux
      BY <3>3 DEF SamePlaces, Fields
    <3>6. ColumnsShape(m, t)
      BY <2>1, <2>3, <3>4, <3>5 DEF ColumnsShape, Column, CellSet, SamePlaces
    <3>7. Filled(m, t)
      BY <2>1, <2>3, <3>5 DEF Filled, SamePlaces, TextAgrees, Cell
    <3> QED
      BY <3>5, <3>6, <3>7, SamePlacesKeep
  <2>4. CASE t.index = "rescore"
    <3>1. m = [s EXCEPT !.coarse[c][o] = RescoreQuantize(v), !.full = Put(@, r, v)]
      BY <1>2, <2>4 DEF UpdateVector, RescoreWrite, c, o
    <3>2. Column(s.coarse, s, t) /\ c \in DOMAIN s.coarse
      BY <2>1, <2>2, <2>4 DEF ColumnsShape, Column
    <3>3. /\ DOMAIN m = Fields
          /\ \A f \in Fields \ {"coarse", "full"} : m[f] = s[f]
          /\ m.coarse = [s.coarse EXCEPT ![c][o] = RescoreQuantize(v)]
          /\ m.full = Put(s.full, r, v)
      BY <2>1, <3>1 DEF Fields
    <3> HIDE DEF m
    <3>4. CellSet(m.coarse, s.coarse, c, o, RescoreQuantize(v))
      BY <3>2, <3>3, CellIsSet
    <3>5. SamePlaces(m, s) /\ m.aux = s.aux /\ m.rowids = s.rowids
      BY <3>3 DEF SamePlaces, Fields
    <3>6. t.meta = "none"
      BY <2>4 DEF IsDeclared
    <3>7. ColumnsShape(m, t)
      BY <2>1, <2>4, <3>2, <3>4, <3>5, <3>6 DEF ColumnsShape, Column, CellSet, SamePlaces
    <3>8. DOMAIN s.full = DOMAIN s.rowids /\ \A q \in DOMAIN s.rowids : RescoreAgrees(s, q)
      BY <2>1, <2>4 DEF Filled
    <3>9. /\ DOMAIN m.full = DOMAIN m.rowids
          /\ m.full[r] = v
          /\ \A q \in DOMAIN s.rowids : q # r => m.full[q] = s.full[q]
      BY <2>2, <3>3, <3>5, <3>8 DEF Put
    <3>10. RescoreAgrees(m, r)
      <4>1. m.coarse[c][o] = RescoreQuantize(v)
        BY <2>2, <3>2, <3>4 DEF CellSet, Column
      <4> QED
        BY <3>5, <3>9, <4>1 DEF RescoreAgrees, c, o
    <3>11. ASSUME NEW q \in DOMAIN m.rowids, q # r
           PROVE  RescoreAgrees(m, q)
      <4>1. q \in DOMAIN s.rowids /\ RowPlaced(s, q) /\ RowPlaced(s, r)
        BY <2>1, <2>2, <3>5 DEF Placed
      <4>2. s.rowids[q].chunk \in DOMAIN s.chunks /\ s.rowids[q].offset \in Offsets(t)
        BY <2>1, <4>1 DEF RowPlaced, ChunksShape
      <4>3. ~(s.rowids[q].chunk = c /\ s.rowids[q].offset = o)
        BY <3>11, <4>1 DEF RowPlaced, c, o
      <4>4. m.coarse[s.rowids[q].chunk][s.rowids[q].offset]
              = s.coarse[s.rowids[q].chunk][s.rowids[q].offset]
        BY <3>2, <3>4, <4>2, <4>3 DEF CellSet, Column
      <4> QED
        BY <3>5, <3>8, <3>9, <3>11, <4>1, <4>4 DEF RescoreAgrees
    <3>12. Filled(m, t)
      <4>1. t.aux => DOMAIN m.aux = DOMAIN m.rowids
        BY <2>1, <3>5 DEF Filled
      <4> QED
        BY <3>6, <3>9, <3>10, <3>11, <4>1 DEF Filled
    <3> QED
      BY <3>5, <3>7, <3>12, SamePlacesKeep
  <2> QED
    BY <1>2, <2>3, <2>4 DEF IsDeclared
<1> QED
  BY <1>1, <1>2

\* An UPDATE of a row that is there leaves tables that agree.
LEMMA UpdateRowKeeps ==
    ASSUME NEW s, NEW t, NEW id, NEW newId, NEW change, IsDeclared(t), StoreOK(s, t),
           Chunked(t) => RowidFromId(s, t, id) \in DOMAIN s.rowids
    PROVE  StoreOK(UpdateRow(s, t, id, newId, change).store, t)
<1> DEFINE r == RowidFromId(s, t, id)
           c == s.rowids[r].chunk
           o == s.rowids[r].offset
           s1 == UpdateAux(s, t, r, change.aux)
           w == UpdateMetadata(s1, t, r, c, o, change.meta)
           s2 == IF change.meta = None THEN s1 ELSE w
<1>1. UpdateRow(s, t, id, newId, change).store = UpdateVector(s2, t, r, change.vector)
  BY DEF UpdateRow, UpdateMetadata
<1> HIDE DEF r
<1>2. StoreOK(s1, t) /\ s1.rowids = s.rowids
  BY UpdateAuxKeeps
<1> HIDE DEF s1
<1>3. ASSUME Chunked(t) PROVE StoreOK(w, t) /\ w.rowids = s1.rowids
  <2>1. r \in DOMAIN s1.rowids /\ c = s1.rowids[r].chunk /\ o = s1.rowids[r].offset
    BY <1>2, <1>3 DEF r
  <2> HIDE DEF c, o
  <2>2. StoreOK(s1, t)
    BY <1>2
  <2>3. /\ StoreOK(UpdateMetadata(s1, t, r, c, o, change.meta), t)
        /\ UpdateMetadata(s1, t, r, c, o, change.meta).rowids = s1.rowids
    <3> HIDE DEF w, s2
    <3> QED
      BY <1>3, <2>1, <2>2, UpdateMetadataKeeps
  <2> QED
    BY <2>3
<1>4. ~Chunked(t) => w = s1
  BY DEF Chunked, IsDeclared, UpdateMetadata, WriteMetadata
<1> HIDE DEF w
<1>5. StoreOK(s2, t) /\ s2.rowids = s.rowids
  BY <1>2, <1>3, <1>4
<1> HIDE DEF s2
<1>6. StoreOK(UpdateVector(s2, t, r, change.vector), t)
  <2>1. Chunked(t) => r \in DOMAIN s2.rowids
    BY <1>5 DEF r
  <2> QED
    BY <1>5, <2>1, UpdateVectorKeeps
<1> QED
  BY <1>1, <1>6

-----------------------------------------------------------------------------
LEMMA SameKindIs ==
    ASSUME NEW t, NEW u, SameKind(t, u)
    PROVE  /\ t.pk = u.pk /\ t.part = u.part /\ t.meta = u.meta /\ t.aux = u.aux
           /\ t.chunkSize = u.chunkSize /\ t.index = u.index /\ t.slots = u.slots
           /\ t.bufferThreshold = u.bufferThreshold
  BY DEF SameKind, KindFields

\* Commands may change the rest of a table record.
LEMMA KindDecides ==
    ASSUME NEW t, NEW u, SameKind(t, u)
    PROVE  /\ IsDeclared(t) <=> IsDeclared(u)
           /\ \A s : StoreOK(s, t) <=> StoreOK(s, u)
           /\ CreatedTables(t) = CreatedTables(u)
<1>1. IsDeclared(t) <=> IsDeclared(u)
  BY SameKindIs DEF IsDeclared
<1>2. ASSUME NEW s PROVE StoreOK(s, t) <=> StoreOK(s, u)
  <2>1. Offsets(t) = Offsets(u) /\ (Chunked(t) <=> Chunked(u))
    BY SameKindIs DEF Offsets, Chunked
  <2>2. KeysDiffer(s, t) <=> KeysDiffer(s, u)
    BY SameKindIs DEF KeysDiffer
  <2>3. ChunksShape(s, t) <=> ChunksShape(s, u)
    BY <2>1 DEF ChunksShape
  <2>4. ColumnsShape(s, t) <=> ColumnsShape(s, u)
    BY <2>1, SameKindIs DEF ColumnsShape, Column
  <2>5. Placed(s, t) <=> Placed(s, u)
    BY <2>1 DEF Placed
  <2>6. Filled(s, t) <=> Filled(s, u)
    BY SameKindIs DEF Filled
  <2> QED
    BY <2>1, <2>2, <2>3, <2>4, <2>5, <2>6 DEF StoreOK
<1>3. CreatedTables(t) = CreatedTables(u)
  <2>1. t.meta = u.meta /\ t.aux = u.aux /\ t.index = u.index
    BY SameKindIs
  <2>2. TablesOfVectors(t) = TablesOfVectors(u)
    BY <2>1 DEF TablesOfVectors
  <2>3. TablesOfColumns(t) = TablesOfColumns(u)
    BY <2>1 DEF TablesOfColumns
  <2> QED
    BY <2>2, <2>3 DEF CreatedTables
<1> QED
  BY <1>1, <1>2, <1>3

\* vec0_init reads the arguments as a table of a known kind, each time alike.
LEMMA DeclaredIsKind ==
    ASSUME NEW args, Accepts(args)
    PROVE  /\ TableOf[args] = Declare(args).table
           /\ IsDeclared(TableOf[args])
           /\ SameKind(TableOf[args], TableOf[args])
           /\ TableOf[args].pk = "int" => KeysOf(TableOf[args]) \subseteq Int
           /\ None \notin KeysOf(TableOf[args])
           /\ \A row \in RowsOf(TableOf[args]) : Fits(row, TableOf[args])
<1>1. TableOf[args] = Declare(args).table
  BY DEF Accepts, TableOf
<1>2. PICK d : Declare(args) = Declared(d)
  BY DEF Declare
<1>3. Declare(args).table = TableRecord(d, d.vector)
  BY <1>2 DEF Accepts, Declared
<1>4. KindFields \subseteq DOMAIN TableOf[args]
  BY <1>1, <1>3 DEF TableRecord, KindFields
<1> QED
  BY <1>1, <1>4, Vec0Assumption DEF Accepts, SameKind

LEMMA EmptyStoreIsOK ==
    ASSUME NEW t, IsDeclared(t)
    PROVE  StoreOK(EmptyStore(t), t)
<1> DEFINE s == EmptyStore(t)
<1>1. /\ DOMAIN s = Fields
      /\ s.rowidSeq = 0 /\ s.chunkSeq = 0
      /\ s.rowids = <<>> /\ s.chunks = <<>> /\ s.vectors = <<>> /\ s.coarse = <<>>
      /\ s.full = <<>> /\ s.meta = <<>> /\ s.text = <<>> /\ s.aux = <<>>
  BY DEF EmptyStore, Fields
<1> HIDE DEF s
<1>2. /\ DOMAIN s.rowids = {} /\ DOMAIN s.chunks = {} /\ DOMAIN s.vectors = {}
      /\ DOMAIN s.coarse = {} /\ DOMAIN s.full = {} /\ DOMAIN s.meta = {}
      /\ DOMAIN s.text = {} /\ DOMAIN s.aux = {}
  BY <1>1
<1>3. RowsShape(s) /\ KeysDiffer(s, t)
  BY <1>1, <1>2 DEF RowsShape, KeysDiffer
<1>4. ChunksShape(s, t) /\ ColumnsShape(s, t) /\ Placed(s, t) /\ NoneEmpty(s)
  BY <1>2 DEF ChunksShape, ColumnsShape, Column, Placed, NoneEmpty
<1>5. Filled(s, t)
  BY <1>2 DEF Filled
<1>6. StoreOK(s, t)
  BY <1>3, <1>4, <1>5 DEF StoreOK
<1> QED
  BY <1>6 DEF s

LEMMA StoreIsThere ==
    ASSUME NEW s, NEW t, StoreOK(s, t)
    PROVE  s # Absent
<1>1. DOMAIN s = Fields /\ DOMAIN Absent = {"absent"}
  BY DEF StoreOK, RowsShape, Absent
<1> QED
  BY <1>1 DEF Fields

\* vec0Rename and vec0Destroy have the tables that vec0_init created.
LEMMA OneList ==
    ASSUME NEW t, IsDeclared(t)
    PROVE  RenamedTables(t) = CreatedTables(t) /\ DroppedTables(t) = CreatedTables(t)
<1>1. CASE t.index = "flat"
  BY <1>1 DEF RenamedTables, DroppedTables, CreatedTables, TablesOfVectors, TablesOfColumns
<1>2. CASE t.index = "rescore"
  BY <1>2 DEF RenamedTables, DroppedTables, CreatedTables, TablesOfVectors, TablesOfColumns,
              RescoreTables, DroppedRescoreTables
<1>3. CASE t.index = "diskann"
  BY <1>3 DEF RenamedTables, DroppedTables, CreatedTables, TablesOfVectors, TablesOfColumns
<1> QED
  BY <1>1, <1>2, <1>3 DEF IsDeclared

\* vec0Filter_point answers with a row that is in _rowids.
LEMMA FoundIsThere ==
    ASSUME NEW s, NEW t, NEW id, IsDeclared(t), Chunked(t), StoreOK(s, t),
           FilterPoint(s, t, id).rows # <<>>
    PROVE  RowidFromId(s, t, id) \in DOMAIN s.rowids
<1>1. t.index = "rescore" => DOMAIN s.full = DOMAIN s.rowids
  BY DEF StoreOK, Filled
<1>2. CASE t.index = "rescore"
  BY <1>1, <1>2 DEF FilterPoint
<1>3. CASE t.index = "flat"
  BY <1>3 DEF FilterPoint
<1> QED
  BY <1>2, <1>3 DEF IsDeclared, Chunked

-----------------------------------------------------------------------------
\* What a connection may rely on.
LEMMA SchemaIsThere ==
    ASSUME IInv, table # Absent
    PROVE  /\ schema # Absent
           /\ DOMAIN schema = {"name", "args"}
           /\ Accepts(schema.args)
           /\ schema.name \in NamesOf(TableOf[schema.args])
           /\ shadow = {schema.name} \X CreatedTables(TableOf[schema.args])
           /\ IsDeclared(table) /\ IsDeclared(TableOf[schema.args])
           /\ CreatedTables(table) = CreatedTables(TableOf[schema.args])
           /\ StoreOK(store, table)
           /\ table.pk = "int" => KeysOf(TableOf[schema.args]) \subseteq Int
<1>1. /\ schema # Absent
      /\ DOMAIN schema = {"name", "args"}
      /\ Accepts(schema.args)
      /\ schema.name \in NamesOf(TableOf[schema.args])
      /\ shadow = {schema.name} \X CreatedTables(TableOf[schema.args])
      /\ StoreOK(store, TableOf[schema.args])
      /\ SameKind(table, TableOf[schema.args])
  BY DEF IInv, AbsentInv, SchemaInv, TableInv
<1>2. /\ IsDeclared(TableOf[schema.args])
      /\ TableOf[schema.args].pk = "int" => KeysOf(TableOf[schema.args]) \subseteq Int
  BY <1>1, DeclaredIsKind
<1>3. table.pk = TableOf[schema.args].pk
  BY <1>1, SameKindIs
<1>4. /\ IsDeclared(table) <=> IsDeclared(TableOf[schema.args])
      /\ StoreOK(store, table) <=> StoreOK(store, TableOf[schema.args])
      /\ CreatedTables(table) = CreatedTables(TableOf[schema.args])
  BY <1>1, KindDecides
<1> QED
  BY <1>1, <1>2, <1>3, <1>4

\* A statement touches nothing but the contents.
LEMMA StatementKeeps ==
    ASSUME IInv, table # Absent, NEW result, Statement(result), StoreOK(result.store, table)
    PROVE  IInv'
<1>1. /\ schema # Absent
      /\ store' = result.store
      /\ schema' = schema /\ table' = table /\ shadow' = shadow
  BY DEF Statement, IInv, AbsentInv
<1>2. StoreOK(store', TableOf[schema.args])
  BY <1>1, KindDecides DEF IInv, TableInv
<1>3. SchemaInv'
  BY <1>1, <1>2 DEF IInv, SchemaInv
<1>4. AbsentInv' /\ TableInv'
  BY <1>1 DEF IInv, AbsentInv, TableInv
<1> QED
  BY <1>3, <1>4 DEF IInv

LEMMA CreateKeeps ==
    ASSUME IInv, NEW args \in Declarations, NEW n \in NamesOf(TableOf[args]), Create(n, args)
    PROVE  IInv'
<1>1. /\ shadow = {}
      /\ Accepts(args)
      /\ schema' = [name |-> n, args |-> args]
      /\ table' = TableOf[args]
      /\ shadow' = {n} \X CreatedTables(table')
      /\ store' = EmptyStore(table')
  BY DEF Create, IInv, AbsentInv, Accepts, TableOf
<1>2. IsDeclared(TableOf[args]) /\ SameKind(TableOf[args], TableOf[args])
  BY <1>1, DeclaredIsKind
<1>3. StoreOK(store', table')
  BY <1>1, <1>2, EmptyStoreIsOK
<1>4. DOMAIN schema' = {"name", "args"} /\ schema'.name = n /\ schema'.args = args
  BY <1>1
<1>5. schema' # Absent
  <2>1. DOMAIN Absent = {"absent"}
    BY DEF Absent
  <2> QED
    BY <1>4, <2>1
<1>6. SchemaInv'
  BY <1>1, <1>3, <1>4 DEF SchemaInv
<1>7. AbsentInv' /\ TableInv'
  BY <1>1, <1>2, <1>4, <1>5 DEF AbsentInv, TableInv
<1> QED
  BY <1>6, <1>7 DEF IInv

LEMMA ConnectKeeps ==
    ASSUME IInv, Connect
    PROVE  IInv'
<1>1. /\ schema # Absent
      /\ table' = Declare(schema.args).table
      /\ schema' = schema /\ shadow' = shadow /\ store' = store
  BY DEF Connect
<1>2. Accepts(schema.args)
  BY <1>1 DEF IInv, SchemaInv
<1>3. SameKind(table', TableOf[schema.args])
  BY <1>1, <1>2, DeclaredIsKind
<1> QED
  BY <1>1, <1>3 DEF IInv, AbsentInv, SchemaInv, TableInv

LEMMA DisconnectKeeps ==
    ASSUME IInv, Disconnect
    PROVE  IInv'
  BY DEF Disconnect, IInv, AbsentInv, SchemaInv, TableInv

LEMMA DestroyKeeps ==
    ASSUME IInv, Destroy
    PROVE  IInv'
<1>1. table # Absent
  BY DEF Destroy
<1>2. DroppedTables(table) = CreatedTables(TableOf[schema.args])
  BY <1>1, SchemaIsThere, OneList
<1>3. shadow' = {}
  BY <1>1, <1>2, SchemaIsThere DEF Destroy
<1>4. schema' = Absent /\ table' = Absent /\ store' = Absent
  BY DEF Destroy
<1> QED
  BY <1>3, <1>4 DEF IInv, AbsentInv, SchemaInv, TableInv

LEMMA RenameKeeps ==
    ASSUME IInv, table # Absent, NEW new \in NamesOf(TableOf[schema.args]), Rename(new)
    PROVE  IInv'
<1> DEFINE kinds == CreatedTables(TableOf[schema.args])
<1>1. /\ schema # Absent
      /\ DOMAIN schema = {"name", "args"}
      /\ shadow = {schema.name} \X kinds
      /\ RenamedTables(table) = kinds
  BY SchemaIsThere, OneList
<1>2. /\ shadow' = {IF x[1] = schema.name /\ x[2] \in kinds
                    THEN <<new, x[2]>> ELSE x : x \in shadow}
      /\ schema' = [schema EXCEPT !.name = new]
      /\ table' = table /\ store' = store
  BY <1>1 DEF Rename
<1> HIDE DEF kinds
<1>3. shadow' = {new} \X kinds
  <2>1. shadow' = {<<new, x[2]>> : x \in {schema.name} \X kinds}
    BY <1>1, <1>2
  <2>2. ASSUME NEW k \in kinds PROVE <<new, k>> \in shadow'
    <3>1. <<schema.name, k>> \in {schema.name} \X kinds /\ <<schema.name, k>>[2] = k
      OBVIOUS
    <3> QED
      BY <2>1, <3>1
  <2>3. ASSUME NEW y \in shadow' PROVE y \in {new} \X kinds
    BY <2>1
  <2>4. ASSUME NEW y \in {new} \X kinds PROVE y \in shadow'
    <3>1. y = <<new, y[2]>> /\ y[2] \in kinds
      OBVIOUS
    <3> QED
      BY <2>2, <3>1
  <2> QED
    BY <2>3, <2>4
<1>4. DOMAIN schema' = {"name", "args"} /\ schema'.name = new /\ schema'.args = schema.args
  BY <1>1, <1>2
<1>5. schema' # Absent
  <2>1. DOMAIN Absent = {"absent"}
    BY DEF Absent
  <2> QED
    BY <1>4, <2>1
<1>6. SchemaInv'
  BY <1>1, <1>2, <1>3, <1>4 DEF IInv, SchemaInv, kinds
<1>7. AbsentInv' /\ TableInv'
  BY <1>2, <1>4, <1>5 DEF IInv, AbsentInv, TableInv
<1> QED
  BY <1>6, <1>7 DEF IInv

LEMMA CommandKeeps ==
    ASSUME IInv, table # Absent, NEW field, NEW val, HandleCommand(field, val)
    PROVE  IInv'
<1>1. schema' = schema /\ shadow' = shadow /\ store' = store /\ schema # Absent
  BY SchemaIsThere DEF HandleCommand
<1>2. SameKind(table, TableOf[schema.args])
  BY DEF IInv, TableInv
<1>3. SameKind(table', TableOf[schema.args])
  <2>1. field \notin KindFields
    BY DEF HandleCommand, DiskannSettings, KindFields
  <2>2. table' = table \/ table' = [table EXCEPT ![field] = val]
    BY DEF HandleCommand, RescoreCommand, DiskannCommand
  <2>3. CASE table' = table
    BY <1>2, <2>3
  <2>4. CASE table' = [table EXCEPT ![field] = val]
    <3>1. DOMAIN table' = DOMAIN table
      BY <2>4
    <3>2. \A f \in KindFields : f \in DOMAIN table => table'[f] = table[f]
      BY <2>1, <2>4
    <3> QED
      BY <1>2, <3>1, <3>2 DEF SameKind
  <2> QED
    BY <2>2, <2>3, <2>4
<1> QED
  BY <1>1, <1>3 DEF IInv, AbsentInv, SchemaInv, TableInv

\* The statements, in a state with a connected table.
LEMMA InsertKeeps ==
    ASSUME IInv, table # Absent, NEW row, NEW id \in KeysOf(TableOf[schema.args]) \cup {None},
           InsertStatement(id, row)
    PROVE  IInv'
<1>1. InsertRow(store, table, id, row).ok
  BY DEF InsertStatement, Statement
<1>2. IsDeclared(table) /\ StoreOK(store, table) /\ (table.pk = "int" => id \in Int \cup {None})
  BY SchemaIsThere
<1>3. StoreOK(InsertRow(store, table, id, row).store, table)
  BY <1>1, <1>2, InsertRowKeeps
<1> QED
  BY <1>3, StatementKeeps DEF InsertStatement

LEMMA ReplaceKeeps ==
    ASSUME IInv, table # Absent, NEW row, NEW id \in KeysOf(TableOf[schema.args]),
           ReplaceStatement(id, row)
    PROVE  IInv'
<1>1. ReplaceRow(store, table, id, row).ok
  BY DEF ReplaceStatement, Statement
<1>2. IsDeclared(table) /\ StoreOK(store, table) /\ (table.pk = "int" => id \in Int \cup {None})
  BY SchemaIsThere
<1>3. StoreOK(ReplaceRow(store, table, id, row).store, table)
  BY <1>1, <1>2, ReplaceRowKeeps
<1> QED
  BY <1>3, StatementKeeps DEF ReplaceStatement

LEMMA UpdateKeeps ==
    ASSUME IInv, table # Absent, NEW id, NEW newId, NEW change,
           UpdateByKey(id, newId, change) \/ UpdateByScan(id, newId, change)
    PROVE  IInv'
<1>1. IsDeclared(table) /\ StoreOK(store, table)
  BY SchemaIsThere
<1>2. Chunked(table) => RowidFromId(store, table, id) \in DOMAIN store.rowids
  <2>1. CASE UpdateByKey(id, newId, change)
    BY <1>1, <2>1, FoundIsThere DEF UpdateByKey, Found
  <2>2. CASE UpdateByScan(id, newId, change)
    BY <2>2 DEF UpdateByScan, HasId, RowidFromId
  <2> QED
    BY <2>1, <2>2
<1>3. StoreOK(UpdateRow(store, table, id, newId, change).store, table)
  BY <1>1, <1>2, UpdateRowKeeps
<1>4. Statement(UpdateRow(store, table, id, newId, change))
  BY DEF UpdateByKey, UpdateByScan
<1> QED
  BY <1>3, <1>4, StatementKeeps

LEMMA DeleteKeeps ==
    ASSUME IInv, table # Absent, NEW id, DeleteStatement(id)
    PROVE  IInv'
<1> DEFINE result == [ok |-> TRUE, store |-> DeleteRow(store, table, id)]
<1>1. IsDeclared(table) /\ StoreOK(store, table)
  BY SchemaIsThere
<1>2. Chunked(table) => RowidFromId(store, table, id) \in DOMAIN store.rowids
  BY <1>1, FoundIsThere DEF DeleteStatement, Found
<1>3. StoreOK(DeleteRow(store, table, id), table)
  BY <1>1, <1>2, DeleteRowKeeps
<1>4. Statement(result) /\ result.store = DeleteRow(store, table, id)
  BY DEF DeleteStatement
<1> HIDE DEF result
<1> QED
  BY <1>3, <1>4, StatementKeeps

\* Every step keeps the invariant.
LEMMA NextKeeps == IInv /\ [Next]_vars => IInv'
<1> SUFFICES ASSUME IInv, [Next]_vars PROVE IInv'
  OBVIOUS
<1>1. ASSUME NEW args \in Declarations, NEW n \in NamesOf(TableOf[args]), Create(n, args)
      PROVE  IInv'
  BY <1>1, CreateKeeps
<1>2. CASE Connect
  BY <1>2, ConnectKeeps
<1>3. CASE Disconnect
  BY <1>3, DisconnectKeeps
<1>4. CASE Destroy
  BY <1>4, DestroyKeeps
<1>5. ASSUME NEW new \in ForTable(NamesOf), Rename(new) PROVE IInv'
  BY <1>5, RenameKeeps DEF ForTable
<1>6. ASSUME NEW command \in ForTable(CommandsOf), HandleCommand(command[1], command[2])
      PROVE  IInv'
  BY <1>6, CommandKeeps DEF ForTable
<1>7. ASSUME NEW row \in ForTable(RowsOf), NEW id \in ForTable(KeysOf) \cup {None},
             InsertStatement(id, row)
      PROVE  IInv'
  <2>1. table # Absent /\ id \in KeysOf(TableOf[schema.args]) \cup {None}
    BY <1>7 DEF ForTable
  <2> QED
    BY <1>7, <2>1, InsertKeeps
<1>8. ASSUME NEW row \in ForTable(RowsOf), NEW id \in ForTable(KeysOf), ReplaceStatement(id, row)
      PROVE  IInv'
  <2>1. table # Absent /\ id \in KeysOf(TableOf[schema.args])
    BY <1>8 DEF ForTable
  <2> QED
    BY <1>8, <2>1, ReplaceKeeps
<1>9. ASSUME NEW id \in ForTable(KeysOf), NEW newId \in ForTable(KeysOf),
             NEW change \in ForTable(ChangesOf),
             UpdateByKey(id, newId, change) \/ UpdateByScan(id, newId, change)
      PROVE  IInv'
  <2>1. table # Absent
    BY <1>9 DEF ForTable
  <2> QED
    BY <1>9, <2>1, UpdateKeeps
<1>10. ASSUME NEW id \in ForTable(KeysOf), DeleteStatement(id) PROVE IInv'
  <2>1. table # Absent
    BY <1>10 DEF ForTable
  <2> QED
    BY <1>10, <2>1, DeleteKeeps
<1>11. CASE UNCHANGED vars
  BY <1>11 DEF vars, IInv, AbsentInv, SchemaInv, TableInv
<1> QED
  BY <1>1, <1>2, <1>3, <1>4, <1>5, <1>6, <1>7, <1>8, <1>9, <1>10, <1>11 DEF Next

\* The shadow tables are those of the table under its name, and their contents
\* describe one another, after any sequence of statements.
THEOREM Vec0Invariant == Spec => []IInv
<1>1. Init => IInv
  BY DEF Init, IInv, AbsentInv, SchemaInv, TableInv
<1> QED
  BY <1>1, NextKeeps, PTL DEF Spec

\* vec0_init, vec0Rename and vec0Destroy work on the same shadow tables, under
\* the name the table has.
THEOREM Vec0ShadowTablesFollow == Spec => []ShadowTablesFollow
<1>1. IInv => ShadowTablesFollow
  BY DEF IInv, AbsentInv, SchemaInv, ShadowTablesFollow
<1> QED
  BY <1>1, Vec0Invariant, PTL

\* INSERT, REPLACE, UPDATE and DELETE leave no shadow table behind: every row has
\* a slot of its own, every valid slot its row, every column holds something for
\* every live row and nothing for a deleted one, and no chunk is empty.
THEOREM Vec0ShadowTablesAgree == Spec => []ShadowTablesAgree
<1>1. IInv => ShadowTablesAgree
  <2> SUFFICES ASSUME IInv PROVE ShadowTablesAgree
    OBVIOUS
  <2>1. TypeOK
    <3>1. CASE schema = Absent
      BY <3>1 DEF IInv, AbsentInv, TypeOK
    <3>2. CASE schema # Absent
      <4> DEFINE t == TableOf[schema.args]
      <4>1. /\ schema.args \in Declarations
            /\ schema.name \in NamesOf(t)
            /\ shadow = {schema.name} \X CreatedTables(t)
            /\ StoreOK(store, t)
        BY <3>2 DEF IInv, SchemaInv, Accepts
      <4>2. t \in AllTables
        BY <4>1 DEF AllTables
      <4>3. IsDeclared(t)
        BY <3>2, DeclaredIsKind DEF IInv, SchemaInv
      <4> HIDE DEF t
      <4>4. store # Absent /\ store.rowidSeq \in Nat /\ store.chunkSeq \in Nat
        BY <4>1, StoreIsThere DEF StoreOK, RowsShape
      <4>5. schema.name \in UNION {NamesOf(u) : u \in AllTables}
        BY <4>1, <4>2
      <4>6. CreatedTables(t) \subseteq
              {"info", "chunks", "rowids", "vector_chunks", "rescore_chunks",
               "rescore_vectors", "vectors", "diskann_nodes",
               "diskann_buffer", "metadatachunks", "metadatatext", "auxiliary"}
        BY <4>3 DEF IsDeclared, CreatedTables, TablesOfVectors, TablesOfColumns, RescoreTables
      <4> QED
        BY <3>2, <4>1, <4>4, <4>5, <4>6 DEF TypeOK
    <3> QED
      BY <3>1, <3>2
  <2>2. ASSUME table # Absent
        PROVE  StoreOK(store, table) /\ IsDeclared(table)
    BY <2>2, SchemaIsThere
  <2>3. ChunksAgree
    <3> SUFFICES ASSUME Kept, Chunked(table) PROVE ChunksAgree
      BY DEF ChunksAgree
    <3>1. Placed(store, table) /\ NoneEmpty(store)
      BY <2>2 DEF Kept, StoreOK
    <3> QED
      BY <3>1 DEF ChunksAgree, Placed, RowPlaced, SlotAgrees, NoneEmpty, Live
  <2>4. ColumnsAgree
    <3> SUFFICES ASSUME Kept PROVE ColumnsAgree
      BY DEF ColumnsAgree
    <3>1. /\ Filled(store, table) /\ IsDeclared(table)
          /\ Chunked(table) => ColumnsShape(store, table)
      BY <2>2 DEF Kept, StoreOK
    <3>2. Chunked(table) => /\ table.index = "flat" => DOMAIN store.vectors = DOMAIN store.chunks
                            /\ table.index = "rescore" => DOMAIN store.coarse = DOMAIN store.chunks
                            /\ table.meta # "none" => DOMAIN store.meta = DOMAIN store.chunks
      BY <3>1 DEF ColumnsShape, Column
    <3>3. ~Chunked(table) => table.index = "diskann" /\ table.meta = "none"
      BY <3>1 DEF Chunked, IsDeclared
    <3>4. table.index = "rescore" =>
            /\ DOMAIN store.full = Live
            /\ \A r \in Live : store.coarse[store.rowids[r].chunk][store.rowids[r].offset]
                                  = RescoreQuantize(store.full[r])
      BY <3>1 DEF Filled, RescoreAgrees, Live
    <3>5. ASSUME table.meta = "text"
          PROVE  /\ DOMAIN store.text = {r \in Live : Cell(store, r).n > ViewLength}
                 /\ \A r \in DOMAIN store.text : TextView(store.text[r]) = Cell(store, r)
      BY <3>1, <3>5 DEF Filled, TextAgrees, Live
    <3>6. table.aux => DOMAIN store.aux = Live
      BY <3>1 DEF Filled, Live
    <3> QED
      BY <3>2, <3>3, <3>4, <3>5, <3>6 DEF ColumnsAgree, Cell
  <2> QED
    BY <2>1, <2>3, <2>4 DEF ShadowTablesAgree
<1> QED
  BY <1>1, Vec0Invariant, PTL

-----------------------------------------------------------------------------
\* What a full scan reads of the row with rowid r.
Reads(s, t, r) == [vector |-> GetVector(s, t, r), part |-> GetPartition(s, t, r),
                   meta |-> GetMetadata(s, t, r), aux |-> GetAux(s, t, r)]

\* A key leads to the row that has it, so a scan reads every row once.
LEMMA KeyOfRow ==
    ASSUME NEW s, NEW t, KeysDiffer(s, t), NEW r \in DOMAIN s.rowids
    PROVE  RowidFromId(s, t, IdOfRowid(s, t, r)) = r
<1>1. CASE t.pk = "text"
  BY <1>1 DEF KeysDiffer, RowidFromId, IdOfRowid
<1>2. CASE t.pk # "text"
  BY <1>2 DEF RowidFromId, IdOfRowid
<1> QED
  BY <1>1, <1>2

Scanned(rows, s, t) ==
    /\ DOMAIN rows = {IdOfRowid(s, t, r) : r \in DOMAIN s.rowids}
    /\ rows = [x \in DOMAIN rows |-> rows[x]]
    /\ \A r \in DOMAIN s.rowids : rows[IdOfRowid(s, t, r)] = Reads(s, t, r)
    /\ \A r, q \in DOMAIN s.rowids : IdOfRowid(s, t, r) = IdOfRowid(s, t, q) => r = q

LEMMA RowsAre ==
    ASSUME NEW s, NEW t, KeysDiffer(s, t)
    PROVE  Scanned(Rows(s, t), s, t)
<1> DEFINE ids == {IdOfRowid(s, t, r) : r \in DOMAIN s.rowids}
<1>1. Rows(s, t) = [id \in ids |-> Reads(s, t, RowidFromId(s, t, id))]
  BY DEF Rows, Reads
<1>2. \A r \in DOMAIN s.rowids : RowidFromId(s, t, IdOfRowid(s, t, r)) = r
  BY KeyOfRow
<1>3. \A r \in DOMAIN s.rowids : Rows(s, t)[IdOfRowid(s, t, r)] = Reads(s, t, r)
  BY <1>1, <1>2
<1>4. DOMAIN Rows(s, t) = ids
  BY <1>1
<1>5. Rows(s, t) = [x \in DOMAIN Rows(s, t) |-> Rows(s, t)[x]]
  BY <1>1, <1>4
<1>6. \A r, q \in DOMAIN s.rowids : IdOfRowid(s, t, r) = IdOfRowid(s, t, q) => r = q
  BY <1>2
<1> QED
  BY <1>3, <1>4, <1>5, <1>6 DEF Scanned

\* Row q is read from m as it is from s.
SameRow(m, s, t, q) ==
    IdOfRowid(m, t, q) = IdOfRowid(s, t, q) /\ Reads(m, t, q) = Reads(s, t, q)

\* One row more, the others as they were: an insertion to SQL; one row less, a
\* deletion; the same rows, a rewriting.
LEMMA RowAdded ==
    ASSUME NEW s, NEW m, NEW t, NEW r, KeysDiffer(s, t), KeysDiffer(m, t),
           r \notin DOMAIN s.rowids, DOMAIN m.rowids = DOMAIN s.rowids \cup {r},
           \A q \in DOMAIN s.rowids : SameRow(m, s, t, q)
    PROVE  /\ IdOfRowid(m, t, r) \in DOMAIN Rows(m, t)
           /\ Abstract!Inserts(Rows(s, t), Rows(m, t), IdOfRowid(m, t, r))
<1> DEFINE was == Rows(s, t)
           is == Rows(m, t)
           key == IdOfRowid(m, t, r)
<1>1. Scanned(was, s, t)
  BY RowsAre
<1>2. Scanned(is, m, t)
  BY RowsAre
<1> HIDE DEF was, is, key
<1>3. key \notin DOMAIN was
  <2>1. ASSUME NEW q \in DOMAIN s.rowids PROVE IdOfRowid(s, t, q) # IdOfRowid(m, t, r)
    <3>1. IdOfRowid(m, t, q) = IdOfRowid(s, t, q)
      BY DEF SameRow
    <3> QED
      BY <1>2, <3>1 DEF Scanned
  <2> QED
    BY <1>1, <2>1 DEF key, Scanned
<1>4. DOMAIN is = DOMAIN was \cup {key}
  BY <1>1, <1>2 DEF key, SameRow, Scanned
<1>5. \A x \in DOMAIN was : is[x] = was[x]
  BY <1>1, <1>2 DEF SameRow, Scanned
<1>6. is = Abstract!Written(was, key, is[key])
  <2>1. is = [x \in DOMAIN was \cup {key} |-> IF x = key THEN is[key] ELSE was[x]]
    BY <1>2, <1>3, <1>4, <1>5 DEF Scanned
  <2> QED
    BY <2>1 DEF Abstract!Written
<1> QED
  BY <1>3, <1>4, <1>6 DEF Abstract!Inserts, was, is, key

LEMMA RowGone ==
    ASSUME NEW s, NEW m, NEW t, NEW r, KeysDiffer(s, t), KeysDiffer(m, t),
           r \in DOMAIN s.rowids, DOMAIN m.rowids = DOMAIN s.rowids \ {r},
           \A q \in DOMAIN m.rowids : SameRow(m, s, t, q)
    PROVE  /\ IdOfRowid(s, t, r) \in DOMAIN Rows(s, t)
           /\ Abstract!Deletes(Rows(s, t), Rows(m, t), IdOfRowid(s, t, r))
<1> DEFINE was == Rows(s, t)
           is == Rows(m, t)
           key == IdOfRowid(s, t, r)
<1>1. Scanned(was, s, t)
  BY RowsAre
<1>2. Scanned(is, m, t)
  BY RowsAre
<1> HIDE DEF was, is, key
<1>3. key \in DOMAIN was
  BY <1>1 DEF key, Scanned
<1>4. DOMAIN is = DOMAIN was \ {key}
  BY <1>1, <1>2 DEF key, SameRow, Scanned
<1>5. \A x \in DOMAIN is : is[x] = was[x]
  BY <1>1, <1>2 DEF SameRow, Scanned
<1>6. is = Abstract!Removed(was, key)
  <2>1. is = [x \in DOMAIN was \ {key} |-> was[x]]
    BY <1>2, <1>4, <1>5 DEF Scanned
  <2> QED
    BY <2>1 DEF Abstract!Removed
<1> QED
  BY <1>3, <1>6 DEF Abstract!Deletes, was, is, key

LEMMA RowRewritten ==
    ASSUME NEW s, NEW m, NEW t, NEW r, KeysDiffer(s, t), KeysDiffer(m, t),
           r \in DOMAIN s.rowids, DOMAIN m.rowids = DOMAIN s.rowids,
           IdOfRowid(m, t, r) = IdOfRowid(s, t, r),
           \A q \in DOMAIN s.rowids : q # r => SameRow(m, s, t, q)
    PROVE  /\ IdOfRowid(s, t, r) \in DOMAIN Rows(m, t)
           /\ Abstract!Rewrites(Rows(s, t), Rows(m, t), IdOfRowid(s, t, r))
<1> DEFINE was == Rows(s, t)
           is == Rows(m, t)
           key == IdOfRowid(s, t, r)
<1>1. Scanned(was, s, t)
  BY RowsAre
<1>2. Scanned(is, m, t)
  BY RowsAre
<1> HIDE DEF was, is, key
<1>3. key \in DOMAIN was /\ DOMAIN is = DOMAIN was
  BY <1>1, <1>2 DEF key, SameRow, Scanned
<1>4. \A x \in DOMAIN is : x # key => is[x] = was[x]
  BY <1>1, <1>2 DEF SameRow, Scanned, key
<1>5. is = Abstract!Written(was, key, is[key])
  <2>1. is = [x \in DOMAIN was \cup {key} |-> IF x = key THEN is[key] ELSE was[x]]
    BY <1>2, <1>3, <1>4 DEF Scanned
  <2> QED
    BY <2>1 DEF Abstract!Written
<1> QED
  BY <1>3, <1>5 DEF Abstract!Rewrites, was, is, key

-----------------------------------------------------------------------------
\* Where the tables of the columns hold the same for row q as before, it reads
\* the same.
SameColumns(m, s, t, q) ==
    LET c == s.rowids[q].chunk
        o == s.rowids[q].offset
    IN  /\ m.rowids[q] = s.rowids[q]
        /\ t.index = "flat" => m.vectors[c][o] = s.vectors[c][o]
        /\ t.index = "rescore" => m.full[q] = s.full[q]
        /\ t.index = "diskann" => m.graph.vectors[q] = s.graph.vectors[q]
        /\ t.part => m.chunks[c].part = s.chunks[c].part
        /\ t.meta # "none" => m.meta[c][o] = s.meta[c][o]
        /\ t.meta = "text" /\ Cell(s, q).n > ViewLength => m.text[q] = s.text[q]
        /\ t.aux => m.aux[q] = s.aux[q]

LEMMA SameColumnsRead ==
    ASSUME NEW m, NEW s, NEW t, NEW q, IsDeclared(t), SameColumns(m, s, t, q)
    PROVE  SameRow(m, s, t, q)
<1> DEFINE c == s.rowids[q].chunk
           o == s.rowids[q].offset
<1>1. /\ m.rowids[q] = s.rowids[q]
      /\ t.index = "flat" => m.vectors[c][o] = s.vectors[c][o]
      /\ t.index = "rescore" => m.full[q] = s.full[q]
      /\ t.index = "diskann" => m.graph.vectors[q] = s.graph.vectors[q]
      /\ t.part => m.chunks[c].part = s.chunks[c].part
      /\ t.meta # "none" => m.meta[c][o] = s.meta[c][o]
      /\ t.meta = "text" /\ Cell(s, q).n > ViewLength => m.text[q] = s.text[q]
      /\ t.aux => m.aux[q] = s.aux[q]
  BY DEF SameColumns
<1>2. IdOfRowid(m, t, q) = IdOfRowid(s, t, q)
  BY <1>1 DEF IdOfRowid
<1>3. GetVector(m, t, q) = GetVector(s, t, q)
  BY <1>1 DEF GetVector, IsDeclared
<1>4. GetPartition(m, t, q) = GetPartition(s, t, q)
  BY <1>1 DEF GetPartition
<1>5. GetAux(m, t, q) = GetAux(s, t, q)
  BY <1>1 DEF GetAux
<1>6. GetMetadata(m, t, q) = GetMetadata(s, t, q)
  <2>1. CASE t.meta = "none"
    BY <2>1 DEF GetMetadata
  <2>2. CASE t.meta # "none"
    <3>1. Cell(m, q) = Cell(s, q)
      BY <1>1, <2>2 DEF Cell
    <3>2. \A x : GetMetadata(x, t, q) =
                    IF t.meta = "text" /\ Cell(x, q).n > ViewLength THEN x.text[q]
                    ELSE IF t.meta = "text" THEN Cell(x, q).data ELSE Cell(x, q)
      BY <2>2 DEF GetMetadata, Cell
    <3> QED
      BY <1>1, <3>1, <3>2
  <2> QED
    BY <2>1, <2>2
<1> QED
  BY <1>2, <1>3, <1>4, <1>5, <1>6 DEF SameRow, Reads

LEMMA CellKept ==
    ASSUME NEW g, NEW f, NEW c, NEW o, NEW v, CellSet(g, f, c, o, v),
           NEW x \in DOMAIN f, NEW y \in DOMAIN f[x], x # c \/ y # o
    PROVE  g[x][y] = f[x][y]
  BY DEF CellSet

\* Row q is placed, with its cells.
LEMMA PlaceOf ==
    ASSUME NEW s, NEW t, NEW q, ChunksShape(s, t), ColumnsShape(s, t), RowPlaced(s, q),
           NEW x, NEW y, x = s.rowids[q].chunk, y = s.rowids[q].offset
    PROVE  /\ x \in DOMAIN s.chunks /\ y \in s.chunks[x].validity /\ y \in Offsets(t)
           /\ s.chunks[x].rowids[y] = q
           /\ t.index = "flat" => x \in DOMAIN s.vectors /\ y \in DOMAIN s.vectors[x]
           /\ t.meta # "none" => x \in DOMAIN s.meta /\ y \in DOMAIN s.meta[x]
<1>1. /\ x \in DOMAIN s.chunks /\ y \in s.chunks[x].validity /\ s.chunks[x].rowids[y] = q
  BY DEF RowPlaced
<1>2. y \in Offsets(t)
  BY <1>1 DEF ChunksShape
<1> QED
  BY <1>1, <1>2 DEF ColumnsShape, Column

\* INSERT: the rowid, a chunk perhaps, and the row's slot and columns.
LEMMA InsertedKeepsOthers ==
    ASSUME NEW s, NEW t, NEW id, NEW r \in Int, NEW row, IsDeclared(t), Chunked(t),
           StoreOK(s, t), r \notin DOMAIN s.rowids, t.pk = "text" => ~HasId(s, t, id),
           NEW m, NEW b, NEW c, NEW o, RowInserted(m, s, t, id, r, row, b, c, o)
    PROVE  /\ DOMAIN m.rowids = DOMAIN s.rowids \cup {r}
           /\ IdOfRowid(m, t, r) = IF t.pk = "text" THEN id ELSE r
           /\ \A q \in DOMAIN s.rowids : SameRow(m, s, t, q)
<1> DEFINE s1 == InsertRowid(s, t, id, r)
<1>1. /\ \A f \in Fields \ {"rowids", "rowidSeq"} : s1[f] = s[f]
      /\ DOMAIN s1.rowids = DOMAIN s.rowids \cup {r}
      /\ \A q \in DOMAIN s.rowids : s1.rowids[q] = s.rowids[q]
  BY InsertedRowIs
<1>2. t.pk = "text" => s1.rowids[r].id = id
  <2>1. "rowids" \in DOMAIN s
    BY DEF StoreOK, RowsShape, Fields
  <2> QED
    BY <2>1 DEF InsertRowid, Put
<1>3. /\ SameRows(b, s1) /\ (b = s1 \/ Grown(b, s1, t, c))
      /\ Ready(b, t, r, c, o)
      /\ RowWritten(m, b, t, r, c, o, row)
      /\ ColumnsWritten(m, b, t, r, c, o, row)
      /\ t.meta # "none" => CellSet(m.meta, b.meta, c, o, Written(row.meta, t))
      /\ t.meta = "text" => TextWritten(m, b, r, row.meta)
  BY DEF RowInserted
<1> HIDE DEF s1
<1>4. /\ s1.chunks = s.chunks /\ s1.vectors = s.vectors /\ s1.meta = s.meta
      /\ s1.full = s.full /\ s1.text = s.text /\ s1.aux = s.aux
  BY <1>1 DEF Fields
<1>5. b.rowids = s1.rowids /\ b.full = s.full /\ b.text = s.text /\ b.aux = s.aux
  BY <1>3, <1>4 DEF SameRows
<1>6. DOMAIN m.rowids = DOMAIN s.rowids \cup {r}
  BY <1>1, <1>3, <1>5 DEF RowWritten
<1>7. IdOfRowid(m, t, r) = IF t.pk = "text" THEN id ELSE r
  BY <1>2, <1>3, <1>5 DEF RowWritten, IdOfRowid
<1>8. ASSUME NEW q \in DOMAIN s.rowids
      PROVE  SameRow(m, s, t, q)
  <2>1. PICK x, y : x = s.rowids[q].chunk /\ y = s.rowids[q].offset
    OBVIOUS
  <2>2. /\ ChunksShape(s, t) /\ ColumnsShape(s, t) /\ RowPlaced(s, q) /\ Filled(s, t)
        /\ q # r
    BY DEF StoreOK, Placed
  <2>3. /\ x \in DOMAIN s.chunks /\ y \in s.chunks[x].validity
        /\ t.index = "flat" => x \in DOMAIN s.vectors /\ y \in DOMAIN s.vectors[x]
        /\ t.meta # "none" => x \in DOMAIN s.meta /\ y \in DOMAIN s.meta[x]
    BY <2>1, <2>2, PlaceOf
  <2>4. /\ x \in DOMAIN b.chunks /\ b.chunks[x] = s.chunks[x]
        /\ t.index = "flat" => x \in DOMAIN b.vectors /\ b.vectors[x] = s.vectors[x]
        /\ t.meta # "none" => x \in DOMAIN b.meta /\ b.meta[x] = s.meta[x]
    <3>1. CASE b = s1
      BY <1>4, <2>3, <3>1
    <3>2. CASE Grown(b, s1, t, c)
      BY <1>4, <2>3, <3>2 DEF Grown, Put
    <3> QED
      BY <1>3, <3>1, <3>2
  <2>5. x # c \/ y # o
    BY <1>3, <2>3, <2>4 DEF Ready
  <2>6. m.rowids[q] = s.rowids[q]
    BY <1>1, <1>3, <1>5, <2>2 DEF RowWritten
  <2>7. t.index = "flat" => m.vectors[x][y] = s.vectors[x][y]
    <3>1. t.index = "flat" => CellSet(m.vectors, b.vectors, c, o, row.vector)
      BY <1>3 DEF ColumnsWritten
    <3> QED
      BY <2>3, <2>4, <2>5, <3>1, CellKept
  <2>8. t.meta # "none" => m.meta[x][y] = s.meta[x][y]
    BY <1>3, <2>3, <2>4, <2>5, CellKept
  <2>9. t.part => m.chunks[x].part = s.chunks[x].part
    BY <1>3, <2>4 DEF RowWritten
  <2>10. t.index = "rescore" => m.full[q] = s.full[q]
    BY <1>3, <1>5, <2>2 DEF ColumnsWritten, Put, Filled
  <2>11. t.aux => m.aux[q] = s.aux[q]
    BY <1>3, <1>5, <2>2 DEF ColumnsWritten, Put, Filled
  <2>12. t.meta = "text" /\ Cell(s, q).n > ViewLength => m.text[q] = s.text[q]
    BY <1>3, <1>5, <2>2 DEF TextWritten, Filled, TextAgrees
  <2>13. t.index # "diskann"
    BY DEF Chunked
  <2>14. SameColumns(m, s, t, q)
    BY <2>1, <2>6, <2>7, <2>8, <2>9, <2>10, <2>11, <2>12, <2>13 DEF SameColumns
  <2> QED
    BY <2>14, SameColumnsRead
<1> QED
  BY <1>6, <1>7, <1>8

\* A text is read back whole, from its view or from the text table.
LEMMA TextReads ==
    ASSUME NEW m, NEW t, NEW r, NEW v \in Seq(Nat), t.meta = "text", Cell(m, r) = TextView(v),
           Len(v) > ViewLength => m.text[r] = v
    PROVE  GetMetadata(m, t, r) = v
<1>1. TextView(v).n = Len(v) /\ Len(v) \in Nat /\ ViewLength \in Nat
  BY Vec0StoreAssumption DEF TextView
<1>2. CASE Len(v) > ViewLength
  BY <1>1, <1>2 DEF GetMetadata, Cell
<1>3. CASE ~(Len(v) > ViewLength)
  <2>1. TextView(v).data = SubSeq(v, 1, Len(v))
    BY <1>1, <1>3 DEF TextView
  <2>2. SubSeq(v, 1, Len(v)) = v
    OBVIOUS
  <2> QED
    BY <1>1, <1>3, <2>1, <2>2 DEF GetMetadata, Cell
<1> QED
  BY <1>2, <1>3

\* What one column after the other of row r reads as.
ReadsAs(m, t, r, row) ==
    /\ GetVector(m, t, r) = row.vector
    /\ GetPartition(m, t, r) = row.part
    /\ GetMetadata(m, t, r) = row.meta
    /\ GetAux(m, t, r) = row.aux
LEMMA FittingRowIs ==
    ASSUME NEW m, NEW t, NEW r, NEW row, Fits(row, t), ReadsAs(m, t, r, row)
    PROVE  Reads(m, t, r) = row
<1>1. row = [vector |-> row.vector, part |-> row.part, meta |-> row.meta, aux |-> row.aux]
  BY DEF Fits
<1> QED
  BY <1>1 DEF ReadsAs, Reads

\* The cell of the slot a row was written into holds its value.
LEMMA CellRead ==
    ASSUME NEW g, NEW f, NEW c, NEW o, NEW v, CellSet(g, f, c, o, v),
           c \in DOMAIN f, o \in DOMAIN f[c]
    PROVE  g[c][o] = v
  BY DEF CellSet

\* The row inserted reads as it was given.
LEMMA InsertedRowReads ==
    ASSUME NEW s, NEW t, NEW id, NEW r, NEW row, IsDeclared(t), Chunked(t), Fits(row, t),
           NEW m, NEW b, NEW c, NEW o, RowInserted(m, s, t, id, r, row, b, c, o)
    PROVE  Reads(m, t, r) = row
<1>1. /\ Ready(b, t, r, c, o)
      /\ RowWritten(m, b, t, r, c, o, row)
      /\ ColumnsWritten(m, b, t, r, c, o, row)
      /\ t.meta # "none" => CellSet(m.meta, b.meta, c, o, Written(row.meta, t))
      /\ t.meta = "text" => TextWritten(m, b, r, row.meta)
      /\ t.part => b.chunks[c].part = row.part
  BY DEF RowInserted
<1>2. /\ c \in DOMAIN b.chunks /\ o \in Offsets(t) /\ ColumnsShape(b, t)
      /\ m.rowids[r].chunk = c /\ m.rowids[r].offset = o
  BY <1>1 DEF Ready, RowWritten
<1>3. GetVector(m, t, r) = row.vector
  <2>1. CASE t.index = "flat"
    <3>1. c \in DOMAIN b.vectors /\ o \in DOMAIN b.vectors[c]
      BY <1>2, <2>1 DEF ColumnsShape, Column
    <3>2. CellSet(m.vectors, b.vectors, c, o, row.vector)
      BY <1>1, <2>1 DEF ColumnsWritten
    <3>3. m.vectors[c][o] = row.vector
      BY <3>1, <3>2, CellRead
    <3> QED
      BY <1>2, <2>1, <3>3 DEF GetVector
  <2>2. CASE t.index = "rescore"
    <3>1. m.full = Put(b.full, r, row.vector)
      BY <1>1, <2>2 DEF ColumnsWritten
    <3> QED
      BY <2>2, <3>1 DEF GetVector, Put
  <2> QED
    BY <2>1, <2>2 DEF IsDeclared, Chunked
<1>4. GetPartition(m, t, r) = row.part
  BY <1>1, <1>2 DEF GetPartition, RowWritten, Fits
<1>5. GetAux(m, t, r) = row.aux
  <2>1. t.aux => m.aux = Put(b.aux, r, row.aux)
    BY <1>1 DEF ColumnsWritten
  <2> QED
    BY <2>1 DEF GetAux, Put, Fits
<1>6. GetMetadata(m, t, r) = row.meta
  <2>1. t.meta # "none" => c \in DOMAIN b.meta /\ o \in DOMAIN b.meta[c]
    BY <1>2 DEF ColumnsShape, Column
  <2>2. t.meta # "none" => m.meta[c][o] = Written(row.meta, t)
    BY <1>1, <2>1, CellRead
  <2>3. CASE t.meta = "none"
    BY <2>3 DEF GetMetadata, Fits
  <2>4. CASE t.meta = "text"
    <3>1. Cell(m, r) = TextView(row.meta)
      BY <1>2, <2>2, <2>4 DEF Cell, Written
    <3>2. Len(row.meta) > ViewLength => m.text[r] = row.meta
      BY <1>1, <2>4 DEF TextWritten
    <3> QED
      BY <2>4, <3>1, <3>2, TextReads DEF Fits
  <2>5. CASE t.meta \notin {"none", "text"}
    BY <1>2, <2>2, <2>5 DEF GetMetadata, Written
  <2> QED
    BY <2>3, <2>4, <2>5
<1> QED
  BY <1>3, <1>4, <1>5, <1>6, FittingRowIs DEF ReadsAs

\* DELETE: the row's slot and columns, then the chunk if it is empty.
LEMMA ClearedKeepsOthers ==
    ASSUME NEW s, NEW t, NEW r, NEW d, IsDeclared(t), Chunked(t), StoreOK(s, t),
           r \in DOMAIN s.rowids, NEW c, NEW o,
           c = s.rowids[r].chunk, o = s.rowids[r].offset,
           RowCleared(d, s, t, r, c, o), ColumnsCleared(d, s, t, r, c, o)
    PROVE  /\ DOMAIN d.rowids = DOMAIN s.rowids \ {r}
           /\ \A q \in DOMAIN d.rowids : SameRow(d, s, t, q)
<1>1. /\ DOMAIN d.rowids = DOMAIN s.rowids \ {r}
      /\ \A q \in DOMAIN d.rowids : d.rowids[q] = s.rowids[q]
  <2>1. d.rowids = Without(s.rowids, r)
    BY Zenon DEF RowCleared
  <2> QED
    BY <2>1 DEF Without
<1>2. ASSUME NEW q \in DOMAIN d.rowids
      PROVE  SameRow(d, s, t, q)
  <2>1. PICK x, y : x = s.rowids[q].chunk /\ y = s.rowids[q].offset
    OBVIOUS
  <2>2. /\ ChunksShape(s, t) /\ ColumnsShape(s, t) /\ RowPlaced(s, q) /\ RowPlaced(s, r)
        /\ Filled(s, t) /\ q # r /\ q \in DOMAIN s.rowids
    BY <1>1 DEF StoreOK, Placed
  <2>3. /\ x \in DOMAIN s.chunks /\ s.chunks[x].rowids[y] = q
        /\ t.index = "flat" => x \in DOMAIN s.vectors /\ y \in DOMAIN s.vectors[x]
        /\ t.meta # "none" => x \in DOMAIN s.meta /\ y \in DOMAIN s.meta[x]
    BY <2>1, <2>2, PlaceOf
  <2>4. s.chunks[c].rowids[o] = r
    BY <2>2, RowPlacedAt
  <2>5. x # c \/ y # o
    BY <2>2, <2>3, <2>4
  <2>6. d.rowids[q] = s.rowids[q]
    BY <1>1
  <2>7. t.index = "flat" => d.vectors[x][y] = s.vectors[x][y]
    <3>1. t.index = "flat" => CellSet(d.vectors, s.vectors, c, o, 0)
      BY DEF ColumnsCleared
    <3> QED
      BY <2>3, <2>5, <3>1, CellKept
  <2>8. t.meta # "none" => d.meta[x][y] = s.meta[x][y]
    <3>1. t.meta # "none" => CellSet(d.meta, s.meta, c, o, ZeroMeta(t))
      BY DEF ColumnsCleared
    <3> QED
      BY <2>3, <2>5, <3>1, CellKept
  <2>9. ~t.part \/ d.chunks[x].part = s.chunks[x].part
    <3>1. /\ \A z \in DOMAIN s.chunks : z # c => d.chunks[z] = s.chunks[z]
          /\ d.chunks[c].part = s.chunks[c].part
      BY Zenon DEF RowCleared
    <3> QED
      BY <2>3, <3>1
  <2>10. t.index = "rescore" => d.full[q] = s.full[q]
    <3>1. t.index = "rescore" => d.full = Without(s.full, r)
      BY DEF ColumnsCleared
    <3> QED
      BY <2>2, <3>1 DEF Without, Filled
  <2>11. t.aux => d.aux[q] = s.aux[q]
    <3>1. t.aux => d.aux = Without(s.aux, r)
      BY DEF ColumnsCleared
    <3> QED
      BY <2>2, <3>1 DEF Without, Filled
  <2>12. t.meta = "text" /\ Cell(s, q).n > ViewLength => d.text[q] = s.text[q]
    <3>1. t.meta = "text" => d.text = Without(s.text, r) \/ d.text = s.text
      BY DEF ColumnsCleared
    <3>2. t.meta = "text" /\ Cell(s, q).n > ViewLength => q \in DOMAIN s.text
      BY <2>2 DEF Filled, TextAgrees
    <3> QED
      BY <2>2, <3>1, <3>2 DEF Without
  <2>13. t.index # "diskann"
    BY DEF Chunked
  <2>14. SameColumns(d, s, t, q)
    BY <2>1, <2>6, <2>7, <2>8, <2>9, <2>10, <2>11, <2>12, <2>13 DEF SameColumns
  <2> QED
    BY <2>14, SameColumnsRead
<1> QED
  BY <1>1, <1>2

LEMMA EmptyChunkHasNoRow ==
    ASSUME NEW d, NEW t, NEW c, IsDeclared(t), Chunked(t), Vacated(d, t, c)
    PROVE  /\ DeleteChunkIfEmpty(d, t, c).rowids = d.rowids
           /\ \A q \in DOMAIN d.rowids : SameRow(DeleteChunkIfEmpty(d, t, c), d, t, q)
<1> DEFINE m == DeleteChunkIfEmpty(d, t, c)
<1>1. CASE d.chunks[c].validity # {}
  BY <1>1 DEF DeleteChunkIfEmpty, SameRow
<1>2. CASE d.chunks[c].validity = {}
  <2>1. DOMAIN d = Fields
    BY DEF Vacated, RowsShape
  <2>2. /\ \A f \in Fields \ {"chunks", "vectors", "coarse", "meta"} : m[f] = d[f]
        /\ m.chunks = Without(d.chunks, c) /\ m.vectors = Without(d.vectors, c)
        /\ m.meta = Without(d.meta, c)
    BY <1>2, <2>1 DEF DeleteChunkIfEmpty, DeleteRescoreChunk, Fields
  <2> HIDE DEF m
  <2>3. m.rowids = d.rowids /\ m.full = d.full /\ m.aux = d.aux /\ m.text = d.text
    BY <2>2 DEF Fields
  <2>4. ASSUME NEW q \in DOMAIN d.rowids
        PROVE  SameRow(m, d, t, q)
    <3>1. PICK x, y : x = d.rowids[q].chunk /\ y = d.rowids[q].offset
      OBVIOUS
    <3>2. ChunksShape(d, t) /\ ColumnsShape(d, t) /\ RowPlaced(d, q)
      BY DEF Vacated, Placed
    <3>3. /\ x \in DOMAIN d.chunks /\ y \in d.chunks[x].validity
          /\ t.index = "flat" => x \in DOMAIN d.vectors /\ y \in DOMAIN d.vectors[x]
          /\ t.meta # "none" => x \in DOMAIN d.meta /\ y \in DOMAIN d.meta[x]
      BY <3>1, <3>2, PlaceOf
    <3>4. x # c
      BY <1>2, <3>3
    <3>5. /\ t.index = "flat" => m.vectors[x] = d.vectors[x]
          /\ t.meta # "none" => m.meta[x] = d.meta[x]
          /\ m.chunks[x] = d.chunks[x]
      BY <2>2, <3>3, <3>4 DEF Without
    <3>6. t.index # "diskann"
      BY DEF Chunked
    <3>7. SameColumns(m, d, t, q)
      BY <2>3, <3>1, <3>5, <3>6 DEF SameColumns
    <3> QED
      BY <3>7, SameColumnsRead
  <2> QED
    BY <2>3, <2>4 DEF m
<1> QED
  BY <1>1, <1>2

\* UPDATE: the auxiliary row, the metadata and the vector of the row.
LEMMA UpdateAuxKeepsOthers ==
    ASSUME NEW s, NEW t, NEW r, NEW v, IsDeclared(t), StoreOK(s, t),
           NEW q \in DOMAIN s.rowids, q # r
    PROVE  SameRow(UpdateAux(s, t, r, v), s, t, q)
<1> DEFINE m == UpdateAux(s, t, r, v)
<1>1. DOMAIN s = Fields /\ (t.aux => DOMAIN s.aux = DOMAIN s.rowids)
  BY DEF StoreOK, RowsShape, Filled
<1>2. CASE m = s
  BY <1>2 DEF SameRow
<1>3. CASE m # s
  <2>1. t.aux /\ m = [s EXCEPT !.aux = Put(@, r, v)]
    BY <1>3 DEF UpdateAux, WriteAux
  <2>2. /\ \A f \in Fields \ {"aux"} : m[f] = s[f]
        /\ m.aux = Put(s.aux, r, v)
    BY <1>1, <2>1 DEF Fields
  <2> HIDE DEF m
  <2>3. m.aux[q] = s.aux[q]
    BY <1>1, <2>1, <2>2 DEF Put
  <2>4. /\ m.vectors = s.vectors /\ m.full = s.full /\ m.graph = s.graph
        /\ m.meta = s.meta /\ m.text = s.text /\ m.rowids = s.rowids /\ m.chunks = s.chunks
    BY <2>2 DEF Fields
  <2>5. SameColumns(m, s, t, q)
    BY <2>3, <2>4 DEF SameColumns
  <2> QED
    BY <2>5, SameColumnsRead DEF m
<1> QED
  BY <1>2, <1>3

\* Two rows of a table with chunks have different slots.
LEMMA SlotsDiffer ==
    ASSUME NEW s, NEW t, Chunked(t), StoreOK(s, t),
           NEW r \in DOMAIN s.rowids, NEW q \in DOMAIN s.rowids, q # r,
           NEW c, NEW o, c = s.rowids[r].chunk, o = s.rowids[r].offset,
           NEW x, NEW y, x = s.rowids[q].chunk, y = s.rowids[q].offset
    PROVE  /\ x # c \/ y # o
           /\ c \in DOMAIN s.chunks /\ o \in Offsets(t)
           /\ t.index = "flat" => x \in DOMAIN s.vectors /\ y \in DOMAIN s.vectors[x]
           /\ t.meta # "none" => x \in DOMAIN s.meta /\ y \in DOMAIN s.meta[x]
<1>1. /\ ChunksShape(s, t) /\ ColumnsShape(s, t) /\ RowPlaced(s, q) /\ RowPlaced(s, r)
  BY DEF StoreOK, Placed
<1>2. /\ s.chunks[x].rowids[y] = q
      /\ t.index = "flat" => x \in DOMAIN s.vectors /\ y \in DOMAIN s.vectors[x]
      /\ t.meta # "none" => x \in DOMAIN s.meta /\ y \in DOMAIN s.meta[x]
  BY <1>1, PlaceOf
<1>3. c \in DOMAIN s.chunks /\ s.chunks[c].rowids[o] = r /\ o \in Offsets(t)
  BY <1>1, PlaceOf
<1> QED
  BY <1>2, <1>3

LEMMA UpdateMetadataKeepsOthers ==
    ASSUME NEW s, NEW t, NEW v, IsDeclared(t), Chunked(t), StoreOK(s, t),
           NEW r \in DOMAIN s.rowids, NEW q \in DOMAIN s.rowids, q # r,
           NEW c, NEW o, c = s.rowids[r].chunk, o = s.rowids[r].offset
    PROVE  SameRow(UpdateMetadata(s, t, r, c, o, v), s, t, q)
<1> DEFINE m == UpdateMetadata(s, t, r, c, o, v)
<1>1. PICK x, y : x = s.rowids[q].chunk /\ y = s.rowids[q].offset
  OBVIOUS
<1>2. /\ x # c \/ y # o
      /\ c \in DOMAIN s.chunks /\ o \in Offsets(t)
      /\ t.meta # "none" => x \in DOMAIN s.meta /\ y \in DOMAIN s.meta[x]
  BY <1>1, SlotsDiffer
<1>3. Filled(s, t) /\ ColumnsShape(s, t) /\ DOMAIN s = Fields
  BY DEF StoreOK, RowsShape
<1>4. t.meta # "none" => c \in DOMAIN s.meta
  BY <1>2, <1>3 DEF ColumnsShape, Column
<1>5. t.meta = "text" => (r \in DOMAIN s.text <=> s.meta[c][o].n > ViewLength)
  BY <1>3 DEF Filled, TextAgrees, Cell
<1>6. NewMetadata(m, s, t, r, c, o, v)
  BY <1>3, <1>4, <1>5, OldMetadataIs
<1> HIDE DEF m
<1>7. /\ m.rowids = s.rowids /\ m.chunks = s.chunks /\ m.vectors = s.vectors
      /\ m.full = s.full /\ m.aux = s.aux /\ m.graph = s.graph
  BY <1>6 DEF NewMetadata, Fields
<1>8. t.meta # "none" => m.meta[x][y] = s.meta[x][y]
  <2>1. t.meta # "none" => CellSet(m.meta, s.meta, c, o, Written(v, t))
    BY <1>6 DEF NewMetadata
  <2> QED
    BY <1>2, <2>1, CellKept
<1>9. t.meta = "text" /\ Cell(s, q).n > ViewLength => m.text[q] = s.text[q]
  <2>1. t.meta = "text" => TextWritten(m, s, r, v)
    BY <1>6 DEF NewMetadata
  <2> QED
    BY <1>3, <2>1 DEF TextWritten, Filled, TextAgrees
<1>10. SameColumns(m, s, t, q)
  BY <1>1, <1>7, <1>8, <1>9 DEF SameColumns
<1> QED
  BY <1>10, SameColumnsRead DEF m

LEMMA UpdateVectorKeepsOthers ==
    ASSUME NEW s, NEW t, NEW v, IsDeclared(t), Chunked(t), StoreOK(s, t),
           NEW r \in DOMAIN s.rowids, NEW q \in DOMAIN s.rowids, q # r
    PROVE  SameRow(UpdateVector(s, t, r, v), s, t, q)
<1>1. PICK c, o, x, y : /\ c = s.rowids[r].chunk /\ o = s.rowids[r].offset
                        /\ x = s.rowids[q].chunk /\ y = s.rowids[q].offset
  OBVIOUS
<1>2. /\ x # c \/ y # o
      /\ c \in DOMAIN s.chunks /\ o \in Offsets(t)
      /\ t.index = "flat" => x \in DOMAIN s.vectors /\ y \in DOMAIN s.vectors[x]
  BY <1>1, SlotsDiffer
<1>3. Filled(s, t) /\ ColumnsShape(s, t) /\ DOMAIN s = Fields
  BY DEF StoreOK, RowsShape
<1>4. CASE v = None
  BY <1>4 DEF UpdateVector, SameRow
<1>5. CASE v # None /\ t.index = "flat"
  <2> DEFINE m == [s EXCEPT !.vectors[c][o] = v]
  <2>1. UpdateVector(s, t, r, v) = m
    BY <1>1, <1>5 DEF UpdateVector, WriteVector
  <2>2. /\ \A f \in Fields \ {"vectors"} : m[f] = s[f]
        /\ m.vectors = [s.vectors EXCEPT ![c][o] = v]
    BY <1>3 DEF Fields
  <2> HIDE DEF m
  <2>3. /\ m.rowids = s.rowids /\ m.chunks = s.chunks
        /\ m.meta = s.meta /\ m.text = s.text /\ m.aux = s.aux
    BY <2>2 DEF Fields
  <2>4. c \in DOMAIN s.vectors
    BY <1>2, <1>3, <1>5 DEF ColumnsShape, Column
  <2>5. m.vectors[x][y] = s.vectors[x][y]
    <3>1. CellSet(m.vectors, s.vectors, c, o, v)
      BY <2>2, <2>4, CellIsSet
    <3> QED
      BY <1>2, <1>5, <3>1, CellKept
  <2>6. SameColumns(m, s, t, q)
    BY <1>1, <1>5, <2>3, <2>5 DEF SameColumns
  <2> QED
    BY <2>1, <2>6, SameColumnsRead
<1>6. CASE v # None /\ t.index = "rescore"
  <2> DEFINE m == [s EXCEPT !.coarse[c][o] = RescoreQuantize(v), !.full = Put(@, r, v)]
  <2>1. UpdateVector(s, t, r, v) = m
    BY <1>1, <1>6 DEF UpdateVector, RescoreWrite
  <2>2. /\ \A f \in Fields \ {"coarse", "full"} : m[f] = s[f]
        /\ m.full = Put(s.full, r, v)
    BY <1>3 DEF Fields
  <2> HIDE DEF m
  <2>3. /\ m.rowids = s.rowids /\ m.chunks = s.chunks
        /\ m.meta = s.meta /\ m.text = s.text /\ m.aux = s.aux
    BY <2>2 DEF Fields
  <2>4. m.full[q] = s.full[q]
    BY <1>3, <1>6, <2>2 DEF Filled, Put
  <2>5. SameColumns(m, s, t, q)
    BY <1>6, <2>3, <2>4 DEF SameColumns
  <2> QED
    BY <2>1, <2>5, SameColumnsRead
<1> QED
  BY <1>4, <1>5, <1>6 DEF IsDeclared, Chunked

LEMMA UpdateRowKeepsOthers ==
    ASSUME NEW s, NEW t, NEW id, NEW newId, NEW change, IsDeclared(t), StoreOK(s, t),
           NEW r, r = RowidFromId(s, t, id), Chunked(t) => r \in DOMAIN s.rowids,
           NEW m, m = UpdateRow(s, t, id, newId, change).store
    PROVE  /\ m.rowids = s.rowids /\ (~Chunked(t) => m.graph = s.graph)
           /\ \A q \in DOMAIN s.rowids : q # r => SameRow(m, s, t, q)
<1>1. PICK c, o : c = s.rowids[r].chunk /\ o = s.rowids[r].offset
  OBVIOUS
<1> DEFINE s1 == UpdateAux(s, t, r, change.aux)
           w == UpdateMetadata(s1, t, r, c, o, change.meta)
           s2 == IF change.meta = None THEN s1 ELSE w
           v == UpdateVector(s2, t, r, change.vector)
<1>2. m = v
  BY <1>1 DEF UpdateRow, UpdateMetadata
<1>3. /\ StoreOK(s1, t) /\ s1.rowids = s.rowids
      /\ \A q \in DOMAIN s.rowids : q # r => SameRow(s1, s, t, q)
  BY UpdateAuxKeeps, UpdateAuxKeepsOthers
<1>4. ~Chunked(t) => s1.graph = s.graph
  <2>1. DOMAIN s = Fields
    BY DEF StoreOK, RowsShape
  <2> QED
    BY <2>1 DEF UpdateAux, WriteAux, Fields
<1> HIDE DEF s1
<1>5. CASE Chunked(t)
  <2>1. /\ StoreOK(w, t) /\ w.rowids = s.rowids
        /\ \A q \in DOMAIN s.rowids : q # r => SameRow(w, s1, t, q)
    <3>1. /\ r \in DOMAIN s1.rowids
          /\ c = s1.rowids[r].chunk /\ o = s1.rowids[r].offset
      BY <1>1, <1>3, <1>5
    <3>2. StoreOK(w, t) /\ w.rowids = s.rowids
      BY <1>3, <1>5, <3>1, UpdateMetadataKeeps
    <3>3. \A q \in DOMAIN s1.rowids : q # r => SameRow(w, s1, t, q)
      BY <1>3, <1>5, <3>1, UpdateMetadataKeepsOthers
    <3> QED
      BY <1>3, <3>2, <3>3
  <2> HIDE DEF w
  <2>2. /\ StoreOK(s2, t) /\ s2.rowids = s.rowids
        /\ \A q \in DOMAIN s.rowids : q # r => SameRow(s2, s1, t, q)
    BY <1>3, <2>1 DEF SameRow
  <2> HIDE DEF s2
  <2>3. v.rowids = s.rowids
    <3>1. DOMAIN s2 = Fields
      BY <2>2 DEF StoreOK, RowsShape
    <3> QED
      BY <1>5, <2>2, <3>1 DEF UpdateVector, WriteVector, RescoreWrite, Fields, IsDeclared, Chunked
  <2>4. \A q \in DOMAIN s.rowids : q # r => SameRow(v, s2, t, q)
    BY <1>5, <2>2, UpdateVectorKeepsOthers
  <2> HIDE DEF v
  <2>5. ASSUME NEW q \in DOMAIN s.rowids, q # r
        PROVE  SameRow(v, s, t, q)
    <3>1. SameRow(v, s2, t, q) /\ SameRow(s2, s1, t, q) /\ SameRow(s1, s, t, q)
      BY <1>3, <2>2, <2>4, <2>5
    <3> QED
      BY <3>1 DEF SameRow
  <2> QED
    BY <1>2, <1>5, <2>3, <2>5
<1>6. CASE ~Chunked(t)
  <2>1. t.meta = "none" /\ t.index = "diskann"
    BY <1>6 DEF IsDeclared, Chunked
  <2>2. w = s1
    BY <2>1 DEF UpdateMetadata, WriteMetadata
  <2> HIDE DEF w
  <2>3. v = s1
    BY <2>1, <2>2 DEF UpdateVector
  <2> HIDE DEF v
  <2> QED
    BY <1>2, <1>3, <1>4, <2>3, <1>6
<1> QED
  BY <1>5, <1>6

-----------------------------------------------------------------------------
\* The vectors of a DiskANN table are beside its graph: what links and unlinks
\* nodes leaves them alone.
IndexFields == {"medoid", "vectors", "nodes", "buffer", "slots"}
SameVectors(h, g) == DOMAIN h = IndexFields /\ h.vectors = g.vectors

LEMMA OtherFieldsKeepVectors ==
    ASSUME NEW g, DOMAIN g = IndexFields, NEW x
    PROVE  /\ SameVectors([g EXCEPT !.nodes = x], g)
           /\ SameVectors([g EXCEPT !.medoid = x], g)
           /\ SameVectors([g EXCEPT !.buffer = x], g)
           /\ DOMAIN [g EXCEPT !.vectors = x] = IndexFields
           /\ [g EXCEPT !.vectors = x].vectors = x
  BY DEF SameVectors, IndexFields

LEMMA InsertGraphKeepsVectors ==
    ASSUME NEW g, DOMAIN g = IndexFields, NEW r, NEW L
    PROVE  SameVectors(InsertGraph(g, r, L).index, g)
<1>1. CASE g.medoid = None
  <2> DEFINE h == NodeWrite(g, r, EmptyNode(g))
  <2>1. SameVectors(h, g)
    BY OtherFieldsKeepVectors DEF NodeWrite
  <2>2. InsertGraph(g, r, L).index = MedoidSet(h, r)
    BY <1>1 DEF InsertGraph
  <2> HIDE DEF h
  <2>3. SameVectors(MedoidSet(h, r), h)
    BY <2>1, OtherFieldsKeepVectors DEF MedoidSet, SameVectors
  <2> QED
    BY <2>1, <2>2, <2>3 DEF SameVectors
<1>2. CASE g.medoid # None
  <2> DEFINE hit == Search(g, g.vectors[r], L, L)
             taken == RobustPrune(g, r, hit.found)
             h == WritePrunedNeighbors(g, r, taken)
  <2>1. InsertGraph(g, r, L).index = IF hit.ok THEN LinkTo(g, r, taken) ELSE g
    BY <1>2 DEF InsertGraph, LinkToFound
  <2> HIDE DEF hit, taken
  <2>2. SameVectors(h, g)
    BY OtherFieldsKeepVectors DEF WritePrunedNeighbors, NodeWrite
  <2>3. PICK nodes : LinkTo(g, r, taken) = WithNodes(h, nodes)
    BY Zenon DEF LinkTo
  <2> HIDE DEF h
  <2>4. SameVectors(WithNodes(h, nodes), h)
    BY <2>2, OtherFieldsKeepVectors DEF WithNodes, SameVectors
  <2> QED
    BY <2>1, <2>2, <2>3, <2>4 DEF SameVectors
<1> QED
  BY <1>1, <1>2

\* diskann_insert writes the vector of its row.
LEMMA InsertIsPut ==
    ASSUME NEW g, DOMAIN g = IndexFields, NEW r, NEW v, NEW threshold, NEW L
    PROVE  LET h == Insert(g, r, v, threshold, L).index
           IN  DOMAIN h = IndexFields /\ h.vectors = Put(g.vectors, r, v)
<1> DEFINE stored == VectorWrite(g, r, v)
           buffered == BufferWrite(stored, r, v)
<1>1. DOMAIN stored = IndexFields /\ stored.vectors = Put(g.vectors, r, v)
  BY OtherFieldsKeepVectors DEF VectorWrite
<1>2. Insert(g, r, v, threshold, L)
        = IF threshold = 0 THEN InsertGraph(stored, r, L)
          ELSE IF BufferCount(buffered) >= threshold THEN FlushBuffer(buffered, L)
          ELSE [ok |-> TRUE, index |-> buffered]
  BY DEF Insert
<1> HIDE DEF stored
<1>3. SameVectors(buffered, stored)
  BY <1>1, OtherFieldsKeepVectors DEF BufferWrite
<1> HIDE DEF buffered
<1>4. SameVectors(InsertGraph(stored, r, L).index, stored)
  BY <1>1, InsertGraphKeepsVectors, Zenon
<1>5. SameVectors(FlushBuffer(buffered, L).index, buffered)
  <2>1. PICK nodes, medoid : FlushBuffer(buffered, L).index
                                = [buffered EXCEPT !.nodes = nodes, !.medoid = medoid,
                                                   !.buffer = <<>>]
    BY Zenon DEF FlushBuffer
  <2> QED
    BY <1>3, <2>1 DEF SameVectors, IndexFields
<1> QED
  BY <1>1, <1>2, <1>3, <1>4, <1>5 DEF SameVectors

\* diskann_delete removes no vector but that of its row.
LEMMA DeleteIsWithout ==
    ASSUME NEW g, DOMAIN g = IndexFields, NEW r, NEW threshold
    PROVE  LET h == Delete(g, r, threshold)
           IN  DOMAIN h = IndexFields /\ h.vectors \in {g.vectors, Without(g.vectors, r)}
<1> DEFINE repaired == RepairReverseEdges(g, r)
           cut == NodeDelete(repaired, r)
           unlinked == VectorDelete(cut, r)
           handed == MedoidHandleDelete(unlinked, r)
           dropped == BufferDelete(g, r)
<1>1. Delete(g, r, threshold) \in {VectorDelete(dropped, r), g, ScrubDeletedRowid(handed, r)}
  BY DEF Delete
<1>2. SameVectors(repaired, g)
  <2>1. PICK nodes : repaired = WithNodes(g, nodes)
    BY Zenon DEF RepairReverseEdges
  <2> QED
    BY <2>1, OtherFieldsKeepVectors DEF WithNodes
<1> HIDE DEF repaired
<1>3. SameVectors(cut, g)
  BY <1>2, OtherFieldsKeepVectors DEF NodeDelete, SameVectors
<1> HIDE DEF cut
<1>4. DOMAIN unlinked = IndexFields /\ unlinked.vectors = Without(g.vectors, r)
  BY <1>3, OtherFieldsKeepVectors DEF VectorDelete, SameVectors
<1> HIDE DEF unlinked
<1>5. SameVectors(handed, unlinked)
  BY <1>4, OtherFieldsKeepVectors DEF MedoidHandleDelete, MedoidSet, SameVectors
<1> HIDE DEF handed
<1>6. SameVectors(ScrubDeletedRowid(handed, r), handed)
  BY <1>5, OtherFieldsKeepVectors DEF ScrubDeletedRowid, SameVectors
<1>7. SameVectors(dropped, g)
  BY OtherFieldsKeepVectors DEF BufferDelete
<1> HIDE DEF dropped
<1>8. DOMAIN VectorDelete(dropped, r) = IndexFields
      /\ VectorDelete(dropped, r).vectors = Without(g.vectors, r)
  BY <1>7, OtherFieldsKeepVectors DEF VectorDelete, SameVectors
<1> QED
  BY <1>1, <1>4, <1>5, <1>6, <1>8 DEF SameVectors

-----------------------------------------------------------------------------
\* Every row of a DiskANN table has its vector.
Indexed(s, t) == t.index = "diskann" => /\ DOMAIN s.graph = IndexFields
                                        /\ DOMAIN s.rowids \subseteq DOMAIN s.graph.vectors

\* The key a row is inserted under: the one given, or the next rowid.
KeyGiven(s, id) == IF id = None THEN s.rowidSeq + 1 ELSE id

\* An INSERT that succeeds adds one row, under the key given or the next rowid.
LEMMA InsertAddsRow ==
    ASSUME NEW s, NEW t, NEW id, NEW row, IsDeclared(t), StoreOK(s, t), Indexed(s, t),
           t.pk = "int" => id \in Int \cup {None}, InsertRow(s, t, id, row).ok,
           NEW m, m = InsertRow(s, t, id, row).store
    PROVE  /\ Indexed(m, t)
           /\ \E r : /\ r \notin DOMAIN s.rowids /\ DOMAIN m.rowids = DOMAIN s.rowids \cup {r}
                     /\ IdOfRowid(m, t, r) = KeyGiven(s, id)
                     /\ Fits(row, t) => Reads(m, t, r) = row
                     /\ \A q \in DOMAIN s.rowids : SameRow(m, s, t, q)
<1> DEFINE r == NewRowid(s, t, id)
           s1 == InsertRowid(s, t, id, r)
           taken == IF id = None THEN t.pk = "text" ELSE HasId(s, t, id)
<1>1. ~taken
  BY DEF InsertRow
<1>2. InsertRow(s, t, id, row) = IF Chunked(t) THEN InsertChunked(s1, t, r, row)
                                 ELSE InsertGraphRow(s1, t, r, row)
  BY <1>1 DEF InsertRow
<1>3. DOMAIN s = Fields /\ Filled(s, t)
  BY DEF StoreOK, RowsShape
<1>4. r \in Int /\ r \notin DOMAIN s.rowids
  <2>1. s.rowidSeq + 1 \in Int /\ s.rowidSeq + 1 \notin DOMAIN s.rowids
    BY DEF StoreOK, RowsShape
  <2> QED
    BY <1>1, <2>1 DEF NewRowid, HasId, IsDeclared
<1>5. t.pk = "text" => ~HasId(s, t, id)
  BY <1>1
<1>6. KeyGiven(s, id) = IF t.pk = "text" THEN id ELSE r
  BY <1>1 DEF NewRowid, KeyGiven
<1> HIDE DEF r, taken
<1>7. CASE Chunked(t)
  <2>1. PICK b, c, o : RowInserted(m, s, t, id, r, row, b, c, o)
    <3>1. m = InsertChunked(InsertRowid(s, t, id, r), t, r, row).store
      BY <1>2, <1>7
    <3>2. \E b, c, o : RowInserted(InsertChunked(InsertRowid(s, t, id, r), t, r, row).store,
                                   s, t, id, r, row, b, c, o)
      BY <1>4, <1>5, <1>7, InsertChunkedIs
    <3> QED
      BY <3>1, <3>2
  <2> HIDE DEF s1
  <2>2. /\ DOMAIN m.rowids = DOMAIN s.rowids \cup {r}
        /\ IdOfRowid(m, t, r) = IF t.pk = "text" THEN id ELSE r
        /\ \A q \in DOMAIN s.rowids : SameRow(m, s, t, q)
    BY ONLY IsDeclared(t), StoreOK(s, t), <1>4, <1>5, <1>7, <2>1, InsertedKeepsOthers
  <2>3. Fits(row, t) => Reads(m, t, r) = row
    BY ONLY IsDeclared(t), <1>7, <2>1, InsertedRowReads
  <2> QED
    BY <1>4, <1>6, <1>7, <2>2, <2>3 DEF Indexed, Chunked
<1>8. CASE ~Chunked(t)
  <2>1. t.index = "diskann" /\ t.meta = "none" /\ ~t.part
    BY <1>8 DEF Chunked, IsDeclared
  <2>2. /\ s1.rowids = Put(s.rowids, r, [id |-> IF t.pk = "text" THEN id ELSE None,
                                         chunk |-> None, offset |-> None])
        /\ DOMAIN s1 = Fields /\ s1.graph = s.graph /\ s1.aux = s.aux
    BY <1>3 DEF InsertRowid, Fields
  <2> HIDE DEF s1
  <2> DEFINE linked == Insert(s1.graph, r, row.vector, t.bufferThreshold, InsertBeam(t)).index
             g == [s1 EXCEPT !.graph = linked]
  <2>3. m = WriteAux(g, t, r, row.aux)
    BY <1>2, <1>8 DEF InsertGraphRow, WithGraph
  <2>4. DOMAIN linked = IndexFields /\ linked.vectors = Put(s.graph.vectors, r, row.vector)
    BY <2>1, <2>2, InsertIsPut DEF Indexed
  <2> HIDE DEF linked
  <2>5. DOMAIN g = Fields /\ g.graph = linked /\ g.rowids = s1.rowids /\ g.aux = s.aux
    BY <2>2 DEF Fields
  <2> HIDE DEF g
  <2>6. /\ m.rowids = s1.rowids /\ m.graph = linked
        /\ t.aux => m.aux = Put(s.aux, r, row.aux)
    BY <2>3, <2>5 DEF WriteAux, Fields
  <2>7. /\ DOMAIN m.rowids = DOMAIN s.rowids \cup {r}
        /\ \A q \in DOMAIN s.rowids : m.rowids[q] = s.rowids[q]
        /\ t.pk = "text" => m.rowids[r].id = id
    BY <1>4, <2>2, <2>6 DEF Put
  <2>8. DOMAIN s.rowids \subseteq DOMAIN s.graph.vectors
    BY <2>1 DEF Indexed
  <2>9. Indexed(m, t)
    BY <2>4, <2>6, <2>7, <2>8 DEF Indexed, Put
  <2>10. ASSUME NEW q \in DOMAIN s.rowids PROVE SameRow(m, s, t, q)
    <3>1. m.graph.vectors[q] = s.graph.vectors[q]
      BY <1>4, <2>4, <2>6, <2>8 DEF Put
    <3>2. t.aux => m.aux[q] = s.aux[q]
      BY <1>3, <1>4, <2>6 DEF Filled, Put
    <3>3. SameColumns(m, s, t, q)
      BY <2>1, <2>7, <3>1, <3>2 DEF SameColumns
    <3> QED
      BY <3>3, SameColumnsRead
  <2>11. IdOfRowid(m, t, r) = KeyGiven(s, id)
    BY <1>6, <2>7 DEF IdOfRowid
  <2>12. ASSUME Fits(row, t) PROVE Reads(m, t, r) = row
    <3>1. GetVector(m, t, r) = row.vector
      BY <2>1, <2>4, <2>6 DEF GetVector, Put
    <3>2. GetPartition(m, t, r) = row.part /\ GetMetadata(m, t, r) = row.meta
      BY <2>1, <2>12 DEF GetPartition, GetMetadata, Fits
    <3>3. GetAux(m, t, r) = row.aux
      BY <2>6, <2>12 DEF GetAux, Put, Fits
    <3> QED
      BY <2>12, <3>1, <3>2, <3>3, FittingRowIs DEF ReadsAs
  <2> QED
    BY <1>4, <2>7, <2>9, <2>10, <2>11, <2>12
<1> QED
  BY <1>7, <1>8

\* DELETE removes the row it finds, if it is there.
LEMMA DeleteRemovesRow ==
    ASSUME NEW s, NEW t, NEW id, IsDeclared(t), StoreOK(s, t), Indexed(s, t),
           NEW r, r = RowidFromId(s, t, id), Chunked(t) => r \in DOMAIN s.rowids,
           NEW m, m = DeleteRow(s, t, id)
    PROVE  /\ Indexed(m, t)
           /\ DOMAIN m.rowids = DOMAIN s.rowids \ {r}
           /\ \A q \in DOMAIN m.rowids : SameRow(m, s, t, q)
<1>1. DOMAIN s = Fields /\ Filled(s, t)
  BY DEF StoreOK, RowsShape
<1>2. CASE Chunked(t)
  <2>1. PICK c, o : c = s.rowids[r].chunk /\ o = s.rowids[r].offset
    OBVIOUS
  <2> DEFINE d == ClearRow(s, t, r, c, o)
  <2>2. m = DeleteChunkIfEmpty(d, t, c)
    BY <1>2, <2>1 DEF DeleteRow, DeleteChunked, ClearRow
  <2>3. /\ ColumnsShape(s, t) /\ RowPlaced(s, r) /\ ChunksShape(s, t)
    BY <1>2 DEF StoreOK, Placed
  <2>4. c \in DOMAIN s.chunks /\ DOMAIN s.chunks[c] = {"part", "validity", "rowids"}
    BY <2>1, <2>3, RowPlacedAt DEF ChunksShape
  <2>5. RowCleared(d, s, t, r, c, o) /\ ColumnsCleared(d, s, t, r, c, o)
    BY <1>1, <1>2, <2>3, <2>4, RowIsCleared
  <2> HIDE DEF d
  <2>6. Vacated(d, t, c)
    BY <1>2, <2>1, <2>5, ClearedIsVacated
  <2>7. /\ DOMAIN d.rowids = DOMAIN s.rowids \ {r}
        /\ \A q \in DOMAIN d.rowids : SameRow(d, s, t, q)
    BY <1>2, <2>1, <2>5, ClearedKeepsOthers
  <2>8. /\ m.rowids = d.rowids
        /\ \A q \in DOMAIN d.rowids : SameRow(m, d, t, q)
    BY <1>2, <2>2, <2>6, EmptyChunkHasNoRow
  <2> QED
    BY <1>2, <2>7, <2>8 DEF SameRow, Indexed, Chunked
<1>3. CASE ~Chunked(t)
  <2>1. t.index = "diskann" /\ t.meta = "none" /\ ~t.part
    BY <1>3 DEF Chunked, IsDeclared
  <2> DEFINE cut == Delete(s.graph, r, t.bufferThreshold)
             g == [s EXCEPT !.graph = cut]
  <2>2. m = DeleteAux(DeleteRowids(g, r), t, r)
    BY <1>3 DEF DeleteRow
  <2>3. DOMAIN cut = IndexFields /\ cut.vectors \in {s.graph.vectors, Without(s.graph.vectors, r)}
    BY <2>1, DeleteIsWithout DEF Indexed
  <2> HIDE DEF cut
  <2>4. DOMAIN g = Fields /\ g.graph = cut /\ g.rowids = s.rowids /\ g.aux = s.aux
    BY <1>1 DEF Fields
  <2> HIDE DEF g
  <2>5. /\ m.rowids = Without(s.rowids, r) /\ m.graph = cut
        /\ t.aux => m.aux = Without(s.aux, r)
    BY <2>2, <2>4 DEF DeleteAux, DeleteRowids, Fields
  <2>6. /\ DOMAIN m.rowids = DOMAIN s.rowids \ {r}
        /\ \A q \in DOMAIN m.rowids : m.rowids[q] = s.rowids[q]
    BY <2>5 DEF Without
  <2>7. DOMAIN s.rowids \subseteq DOMAIN s.graph.vectors
    BY <2>1 DEF Indexed
  <2>8. \A q \in DOMAIN m.rowids : q \in DOMAIN cut.vectors /\ cut.vectors[q] = s.graph.vectors[q]
    BY <2>3, <2>6, <2>7 DEF Without
  <2>9. Indexed(m, t)
    BY <2>3, <2>5, <2>8 DEF Indexed
  <2>10. ASSUME NEW q \in DOMAIN m.rowids PROVE SameRow(m, s, t, q)
    <3>1. t.aux => m.aux[q] = s.aux[q]
      BY <1>1, <2>5, <2>6 DEF Filled, Without
    <3>2. SameColumns(m, s, t, q)
      BY <2>1, <2>5, <2>6, <2>8, <3>1 DEF SameColumns
    <3> QED
      BY <3>2, SameColumnsRead
  <2> QED
    BY <2>6, <2>9, <2>10
<1> QED
  BY <1>2, <1>3

-----------------------------------------------------------------------------
\* What VecTable says of a statement, or nothing changed.
TableStep(was, is) ==
    \/ is = was
    \/ \E key \in DOMAIN was \cup DOMAIN is :
          \/ key \in DOMAIN is /\ (Abstract!Inserts(was, is, key) \/ Abstract!Rewrites(was, is, key))
          \/ Abstract!Deletes(was, is, key)

LEMMA RowsSame ==
    ASSUME NEW s, NEW m, NEW t, KeysDiffer(s, t), KeysDiffer(m, t),
           DOMAIN m.rowids = DOMAIN s.rowids,
           \A q \in DOMAIN s.rowids : SameRow(m, s, t, q)
    PROVE  Rows(m, t) = Rows(s, t)
<1> DEFINE was == Rows(s, t)
           is == Rows(m, t)
<1>1. Scanned(was, s, t)
  BY RowsAre
<1>2. Scanned(is, m, t)
  BY RowsAre
<1> HIDE DEF was, is
<1>3. DOMAIN is = DOMAIN was
  BY <1>1, <1>2 DEF Scanned, SameRow
<1>4. \A x \in DOMAIN is : is[x] = was[x]
  BY <1>1, <1>2 DEF Scanned, SameRow
<1>5. is = was
  BY <1>1, <1>2, <1>3, <1>4 DEF Scanned
<1> QED
  BY <1>5 DEF was, is

LEMMA InsertIsTableStep ==
    ASSUME NEW s, NEW t, NEW id, NEW row, IsDeclared(t), StoreOK(s, t), Indexed(s, t),
           t.pk = "int" => id \in Int \cup {None}, InsertRow(s, t, id, row).ok,
           NEW m, m = InsertRow(s, t, id, row).store
    PROVE  /\ Indexed(m, t)
           /\ KeyGiven(s, id) \in DOMAIN Rows(m, t)
           /\ Abstract!Inserts(Rows(s, t), Rows(m, t), KeyGiven(s, id))
           /\ Fits(row, t) => Rows(m, t)[KeyGiven(s, id)] = row
<1>1. StoreOK(m, t)
  BY InsertRowKeeps
<1>2. KeysDiffer(s, t) /\ KeysDiffer(m, t)
  BY <1>1 DEF StoreOK
<1>3. /\ Indexed(m, t)
      /\ \E r : /\ r \notin DOMAIN s.rowids /\ DOMAIN m.rowids = DOMAIN s.rowids \cup {r}
                /\ IdOfRowid(m, t, r) = KeyGiven(s, id)
                /\ Fits(row, t) => Reads(m, t, r) = row
                /\ \A q \in DOMAIN s.rowids : SameRow(m, s, t, q)
  BY InsertAddsRow
<1>4. PICK r : /\ r \notin DOMAIN s.rowids /\ DOMAIN m.rowids = DOMAIN s.rowids \cup {r}
               /\ IdOfRowid(m, t, r) = KeyGiven(s, id)
               /\ Fits(row, t) => Reads(m, t, r) = row
               /\ \A q \in DOMAIN s.rowids : SameRow(m, s, t, q)
  BY <1>3
<1>5. /\ IdOfRowid(m, t, r) \in DOMAIN Rows(m, t)
      /\ Abstract!Inserts(Rows(s, t), Rows(m, t), IdOfRowid(m, t, r))
  BY <1>2, <1>4, RowAdded
<1>6. Rows(m, t)[IdOfRowid(m, t, r)] = Reads(m, t, r)
  <2>1. Scanned(Rows(m, t), m, t) /\ r \in DOMAIN m.rowids
    BY <1>2, <1>4, RowsAre
  <2> QED
    BY ONLY <2>1 DEF Scanned
<1> QED
  BY <1>3, <1>4, <1>5, <1>6

LEMMA DeleteIsTableStep ==
    ASSUME NEW s, NEW t, NEW id, IsDeclared(t), StoreOK(s, t), Indexed(s, t),
           NEW r, r = RowidFromId(s, t, id), Chunked(t) => r \in DOMAIN s.rowids,
           NEW m, m = DeleteRow(s, t, id)
    PROVE  /\ Indexed(m, t)
           /\ r \notin DOMAIN s.rowids => Rows(m, t) = Rows(s, t)
           /\ r \in DOMAIN s.rowids =>
                /\ IdOfRowid(s, t, r) \in DOMAIN Rows(s, t)
                /\ Abstract!Deletes(Rows(s, t), Rows(m, t), IdOfRowid(s, t, r))
<1>1. StoreOK(m, t)
  BY DeleteRowKeeps
<1>2. KeysDiffer(s, t) /\ KeysDiffer(m, t)
  BY <1>1 DEF StoreOK
<1>3. /\ Indexed(m, t)
      /\ DOMAIN m.rowids = DOMAIN s.rowids \ {r}
      /\ \A q \in DOMAIN m.rowids : SameRow(m, s, t, q)
  BY DeleteRemovesRow
<1>4. r \notin DOMAIN s.rowids => Rows(m, t) = Rows(s, t)
  BY <1>2, <1>3, RowsSame
<1>5. r \in DOMAIN s.rowids =>
        /\ IdOfRowid(s, t, r) \in DOMAIN Rows(s, t)
        /\ Abstract!Deletes(Rows(s, t), Rows(m, t), IdOfRowid(s, t, r))
  BY <1>2, <1>3, RowGone
<1> QED
  BY <1>3, <1>4, <1>5

\* INSERT OR REPLACE rewrites the row that has the key: a deletion and an
\* insertion under one key.
LEMMA ReplaceIsTableStep ==
    ASSUME NEW s, NEW t, NEW id, NEW row, IsDeclared(t), StoreOK(s, t), Indexed(s, t),
           t.pk = "int" => id \in Int \cup {None}, ReplaceRow(s, t, id, row).ok,
           NEW m, m = ReplaceRow(s, t, id, row).store
    PROVE  /\ Indexed(m, t) /\ TableStep(Rows(s, t), Rows(m, t))
           /\ Fits(row, t) => Rows(m, t) = Abstract!Written(Rows(s, t), KeyGiven(s, id), row)
<1>1. CASE ~(id # None /\ HasId(s, t, id))
  <2>1. ReplaceRow(s, t, id, row) = InsertRow(s, t, id, row)
    BY <1>1 DEF ReplaceRow
  <2>2. /\ Indexed(m, t)
        /\ KeyGiven(s, id) \in DOMAIN Rows(m, t)
        /\ Abstract!Inserts(Rows(s, t), Rows(m, t), KeyGiven(s, id))
        /\ Fits(row, t) => Rows(m, t)[KeyGiven(s, id)] = row
    BY <2>1, InsertIsTableStep
  <2>3. TableStep(Rows(s, t), Rows(m, t))
    BY <2>2 DEF TableStep
  <2> QED
    BY <2>2, <2>3 DEF Abstract!Inserts
<1>2. CASE id # None /\ HasId(s, t, id)
  <2> DEFINE r == RowidFromId(s, t, id)
             d == DeleteRow(s, t, id)
  <2>1. r \in DOMAIN s.rowids /\ IdOfRowid(s, t, r) = id
    BY <1>2 DEF HasId, RowidFromId, IdOfRowid
  <2>2. ReplaceRow(s, t, id, row) = InsertRow(d, t, id, row)
    BY <1>2 DEF ReplaceRow
  <2>3. StoreOK(d, t)
    BY <2>1, DeleteRowKeeps
  <2>4. /\ Indexed(d, t)
        /\ id \in DOMAIN Rows(s, t)
        /\ Abstract!Deletes(Rows(s, t), Rows(d, t), id)
    BY <2>1, DeleteIsTableStep
  <2> HIDE DEF d, r
  <2>5. /\ Indexed(m, t) /\ id \in DOMAIN Rows(m, t)
        /\ Abstract!Inserts(Rows(d, t), Rows(m, t), id)
        /\ Fits(row, t) => Rows(m, t)[id] = row
    <3>1. KeyGiven(d, id) = id
      BY <1>2 DEF KeyGiven
    <3> QED
      BY <2>2, <2>3, <2>4, <3>1, InsertIsTableStep
  <2>6. Abstract!Rewrites(Rows(s, t), Rows(m, t), id)
    <3>1. Rows(d, t) = Abstract!Removed(Rows(s, t), id)
      BY <2>4 DEF Abstract!Deletes
    <3>2. Rows(m, t) = Abstract!Written(Rows(d, t), id, Rows(m, t)[id])
      BY <2>5 DEF Abstract!Inserts
    <3>3. \A was, row1 : id \in DOMAIN was =>
            Abstract!Written(Abstract!Removed(was, id), id, row1) = Abstract!Written(was, id, row1)
      BY DEF Abstract!Written, Abstract!Removed
    <3> QED
      BY <2>4, <3>1, <3>2, <3>3 DEF Abstract!Rewrites
  <2>7. TableStep(Rows(s, t), Rows(m, t))
    BY <2>5, <2>6 DEF TableStep
  <2>8. KeyGiven(s, id) = id
    BY <1>2 DEF KeyGiven
  <2> QED
    BY <2>5, <2>6, <2>7, <2>8 DEF Abstract!Rewrites
<1> QED
  BY <1>1, <1>2

\* A column reads as an UPDATE sets it, or as before if it sets nothing.
SetTo(v, was) == IF v = None THEN was ELSE v

\* The parts of an UPDATE each change what one column of the row reads as.
LEMMA UpdateAuxReads ==
    ASSUME NEW s, NEW t, NEW v, StoreOK(s, t), NEW r \in DOMAIN s.rowids, ~t.aux => v = None,
           NEW m, m = UpdateAux(s, t, r, v)
    PROVE  /\ GetAux(m, t, r) = SetTo(v, GetAux(s, t, r))
           /\ GetVector(m, t, r) = GetVector(s, t, r)
           /\ GetPartition(m, t, r) = GetPartition(s, t, r)
           /\ GetMetadata(m, t, r) = GetMetadata(s, t, r)
<1>1. DOMAIN s = Fields /\ (t.aux => r \in DOMAIN s.aux)
  BY DEF StoreOK, RowsShape, Filled
<1>2. CASE v = None
  BY <1>2 DEF UpdateAux, SetTo
<1>3. CASE v # None
  <2>1. t.aux /\ m = [s EXCEPT !.aux = Put(@, r, v)]
    BY <1>1, <1>3 DEF UpdateAux, WriteAux
  <2>2. m.aux = Put(s.aux, r, v) /\ (\A f \in Fields \ {"aux"} : m[f] = s[f])
    BY <1>1, <2>1 DEF Fields
  <2>3. /\ m.rowids = s.rowids /\ m.chunks = s.chunks /\ m.vectors = s.vectors
        /\ m.full = s.full /\ m.graph = s.graph /\ m.meta = s.meta /\ m.text = s.text
    BY <2>2 DEF Fields
  <2>4. GetAux(m, t, r) = SetTo(v, GetAux(s, t, r))
    BY <1>3, <2>1, <2>2 DEF GetAux, SetTo, Put
  <2>5. GetVector(m, t, r) = GetVector(s, t, r) /\ GetPartition(m, t, r) = GetPartition(s, t, r)
    BY <2>3 DEF GetVector, GetPartition
  <2>6. GetMetadata(m, t, r) = GetMetadata(s, t, r)
    BY <2>3 DEF GetMetadata
  <2> QED
    BY <2>4, <2>5, <2>6
<1> QED
  BY <1>2, <1>3

\* What a metadata column may be set to.
MetadataFits(v, t) == t.meta = "text" => v \in Seq(Nat)

LEMMA UpdateMetadataReads ==
    ASSUME NEW s, NEW t, NEW v, IsDeclared(t), Chunked(t), StoreOK(s, t), t.meta # "none",
           MetadataFits(v, t), NEW r \in DOMAIN s.rowids,
           NEW c, NEW o, c = s.rowids[r].chunk, o = s.rowids[r].offset,
           NEW m, m = UpdateMetadata(s, t, r, c, o, v)
    PROVE  /\ GetMetadata(m, t, r) = v
           /\ GetVector(m, t, r) = GetVector(s, t, r)
           /\ GetPartition(m, t, r) = GetPartition(s, t, r)
           /\ GetAux(m, t, r) = GetAux(s, t, r)
<1>1. Filled(s, t) /\ ColumnsShape(s, t) /\ ChunksShape(s, t) /\ RowPlaced(s, r) /\ DOMAIN s = Fields
  BY DEF StoreOK, RowsShape, Placed
<1>2. c \in DOMAIN s.meta /\ o \in DOMAIN s.meta[c]
  BY <1>1, PlaceOf
<1>3. t.meta = "text" => (r \in DOMAIN s.text <=> s.meta[c][o].n > ViewLength)
  <2>1. t.meta = "text" => TextAgrees(s, r)
    BY <1>1 DEF Filled
  <2> QED
    BY <2>1 DEF TextAgrees, Cell
<1>4. NewMetadata(m, s, t, r, c, o, v)
  BY <1>1, <1>2, <1>3, OldMetadataIs
<1>5. /\ m.rowids = s.rowids /\ m.chunks = s.chunks /\ m.vectors = s.vectors
      /\ m.full = s.full /\ m.aux = s.aux /\ m.graph = s.graph
  BY <1>4 DEF NewMetadata, Fields
<1>6. m.meta[c][o] = Written(v, t)
  <2>1. CellSet(m.meta, s.meta, c, o, Written(v, t))
    BY <1>4 DEF NewMetadata
  <2> QED
    BY <1>2, <2>1, CellRead
<1>7. GetMetadata(m, t, r) = v
  <2>1. CASE t.meta = "text"
    <3>1. Cell(m, r) = TextView(v)
      BY <1>5, <1>6, <2>1 DEF Cell, Written
    <3>2. Len(v) > ViewLength => m.text[r] = v
      BY <1>4, <2>1 DEF NewMetadata, TextWritten
    <3>3. v \in Seq(Nat)
      BY <2>1 DEF MetadataFits
    <3> QED
      BY <2>1, <3>1, <3>2, <3>3, TextReads
  <2>2. CASE t.meta # "text"
    BY <1>5, <1>6, <2>2 DEF GetMetadata, Written
  <2> QED
    BY <2>1, <2>2
<1>8. /\ GetVector(m, t, r) = GetVector(s, t, r)
      /\ GetPartition(m, t, r) = GetPartition(s, t, r)
      /\ GetAux(m, t, r) = GetAux(s, t, r)
  BY <1>5 DEF GetVector, GetPartition, GetAux
<1> QED
  BY <1>7, <1>8

LEMMA UpdateVectorReads ==
    ASSUME NEW s, NEW t, NEW v, IsDeclared(t), StoreOK(s, t), NEW r \in DOMAIN s.rowids,
           v # None => t.index # "diskann", NEW m, m = UpdateVector(s, t, r, v)
    PROVE  /\ GetVector(m, t, r) = SetTo(v, GetVector(s, t, r))
           /\ GetPartition(m, t, r) = GetPartition(s, t, r)
           /\ GetMetadata(m, t, r) = GetMetadata(s, t, r)
           /\ GetAux(m, t, r) = GetAux(s, t, r)
<1>1. PICK c, o : c = s.rowids[r].chunk /\ o = s.rowids[r].offset
  OBVIOUS
<1>2. DOMAIN s = Fields
  BY DEF StoreOK, RowsShape
<1>3. CASE v = None
  BY <1>3 DEF UpdateVector, SetTo
<1>4. CASE v # None /\ t.index = "flat"
  <2>1. c \in DOMAIN s.vectors /\ o \in DOMAIN s.vectors[c]
    <3>1. ColumnsShape(s, t) /\ ChunksShape(s, t) /\ RowPlaced(s, r)
      BY <1>4 DEF StoreOK, Placed, Chunked
    <3> QED
      BY <1>1, <1>4, <3>1, PlaceOf
  <2>2. m = [s EXCEPT !.vectors[c][o] = v]
    BY <1>1, <1>4 DEF UpdateVector, WriteVector
  <2>3. /\ \A f \in Fields \ {"vectors"} : m[f] = s[f]
        /\ m.vectors = [s.vectors EXCEPT ![c][o] = v]
    BY <1>2, <2>2 DEF Fields
  <2>4. /\ m.rowids = s.rowids /\ m.chunks = s.chunks
        /\ m.meta = s.meta /\ m.text = s.text /\ m.aux = s.aux
    BY <2>3 DEF Fields
  <2>5. m.vectors[c][o] = v
    BY <2>1, <2>3
  <2>6. GetVector(m, t, r) = SetTo(v, GetVector(s, t, r))
    BY <1>1, <1>4, <2>4, <2>5 DEF GetVector, SetTo
  <2> QED
    BY <2>4, <2>6 DEF GetPartition, GetMetadata, GetAux
<1>5. CASE v # None /\ t.index = "rescore"
  <2>1. m = [s EXCEPT !.coarse[c][o] = RescoreQuantize(v), !.full = Put(@, r, v)]
    BY <1>1, <1>5 DEF UpdateVector, RescoreWrite
  <2>2. /\ \A f \in Fields \ {"coarse", "full"} : m[f] = s[f]
        /\ m.full = Put(s.full, r, v)
    BY <1>2, <2>1 DEF Fields
  <2>3. /\ m.rowids = s.rowids /\ m.chunks = s.chunks
        /\ m.meta = s.meta /\ m.text = s.text /\ m.aux = s.aux
    BY <2>2 DEF Fields
  <2>4. GetVector(m, t, r) = SetTo(v, GetVector(s, t, r))
    BY <1>5, <2>2 DEF GetVector, SetTo, Put
  <2> QED
    BY <2>3, <2>4 DEF GetPartition, GetMetadata, GetAux
<1> QED
  BY <1>3, <1>4, <1>5 DEF IsDeclared

\* An UPDATE sets no column the table does not have.
ChangeFits(change, t) ==
    /\ t.meta = "none" => change.meta = None
    /\ change.meta = None \/ MetadataFits(change.meta, t)
    /\ ~t.aux => change.aux = None

\* The row updated reads as the columns set, the others as before.
LEMMA UpdatedRowReads ==
    ASSUME NEW s, NEW t, NEW id, NEW newId, NEW change, IsDeclared(t), StoreOK(s, t),
           ChangeFits(change, t), NEW r \in DOMAIN s.rowids, r = RowidFromId(s, t, id),
           UpdateRow(s, t, id, newId, change).ok,
           NEW m, m = UpdateRow(s, t, id, newId, change).store
    PROVE  Reads(m, t, r) = Abstract!Changed(Reads(s, t, r), change)
<1>1. PICK c, o : c = s.rowids[r].chunk /\ o = s.rowids[r].offset
  OBVIOUS
<1> DEFINE s1 == UpdateAux(s, t, r, change.aux)
           w == UpdateMetadata(s1, t, r, c, o, change.meta)
           s2 == IF change.meta = None THEN s1 ELSE w
<1>2. m = UpdateVector(s2, t, r, change.vector)
  BY <1>1 DEF UpdateRow, UpdateMetadata
<1>3. change.part = None /\ (change.vector # None => t.index # "diskann")
  BY DEF UpdateRow
<1>4. StoreOK(s1, t) /\ s1.rowids = s.rowids
  BY UpdateAuxKeeps
<1>5. /\ GetAux(s1, t, r) = SetTo(change.aux, GetAux(s, t, r))
      /\ GetVector(s1, t, r) = GetVector(s, t, r)
      /\ GetPartition(s1, t, r) = GetPartition(s, t, r)
      /\ GetMetadata(s1, t, r) = GetMetadata(s, t, r)
  BY UpdateAuxReads DEF ChangeFits
<1> HIDE DEF s1
<1>6. /\ StoreOK(s2, t) /\ s2.rowids = s.rowids
      /\ GetMetadata(s2, t, r) = SetTo(change.meta, GetMetadata(s, t, r))
      /\ GetVector(s2, t, r) = GetVector(s1, t, r)
      /\ GetPartition(s2, t, r) = GetPartition(s1, t, r)
      /\ GetAux(s2, t, r) = GetAux(s1, t, r)
  <2>1. CASE change.meta = None
    BY <1>4, <1>5, <2>1 DEF SetTo
  <2>2. CASE change.meta # None
    <3>1. t.meta # "none" /\ Chunked(t) /\ MetadataFits(change.meta, t)
      BY <2>2 DEF ChangeFits, IsDeclared, Chunked
    <3>2. /\ StoreOK(s1, t) /\ r \in DOMAIN s1.rowids
          /\ c = s1.rowids[r].chunk /\ o = s1.rowids[r].offset
      BY <1>1, <1>4
    <3> HIDE DEF s2
    <3>3. StoreOK(w, t) /\ w.rowids = s1.rowids
      BY ONLY IsDeclared(t), <3>1, <3>2, UpdateMetadataKeeps
    <3>4. /\ GetMetadata(w, t, r) = change.meta
          /\ GetVector(w, t, r) = GetVector(s1, t, r)
          /\ GetPartition(w, t, r) = GetPartition(s1, t, r)
          /\ GetAux(w, t, r) = GetAux(s1, t, r)
      BY ONLY IsDeclared(t), <3>1, <3>2, UpdateMetadataReads
    <3>5. s2 = w
      BY <2>2 DEF s2
    <3> QED
      BY <1>4, <2>2, <3>3, <3>4, <3>5 DEF SetTo
  <2> QED
    BY <2>1, <2>2
<1> HIDE DEF s2
<1>7. /\ GetVector(m, t, r) = SetTo(change.vector, GetVector(s2, t, r))
      /\ GetPartition(m, t, r) = GetPartition(s2, t, r)
      /\ GetMetadata(m, t, r) = GetMetadata(s2, t, r)
      /\ GetAux(m, t, r) = GetAux(s2, t, r)
  BY <1>2, <1>3, <1>6, UpdateVectorReads
<1>8. /\ GetVector(m, t, r) = SetTo(change.vector, GetVector(s, t, r))
      /\ GetPartition(m, t, r) = SetTo(change.part, GetPartition(s, t, r))
      /\ GetMetadata(m, t, r) = SetTo(change.meta, GetMetadata(s, t, r))
      /\ GetAux(m, t, r) = SetTo(change.aux, GetAux(s, t, r))
  BY <1>3, <1>5, <1>6, <1>7 DEF SetTo
<1>9. Abstract!Changed(Reads(s, t, r), change) =
        [vector |-> SetTo(change.vector, GetVector(s, t, r)),
         part |-> SetTo(change.part, GetPartition(s, t, r)),
         meta |-> SetTo(change.meta, GetMetadata(s, t, r)),
         aux |-> SetTo(change.aux, GetAux(s, t, r))]
  BY DEF Abstract!Changed, Reads, SetTo
<1> QED
  BY <1>8, <1>9 DEF Reads

LEMMA UpdateIsTableStep ==
    ASSUME NEW s, NEW t, NEW id, NEW newId, NEW change, IsDeclared(t), StoreOK(s, t),
           Indexed(s, t), Chunked(t) => RowidFromId(s, t, id) \in DOMAIN s.rowids,
           NEW m, m = UpdateRow(s, t, id, newId, change).store
    PROVE  Indexed(m, t) /\ TableStep(Rows(s, t), Rows(m, t))
<1> DEFINE r == RowidFromId(s, t, id)
<1>1. StoreOK(m, t)
  BY UpdateRowKeeps
<1>2. KeysDiffer(s, t) /\ KeysDiffer(m, t)
  BY <1>1 DEF StoreOK
<1>3. /\ m.rowids = s.rowids /\ (~Chunked(t) => m.graph = s.graph)
      /\ \A q \in DOMAIN s.rowids : q # r => SameRow(m, s, t, q)
  BY UpdateRowKeepsOthers
<1> HIDE DEF r
<1>4. Indexed(m, t)
  BY <1>3 DEF Indexed, Chunked
<1>5. CASE r \notin DOMAIN s.rowids
  <2>1. Rows(m, t) = Rows(s, t)
    BY <1>2, <1>3, <1>5, RowsSame
  <2> QED
    BY <1>4, <2>1 DEF TableStep
<1>6. CASE r \in DOMAIN s.rowids
  <2>1. IdOfRowid(m, t, r) = IdOfRowid(s, t, r)
    BY <1>3 DEF IdOfRowid
  <2>2. /\ IdOfRowid(s, t, r) \in DOMAIN Rows(m, t)
        /\ Abstract!Rewrites(Rows(s, t), Rows(m, t), IdOfRowid(s, t, r))
    BY <1>2, <1>3, <1>6, <2>1, RowRewritten
  <2> QED
    BY <1>4, <2>2 DEF TableStep
<1> QED
  BY <1>5, <1>6

-----------------------------------------------------------------------------
IndexInv == schema # Absent => Indexed(store, TableOf[schema.args])

\* Commands change nothing that a scan reads.
LEMMA KindReads ==
    ASSUME NEW s, NEW t, NEW u, SameKind(t, u)
    PROVE  Rows(s, t) = Rows(s, u) /\ (Indexed(s, t) <=> Indexed(s, u))
<1>1. t.pk = u.pk /\ t.part = u.part /\ t.meta = u.meta /\ t.aux = u.aux /\ t.index = u.index
  BY SameKindIs
<1>2. \A id : RowidFromId(s, t, id) = RowidFromId(s, u, id)
  BY <1>1 DEF RowidFromId
<1>3. \A r : IdOfRowid(s, t, r) = IdOfRowid(s, u, r)
  BY <1>1 DEF IdOfRowid
<1>4. \A r : Reads(s, t, r) = Reads(s, u, r)
  <2>1. \A r : GetVector(s, t, r) = GetVector(s, u, r)
    BY <1>1 DEF GetVector
  <2>2. \A r : GetPartition(s, t, r) = GetPartition(s, u, r)
    BY <1>1 DEF GetPartition
  <2>3. \A r : GetMetadata(s, t, r) = GetMetadata(s, u, r)
    BY <1>1 DEF GetMetadata
  <2>4. \A r : GetAux(s, t, r) = GetAux(s, u, r)
    BY <1>1 DEF GetAux
  <2> QED
    BY <2>1, <2>2, <2>3, <2>4 DEF Reads
<1> DEFINE ids == {IdOfRowid(s, t, r) : r \in DOMAIN s.rowids}
<1>5. Rows(s, t) = [id \in ids |-> Reads(s, t, RowidFromId(s, t, id))]
  BY DEF Rows, Reads
<1>6. Rows(s, u) = [id \in ids |-> Reads(s, u, RowidFromId(s, u, id))]
  <2>1. ids = {IdOfRowid(s, u, r) : r \in DOMAIN s.rowids}
    BY <1>3
  <2> QED
    BY <2>1 DEF Rows, Reads
<1> HIDE DEF ids
<1>7. Rows(s, t) = Rows(s, u)
  BY <1>2, <1>4, <1>5, <1>6
<1> QED
  BY <1>1, <1>7 DEF Indexed

\* What VecTable sees of a table.
LEMMA SeenRows ==
    ASSUME IInv, IndexInv, table # Absent
    PROVE  /\ schema # Absent
           /\ Rows(store, table) = Rows(store, TableOf[schema.args])
           /\ Indexed(store, table)
           /\ IsDeclared(table) /\ StoreOK(store, table)
           /\ table.pk = "int" => KeysOf(TableOf[schema.args]) \subseteq Int
<1>1. SameKind(table, TableOf[schema.args])
  BY DEF IInv, TableInv
<1>2. schema # Absent /\ IsDeclared(table) /\ StoreOK(store, table)
      /\ (table.pk = "int" => KeysOf(TableOf[schema.args]) \subseteq Int)
  BY SchemaIsThere
<1> QED
  BY <1>1, <1>2, KindReads DEF IndexInv

\* A step that leaves the declaration and the contents alone changes no row.
LEMMA RowsStay ==
    ASSUME IndexInv, store' = store, schema # Absent, schema' # Absent,
           schema'.args = schema.args
    PROVE  IndexInv' /\ UNCHANGED Abstract!vars
<1>1. Rows(store, TableOf[schema.args])' = Rows(store, TableOf[schema.args])
  BY DEF Rows
<1> QED
  BY <1>1 DEF IndexInv, Abstract!vars

\* A statement that is a step of a table to a full scan.
LEMMA StatementIsStep ==
    ASSUME IInv, IndexInv, table # Absent, NEW result, Statement(result),
           Indexed(result.store, table),
           TableStep(Rows(store, table), Rows(result.store, table))
    PROVE  IndexInv' /\ [Abstract!Next]_(Abstract!vars)
<1>1. store' = result.store /\ schema' = schema /\ table' = table
  BY DEF Statement
<1>2. /\ schema # Absent
      /\ Rows(store, table) = Rows(store, TableOf[schema.args])
  BY SeenRows
<1>3. /\ Rows(store', table) = Rows(store', TableOf[schema.args])
      /\ Indexed(store', TableOf[schema.args])
  BY <1>1, KindReads DEF IInv, TableInv
<1>4. IndexInv'
  BY <1>1, <1>3 DEF IndexInv
<1> DEFINE was == IF schema = Absent THEN <<>> ELSE Rows(store, TableOf[schema.args])
<1>5. was = Rows(store, table)
  BY <1>2
<1>6. was' = Rows(store', table)
  BY <1>1, <1>2, <1>3
<1>7. TableStep(was, was')
  BY <1>1, <1>5, <1>6
<1>8. (schema # Absent) /\ (schema # Absent)'
  BY <1>1, <1>2
<1>9. CASE was' = was
  BY <1>4, <1>8, <1>9 DEF Abstract!vars
<1>10. CASE was' # was
  <2>1. \E key \in DOMAIN was \cup DOMAIN was' :
          \/ key \in DOMAIN was' /\ (Abstract!Inserts(was, was', key) \/ Abstract!Rewrites(was, was', key))
          \/ Abstract!Deletes(was, was', key)
    BY <1>7, <1>10 DEF TableStep
  <2>2. Abstract!Statement
    BY <1>8, <2>1 DEF Abstract!Statement
  <2> QED
    BY <1>4, <2>2 DEF Abstract!Next
<1> QED
  BY <1>4, <1>9, <1>10

\* A new table has no row.
LEMMA EmptyTable ==
    ASSUME NEW t
    PROVE  Rows(EmptyStore(t), t) = <<>> /\ Indexed(EmptyStore(t), t)
<1> DEFINE s == EmptyStore(t)
<1>1. s.rowids = <<>> /\ s.graph = EmptyIndex(t.slots)
  BY DEF EmptyStore
<1> HIDE DEF s
<1>2. DOMAIN s.rowids = {}
  BY <1>1
<1>3. Rows(s, t) = <<>>
  <2>1. {IdOfRowid(s, t, r) : r \in DOMAIN s.rowids} = {}
    BY <1>2
  <2> QED
    BY <2>1 DEF Rows
<1>4. Indexed(s, t)
  BY <1>1, <1>2 DEF Indexed, EmptyIndex, IndexFields
<1> QED
  BY <1>3, <1>4 DEF s

LEMMA CreateIsStep ==
    ASSUME IInv, IndexInv, NEW args \in Declarations, NEW n, Create(n, args)
    PROVE  IndexInv' /\ [Abstract!Next]_(Abstract!vars)
<1>1. /\ schema = Absent /\ schema' = [name |-> n, args |-> args]
      /\ table' = TableOf[args] /\ store' = EmptyStore(table')
  BY DEF Create, TableOf
<1>2. schema' # Absent /\ schema'.args = args
  <2>1. DOMAIN schema' = {"name", "args"} /\ DOMAIN Absent = {"absent"}
    BY <1>1 DEF Absent
  <2> QED
    BY <1>1, <2>1
<1>3. Rows(store', TableOf[args]) = <<>> /\ Indexed(store', TableOf[args])
  BY <1>1, EmptyTable
<1>4. IndexInv'
  BY <1>2, <1>3 DEF IndexInv
<1>5. Abstract!Create
  BY <1>1, <1>2, <1>3 DEF Abstract!Create
<1> QED
  BY <1>4, <1>5 DEF Abstract!Next

LEMMA DestroyIsStep ==
    ASSUME IInv, IndexInv, Destroy
    PROVE  IndexInv' /\ [Abstract!Next]_(Abstract!vars)
<1>1. schema # Absent /\ schema' = Absent
  BY DEF Destroy, IInv, AbsentInv
<1>2. IndexInv'
  BY <1>1 DEF IndexInv
<1>3. Abstract!Destroy
  BY <1>1 DEF Abstract!Destroy
<1> QED
  BY <1>2, <1>3 DEF Abstract!Next

LEMMA RenameIsStep ==
    ASSUME IInv, IndexInv, NEW new, Rename(new)
    PROVE  IndexInv' /\ UNCHANGED Abstract!vars
<1>1. /\ schema # Absent /\ schema' = [schema EXCEPT !.name = new] /\ store' = store
      /\ DOMAIN schema = {"name", "args"}
  BY SchemaIsThere DEF Rename
<1>2. schema' # Absent /\ schema'.args = schema.args
  <2>1. DOMAIN schema' = {"name", "args"} /\ DOMAIN Absent = {"absent"}
    BY <1>1 DEF Absent
  <2> QED
    BY <1>1, <2>1
<1> QED
  BY <1>1, <1>2, RowsStay

LEMMA InsertIsStep ==
    ASSUME IInv, IndexInv, table # Absent, NEW row,
           NEW id \in KeysOf(TableOf[schema.args]) \cup {None}, InsertStatement(id, row)
    PROVE  IndexInv' /\ [Abstract!Next]_(Abstract!vars)
<1> DEFINE result == InsertRow(store, table, id, row)
<1>1. Statement(result) /\ result.ok
  BY DEF InsertStatement, Statement
<1>2. /\ Indexed(store, table) /\ IsDeclared(table) /\ StoreOK(store, table)
      /\ table.pk = "int" => id \in Int \cup {None}
  BY SeenRows
<1>3. /\ Indexed(result.store, table)
      /\ KeyGiven(store, id) \in DOMAIN Rows(result.store, table)
      /\ Abstract!Inserts(Rows(store, table), Rows(result.store, table), KeyGiven(store, id))
  BY <1>1, <1>2, InsertIsTableStep
<1> HIDE DEF result
<1>4. TableStep(Rows(store, table), Rows(result.store, table))
  BY <1>3 DEF TableStep
<1> QED
  BY <1>1, <1>3, <1>4, StatementIsStep

LEMMA ReplaceIsStep ==
    ASSUME IInv, IndexInv, table # Absent, NEW row, NEW id \in KeysOf(TableOf[schema.args]),
           ReplaceStatement(id, row)
    PROVE  IndexInv' /\ [Abstract!Next]_(Abstract!vars)
<1> DEFINE result == ReplaceRow(store, table, id, row)
<1>1. Statement(result) /\ result.ok
  BY DEF ReplaceStatement, Statement
<1>2. /\ Indexed(store, table) /\ IsDeclared(table) /\ StoreOK(store, table)
      /\ table.pk = "int" => id \in Int \cup {None}
  BY SeenRows
<1>3. Indexed(result.store, table) /\ TableStep(Rows(store, table), Rows(result.store, table))
  BY <1>1, <1>2, ReplaceIsTableStep
<1> HIDE DEF result
<1> QED
  BY <1>1, <1>3, StatementIsStep

LEMMA UpdateIsStep ==
    ASSUME IInv, IndexInv, table # Absent, NEW id, NEW newId, NEW change,
           UpdateByKey(id, newId, change) \/ UpdateByScan(id, newId, change)
    PROVE  IndexInv' /\ [Abstract!Next]_(Abstract!vars)
<1> DEFINE result == UpdateRow(store, table, id, newId, change)
<1>1. Statement(result)
  BY DEF UpdateByKey, UpdateByScan
<1>2. Indexed(store, table) /\ IsDeclared(table) /\ StoreOK(store, table)
  BY SeenRows
<1>3. Chunked(table) => RowidFromId(store, table, id) \in DOMAIN store.rowids
  <2>1. CASE UpdateByKey(id, newId, change)
    BY <1>2, <2>1, FoundIsThere DEF UpdateByKey, Found
  <2>2. CASE UpdateByScan(id, newId, change)
    BY <2>2 DEF UpdateByScan, HasId, RowidFromId
  <2> QED
    BY <2>1, <2>2
<1>4. Indexed(result.store, table) /\ TableStep(Rows(store, table), Rows(result.store, table))
  BY <1>2, <1>3, UpdateIsTableStep
<1> HIDE DEF result
<1> QED
  BY <1>1, <1>4, StatementIsStep

LEMMA DeleteIsStep ==
    ASSUME IInv, IndexInv, table # Absent, NEW id, DeleteStatement(id)
    PROVE  IndexInv' /\ [Abstract!Next]_(Abstract!vars)
<1> DEFINE m == DeleteRow(store, table, id)
           r == RowidFromId(store, table, id)
           result == [ok |-> TRUE, store |-> m]
<1>1. Statement(result) /\ result.store = m
  BY DEF DeleteStatement
<1>2. Indexed(store, table) /\ IsDeclared(table) /\ StoreOK(store, table)
  BY SeenRows
<1>3. Chunked(table) => r \in DOMAIN store.rowids
  BY <1>2, FoundIsThere DEF DeleteStatement, Found
<1>4. /\ Indexed(m, table)
      /\ r \notin DOMAIN store.rowids => Rows(m, table) = Rows(store, table)
      /\ r \in DOMAIN store.rowids =>
           /\ IdOfRowid(store, table, r) \in DOMAIN Rows(store, table)
           /\ Abstract!Deletes(Rows(store, table), Rows(m, table), IdOfRowid(store, table, r))
  BY <1>2, <1>3, DeleteIsTableStep
<1> HIDE DEF m, r
<1>5. TableStep(Rows(store, table), Rows(m, table))
  BY <1>4 DEF TableStep
<1> HIDE DEF result
<1> QED
  BY <1>1, <1>4, <1>5, StatementIsStep

\* Every step is a step of the table that VecTable describes, or changes no row.
LEMMA NextIsTableNext ==
    IInv /\ IndexInv /\ [Next]_vars => IndexInv' /\ [Abstract!Next]_(Abstract!vars)
<1> DEFINE Goal == IndexInv' /\ [Abstract!Next]_(Abstract!vars)
<1> SUFFICES ASSUME IInv, IndexInv, [Next]_vars PROVE Goal
  OBVIOUS
<1>1. ASSUME NEW args \in Declarations, NEW n \in NamesOf(TableOf[args]), Create(n, args)
      PROVE  Goal
  BY <1>1, CreateIsStep
<1>2. CASE Connect
  BY <1>2, RowsStay DEF Connect
<1>3. CASE Disconnect
  BY <1>3, RowsStay DEF Disconnect, IInv, AbsentInv
<1>4. CASE Destroy
  BY <1>4, DestroyIsStep
<1>5. ASSUME NEW new \in ForTable(NamesOf), Rename(new) PROVE Goal
  BY <1>5, RenameIsStep
<1>6. ASSUME NEW command \in ForTable(CommandsOf), HandleCommand(command[1], command[2])
      PROVE  Goal
  <2>1. table # Absent
    BY <1>6 DEF ForTable
  <2> QED
    BY <1>6, <2>1, RowsStay, SchemaIsThere DEF HandleCommand
<1>7. ASSUME NEW row \in ForTable(RowsOf), NEW id \in ForTable(KeysOf) \cup {None},
             InsertStatement(id, row)
      PROVE  Goal
  <2>1. table # Absent /\ id \in KeysOf(TableOf[schema.args]) \cup {None}
    BY <1>7 DEF ForTable
  <2> QED
    BY <1>7, <2>1, InsertIsStep
<1>8. ASSUME NEW row \in ForTable(RowsOf), NEW id \in ForTable(KeysOf), ReplaceStatement(id, row)
      PROVE  Goal
  <2>1. table # Absent /\ id \in KeysOf(TableOf[schema.args])
    BY <1>8 DEF ForTable
  <2> QED
    BY <1>8, <2>1, ReplaceIsStep
<1>9. ASSUME NEW id \in ForTable(KeysOf), NEW newId \in ForTable(KeysOf),
             NEW change \in ForTable(ChangesOf),
             UpdateByKey(id, newId, change) \/ UpdateByScan(id, newId, change)
      PROVE  Goal
  <2>1. table # Absent
    BY <1>9 DEF ForTable
  <2> QED
    BY <1>9, <2>1, UpdateIsStep
<1>10. ASSUME NEW id \in ForTable(KeysOf), DeleteStatement(id) PROVE Goal
  <2>1. table # Absent
    BY <1>10 DEF ForTable
  <2> QED
    BY <1>10, <2>1, DeleteIsStep
<1>11. CASE UNCHANGED vars
  <2>1. schema' = schema /\ store' = store
    BY <1>11 DEF vars
  <2>2. CASE schema # Absent
    BY <2>1, <2>2, RowsStay
  <2>3. CASE schema = Absent
    BY <2>1, <2>3 DEF IndexInv, Abstract!vars
  <2> QED
    BY <2>2, <2>3
<1> HIDE DEF Goal
<1> QED
  BY <1>1, <1>2, <1>3, <1>4, <1>5, <1>6, <1>7, <1>8, <1>9, <1>10, <1>11 DEF Next

\* A key that is scanned is some row's.
LEMMA ScannedKey ==
    ASSUME NEW s, NEW t, KeysDiffer(s, t), NEW id \in DOMAIN Rows(s, t)
    PROVE  \E r \in DOMAIN s.rowids : /\ id = IdOfRowid(s, t, r)
                                      /\ RowidFromId(s, t, id) = r
                                      /\ Rows(s, t)[id] = Reads(s, t, r)
<1> DEFINE rows == Rows(s, t)
<1>1. Scanned(rows, s, t)
  BY RowsAre
<1> HIDE DEF rows
<1>2. PICK r \in DOMAIN s.rowids : id = IdOfRowid(s, t, r)
  BY <1>1 DEF Scanned, rows
<1>3. rows[id] = Reads(s, t, r)
  BY <1>1, <1>2 DEF Scanned
<1>4. RowidFromId(s, t, id) = r
  BY <1>2, KeyOfRow
<1> QED
  BY <1>2, <1>3, <1>4 DEF rows

\* An UPDATE of a row that succeeds sets the columns it names.
LEMMA UpdateIsMeant ==
    ASSUME NEW s, NEW t, NEW id \in DOMAIN Rows(s, t), NEW change, IsDeclared(t), StoreOK(s, t),
           ChangeFits(change, t), UpdateRow(s, t, id, id, change).ok
    PROVE  Rows(UpdateRow(s, t, id, id, change).store, t)
             = Abstract!Written(Rows(s, t), id, Abstract!Changed(Rows(s, t)[id], change))
<1> DEFINE m == UpdateRow(s, t, id, id, change).store
<1>1. KeysDiffer(s, t)
  BY DEF StoreOK
<1>2. PICK r \in DOMAIN s.rowids : /\ id = IdOfRowid(s, t, r)
                                   /\ RowidFromId(s, t, id) = r
                                   /\ Rows(s, t)[id] = Reads(s, t, r)
  BY <1>1, ScannedKey
<1>3. StoreOK(m, t)
  BY <1>2, UpdateRowKeeps
<1>4. /\ m.rowids = s.rowids
      /\ \A q \in DOMAIN s.rowids : q # r => SameRow(m, s, t, q)
  BY <1>2, UpdateRowKeepsOthers
<1>5. Reads(m, t, r) = Abstract!Changed(Rows(s, t)[id], change)
  BY <1>2, UpdatedRowReads
<1> HIDE DEF m
<1>6. KeysDiffer(m, t) /\ IdOfRowid(m, t, r) = id
  BY <1>2, <1>3, <1>4 DEF StoreOK, IdOfRowid
<1>7. Rows(m, t) = Abstract!Written(Rows(s, t), id, Rows(m, t)[id])
  <2>1. Abstract!Rewrites(Rows(s, t), Rows(m, t), id)
    BY <1>1, <1>2, <1>4, <1>6, RowRewritten
  <2> QED
    BY <2>1 DEF Abstract!Rewrites
<1>8. Rows(m, t)[id] = Reads(m, t, r)
  <2>1. Scanned(Rows(m, t), m, t) /\ r \in DOMAIN m.rowids
    BY <1>4, <1>6, RowsAre
  <2> QED
    BY ONLY <1>6, <2>1 DEF Scanned
<1> QED
  BY <1>5, <1>7, <1>8 DEF m

\* A DELETE of a row removes it.
LEMMA DeleteIsMeant ==
    ASSUME NEW s, NEW t, NEW id \in DOMAIN Rows(s, t), IsDeclared(t), StoreOK(s, t), Indexed(s, t)
    PROVE  Rows(DeleteRow(s, t, id), t) = Abstract!Removed(Rows(s, t), id)
<1>1. PICK r \in DOMAIN s.rowids : id = IdOfRowid(s, t, r) /\ RowidFromId(s, t, id) = r
  BY ScannedKey DEF StoreOK
<1>2. Abstract!Deletes(Rows(s, t), Rows(DeleteRow(s, t, id), t), id)
  BY <1>1, DeleteIsTableStep
<1> QED
  BY <1>2 DEF Abstract!Deletes

\* What commands leave alone decides what fits a table.
LEMMA KindFits ==
    ASSUME NEW t, NEW u, SameKind(t, u)
    PROVE  \A row : Fits(row, u) => Fits(row, t)
  BY SameKindIs DEF Fits

LEMMA DeclaredChangesFit ==
    ASSUME NEW t, \A row \in RowsOf(t) : Fits(row, t), NEW change \in ChangesOf(t),
           NEW u, SameKind(u, t)
    PROVE  ChangeFits(change, u)
<1>1. /\ change.meta \in {row["meta"] : row \in RowsOf(t)} \cup {None}
      /\ change.aux \in {row["aux"] : row \in RowsOf(t)} \cup {None}
  BY DEF ChangesOf, Values
<1>2. u.meta = t.meta /\ u.aux = t.aux
  BY SameKindIs
<1> QED
  BY <1>1, <1>2 DEF ChangeFits, MetadataFits, Fits

\* Every statement that succeeds means what SQL says.
LEMMA RowsMeant ==
    ASSUME IInv, IndexInv
    PROVE  RowsAreMeant
<1> SUFFICES ASSUME table # Absent PROVE RowsAreMeant
  BY DEF RowsAreMeant, Kept
<1> DEFINE t == TableOf[schema.args]
<1>1. /\ Indexed(store, table) /\ IsDeclared(table) /\ StoreOK(store, table)
      /\ table.pk = "int" => KeysOf(t) \subseteq Int
  BY SeenRows
<1>2. /\ SameKind(table, t)
      /\ \A row \in RowsOf(t) : Fits(row, t)
  BY SchemaIsThere, DeclaredIsKind DEF IInv, TableInv
<1> HIDE DEF t
<1>3. \A row \in RowsOf(t) : Fits(row, table)
  BY <1>2, KindFits
<1>4. \A change \in ChangesOf(t) : ChangeFits(change, table)
  BY <1>2, DeclaredChangesFit
<1>5. ASSUME NEW row \in RowsOf(t), NEW id \in KeysOf(t) \cup {None}
      PROVE  /\ Becomes(InsertRow(store, table, id, row),
                        Abstract!Written(Rows(store, table), NewKey(id), row))
             /\ Becomes(ReplaceRow(store, table, id, row),
                        Abstract!Written(Rows(store, table), NewKey(id), row))
  <2>1. KeyGiven(store, id) = NewKey(id) /\ Fits(row, table)
        /\ (table.pk = "int" => id \in Int \cup {None})
    BY <1>1, <1>3 DEF KeyGiven, NewKey
  <2>2. ASSUME InsertRow(store, table, id, row).ok
        PROVE  Rows(InsertRow(store, table, id, row).store, table)
                 = Abstract!Written(Rows(store, table), NewKey(id), row)
    <3> DEFINE m == InsertRow(store, table, id, row).store
    <3>1. /\ Abstract!Inserts(Rows(store, table), Rows(m, table), NewKey(id))
          /\ Rows(m, table)[NewKey(id)] = row
      BY <1>1, <2>1, <2>2, InsertIsTableStep
    <3> QED
      BY <3>1 DEF Abstract!Inserts
  <2>3. ASSUME ReplaceRow(store, table, id, row).ok
        PROVE  Rows(ReplaceRow(store, table, id, row).store, table)
                 = Abstract!Written(Rows(store, table), NewKey(id), row)
    BY <1>1, <2>1, <2>3, ReplaceIsTableStep
  <2> QED
    BY <2>2, <2>3 DEF Becomes
<1>6. ASSUME NEW id \in DOMAIN Rows(store, table)
      PROVE  /\ Rows(DeleteRow(store, table, id), table)
                  = Abstract!Removed(Rows(store, table), id)
             /\ \A change \in ChangesOf(t) :
                  Becomes(UpdateRow(store, table, id, id, change),
                          Abstract!Written(Rows(store, table), id,
                              Abstract!Changed(Rows(store, table)[id], change)))
  BY <1>1, <1>4, DeleteIsMeant, UpdateIsMeant DEF Becomes
<1> QED
  BY <1>5, <1>6 DEF RowsAreMeant, t

\* Read by a full scan, a vec0 table is a table of rows: whatever chunks are
\* added or dropped, views and copies written, graph nodes linked and unlinked, a
\* statement inserts, rewrites or deletes one row and every other row reads as it
\* did.
THEOREM Vec0ImplementsTable == Spec => ImplementsTable
<1>1. Init => IndexInv /\ Abstract!Init
  BY DEF Init, IndexInv, Abstract!Init
<1> QED
  BY <1>1, Vec0Invariant, NextIsTableNext, PTL DEF Spec, ImplementsTable, Abstract!Spec

\* Any statement that succeeds makes of the rows what SQL says, whatever chunks,
\* views, copies and graph edges it writes.
THEOREM Vec0RowsAreMeant == Spec => []RowsAreMeant
<1>1. Init => IndexInv
  BY DEF Init, IndexInv
<1> QED
  BY <1>1, Vec0Invariant, NextIsTableNext, RowsMeant, PTL DEF Spec

-----------------------------------------------------------------------------
\* A search begins at the medoid, which must have its vector. Rowids may be
\* negative; that they have a lower bound is why a deleted medoid has a successor.
Seeded(g) ==
    /\ DOMAIN g = IndexFields
    /\ DOMAIN g.vectors \subseteq Int
    /\ \E low \in Int : \A r \in DOMAIN g.vectors : low <= r
    /\ g.medoid = None \/ g.medoid \in DOMAIN g.vectors

LEMMA SmallestIntegerExists ==
    ASSUME NEW S \in SUBSET Int, S # {}, NEW low \in Int, \A n \in S : low <= n
    PROVE  \E m \in S : \A n \in S : m <= n
<1> DEFINE T == {n - low : n \in S}
<1>1. T \in SUBSET Nat /\ T # {}
  <2>1. \A n \in S : n - low \in Nat
    OBVIOUS
  <2>2. PICK n \in S : TRUE
    OBVIOUS
  <2>3. n - low \in T
    OBVIOUS
  <2> QED
    BY <2>1, <2>3
<1>2. PICK x \in T : \A y \in T : x <= y
  <2> HIDE DEF T
  <2> QED
    BY <1>1, SmallestExists
<1>3. PICK m \in S : x = m - low
  OBVIOUS
<1>4. ASSUME NEW n \in S PROVE m <= n
  <2>1. n - low \in T
    OBVIOUS
  <2> HIDE DEF T
  <2> QED
    BY <1>2, <1>3, <2>1
<1> QED
  BY <1>4

\* diskann_search fails only for want of the medoid's vector.
LEMMA SearchSucceeds ==
    ASSUME NEW g, g.medoid \in DOMAIN g.vectors, NEW query, NEW k, NEW L
    PROVE  Search(g, query, k, L).ok
<1>1. CASE g.medoid = None
  BY <1>1 DEF Search
<1>2. CASE g.medoid # None
  <2>1. PICK list : Search(g, query, k, L) = SearchResult(list, k)
    BY <1>2, Zenon DEF Search, HasVector
  <2> QED
    BY <2>1 DEF SearchResult
<1> QED
  BY <1>1, <1>2

\* Linking a row to the graph succeeds, and only the first row becomes the medoid.
LEMMA GraphInsertSucceeds ==
    ASSUME NEW g, Seeded(g), NEW r \in DOMAIN g.vectors, NEW L
    PROVE  InsertGraph(g, r, L).ok /\ Seeded(InsertGraph(g, r, L).index)
<1> DEFINE h == InsertGraph(g, r, L).index
<1>1. SameVectors(h, g)
  BY InsertGraphKeepsVectors DEF Seeded
<1>2. CASE g.medoid = None
  <2> DEFINE n == NodeWrite(g, r, EmptyNode(g))
  <2>1. InsertGraph(g, r, L).ok /\ h = MedoidSet(n, r)
    BY <1>2 DEF InsertGraph
  <2>2. DOMAIN n = IndexFields
    BY OtherFieldsKeepVectors DEF NodeWrite, SameVectors, Seeded
  <2> HIDE DEF n
  <2>3. MedoidSet(n, r).medoid = r
    BY <2>2 DEF MedoidSet, IndexFields
  <2> QED
    BY <1>1, <2>1, <2>3 DEF Seeded, SameVectors
<1>3. CASE g.medoid # None
  <2> DEFINE hit == Search(g, g.vectors[r], L, L)
             taken == RobustPrune(g, r, hit.found)
             n == WritePrunedNeighbors(g, r, taken)
  <2>1. hit.ok
    BY <1>3, SearchSucceeds DEF Seeded
  <2>2. InsertGraph(g, r, L).ok = hit.ok /\ h = IF hit.ok THEN LinkTo(g, r, taken) ELSE g
    BY <1>3 DEF InsertGraph, LinkToFound
  <2> HIDE DEF hit, taken
  <2>3. DOMAIN n = IndexFields /\ n.medoid = g.medoid
    BY DEF WritePrunedNeighbors, NodeWrite, Seeded, IndexFields
  <2>4. PICK nodes : LinkTo(g, r, taken) = WithNodes(n, nodes)
    BY Zenon DEF LinkTo
  <2> HIDE DEF n
  <2>5. WithNodes(n, nodes).medoid = n.medoid
    BY <2>3 DEF WithNodes, IndexFields
  <2>6. h.medoid = g.medoid
    BY <2>1, <2>2, <2>3, <2>4, <2>5
  <2> HIDE DEF h
  <2>7. Seeded(h)
    BY <1>1, <2>6 DEF Seeded, SameVectors
  <2> QED
    BY <2>1, <2>2, <2>7 DEF h
<1> QED
  BY <1>2, <1>3

\* Without a buffer every row is linked as it is inserted.
LEMMA UnbufferedInsertSucceeds ==
    ASSUME NEW g, Seeded(g), NEW r \in Int, NEW v, NEW L
    PROVE  Insert(g, r, v, 0, L).ok /\ Seeded(Insert(g, r, v, 0, L).index)
<1> DEFINE stored == VectorWrite(g, r, v)
<1>1. Insert(g, r, v, 0, L) = InsertGraph(stored, r, L)
  BY DEF Insert
<1>2. /\ DOMAIN stored = IndexFields /\ stored.vectors = Put(g.vectors, r, v)
      /\ stored.medoid = g.medoid
  BY DEF VectorWrite, Seeded, IndexFields
<1> HIDE DEF stored
<1>3. DOMAIN stored.vectors = DOMAIN g.vectors \cup {r}
  BY <1>2 DEF Put
<1>4. \E low \in Int : \A q \in DOMAIN stored.vectors : low <= q
  <2>1. PICK low \in Int : \A q \in DOMAIN g.vectors : low <= q
    BY DEF Seeded
  <2>2. \A q \in DOMAIN g.vectors : q \in Int
    BY DEF Seeded
  <2>3. CASE low <= r
    BY <1>3, <2>1, <2>3
  <2>4. CASE r < low
    BY <1>3, <2>1, <2>2, <2>4
  <2> QED
    BY <2>3, <2>4
<1>5. Seeded(stored)
  BY <1>2, <1>3, <1>4 DEF Seeded
<1> QED
  BY <1>1, <1>3, <1>5, GraphInsertSucceeds

\* Deleting the medoid hands it over to a row that has a vector.
LEMMA UnbufferedDeleteKeeps ==
    ASSUME NEW g, Seeded(g), NEW r
    PROVE  Seeded(Delete(g, r, 0))
<1> DEFINE repaired == RepairReverseEdges(g, r)
           cut == NodeDelete(repaired, r)
           unlinked == VectorDelete(cut, r)
           handed == MedoidHandleDelete(unlinked, r)
<1>1. Delete(g, r, 0) \in {g, ScrubDeletedRowid(handed, r)}
  BY DEF Delete
<1>2. DOMAIN repaired = IndexFields /\ repaired.vectors = g.vectors /\ repaired.medoid = g.medoid
  <2>1. PICK nodes : repaired = WithNodes(g, nodes)
    BY Zenon DEF RepairReverseEdges
  <2> QED
    BY <2>1 DEF WithNodes, Seeded, IndexFields
<1> HIDE DEF repaired
<1>3. DOMAIN cut = IndexFields /\ cut.vectors = g.vectors /\ cut.medoid = g.medoid
  BY <1>2 DEF NodeDelete, IndexFields
<1> HIDE DEF cut
<1>4. /\ DOMAIN unlinked = IndexFields /\ DOMAIN unlinked.vectors = DOMAIN g.vectors \ {r}
      /\ unlinked.medoid = g.medoid
  BY <1>3 DEF VectorDelete, Without, IndexFields
<1> HIDE DEF unlinked
<1>5. Seeded(handed)
  <2>1. PICK low \in Int : \A q \in DOMAIN g.vectors : low <= q
    BY DEF Seeded
  <2> DEFINE left == DOMAIN unlinked.vectors \ {r}
             next == IF left = {} THEN None ELSE CHOOSE x \in left : \A y \in left : x <= y
  <2>2. left = DOMAIN unlinked.vectors /\ left \subseteq Int /\ (\A q \in left : low <= q)
    BY <1>4, <2>1 DEF Seeded
  <2>3. handed = IF unlinked.medoid # r THEN unlinked ELSE MedoidSet(unlinked, next)
    BY DEF MedoidHandleDelete
  <2> HIDE DEF left
  <2>4. next = None \/ next \in left
    <3>1. CASE left = {}
      BY <3>1
    <3>2. CASE left # {}
      <4>1. PICK x \in left : \A y \in left : x <= y
        BY <2>2, <3>2, SmallestIntegerExists
      <4> QED
        BY <3>2, <4>1
    <3> QED
      BY <3>1, <3>2
  <2> HIDE DEF next, handed
  <2>5. CASE unlinked.medoid # r
    BY <1>4, <2>2, <2>3, <2>5 DEF Seeded
  <2>6. CASE unlinked.medoid = r
    <3>1. /\ DOMAIN handed = IndexFields /\ handed.vectors = unlinked.vectors
          /\ handed.medoid = next
      BY <1>4, <2>3, <2>6 DEF MedoidSet, IndexFields
    <3> QED
      BY <2>2, <2>4, <3>1 DEF Seeded
  <2> QED
    BY <2>5, <2>6
<1> HIDE DEF handed
<1>6. /\ DOMAIN ScrubDeletedRowid(handed, r) = IndexFields
      /\ ScrubDeletedRowid(handed, r).vectors = handed.vectors
      /\ ScrubDeletedRowid(handed, r).medoid = handed.medoid
  <2>1. DOMAIN handed = IndexFields
    BY <1>5 DEF Seeded
  <2> QED
    BY <2>1 DEF ScrubDeletedRowid, IndexFields
<1> QED
  BY <1>1, <1>5, <1>6 DEF Seeded

-----------------------------------------------------------------------------
\* Ranked lists a set of numbers in increasing order.
LEMMA RankedIs ==
    ASSUME NEW k \in Nat, NEW S \in SUBSET (1..k)
    PROVE  Increasing(Ranked(S, <), Cardinality(S), S)
<1> DEFINE n == Cardinality(S)
<1>1. PICK s : Increasing(s, n, S)
  BY Enumerated
<1>2. n \in Nat
  BY Enumerated
<1> HIDE DEF n
<1>3. Ranks(s, n, S)
  BY <1>1, RankOf DEF n
<1>4. ASSUME NEW i \in 1..n PROVE (CHOOSE x \in S : RankIn(S, x) = i - 1) = s[i]
  <2>1. s[i] \in S /\ RankIn(S, s[i]) = i - 1
    BY <1>1, <1>3 DEF Increasing, Ranks
  <2>2. ASSUME NEW x \in S, RankIn(S, x) = i - 1 PROVE x = s[i]
    <3>1. PICK j \in 1..n : s[j] = x
      BY <1>3 DEF Ranks
    <3>2. RankIn(S, x) = j - 1
      BY <1>3, <3>1 DEF Ranks
    <3>3. i = j
      BY <1>2, <2>2, <3>2
    <3> QED
      BY <3>1, <3>3
  <2> QED
    BY <2>1, <2>2
<1>5. Ranked(S, <) = [i \in 1..n |-> CHOOSE x \in S : RankIn(S, x) = i - 1]
  BY Zenon DEF Ranked, RankIn, n
<1>6. [i \in 1..n |-> CHOOSE x \in S : RankIn(S, x) = i - 1] = [i \in 1..n |-> s[i]]
  BY <1>4
<1>7. s = [i \in 1..n |-> s[i]]
  BY <1>1 DEF Increasing
<1> QED
  BY <1>1, <1>5, <1>6, <1>7 DEF n

\* At picks what is at the positions, keeping the order.
Picks(part, seq, S) ==
    \E n, s : /\ n \in Nat
              /\ Increasing(s, n, S)
              /\ n = 0 <=> S = {}
              /\ part = [i \in 1..n |-> seq[s[i]]]

LEMMA AtPicks ==
    ASSUME NEW seq, NEW k \in Nat, NEW S \in SUBSET (1..k)
    PROVE  Picks(At(seq, S), seq, S)
<1> DEFINE n == Cardinality(S)
           s == Ranked(S, <)
<1>1. n \in Nat /\ IsFiniteSet(S)
  BY Enumerated
<1>2. Increasing(s, n, S)
  BY RankedIs
<1>3. n = 0 <=> S = {}
  BY <1>1, FS_EmptySet
<1>4. At(seq, S) = [i \in 1..n |-> seq[s[i]]]
  BY DEF At
<1> HIDE DEF n, s
<1> QED
  BY <1>1, <1>2, <1>3, <1>4 DEF Picks


\* The candidates a search lists: each rowid once, and, but for the rowids of E,
\* none visited that is not confirmed.
Candidates(V, T) == [rowid : V, distance : T, visited : BOOLEAN, confirmed : BOOLEAN]
IsPart(l, n, V, T, E) ==
    /\ n \in Nat
    /\ l \in [1..n -> Candidates(V, T)]
    /\ \A i, j \in 1..n : l[i].rowid = l[j].rowid => i = j
    /\ \A i \in 1..n : l[i].visited => l[i].confirmed \/ l[i].rowid \in E
IsList(l, n, V, T, E) == IsPart(l, n, V, T, E) /\ n # 0
Lists(V, T, E) == {l \in Seq(Candidates(V, T)) : IsList(l, Len(l), V, T, E)}

LEMMA ListIs ==
    ASSUME NEW V, NEW T, NEW E, NEW l
    PROVE  /\ l \in Lists(V, T, E) => IsList(l, Len(l), V, T, E)
           /\ \A n : IsList(l, n, V, T, E) => l \in Lists(V, T, E) /\ Len(l) = n
<1>1. ASSUME NEW n, IsList(l, n, V, T, E) PROVE l \in Lists(V, T, E) /\ Len(l) = n
  <2>1. n \in Nat /\ l \in [1..n -> Candidates(V, T)]
    BY <1>1 DEF IsList, IsPart
  <2>2. l \in Seq(Candidates(V, T)) /\ Len(l) = n
    <3> HIDE DEF Candidates
    <3> QED
      BY <2>1
  <2> QED
    BY <1>1, <2>2 DEF Lists
<1> QED
  BY <1>1 DEF Lists

\* InsertAt and RemoveAt, position by position.
LEMMA InsertAtIs ==
    ASSUME NEW C, NEW n \in Nat, NEW l \in [1..n -> C], NEW i \in 1..(n + 1), NEW x \in C
    PROVE  InsertAt(l, i, x) = [j \in 1..(n + 1) |->
                                   IF j < i THEN l[j] ELSE IF j = i THEN x ELSE l[j - 1]]
<1>1. l \in Seq(C) /\ Len(l) = n
  OBVIOUS
<1> QED
  BY <1>1 DEF InsertAt

LEMMA RemoveAtIs ==
    ASSUME NEW V, NEW T, NEW E, NEW n, NEW l, IsPart(l, n, V, T, E), NEW i \in 1..n
    PROVE  RemoveAt(l, i) = [j \in 1..(n - 1) |-> IF j < i THEN l[j] ELSE l[j + 1]]
<1> DEFINE C == Candidates(V, T)
<1>0. n \in Nat /\ l \in [1..n -> C]
  BY DEF IsPart
<1> HIDE DEF C
<1>1. l \in Seq(C) /\ Len(l) = n /\ i \in 1..n /\ n \in Nat
  BY <1>0
<1> QED
  BY ONLY <1>1 DEF RemoveAt

LEMMA FrontIs ==
    ASSUME NEW C, NEW n \in Nat \ {0}, NEW l \in [1..n -> C]
    PROVE  Front(l) = [j \in 1..(n - 1) |-> l[j]]
<1>1. l \in Seq(C) /\ Len(l) = n
  OBVIOUS
<1> QED
  BY <1>1 DEF Front

LEMMA InsertKeepsList ==
    ASSUME NEW V, NEW T, NEW E, NEW n, NEW l, IsPart(l, n, V, T, E), NEW i \in 1..(n + 1),
           NEW x \in Candidates(V, T), \A j \in 1..n : l[j].rowid # x.rowid,
           x.visited => x.confirmed \/ x.rowid \in E
    PROVE  IsList(InsertAt(l, i, x), n + 1, V, T, E)
<1> DEFINE m == [j \in 1..(n + 1) |-> IF j < i THEN l[j] ELSE IF j = i THEN x ELSE l[j - 1]]
<1>1. /\ n \in Nat /\ l \in [1..n -> Candidates(V, T)]
      /\ \A a, b \in 1..n : l[a].rowid = l[b].rowid => a = b
      /\ \A a \in 1..n : l[a].visited => l[a].confirmed \/ l[a].rowid \in E
  BY DEF IsPart
<1> HIDE DEF Candidates
<1>2. InsertAt(l, i, x) = m
  BY <1>1, InsertAtIs
<1>3. ASSUME NEW j \in 1..(n + 1)
      PROVE  /\ j < i => j \in 1..n /\ m[j] = l[j]
             /\ j = i => m[j] = x
             /\ j > i => j - 1 \in 1..n /\ m[j] = l[j - 1]
  BY <1>1
<1> HIDE DEF m
<1>4. m \in [1..(n + 1) -> Candidates(V, T)]
  <2>1. \A j \in 1..(n + 1) : m[j] \in Candidates(V, T)
    BY <1>1, <1>3
  <2> QED
    BY <2>1 DEF m
<1>5. ASSUME NEW a \in 1..(n + 1), NEW b \in 1..(n + 1), m[a].rowid = m[b].rowid PROVE a = b
  BY <1>1, <1>3, <1>5
<1>6. ASSUME NEW a \in 1..(n + 1), m[a].visited PROVE m[a].confirmed \/ m[a].rowid \in E
  BY <1>1, <1>3, <1>6
<1> QED
  BY <1>1, <1>2, <1>4, <1>5, <1>6 DEF IsList, IsPart

LEMMA RemoveKeepsPart ==
    ASSUME NEW V, NEW T, NEW E, NEW n, NEW l, IsPart(l, n, V, T, E), NEW i \in 1..n
    PROVE  /\ IsPart(RemoveAt(l, i), n - 1, V, T, E)
           /\ \A j \in 1..(n - 1) : RemoveAt(l, i)[j].rowid # l[i].rowid
<1> DEFINE m == [j \in 1..(n - 1) |-> IF j < i THEN l[j] ELSE l[j + 1]]
<1>1. /\ n \in Nat /\ l \in [1..n -> Candidates(V, T)]
      /\ \A a, b \in 1..n : l[a].rowid = l[b].rowid => a = b
      /\ \A a \in 1..n : l[a].visited => l[a].confirmed \/ l[a].rowid \in E
  BY DEF IsPart
<1> HIDE DEF Candidates
<1>2. RemoveAt(l, i) = m
  BY RemoveAtIs
<1>3. ASSUME NEW j \in 1..(n - 1)
      PROVE  /\ j < i => j \in 1..n /\ m[j] = l[j]
             /\ j >= i => j + 1 \in 1..n /\ m[j] = l[j + 1]
  BY <1>1
<1> HIDE DEF m
<1>4. m \in [1..(n - 1) -> Candidates(V, T)]
  <2>1. \A j \in 1..(n - 1) : m[j] \in Candidates(V, T)
    BY <1>1, <1>3
  <2> QED
    BY <2>1 DEF m
<1>5. ASSUME NEW a \in 1..(n - 1), NEW b \in 1..(n - 1), m[a].rowid = m[b].rowid PROVE a = b
  BY <1>1, <1>3, <1>5
<1>6. ASSUME NEW a \in 1..(n - 1), m[a].visited PROVE m[a].confirmed \/ m[a].rowid \in E
  BY <1>1, <1>3, <1>6
<1>7. ASSUME NEW a \in 1..(n - 1) PROVE m[a].rowid # l[i].rowid
  BY <1>1, <1>3
<1>8. n - 1 \in Nat
  BY <1>1
<1> QED
  BY <1>2, <1>4, <1>5, <1>6, <1>7, <1>8 DEF IsPart

LEMMA FrontKeepsPart ==
    ASSUME NEW V, NEW T, NEW E, NEW n, NEW l, IsPart(l, n, V, T, E), n # 0
    PROVE  /\ IsPart(Front(l), n - 1, V, T, E)
           /\ \A j \in 1..(n - 1) : j \in 1..n /\ Front(l)[j] = l[j]
<1>1. /\ n \in Nat /\ l \in [1..n -> Candidates(V, T)]
      /\ \A a, b \in 1..n : l[a].rowid = l[b].rowid => a = b
      /\ \A a \in 1..n : l[a].visited => l[a].confirmed \/ l[a].rowid \in E
  BY DEF IsPart
<1> HIDE DEF Candidates
<1>2. Front(l) = [j \in 1..(n - 1) |-> l[j]]
  BY <1>1, FrontIs
<1>3. n - 1 \in Nat /\ \A j \in 1..(n - 1) : j \in 1..n /\ l[j] \in Candidates(V, T)
  BY <1>1
<1>4. Front(l) \in [1..(n - 1) -> Candidates(V, T)] /\ \A j \in 1..(n - 1) : Front(l)[j] = l[j]
  BY <1>2, <1>3
<1> QED
  BY <1>1, <1>3, <1>4 DEF IsPart

\* Listing a candidate, again or for the first time, keeps the list one.
LEMMA CandidateInsertKeeps ==
    ASSUME NEW V, NEW T, NEW E, NEW list \in Lists(V, T, E), NEW capacity,
           NEW rowid \in V, NEW d \in T
    PROVE  CandidateInsert(list, capacity, rowid, d) \in Lists(V, T, E)
<1> DEFINE n == Len(list)
           known == {i \in 1..n : list[i].rowid = rowid}
           fresh == [rowid |-> rowid, distance |-> d, visited |-> FALSE, confirmed |-> FALSE]
<1>1. IsPart(list, n, V, T, E) /\ n \in Nat /\ n # 0
  BY ListIs DEF IsList, IsPart
<1> HIDE DEF n
<1>2. CASE known # {}
  <2> DEFINE i == CHOOSE j \in known : TRUE
             moved == [list[i] EXCEPT !.distance = d]
             before == {j \in 1..(i - 1) : list[j].distance <= d}
             at == Cardinality(before) + 1
  <2>1. i \in 1..n /\ list[i].rowid = rowid
    BY <1>2
  <2>2. CandidateInsert(list, capacity, rowid, d)
          = IF d >= list[i].distance THEN list ELSE InsertAt(RemoveAt(list, i), at, moved)
    BY <1>2 DEF CandidateInsert, n
  <2> HIDE DEF i
  <2>3. list[i] \in Candidates(V, T) /\ (list[i].visited => list[i].confirmed \/ list[i].rowid \in E)
    BY <1>1, <2>1 DEF IsPart
  <2>4. /\ moved \in Candidates(V, T) /\ moved.rowid = list[i].rowid
        /\ moved.visited => moved.confirmed \/ moved.rowid \in E
    BY <2>3 DEF Candidates
  <2> HIDE DEF moved
  <2>5. i - 1 \in Nat /\ before \in SUBSET (1..(i - 1))
    BY <1>1, <2>1
  <2> HIDE DEF before
  <2>6. at \in 1..i
    <3>1. Cardinality(before) \in 0..(i - 1)
      BY <2>5, CountIs
    <3> QED
      BY <1>1, <2>1, <3>1
  <2> HIDE DEF at
  <2>7. /\ IsPart(RemoveAt(list, i), n - 1, V, T, E)
        /\ \A j \in 1..(n - 1) : RemoveAt(list, i)[j].rowid # moved.rowid
    BY <1>1, <2>1, <2>4, RemoveKeepsPart
  <2>8. at \in 1..((n - 1) + 1)
    BY <1>1, <2>1, <2>6
  <2>9. IsList(InsertAt(RemoveAt(list, i), at, moved), (n - 1) + 1, V, T, E)
    BY <2>4, <2>7, <2>8, InsertKeepsList
  <2> QED
    BY <2>2, <2>9, ListIs
<1>3. CASE known = {}
  <2> DEFINE full == n >= capacity
             kept == IF full THEN Front(list) ELSE list
             before == {j \in 1..Len(kept) : kept[j].distance < d}
             at == Cardinality(before) + 1
  <2>1. CandidateInsert(list, capacity, rowid, d)
          = IF full /\ d >= Last(list).distance THEN list ELSE InsertAt(kept, at, fresh)
    BY <1>3 DEF CandidateInsert, n
  <2>2. \A j \in 1..n : list[j].rowid # rowid
    BY <1>3
  <2>3. \E m : IsPart(kept, m, V, T, E) /\ \A j \in 1..m : kept[j].rowid # rowid
    <3>1. CASE full
      <4>1. IsPart(kept, n - 1, V, T, E) /\ \A j \in 1..(n - 1) : j \in 1..n /\ kept[j] = list[j]
        BY <1>1, <3>1, FrontKeepsPart
      <4> QED
        BY <2>2, <4>1
    <3>2. CASE ~full
      BY <1>1, <2>2, <3>2
    <3> QED
      BY <3>1, <3>2
  <2> HIDE DEF kept
  <2>4. PICK m : IsPart(kept, m, V, T, E) /\ \A j \in 1..m : kept[j].rowid # rowid
    BY <2>3
  <2>5. m \in Nat /\ Len(kept) = m
    <3>1. m \in Nat /\ kept \in [1..m -> Candidates(V, T)]
      BY <2>4 DEF IsPart
    <3> HIDE DEF Candidates
    <3> QED
      BY <3>1
  <2>6. before \in SUBSET (1..m)
    BY <2>5
  <2> HIDE DEF before
  <2>7. at \in 1..(m + 1)
    BY <2>5, <2>6, CountIs
  <2> HIDE DEF at
  <2>8. fresh \in Candidates(V, T) /\ fresh.rowid = rowid /\ ~fresh.visited
    BY DEF Candidates
  <2> HIDE DEF fresh
  <2>9. IsList(InsertAt(kept, at, fresh), m + 1, V, T, E)
    BY <2>4, <2>7, <2>8, InsertKeepsList
  <2> QED
    BY <2>1, <2>9, ListIs
<1> QED
  BY <1>2, <1>3


\* FoldLeft over the neighbours: one after the other.
LEMMA ListNeighboursKeeps ==
    ASSUME NEW V, NEW T, NEW E, NEW list \in Lists(V, T, E), NEW capacity, NEW query,
           NEW m \in Nat, NEW edges, DOMAIN edges = 1..m,
           \A i \in 1..m : /\ edges[i].id \in V
                           /\ QuantizedDistance(Quantize(query), edges[i].q) \in T
    PROVE  ListNeighbours(list, capacity, query, edges) \in Lists(V, T, E)
<1> DEFINE L == Lists(V, T, E)
           Step(l, i) == CandidateInsert(l, capacity, edges[i].id,
                                         QuantizedDistance(Quantize(query), edges[i].q))
           F == [p \in L \X (1..m) |-> Step(p[1], p[2])]
           G(h) == [s \in SUBSET (1..m) |-> IF s = {} THEN list ELSE Step(h[s \ {Top(s)}], Top(s))]
           it == CHOOSE h : h = G(h)
<1>1. ASSUME NEW l \in L, NEW i \in 1..m PROVE Step(l, i) \in L
  BY CandidateInsertKeeps
<1>2. PICK h \in [SUBSET (1..m) -> L] : IsChain(F, list, m, h)
  <2>1. \A l \in L, i \in 1..m : F[<<l, i>>] \in L
    <3> HIDE DEF L, Step
    <3> QED
      BY <1>1
  <2> HIDE DEF F, L
  <2> QED
    BY <2>1, ChainExists DEF L
<1>3. h = G(h)
  <2> HIDE DEF L, Step
  <2>1. ASSUME NEW s \in SUBSET (1..m), s # {} PROVE F[<<h[s \ {Top(s)}], Top(s)>>] = Step(h[s \ {Top(s)}], Top(s))
    <3>1. Top(s) \in 1..m
      BY <2>1, TopIs
    <3>2. s \ {Top(s)} \in SUBSET (1..m)
      OBVIOUS
    <3> QED
      BY <3>1, <3>2
  <2> HIDE DEF F
  <2> QED
    BY <1>2, <2>1 DEF IsChain
<1>4. it = G(it)
  <2> HIDE DEF G
  <2> QED
    BY <1>3
<1>5. ListNeighbours(list, capacity, query, edges) = it[1..m]
  BY Zenon DEF ListNeighbours, FoldLeft, MapThenFoldSet, Max, Top
<1> HIDE DEF it, Step
<1>6. it[1..0] = list /\ \A i \in 1..m : it[1..i] = Step(it[1..(i - 1)], i)
  <2>1. it[1..0] = list
    BY <1>4
  <2>2. ASSUME NEW i \in 1..m PROVE it[1..i] = Step(it[1..(i - 1)], i)
    <3>1. Top(1..i) = i /\ (1..i) \ {i} = 1..(i - 1) /\ 1..i # {} /\ 1..i \in SUBSET (1..m)
      BY TopOfInterval
    <3> QED
      BY <1>4, <3>1
  <2> QED
    BY <2>1, <2>2
<1> DEFINE S == {i \in 0..m : it[1..i] \in L}
<1>7. 0 \in S /\ \A i \in 1..m : i - 1 \in S => i \in S
  <2> HIDE DEF L
  <2> QED
    BY <1>1, <1>6 DEF L
<1>8. m \in S
  <2> HIDE DEF S
  <2>1. \A i \in 0..m : i \in S
    BY <1>7, UpTo
  <2> QED
    BY <2>1
<1> QED
  BY <1>5, <1>8

-----------------------------------------------------------------------------
\* A node's slots: each is empty or a neighbour with its vector, none twice and
\* none the node itself.
Slots(V, vectors) == {None} \cup {Slot(x, vectors[x]) : x \in V}
NodeOK(node, r, V, n, vectors) ==
    /\ node \in [1..n -> Slots(V \ {r}, vectors)]
    /\ \A i, j \in 1..n : node[i] # None /\ node[j] # None /\ node[i].id = node[j].id => i = j

\* The graph is closed: a neighbour is a node, with a vector, and the medoid is one.
ClosedIndex(g) ==
    /\ DOMAIN g = IndexFields
    /\ g.slots \in Nat
    /\ DOMAIN g.nodes \subseteq DOMAIN g.vectors
    /\ \A r \in DOMAIN g.nodes : NodeOK(g.nodes[r], r, DOMAIN g.nodes, g.slots, g.vectors)
    /\ g.medoid = None <=> DOMAIN g.nodes = {}
    /\ g.medoid # None => g.medoid \in DOMAIN g.nodes

\* The distances a search for a vector meets.
Distances(V, vectors, query) ==
    {Distance(query, vectors[x]) : x \in V}
        \cup {QuantizedDistance(Quantize(query), Quantize(vectors[x])) : x \in V}

LEMMA SlotIs ==
    ASSUME NEW V, NEW vectors, NEW slot \in Slots(V, vectors), slot # None
    PROVE  slot.id \in V /\ slot = Slot(slot.id, vectors[slot.id])
           /\ slot.q = Quantize(vectors[slot.id])
  BY DEF Slots, Slot

LEMMA NextUnvisitedIs ==
    ASSUME NEW list, Len(list) \in Nat
    PROVE  /\ NextUnvisited(list) # 0 =>
                NextUnvisited(list) \in 1..Len(list) /\ ~list[NextUnvisited(list)].visited
           /\ NextUnvisited(list) = 0 => \A i \in 1..Len(list) : list[i].visited
<1> DEFINE n == Len(list)
           open == {i \in 1..n : ~list[i].visited}
<1>1. CASE open = {}
  BY <1>1 DEF NextUnvisited
<1>2. CASE open # {}
  <2>1. PICK m \in open : \A j \in open : m <= j
    <3>1. open \in SUBSET Nat
      OBVIOUS
    <3> HIDE DEF open
    <3> QED
      BY <1>2, <3>1, SmallestExists
  <2>2. NextUnvisited(list) = CHOOSE i \in open : \A j \in open : i <= j
    BY <1>2 DEF NextUnvisited
  <2> HIDE DEF open
  <2>3. NextUnvisited(list) \in open
    BY <2>1, <2>2
  <2> QED
    BY <2>3 DEF open
<1> QED
  BY <1>1, <1>2

\* Marking visits one candidate, confirming settles it.
LEMMA MarkKeeps ==
    ASSUME NEW V, NEW T, NEW list \in Lists(V, T, {}), NEW i \in 1..Len(list)
    PROVE  [list EXCEPT ![i].visited = TRUE] \in Lists(V, T, {list[i].rowid})
<1> DEFINE n == Len(list)
           marked == [list EXCEPT ![i].visited = TRUE]
<1>1. IsPart(list, n, V, T, {}) /\ n \in Nat /\ n # 0
  BY ListIs DEF IsList, IsPart
<1> HIDE DEF n
<1>2. /\ list \in [1..n -> Candidates(V, T)]
      /\ \A a, b \in 1..n : list[a].rowid = list[b].rowid => a = b
      /\ \A a \in 1..n : list[a].visited => list[a].confirmed
  BY <1>1 DEF IsPart
<1>3. i \in 1..n
  BY DEF n
<1>4. ASSUME NEW a \in 1..n
      PROVE  /\ marked[a] \in Candidates(V, T) /\ marked[a].rowid = list[a].rowid
             /\ marked[a].visited => marked[a].confirmed \/ a = i
  BY <1>2 DEF Candidates
<1>5. marked \in [1..n -> Candidates(V, T)]
  <2>1. DOMAIN marked = 1..n /\ marked = [a \in 1..n |-> marked[a]]
    BY <1>2
  <2> HIDE DEF marked
  <2> QED
    BY <1>4, <2>1
<1> HIDE DEF marked
<1>6. IsList(marked, n, V, T, {list[i].rowid})
  BY <1>1, <1>2, <1>3, <1>4, <1>5 DEF IsList, IsPart
<1> QED
  BY <1>6, ListIs DEF marked

LEMMA ConfirmKeeps ==
    ASSUME NEW V, NEW T, NEW r, NEW list \in Lists(V, T, {r})
    PROVE  Confirm(list, r) \in Lists(V, T, {})
<1> DEFINE n == Len(list)
           sure == Confirm(list, r)
<1>1. IsPart(list, n, V, T, {r}) /\ n \in Nat /\ n # 0
  BY ListIs DEF IsList, IsPart
<1>2. sure = [i \in 1..n |-> IF list[i].rowid = r THEN [list[i] EXCEPT !.confirmed = TRUE] ELSE list[i]]
  BY DEF Confirm
<1> HIDE DEF n, sure
<1>3. /\ list \in [1..n -> Candidates(V, T)]
      /\ \A a, b \in 1..n : list[a].rowid = list[b].rowid => a = b
      /\ \A a \in 1..n : list[a].visited => list[a].confirmed \/ list[a].rowid = r
  BY <1>1 DEF IsPart
<1>4. ASSUME NEW a \in 1..n
      PROVE  /\ sure[a] \in Candidates(V, T) /\ sure[a].rowid = list[a].rowid
             /\ sure[a].visited => sure[a].confirmed
  BY <1>2, <1>3 DEF Candidates
<1>5. sure \in [1..n -> Candidates(V, T)]
  BY <1>2, <1>4
<1>6. IsList(sure, n, V, T, {})
  BY <1>1, <1>3, <1>4, <1>5 DEF IsList, IsPart
<1> QED
  BY <1>6, ListIs DEF sure


\* What the search loop works on: a list of nodes, and those it has visited.
SearchStates(g, query) ==
    [list : Lists(DOMAIN g.nodes, Distances(DOMAIN g.nodes, g.vectors, query), {}),
     visited : SUBSET DOMAIN g.nodes]

\* A turn of the search keeps a list of nodes.
LEMMA SearchTurnKeeps ==
    ASSUME NEW g, ClosedIndex(g), NEW query, NEW capacity, NEW s \in SearchStates(g, query)
    PROVE  SearchTurn(g, query, capacity, s) \in SearchStates(g, query)
<1> DEFINE V == DOMAIN g.nodes
           T == Distances(V, g.vectors, query)
           i == NextUnvisited(s.list)
           current == s.list[i].rowid
           marked == [s.list EXCEPT ![i].visited = TRUE]
           node == g.nodes[current]
           S == {j \in 1..g.slots : node[j] # None /\ node[j].id \notin s.visited}
           edges == At(node, S)
           widened == ListNeighbours(marked, capacity, query, edges)
           exact == CandidateInsert(widened, capacity, current, Distance(query, g.vectors[current]))
           t == SearchTurn(g, query, capacity, s)
<1>0. s.list \in Lists(V, T, {}) /\ s.visited \in SUBSET V
  BY DEF SearchStates
<1>1. CASE i = 0
  BY <1>1 DEF SearchTurn
<1>2. CASE i # 0
  <2>1. IsPart(s.list, Len(s.list), V, T, {}) /\ Len(s.list) \in Nat
    BY <1>0, ListIs DEF IsList, IsPart
  <2>2. i \in 1..Len(s.list)
    BY <1>2, <2>1, NextUnvisitedIs
  <2>3. current \in V
    <3>1. s.list[i] \in Candidates(V, T)
      BY <2>1, <2>2 DEF IsPart
    <3> QED
      BY <3>1 DEF Candidates
  <2>4. HasNode(g, current) /\ HasVector(g, current)
    BY <2>3 DEF HasNode, HasVector, ClosedIndex
  <2>5. t = [list |-> Confirm(exact, current), visited |-> VisitedInsert(s.visited, current)]
    BY <1>2, <2>4, Zenon DEF SearchTurn
  <2>6. marked \in Lists(V, T, {current})
    BY <1>0, <2>2, MarkKeeps
  <2>7. NodeOK(node, current, V, g.slots, g.vectors) /\ g.slots \in Nat
    BY <2>3 DEF ClosedIndex
  <2> HIDE DEF node, current, marked, i, V, T
  <2>8. S \in SUBSET (1..g.slots)
    OBVIOUS
  <2>9. ASSUME NEW p \in S
        PROVE  node[p].id \in V /\ QuantizedDistance(Quantize(query), node[p].q) \in T
    <3>1. node[p] \in Slots(V \ {current}, g.vectors) /\ node[p] # None
      BY <2>7 DEF NodeOK
    <3>2. node[p].id \in V /\ node[p].q = Quantize(g.vectors[node[p].id])
      BY <3>1, SlotIs
    <3>3. QuantizedDistance(Quantize(query), Quantize(g.vectors[node[p].id])) \in T
      BY <3>2 DEF T, Distances
    <3> QED
      BY <3>2, <3>3
  <2> HIDE DEF S
  <2>e. Picks(edges, node, S)
    BY <2>7, <2>8, AtPicks
  <2> HIDE DEF edges
  <2>10. PICK m, at : /\ m \in Nat
                      /\ Increasing(at, m, S)
                      /\ edges = [j \in 1..m |-> node[at[j]]]
    BY <2>e DEF Picks
  <2>11. ASSUME NEW j \in 1..m
         PROVE  /\ edges[j].id \in V
                /\ QuantizedDistance(Quantize(query), edges[j].q) \in T
    <3>1. at[j] \in S /\ edges[j] = node[at[j]]
      BY <2>10 DEF Increasing
    <3> QED
      BY <2>9, <3>1
  <2>12. DOMAIN edges = 1..m
    BY <2>10
  <2>13. widened \in Lists(V, T, {current})
    BY <2>6, <2>10, <2>11, <2>12, ListNeighboursKeeps
  <2>14. Distance(query, g.vectors[current]) \in T
    BY <2>3 DEF T, Distances
  <2> HIDE DEF widened
  <2>15. exact \in Lists(V, T, {current})
    BY <2>3, <2>13, <2>14, CandidateInsertKeeps
  <2> HIDE DEF exact
  <2>16. Confirm(exact, current) \in Lists(V, T, {})
    BY <2>15, ConfirmKeeps
  <2>17. VisitedInsert(s.visited, current) \in SUBSET V
    BY <1>0, <2>3 DEF VisitedInsert
  <2> HIDE DEF t
  <2> QED
    BY <2>5, <2>16, <2>17 DEF V, T, t, SearchStates
<1> QED
  BY <1>1, <1>2

LEMMA SearchLoopKeeps ==
    ASSUME NEW g, ClosedIndex(g), g.medoid # None, NEW query, NEW capacity
    PROVE  SearchLoop(g, query, capacity) \in SearchStates(g, query)
<1> DEFINE D == SearchStates(g, query)
           m == MaxSearchSteps
           start == [list |-> <<Seed(g, query)>>, visited |-> {}]
           Step(s) == SearchTurn(g, query, capacity, s)
           F == [p \in D \X (1..m) |-> Step(p[1])]
           G(h) == [s \in SUBSET (1..m) |-> IF s = {} THEN start ELSE Step(h[s \ {Top(s)}])]
           it == CHOOSE h : h = G(h)
<1>0. m \in Nat
  BY StepsAssumption
<1>1. ASSUME NEW s \in D PROVE Step(s) \in D
  BY SearchTurnKeeps
<1>s. start \in D
  <2> DEFINE V == DOMAIN g.nodes
             T == Distances(V, g.vectors, query)
             l == <<Seed(g, query)>>
  <2>1. g.medoid \in V /\ Distance(query, g.vectors[g.medoid]) \in T
    BY DEF ClosedIndex, Distances
  <2> HIDE DEF V, T
  <2>2. Seed(g, query) \in Candidates(V, T) /\ ~Seed(g, query).visited
    BY <2>1 DEF Seed, Candidates
  <2>3. l = [i \in 1..1 |-> Seed(g, query)]
    OBVIOUS
  <2>4. IsList(l, 1, V, T, {})
    BY <2>2, <2>3 DEF IsList, IsPart
  <2>5. l \in Lists(V, T, {})
    BY <2>4, ListIs
  <2> HIDE DEF l
  <2> QED
    BY <2>5 DEF V, T, l, SearchStates
<1> HIDE DEF start
<1>2. PICK h \in [SUBSET (1..m) -> D] : IsChain(F, start, m, h)
  <2>1. \A s \in D, i \in 1..m : F[<<s, i>>] \in D
    <3> HIDE DEF D, Step
    <3> QED
      BY <1>1
  <2> HIDE DEF F, D, m
  <2> QED
    BY <1>0, <1>s, <2>1, ChainExists
<1>3. h = G(h)
  <2> HIDE DEF D, Step, m
  <2>1. ASSUME NEW s \in SUBSET (1..m), s # {} PROVE F[<<h[s \ {Top(s)}], Top(s)>>] = Step(h[s \ {Top(s)}])
    <3>1. Top(s) \in 1..m
      BY <1>0, <2>1, TopIs
    <3>2. s \ {Top(s)} \in SUBSET (1..m)
      OBVIOUS
    <3> QED
      BY <3>1, <3>2
  <2> HIDE DEF F
  <2> QED
    BY <1>2, <2>1 DEF IsChain
<1>4. it = G(it)
  <2> HIDE DEF G
  <2> QED
    BY <1>3
<1>5. SearchLoop(g, query, capacity) = it[1..m]
  BY Zenon DEF SearchLoop, FoldLeft, MapThenFoldSet, Max, Top, start
<1> HIDE DEF it, Step, m
<1>6. it[1..0] = start /\ \A i \in 1..m : it[1..i] = Step(it[1..(i - 1)])
  <2>1. it[1..0] = start
    BY <1>4
  <2>2. ASSUME NEW i \in 1..m PROVE it[1..i] = Step(it[1..(i - 1)])
    <3>1. Top(1..i) = i /\ (1..i) \ {i} = 1..(i - 1) /\ 1..i # {} /\ 1..i \in SUBSET (1..m)
      BY <1>0, TopOfInterval
    <3> QED
      BY <1>4, <3>1
  <2> QED
    BY <2>1, <2>2
<1> DEFINE S == {i \in 0..m : it[1..i] \in D}
<1>7. 0 \in S /\ \A i \in 1..m : i - 1 \in S => i \in S
  <2> HIDE DEF D
  <2> QED
    BY <1>0, <1>1, <1>6, <1>s
<1>8. m \in S
  <2> HIDE DEF S
  <2>1. \A i \in 0..m : i \in S
    BY <1>0, <1>7, UpTo
  <2> QED
    BY <1>0, <2>1
<1> QED
  BY <1>5, <1>8


\* Any candidates, each rowid once.
Parts(V, T) == UNION {{l \in [1..n -> Candidates(V, T)] : IsPart(l, n, V, T, V)} : n \in Nat}

\* What being in Parts says.
LEMMA PartIs ==
    ASSUME NEW V, NEW T, NEW l
    PROVE  /\ l \in Parts(V, T) => \E n \in Nat : IsPart(l, n, V, T, V)
           /\ \A n : IsPart(l, n, V, T, V) => l \in Parts(V, T) /\ Len(l) = n
<1>1. ASSUME NEW n, IsPart(l, n, V, T, V) PROVE l \in Parts(V, T) /\ Len(l) = n
  <2>1. n \in Nat /\ l \in [1..n -> Candidates(V, T)]
    BY <1>1 DEF IsPart
  <2>2. Len(l) = n
    <3> HIDE DEF Candidates
    <3> QED
      BY <2>1
  <2> QED
    BY <1>1, <2>1, <2>2 DEF Parts
<1> QED
  BY <1>1 DEF Parts

\* A list's candidates are such, whatever a search has made of them.
LEMMA PartWidens ==
    ASSUME NEW V, NEW T, NEW E, NEW l, NEW n, IsPart(l, n, V, T, E), NEW W, V \subseteq W
    PROVE  IsPart(l, n, W, T, W)
<1>1. ASSUME NEW c \in Candidates(V, T) PROVE c \in Candidates(W, T) /\ c.rowid \in W
  BY DEF Candidates
<1> QED
  BY <1>1 DEF IsPart

\* Part of a sequence of candidates.
LEMMA PickKeepsPart ==
    ASSUME NEW V, NEW T, NEW l, NEW n, IsPart(l, n, V, T, V), NEW S \in SUBSET (1..n),
           NEW p, Picks(p, l, S)
    PROVE  \E m \in Nat : /\ IsPart(p, m, V, T, V)
                          /\ \A i \in 1..m : \E j \in S : p[i] = l[j]
                          /\ m = 0 <=> S = {}
<1>1. PICK m, at : /\ m \in Nat
                   /\ Increasing(at, m, S)
                   /\ m = 0 <=> S = {}
                   /\ p = [i \in 1..m |-> l[at[i]]]
  BY DEF Picks
<1>2. at \in [1..m -> S] /\ \A a, b \in 1..m : a < b => at[a] < at[b]
  BY <1>1 DEF Increasing
<1>3. /\ n \in Nat /\ l \in [1..n -> Candidates(V, T)]
      /\ \A a, b \in 1..n : l[a].rowid = l[b].rowid => a = b
      /\ \A a \in 1..n : l[a].visited => l[a].confirmed \/ l[a].rowid \in V
  BY DEF IsPart
<1> HIDE DEF Candidates
<1>4. ASSUME NEW i \in 1..m PROVE at[i] \in S /\ at[i] \in 1..n /\ p[i] = l[at[i]]
  BY <1>1, <1>2
<1>5. p \in [1..m -> Candidates(V, T)]
  BY <1>1, <1>3, <1>4
<1>6. ASSUME NEW a \in 1..m, NEW b \in 1..m, p[a].rowid = p[b].rowid PROVE a = b
  <2>1. at[a] = at[b]
    BY <1>3, <1>4, <1>6
  <2>2. ~(a < b) /\ ~(b < a)
    BY <1>2, <1>4, <2>1
  <2> QED
    BY <1>1, <2>2
<1>7. ASSUME NEW a \in 1..m, p[a].visited PROVE p[a].confirmed \/ p[a].rowid \in V
  BY <1>3, <1>4, <1>7
<1>8. IsPart(p, m, V, T, V)
  BY <1>1, <1>5, <1>6, <1>7 DEF IsPart
<1> QED
  BY <1>1, <1>4, <1>8

\* What a search of a closed index finds are nodes, none twice.
LEMMA SearchFinds ==
    ASSUME NEW g, ClosedIndex(g), NEW query, NEW k, NEW size
    PROVE  /\ Search(g, query, k, size).ok
           /\ Search(g, query, k, size).found
                \in Parts(DOMAIN g.nodes, Distances(DOMAIN g.nodes, g.vectors, query))
<1> DEFINE V == DOMAIN g.nodes
           T == Distances(V, g.vectors, query)
           capacity == IF size < k THEN k ELSE size
           list == SearchLoop(g, query, capacity).list
<1>1. CASE g.medoid = None
  <2>1. Search(g, query, k, size) = [ok |-> TRUE, ended |-> TRUE, found |-> <<>>]
    BY <1>1 DEF Search
  <2>2. IsPart(<<>>, 0, V, T, V)
    BY DEF IsPart
  <2> QED
    BY <2>1, <2>2, PartIs
<1>2. CASE g.medoid # None
  <2>1. HasVector(g, g.medoid)
    BY <1>2 DEF ClosedIndex, HasVector
  <2>2. Search(g, query, k, size) = SearchResult(list, k)
    BY <1>2, <2>1, Zenon DEF Search
  <2>3. list \in Lists(V, T, {})
    BY <1>2, SearchLoopKeeps DEF SearchStates
  <2> HIDE DEF list, V, T
  <2>4. IsPart(list, Len(list), V, T, {}) /\ Len(list) \in Nat
    BY <2>3, ListIs DEF IsList, IsPart
  <2> DEFINE found(i) == {j \in 1..i : list[j].confirmed}
             S == {i \in found(Len(list)) : Cardinality(found(i)) <= k}
             first == At(list, S)
  <2>5. SearchResult(list, k) = [ok |-> TRUE, ended |-> NextUnvisited(list) = 0, found |-> first]
    BY Zenon DEF SearchResult, FirstConfirmed
  <2>6. IsPart(list, Len(list), V, T, V)
    BY <2>4, PartWidens
  <2>7. S \in SUBSET (1..Len(list))
    OBVIOUS
  <2> HIDE DEF S
  <2>8. Picks(first, list, S)
    BY <2>4, <2>7, AtPicks
  <2> HIDE DEF first
  <2>9. \E m \in Nat : IsPart(first, m, V, T, V)
    BY <2>6, <2>7, <2>8, PickKeepsPart
  <2>10. first \in Parts(V, T)
    BY <2>9, PartIs
  <2> QED
    BY <2>2, <2>5, <2>10 DEF V, T
<1> QED
  BY <1>1, <1>2


\* Sorting lists the candidates it is given, each once.
LEMMA SortKeepsPart ==
    ASSUME NEW V, NEW T, NEW cands \in Parts(V, T)
    PROVE  SortByDistance(cands) \in Parts(V, T)
<1> DEFINE C == Candidates(V, T)
           L == UNION {[1..n -> C] : n \in Nat}
           at(l, c) == Cardinality({i \in 1..Len(l) : l[i].distance <= c.distance}) + 1
           Step(l, i) == InsertAt(l, at(l, cands[i]), cands[i])
           Ids(i) == {cands[j].rowid : j \in 1..i}
<1>0. PICK m \in Nat : IsPart(cands, m, V, T, V)
  BY PartIs
<1>c. cands \in [1..m -> C] /\ \A i, j \in 1..m : cands[i].rowid = cands[j].rowid => i = j
  BY <1>0 DEF IsPart
<1> DEFINE F == [p \in L \X (1..m) |-> Step(p[1], p[2])]
           G(h) == [s \in SUBSET (1..m) |-> IF s = {} THEN <<>> ELSE Step(h[s \ {Top(s)}], Top(s))]
           it == CHOOSE h : h = G(h)
<1>a. ASSUME NEW n \in Nat, NEW l \in [1..n -> C], NEW i \in 1..m
      PROVE  at(l, cands[i]) \in 1..(n + 1)
  <2> HIDE DEF C
  <2>1. Len(l) = n
    OBVIOUS
  <2> DEFINE before == {j \in 1..n : l[j].distance <= cands[i].distance}
  <2>2. before \in SUBSET (1..n)
    OBVIOUS
  <2> HIDE DEF before
  <2>3. Cardinality(before) \in 0..n
    BY <2>2, CountIs
  <2> QED
    BY <2>1, <2>3 DEF before
<1>1. ASSUME NEW l \in L, NEW i \in 1..m PROVE Step(l, i) \in L
  <2>1. PICK n \in Nat : l \in [1..n -> C]
    OBVIOUS
  <2> DEFINE p == at(l, cands[i])
             w == [j \in 1..(n + 1) |-> IF j < p THEN l[j] ELSE IF j = p THEN cands[i] ELSE l[j - 1]]
  <2>2. p \in 1..(n + 1) /\ cands[i] \in C
    BY <1>a, <1>c, <2>1
  <2> HIDE DEF p, C
  <2>3. InsertAt(l, p, cands[i]) = w
    <3> DEFINE x == cands[i]
    <3>1. n \in Nat /\ l \in [1..n -> C] /\ p \in 1..(n + 1) /\ x \in C
      BY <2>1, <2>2
    <3> HIDE DEF x
    <3>2. InsertAt(l, p, x) = [j \in 1..(n + 1) |-> IF j < p THEN l[j] ELSE IF j = p THEN x ELSE l[j - 1]]
      <4>1. l \in Seq(C) /\ Len(l) = n
        BY ONLY <3>1
      <4> QED
        BY ONLY <3>1, <4>1 DEF InsertAt
    <3> QED
      BY <3>2 DEF x
  <2>4. w \in [1..(n + 1) -> C]
    <3>1. ASSUME NEW j \in 1..(n + 1) PROVE w[j] \in C
      BY <2>1, <2>2
    <3> QED
      BY <3>1
  <2>5. n + 1 \in Nat
    OBVIOUS
  <2> QED
    BY <2>3, <2>4, <2>5 DEF p
<1>b. <<>> \in L
  <2>1. <<>> \in [1..0 -> C]
    OBVIOUS
  <2> QED
    BY <2>1
<1>2. PICK h \in [SUBSET (1..m) -> L] : IsChain(F, <<>>, m, h)
  <2>1. \A l \in L, i \in 1..m : F[<<l, i>>] \in L
    <3> HIDE DEF L, Step
    <3> QED
      BY <1>1
  <2> HIDE DEF F, L
  <2> QED
    BY <1>b, <2>1, ChainExists
<1>3. h = G(h)
  <2> HIDE DEF L, Step
  <2>1. ASSUME NEW s \in SUBSET (1..m), s # {} PROVE F[<<h[s \ {Top(s)}], Top(s)>>] = Step(h[s \ {Top(s)}], Top(s))
    <3>1. Top(s) \in 1..m
      BY <2>1, TopIs
    <3>2. s \ {Top(s)} \in SUBSET (1..m)
      OBVIOUS
    <3> QED
      BY <3>1, <3>2
  <2> HIDE DEF F
  <2> QED
    BY <1>2, <2>1 DEF IsChain
<1>4. it = G(it)
  <2> HIDE DEF G
  <2> QED
    BY <1>3
<1>d. DOMAIN cands = 1..m
  BY <1>c
<1>5. SortByDistance(cands) = it[1..m]
  BY <1>d, Zenon DEF SortByDistance, FoldLeft, MapThenFoldSet, Max, Top
<1> HIDE DEF it, Step
<1>6. it[1..0] = <<>> /\ \A i \in 1..m : it[1..i] = Step(it[1..(i - 1)], i)
  <2>1. it[1..0] = <<>>
    BY <1>4
  <2>2. ASSUME NEW i \in 1..m PROVE it[1..i] = Step(it[1..(i - 1)], i)
    <3>1. Top(1..i) = i /\ (1..i) \ {i} = 1..(i - 1) /\ 1..i # {} /\ 1..i \in SUBSET (1..m)
      BY TopOfInterval
    <3> QED
      BY <1>4, <3>1
  <2> QED
    BY <2>1, <2>2
<1> DEFINE S == {i \in 0..m : IsPart(it[1..i], i, Ids(i), T, V)}
<1>7. 0 \in S
  <2>1. IsPart(<<>>, 0, Ids(0), T, V)
    BY DEF IsPart
  <2> QED
    BY <1>6, <2>1
<1>8. ASSUME NEW i \in 1..m, i - 1 \in S PROVE i \in S
  <2> DEFINE l == it[1..(i - 1)]
             n == i - 1
             p == at(l, cands[i])
  <2>1. IsPart(l, n, Ids(n), T, V) /\ n \in Nat /\ n + 1 = i
    BY <1>8
  <2>2. Ids(n) \subseteq V /\ Ids(n) \subseteq Ids(i) /\ cands[i].rowid \in Ids(i) /\ cands[i].rowid \notin Ids(n)
    <3>1. ASSUME NEW j \in 1..m PROVE cands[j].rowid \in V
      BY <1>c DEF Candidates
    <3>2. \A j \in 1..n : j \in 1..m /\ j \in 1..i /\ j # i
      BY <2>1
    <3> QED
      BY <1>c, <3>1, <3>2
  <2>3. IsPart(l, n, Ids(i), T, V) /\ \A j \in 1..n : l[j].rowid # cands[i].rowid
    <3>1. ASSUME NEW c \in Candidates(Ids(n), T) PROVE c \in Candidates(Ids(i), T) /\ c.rowid # cands[i].rowid
      <4> HIDE DEF Ids
      <4> QED
        BY <2>2 DEF Candidates
    <3> HIDE DEF l, n, Ids
    <3> QED
      BY <2>1, <3>1 DEF IsPart
  <2>4. l \in [1..n -> C]
    <3>1. ASSUME NEW c \in Candidates(Ids(n), T) PROVE c \in C
      <4> HIDE DEF Ids
      <4> QED
        BY <2>2 DEF Candidates
    <3> HIDE DEF l, n, Ids, C
    <3> QED
      BY <2>1, <3>1 DEF IsPart
  <2>5. p \in 1..(n + 1)
    <3> HIDE DEF l, at
    <3> QED
      BY <1>a, <2>1, <2>4
  <2>6. cands[i] \in Candidates(Ids(i), T) /\ cands[i].rowid \in V
    <3> HIDE DEF Ids
    <3> QED
      BY <1>c, <2>2 DEF Candidates
  <2> HIDE DEF l, n, p, Ids, C
  <2>7. IsList(InsertAt(l, p, cands[i]), n + 1, Ids(i), T, V)
    BY <2>3, <2>5, <2>6, InsertKeepsList
  <2>8. it[1..i] = InsertAt(l, p, cands[i])
    BY <1>6 DEF Step, l, p
  <2> QED
    BY <2>1, <2>7, <2>8 DEF IsList
<1>9. m \in S
  <2> HIDE DEF S
  <2>1. \A i \in 0..m : i \in S
    BY <1>7, <1>8, UpTo
  <2> QED
    BY <2>1
<1>10. Ids(m) \subseteq V
  BY <1>c DEF Candidates
<1>11. IsPart(it[1..m], m, V, T, V)
  <2>1. IsPart(it[1..m], m, Ids(m), T, V)
    BY <1>9
  <2> HIDE DEF Ids
  <2> QED
    BY <1>10, <2>1, PartWidens
<1> QED
  BY <1>5, <1>11, PartIs


\* Rowids, none twice.
IsPicked(t, n, V) == /\ n \in Nat
                     /\ t \in [1..n -> V]
                     /\ \A i, j \in 1..n : t[i] = t[j] => i = j
Picked(V) == UNION {{t \in [1..n -> V] : IsPicked(t, n, V)} : n \in Nat}

\* What being in Picked says.
LEMMA PickedIs ==
    ASSUME NEW V, NEW t
    PROVE  /\ t \in Picked(V) => \E n \in Nat : IsPicked(t, n, V)
           /\ \A n : IsPicked(t, n, V) => t \in Picked(V) /\ Len(t) = n /\ DOMAIN t = 1..n
<1>1. ASSUME NEW n, IsPicked(t, n, V) PROVE t \in Picked(V) /\ Len(t) = n /\ DOMAIN t = 1..n
  <2>1. n \in Nat /\ t \in [1..n -> V]
    BY <1>1 DEF IsPicked
  <2>2. Len(t) = n /\ DOMAIN t = 1..n
    BY <2>1
  <2> QED
    BY <1>1, <2>1, <2>2 DEF Picked
<1> QED
  BY <1>1 DEF Picked

\* One more rowid, at the end.
LEMMA AppendKeepsPicked ==
    ASSUME NEW V, NEW t, NEW n, IsPicked(t, n, V), NEW x \in V, \A j \in 1..n : t[j] # x
    PROVE  /\ IsPicked(Append(t, x), n + 1, V)
           /\ \A j \in 1..(n + 1) : Append(t, x)[j] = IF j <= n THEN t[j] ELSE x
<1>1. n \in Nat /\ t \in [1..n -> V] /\ \A i, j \in 1..n : t[i] = t[j] => i = j
  BY DEF IsPicked
<1>2. t \in Seq(V) /\ Len(t) = n
  BY <1>1
<1>3. Append(t, x) = [j \in 1..(n + 1) |-> IF j <= n THEN t[j] ELSE x]
  <2>1. Append(t, x) \in Seq(V) /\ Len(Append(t, x)) = n + 1
    BY <1>2
  <2> DEFINE q == Append(t, x)
  <2>2. q = [j \in 1..(n + 1) |-> q[j]]
    <3>1. q \in Seq(V) /\ Len(q) = n + 1
      BY <2>1
    <3> HIDE DEF q
    <3>2. q \in [1..(n + 1) -> V]
      BY ONLY <3>1, <1>1
    <3> QED
      BY <3>2
  <2>3. ASSUME NEW j \in 1..(n + 1) PROVE Append(t, x)[j] = IF j <= n THEN t[j] ELSE x
    <3>1. CASE j \in 1..n
      <4>1. Append(t, x)[j] = t[j]
        BY <1>2, <3>1
      <4> QED
        BY <1>1, <3>1, <4>1
    <3>2. CASE j = n + 1
      <4>1. Append(t, x)[n + 1] = x
        BY <1>2
      <4> QED
        BY <1>1, <3>2, <4>1
    <3> QED
      BY <1>1, <3>1, <3>2
  <2> QED
    BY <2>2, <2>3
<1> DEFINE w == [j \in 1..(n + 1) |-> IF j <= n THEN t[j] ELSE x]
<1>4. ASSUME NEW j \in 1..(n + 1) PROVE w[j] \in V /\ (j <= n => j \in 1..n /\ w[j] = t[j]) /\ (j > n => w[j] = x /\ j = n + 1)
  BY <1>1
<1> HIDE DEF w
<1>5. w \in [1..(n + 1) -> V]
  BY <1>4 DEF w
<1>6. ASSUME NEW i \in 1..(n + 1), NEW j \in 1..(n + 1), w[i] = w[j] PROVE i = j
  BY <1>1, <1>4, <1>6
<1>7. IsPicked(w, n + 1, V)
  BY <1>1, <1>5, <1>6 DEF IsPicked
<1>8. Append(t, x) = w
  BY <1>3 DEF w
<1> QED
  BY <1>7, <1>8 DEF w

\* What pruning works on: candidates still active and rowids taken, none both.
PruneStates(V, T) ==
    {s \in [active : Parts(V, T), taken : Picked(V)] :
        \A i \in DOMAIN s.active, j \in DOMAIN s.taken : s.active[i].rowid # s.taken[j]}

\* A round of pruning keeps them apart.
LEMMA PruneRoundKeeps ==
    ASSUME NEW g, NEW V, NEW T, NEW s \in PruneStates(V, T)
    PROVE  PruneRound(g, s) \in PruneStates(V, T)
<1> DEFINE act == s.active
           took == s.taken
<1>1. CASE act = <<>>
  BY <1>1 DEF PruneRound
<1>2. CASE act # <<>>
  <2>1. s \in [active : Parts(V, T), taken : Picked(V)]
    BY DEF PruneStates
  <2>2. PICK n \in Nat : IsPart(act, n, V, T, V)
    BY <2>1, PartIs
  <2>3. PICK k \in Nat : IsPicked(took, k, V)
    BY <2>1, PickedIs
  <2>4. Len(act) = n /\ DOMAIN act = 1..n /\ DOMAIN took = 1..k
    <3>1. act \in [1..n -> Candidates(V, T)]
      BY <2>2 DEF IsPart
    <3>2. Len(act) = n
      BY <2>2, PartIs
    <3> QED
      BY <2>3, <3>1, <3>2, PickedIs
  <2> DEFINE uncovered == {i \in 2..Len(act) : ~Covers(g, act[1], act[i])}
             left == At(act, uncovered)
             x == act[1].rowid
             more == Append(took, x)
  <2>5. PruneRound(g, s) = [active |-> left, taken |-> more]
    BY <1>2 DEF PruneRound
  <2>6. \A i \in 1..n, j \in 1..k : act[i].rowid # took[j]
    BY <2>4 DEF PruneStates
  <2> HIDE DEF act, took
  <2>7. n # 0
    BY <1>2, <2>2 DEF IsPart
  <2>8. act[1] \in Candidates(V, T) /\ x \in V /\ 1 \in 1..n
    <3>1. act \in [1..n -> Candidates(V, T)] /\ 1 \in 1..n
      BY <2>2, <2>7 DEF IsPart
    <3> QED
      BY <3>1 DEF Candidates
  <2>9. uncovered \in SUBSET (1..n) /\ 1 \notin uncovered
    BY <2>4
  <2> HIDE DEF uncovered
  <2>10. Picks(left, act, uncovered)
    BY <2>9, AtPicks
  <2> HIDE DEF left
  <2>11. PICK m \in Nat : IsPart(left, m, V, T, V) /\ \A i \in 1..m : \E j \in uncovered : left[i] = act[j]
    BY <2>2, <2>9, <2>10, PickKeepsPart
  <2>12. /\ IsPicked(more, k + 1, V)
         /\ \A j \in 1..(k + 1) : more[j] = IF j <= k THEN took[j] ELSE x
    BY <2>3, <2>6, <2>8, AppendKeepsPicked
  <2> HIDE DEF more
  <2>13. left \in Parts(V, T) /\ DOMAIN left = 1..m
    <3>1. left \in [1..m -> Candidates(V, T)]
      BY <2>11 DEF IsPart
    <3> QED
      BY <2>11, <3>1, PartIs
  <2>14. more \in Picked(V) /\ DOMAIN more = 1..(k + 1)
    BY <2>12, PickedIs
  <2>15. ASSUME NEW i \in 1..m, NEW j \in 1..(k + 1) PROVE left[i].rowid # more[j]
    <3>1. PICK a \in uncovered : left[i] = act[a]
      BY <2>11
    <3>2. a \in 1..n /\ a # 1
      BY <2>9
    <3>3. act[a].rowid # x
      BY <2>2, <2>8, <3>2 DEF IsPart, x
    <3>4. j <= k => j \in 1..k /\ act[a].rowid # took[j]
      BY <2>6, <3>2
    <3> HIDE DEF x
    <3> QED
      BY <2>12, <3>1, <3>3, <3>4
  <2> QED
    BY <2>5, <2>13, <2>14, <2>15 DEF PruneStates
<1> QED
  BY <1>1, <1>2

\* Pruning takes candidates, none twice.
LEMMA PruneRoundsKeep ==
    ASSUME NEW g, g.slots \in Nat, NEW V, NEW T, NEW sorted \in Parts(V, T)
    PROVE  PruneRounds(g, sorted) \in PruneStates(V, T)
<1> DEFINE D == PruneStates(V, T)
           m == g.slots
           start == [active |-> sorted, taken |-> <<>>]
           Step(s) == PruneRound(g, s)
           F == [p \in D \X (1..m) |-> Step(p[1])]
           G(h) == [s \in SUBSET (1..m) |-> IF s = {} THEN start ELSE Step(h[s \ {Top(s)}])]
           it == CHOOSE h : h = G(h)
<1>0. m \in Nat
  OBVIOUS
<1>1. ASSUME NEW s \in D PROVE Step(s) \in D
  BY PruneRoundKeeps
<1>s. start \in D
  <2>1. IsPicked(<<>>, 0, V)
    BY DEF IsPicked
  <2>2. <<>> \in Picked(V) /\ DOMAIN start.taken = {}
    BY <2>1, PickedIs
  <2> QED
    BY <2>2 DEF PruneStates
<1> HIDE DEF start
<1>2. PICK h \in [SUBSET (1..m) -> D] : IsChain(F, start, m, h)
  <2>1. \A s \in D, i \in 1..m : F[<<s, i>>] \in D
    <3> HIDE DEF D, Step
    <3> QED
      BY <1>1
  <2> HIDE DEF F, D, m
  <2> QED
    BY <1>0, <1>s, <2>1, ChainExists
<1>3. h = G(h)
  <2> HIDE DEF D, Step, m
  <2>1. ASSUME NEW s \in SUBSET (1..m), s # {} PROVE F[<<h[s \ {Top(s)}], Top(s)>>] = Step(h[s \ {Top(s)}])
    <3>1. Top(s) \in 1..m
      BY <1>0, <2>1, TopIs
    <3>2. s \ {Top(s)} \in SUBSET (1..m)
      OBVIOUS
    <3> QED
      BY <3>1, <3>2
  <2> HIDE DEF F
  <2> QED
    BY <1>2, <2>1 DEF IsChain
<1>4. it = G(it)
  <2> HIDE DEF G
  <2> QED
    BY <1>3
<1>5. PruneRounds(g, sorted) = it[1..m]
  BY Zenon DEF PruneRounds, FoldLeft, MapThenFoldSet, Max, Top, start
<1> HIDE DEF it, Step, m
<1>6. it[1..0] = start /\ \A i \in 1..m : it[1..i] = Step(it[1..(i - 1)])
  <2>1. it[1..0] = start
    BY <1>4
  <2>2. ASSUME NEW i \in 1..m PROVE it[1..i] = Step(it[1..(i - 1)])
    <3>1. Top(1..i) = i /\ (1..i) \ {i} = 1..(i - 1) /\ 1..i # {} /\ 1..i \in SUBSET (1..m)
      BY <1>0, TopOfInterval
    <3> QED
      BY <1>4, <3>1
  <2> QED
    BY <2>1, <2>2
<1> DEFINE S == {i \in 0..m : it[1..i] \in D}
<1>7. 0 \in S /\ \A i \in 1..m : i - 1 \in S => i \in S
  <2> HIDE DEF D
  <2> QED
    BY <1>0, <1>1, <1>6, <1>s
<1>8. m \in S
  <2> HIDE DEF S
  <2>1. \A i \in 0..m : i \in S
    BY <1>0, <1>7, UpTo
  <2> QED
    BY <1>0, <2>1
<1> QED
  BY <1>5, <1>8

\* What robust_prune takes for a row that is no candidate itself.
LEMMA RobustPruneTakes ==
    ASSUME NEW g, g.slots \in Nat, NEW V, NEW T, NEW cands \in Parts(V, T), NEW p, p \notin V
    PROVE  RobustPrune(g, p, cands) \in Picked(V)
<1> DEFINE self == {i \in 1..Len(cands) : cands[i].rowid = p}
<1>1. self = {}
  <2>1. PICK n \in Nat : IsPart(cands, n, V, T, V)
    BY PartIs
  <2>2. Len(cands) = n /\ cands \in [1..n -> Candidates(V, T)]
    BY <2>1, PartIs DEF IsPart
  <2>3. ASSUME NEW i \in 1..n PROVE cands[i].rowid \in V
    BY <2>2 DEF Candidates
  <2> QED
    BY <2>2, <2>3
<1>2. RobustPrune(g, p, cands) = PruneRounds(g, SortByDistance(cands)).taken
  BY <1>1, Zenon DEF RobustPrune
<1>3. PruneRounds(g, SortByDistance(cands)) \in PruneStates(V, T)
  BY SortKeepsPart, PruneRoundsKeep
<1> QED
  BY <1>2, <1>3 DEF PruneStates


\* A slot written for a neighbour names it.
LEMMA SlotNames ==
    ASSUME NEW V, NEW vectors, NEW x \in V
    PROVE  Slot(x, vectors[x]) \in Slots(V, vectors) /\ Slot(x, vectors[x]).id = x
  BY DEF Slots, Slot

\* The neighbours of a node are others.
LEMMA NeighboursAre ==
    ASSUME NEW node, NEW r, NEW V, NEW n \in Nat, NEW vectors, NodeOK(node, r, V, n, vectors)
    PROVE  /\ Len(node) = n
           /\ Neighbours(node) \subseteq V \ {r}
           /\ \A i \in 1..n : node[i] # None => node[i].id \in Neighbours(node)
<1>1. node \in [1..n -> Slots(V \ {r}, vectors)]
  BY DEF NodeOK
<1>2. Len(node) = n
  <2> HIDE DEF Slots
  <2> QED
    BY <1>1
<1>3. ASSUME NEW i \in 1..n, node[i] # None PROVE node[i].id \in V \ {r}
  <2>1. node[i] \in Slots(V \ {r}, vectors)
    BY <1>1
  <2> QED
    BY <1>3, <2>1, SlotIs
<1> QED
  BY <1>2, <1>3 DEF Neighbours

\* The slots of a new node.
LEMMA EmptyNodeOK ==
    ASSUME NEW g, NEW r, NEW V, NEW vectors
    PROVE  NodeOK(EmptyNode(g), r, V, g.slots, vectors)
  BY DEF EmptyNode, NodeOK, Slots

\* write_pruned_neighbors: slots for what was taken.
LEMMA TakenNodeOK ==
    ASSUME NEW g, NEW V, V \subseteq DOMAIN g.vectors, NEW taken \in Picked(V), NEW r, r \notin V
    PROVE  NodeOK([i \in 1..g.slots |-> IF i <= Len(taken) /\ HasVector(g, taken[i])
                                        THEN Slot(taken[i], g.vectors[taken[i]]) ELSE None],
                  r, V \cup {r}, g.slots, g.vectors)
<1> DEFINE n == g.slots
           node == [i \in 1..n |-> IF i <= Len(taken) /\ HasVector(g, taken[i])
                                   THEN Slot(taken[i], g.vectors[taken[i]]) ELSE None]
           W == (V \cup {r}) \ {r}
<1>1. PICK m \in Nat : IsPicked(taken, m, V)
  BY PickedIs
<1>2. Len(taken) = m /\ (\A i \in 1..m : taken[i] \in V) /\ \A i, j \in 1..m : taken[i] = taken[j] => i = j
  BY <1>1, PickedIs DEF IsPicked
<1>3. ASSUME NEW i \in 1..n
      PROVE  /\ node[i] \in Slots(W, g.vectors)
             /\ node[i] # None => i \in 1..m /\ node[i].id = taken[i]
  <2>1. CASE i <= m
    <3>1. i \in 1..m /\ taken[i] \in V /\ taken[i] \in W
      BY <1>2, <2>1
    <3>2. node[i] = Slot(taken[i], g.vectors[taken[i]])
      BY <1>2, <2>1, <3>1 DEF HasVector
    <3>3. Slot(taken[i], g.vectors[taken[i]]) \in Slots(W, g.vectors) /\ Slot(taken[i], g.vectors[taken[i]]).id = taken[i]
      BY <3>1, SlotNames
    <3> HIDE DEF node
    <3> QED
      BY <3>1, <3>2, <3>3
  <2>2. CASE ~(i <= m)
    BY <1>2, <2>2 DEF Slots
  <2> QED
    BY <2>1, <2>2
<1>4. node \in [1..n -> Slots(W, g.vectors)]
  BY <1>3
<1> HIDE DEF node, W
<1>5. \A i, j \in 1..n : node[i] # None /\ node[j] # None /\ node[i].id = node[j].id => i = j
  BY <1>2, <1>3
<1> QED
  BY <1>4, <1>5 DEF NodeOK, node, W

\* A slot that is freed, or that takes a neighbour the node has not.
LEMMA SetSlotOK ==
    ASSUME NEW node, NEW r, NEW V, NEW n \in Nat, NEW vectors, NodeOK(node, r, V, n, vectors),
           NEW i, NEW edge \in Slots(V \ {r}, vectors),
           edge # None => edge.id \notin Neighbours(node)
    PROVE  NodeOK([node EXCEPT ![i] = edge], r, V, n, vectors)
<1> DEFINE w == [node EXCEPT ![i] = edge]
<1>1. /\ node \in [1..n -> Slots(V \ {r}, vectors)]
      /\ \A a, b \in 1..n : node[a] # None /\ node[b] # None /\ node[a].id = node[b].id => a = b
  BY DEF NodeOK
<1>2. \A a \in 1..n : node[a] # None => node[a].id \in Neighbours(node)
  BY NeighboursAre
<1>3. ASSUME NEW a \in 1..n PROVE w[a] = IF a = i THEN edge ELSE node[a]
  BY <1>1
<1>4. w \in [1..n -> Slots(V \ {r}, vectors)]
  <2> HIDE DEF Slots
  <2> QED
    BY <1>1
<1> HIDE DEF w
<1>5. ASSUME NEW a \in 1..n, NEW b \in 1..n, w[a] # None, w[b] # None, w[a].id = w[b].id PROVE a = b
  BY <1>1, <1>2, <1>3, <1>5
<1> QED
  BY <1>4, <1>5 DEF NodeOK, w

\* Rows that are added leave a node's slots as they are.
LEMMA NodeStaysOK ==
    ASSUME NEW node, NEW r, NEW V, NEW n, NEW vectors, NodeOK(node, r, V, n, vectors),
           NEW W, V \subseteq W, NEW more, \A x \in V : more[x] = vectors[x]
    PROVE  NodeOK(node, r, W, n, more)
<1>1. ASSUME NEW slot \in Slots(V \ {r}, vectors) PROVE slot \in Slots(W \ {r}, more)
  BY DEF Slots
<1> HIDE DEF Slots
<1> QED
  BY <1>1 DEF NodeOK

AgreeOn(S, f, h) == \A x \in S : f[x] = h[x]
Scrubbed(node, n, d) ==
    [i \in 1..n |-> IF node[i] # None /\ node[i].id = d THEN None ELSE node[i]]

\* scrub_deleted_rowid: without the slots that name it, a row may go.
LEMMA ScrubbedOK ==
    ASSUME NEW node, NEW r, NEW V, NEW n, NEW vectors, NodeOK(node, r, V, n, vectors),
           NEW d, NEW left, AgreeOn(V \ {d}, left, vectors)
    PROVE  NodeOK(Scrubbed(node, n, d), r, V \ {d}, n, left)
<1> DEFINE w == [i \in 1..n |-> IF node[i] # None /\ node[i].id = d THEN None ELSE node[i]]
           S == Slots((V \ {d}) \ {r}, left)
<1>0. \A x \in V \ {d} : left[x] = vectors[x]
  BY DEF AgreeOn
<1>1. /\ node \in [1..n -> Slots(V \ {r}, vectors)]
      /\ \A a, b \in 1..n : node[a] # None /\ node[b] # None /\ node[a].id = node[b].id => a = b
  BY DEF NodeOK
<1>2. ASSUME NEW i \in 1..n PROVE w[i] \in S /\ (w[i] # None => w[i] = node[i])
  <2>1. node[i] \in Slots(V \ {r}, vectors)
    BY <1>1
  <2>2. CASE node[i] = None \/ node[i].id = d
    <3>1. w[i] = None
      BY <2>2
    <3> QED
      BY <3>1 DEF Slots
  <2>3. CASE node[i] # None /\ node[i].id # d
    <3>1. w[i] = node[i]
      BY <2>3
    <3>2. node[i].id \in V \ {r} /\ node[i] = Slot(node[i].id, vectors[node[i].id])
      BY <2>1, <2>3, SlotIs
    <3>3. node[i].id \in (V \ {d}) \ {r} /\ node[i] = Slot(node[i].id, left[node[i].id])
      BY <1>0, <2>3, <3>2
    <3>4. node[i] \in S
      BY <3>3 DEF Slots
    <3> QED
      BY <3>1, <3>4
  <2> QED
    BY <2>2, <2>3
<1> HIDE DEF S
<1>3. w \in [1..n -> S]
  BY <1>2
<1> HIDE DEF w
<1>4. \A a, b \in 1..n : w[a] # None /\ w[b] # None /\ w[a].id = w[b].id => a = b
  BY <1>1, <1>2
<1> QED
  BY <1>3, <1>4 DEF NodeOK, Scrubbed, w, S

\* A node has as many neighbours as slots in use.
LEMMA NeighboursCount ==
    ASSUME NEW node, NEW r, NEW V, NEW n \in Nat, NEW vectors, NodeOK(node, r, V, n, vectors)
    PROVE  Cardinality(Neighbours(node)) = Cardinality({i \in 1..n : node[i] # None})
<1> DEFINE used == {i \in 1..n : node[i] # None}
           f == [i \in used |-> node[i].id]
           N == Neighbours(node)
<1>1. Len(node) = n
  BY NeighboursAre
<1>2. N = {node[i].id : i \in used}
  BY <1>1 DEF Neighbours
<1> HIDE DEF N
<1>3. \A a, b \in 1..n : node[a] # None /\ node[b] # None /\ node[a].id = node[b].id => a = b
  BY DEF NodeOK
<1>4. \A a, b \in used : f[a] = f[b] => a = b
  BY <1>3
<1>5. f \in [used -> N]
  BY <1>2
<1>6. \A x \in N : \E i \in used : f[i] = x
  BY <1>2
<1>7. IsFiniteSet(used)
  <2>1. IsFiniteSet(1..n)
    BY FS_Interval
  <2>2. used \subseteq 1..n
    OBVIOUS
  <2> HIDE DEF used
  <2> QED
    BY <2>1, <2>2, FS_Subset
<1> HIDE DEF f, used
<1>8. f \in Injection(used, N) /\ f \in Surjection(used, N)
  BY <1>4, <1>5, <1>6 DEF Injection, IsInjective, Surjection
<1>9. Cardinality(N) = Cardinality(used)
  BY <1>7, <1>8, FS_Surjection
<1> QED
  BY <1>9 DEF used, N


\* Writing nodes writes nothing else.
LEMMA NodesOnly ==
    ASSUME NEW g, DOMAIN g = IndexFields, NEW nodes
    PROVE  LET h == WithNodes(g, nodes)
           IN  /\ DOMAIN h = IndexFields /\ h.nodes = nodes /\ h.slots = g.slots
               /\ h.vectors = g.vectors /\ h.medoid = g.medoid /\ h.buffer = g.buffer
  BY DEF WithNodes, IndexFields

\* Rewriting the slots of nodes, each as it may be, keeps the graph closed.
LEMMA RewiredIsClosed ==
    ASSUME NEW g, ClosedIndex(g), NEW nodes, DOMAIN nodes = DOMAIN g.nodes,
           \A r \in DOMAIN nodes : NodeOK(nodes[r], r, DOMAIN nodes, g.slots, g.vectors)
    PROVE  ClosedIndex(WithNodes(g, nodes))
<1> DEFINE h == WithNodes(g, nodes)
<1>1. /\ DOMAIN h = IndexFields /\ h.nodes = nodes /\ h.slots = g.slots
      /\ h.vectors = g.vectors /\ h.medoid = g.medoid
  BY NodesOnly DEF ClosedIndex, IndexFields
<1> HIDE DEF h
<1> QED
  BY <1>1 DEF ClosedIndex, IndexFields, h

\* A new node, linked to others.
LEMMA PrunedIsClosed ==
    ASSUME NEW g, ClosedIndex(g), g.medoid # None, NEW taken \in Picked(DOMAIN g.nodes),
           NEW r \in DOMAIN g.vectors, r \notin DOMAIN g.nodes
    PROVE  LET h == WritePrunedNeighbors(g, r, taken)
           IN  /\ ClosedIndex(h) /\ h.medoid = g.medoid
               /\ DOMAIN h.nodes = DOMAIN g.nodes \cup {r}
               /\ h.vectors = g.vectors /\ h.buffer = g.buffer
<1> DEFINE V == DOMAIN g.nodes
           h == WritePrunedNeighbors(g, r, taken)
           node == [i \in 1..g.slots |-> IF i <= Len(taken) /\ HasVector(g, taken[i])
                                         THEN Slot(taken[i], g.vectors[taken[i]]) ELSE None]
           nodes == Put(g.nodes, r, node)
<1>1. /\ DOMAIN g = IndexFields /\ g.slots \in Nat /\ V \subseteq DOMAIN g.vectors
      /\ \A x \in V : NodeOK(g.nodes[x], x, V, g.slots, g.vectors)
      /\ g.medoid \in V
  BY DEF ClosedIndex, IndexFields
<1>2. NodeOK(node, r, V \cup {r}, g.slots, g.vectors)
  BY <1>1, TakenNodeOK
<1>3. h = WithNodes(g, nodes)
  BY DEF WritePrunedNeighbors, NodeWrite, WithNodes
<1> HIDE DEF node
<1>4. DOMAIN nodes = V \cup {r} /\ \A x \in V \cup {r} : nodes[x] = IF x = r THEN node ELSE g.nodes[x]
  BY DEF Put
<1>5. ASSUME NEW x \in V PROVE NodeOK(g.nodes[x], x, V \cup {r}, g.slots, g.vectors)
  <2>1. NodeOK(g.nodes[x], x, V, g.slots, g.vectors)
    BY <1>1
  <2>2. V \subseteq V \cup {r}
    OBVIOUS
  <2> HIDE DEF V
  <2> QED
    BY <2>1, <2>2, NodeStaysOK
<1>6. \A x \in V \cup {r} : NodeOK(nodes[x], x, V \cup {r}, g.slots, g.vectors)
  <2> HIDE DEF V, nodes
  <2> QED
    BY <1>2, <1>4, <1>5
<1> HIDE DEF nodes, h
<1>7. /\ DOMAIN h = IndexFields /\ h.nodes = nodes /\ h.slots = g.slots
      /\ h.vectors = g.vectors /\ h.medoid = g.medoid /\ h.buffer = g.buffer
  BY <1>1, <1>3, NodesOnly
<1>8. ClosedIndex(h)
  <2> HIDE DEF V
  <2>1. DOMAIN h.nodes = V \cup {r} /\ DOMAIN h.nodes \subseteq DOMAIN h.vectors
    BY <1>1, <1>4, <1>7 DEF V
  <2>2. \A x \in DOMAIN h.nodes : NodeOK(h.nodes[x], x, DOMAIN h.nodes, h.slots, h.vectors)
    BY <1>6, <1>7, <2>1
  <2>3. h.medoid # None /\ h.medoid \in DOMAIN h.nodes /\ DOMAIN h.nodes # {}
    BY <1>1, <1>7, <2>1
  <2>4. DOMAIN h = IndexFields /\ h.slots \in Nat
    BY <1>1, <1>7
  <2> QED
    BY <2>1, <2>2, <2>3, <2>4 DEF ClosedIndex, IndexFields
<1> QED
  BY <1>4, <1>7, <1>8 DEF h

\* add_reverse_edge: the new neighbour takes a free slot, or the worst one's.
LEMMA ReverseEdgeOK ==
    ASSUME NEW g, ClosedIndex(g), NEW node \in DOMAIN g.nodes, NEW target \in DOMAIN g.nodes,
           target # node
    PROVE  NodeOK(AddReverseEdge(g, node, target), node, DOMAIN g.nodes, g.slots, g.vectors)
<1> DEFINE V == DOMAIN g.nodes
           slots == g.nodes[node]
           edge == Slot(target, g.vectors[target])
<1>1. NodeOK(slots, node, V, g.slots, g.vectors) /\ g.slots \in Nat
  BY DEF ClosedIndex
<1>2. edge \in Slots(V \ {node}, g.vectors) /\ edge.id = target
  BY SlotNames
<1>3. AddReverseEdge(g, node, target) = slots
      \/ (target \notin Neighbours(slots) /\ \E i : AddReverseEdge(g, node, target) = [slots EXCEPT ![i] = edge])
  BY Zenon DEF AddReverseEdge
<1> HIDE DEF slots, edge, V
<1>4. ASSUME NEW i, target \notin Neighbours(slots)
      PROVE  NodeOK([slots EXCEPT ![i] = edge], node, V, g.slots, g.vectors)
  BY <1>1, <1>2, <1>4, SetSlotOK
<1> QED
  BY <1>1, <1>3, <1>4 DEF V

\* Linking a row to what was taken for it keeps the graph closed.
LEMMA LinkedIsClosed ==
    ASSUME NEW g, ClosedIndex(g), g.medoid # None, NEW taken \in Picked(DOMAIN g.nodes),
           NEW r \in DOMAIN g.vectors, r \notin DOMAIN g.nodes
    PROVE  LET h == LinkTo(g, r, taken)
           IN  /\ ClosedIndex(h)
               /\ DOMAIN h.nodes = DOMAIN g.nodes \cup {r}
               /\ h.vectors = g.vectors /\ h.buffer = g.buffer
<1> DEFINE p == WritePrunedNeighbors(g, r, taken)
           nodes == [n \in DOMAIN p.nodes |->
                        IF n \in Range(taken) THEN AddReverseEdge(p, n, r) ELSE p.nodes[n]]
<1>1. /\ ClosedIndex(p) /\ DOMAIN p.nodes = DOMAIN g.nodes \cup {r}
      /\ p.vectors = g.vectors /\ p.buffer = g.buffer
  BY PrunedIsClosed
<1>2. LinkTo(g, r, taken) = WithNodes(p, nodes)
  BY Zenon DEF LinkTo
<1> HIDE DEF p
<1>3. Range(taken) \subseteq DOMAIN g.nodes
  <2>1. PICK m \in Nat : IsPicked(taken, m, DOMAIN g.nodes)
    BY PickedIs
  <2> QED
    BY <2>1 DEF IsPicked, Range
<1>4. ASSUME NEW n \in DOMAIN p.nodes PROVE NodeOK(nodes[n], n, DOMAIN p.nodes, p.slots, p.vectors)
  <2>1. CASE n \in Range(taken)
    <3>1. n # r /\ r \in DOMAIN p.nodes
      BY <1>1, <1>3, <2>1
    <3>2. NodeOK(AddReverseEdge(p, n, r), n, DOMAIN p.nodes, p.slots, p.vectors)
      BY <1>1, <3>1, ReverseEdgeOK
    <3>3. nodes[n] = AddReverseEdge(p, n, r)
      BY <2>1
    <3> HIDE DEF nodes
    <3> QED
      BY <3>2, <3>3
  <2>2. CASE n \notin Range(taken)
    <3>1. nodes[n] = p.nodes[n]
      BY <2>2
    <3> HIDE DEF nodes
    <3> QED
      BY <1>1, <3>1 DEF ClosedIndex
  <2> QED
    BY <2>1, <2>2
<1>5. DOMAIN nodes = DOMAIN p.nodes
  OBVIOUS
<1> HIDE DEF nodes
<1>6. ClosedIndex(WithNodes(p, nodes))
  BY <1>1, <1>4, <1>5, RewiredIsClosed
<1>7. /\ WithNodes(p, nodes).nodes = nodes /\ WithNodes(p, nodes).vectors = p.vectors
      /\ WithNodes(p, nodes).buffer = p.buffer
  BY <1>1, NodesOnly DEF ClosedIndex, IndexFields
<1> QED
  BY <1>1, <1>2, <1>5, <1>6, <1>7


\* An index whose every row is a node.
FullIndex(g, R) == /\ ClosedIndex(g)
                   /\ DOMAIN g.nodes = R
                   /\ DOMAIN g.vectors = R
                   /\ DOMAIN g.buffer = {}

\* A vector may come before its node.
LEMMA StoredIsClosed ==
    ASSUME NEW g, ClosedIndex(g), NEW r, r \notin DOMAIN g.nodes, NEW v
    PROVE  LET h == VectorWrite(g, r, v)
           IN  /\ ClosedIndex(h) /\ h.nodes = g.nodes /\ h.medoid = g.medoid /\ h.buffer = g.buffer
               /\ DOMAIN h.vectors = DOMAIN g.vectors \cup {r}
<1> DEFINE V == DOMAIN g.nodes
           w == Put(g.vectors, r, v)
           h == VectorWrite(g, r, v)
<1>1. /\ DOMAIN g = IndexFields /\ g.slots \in Nat /\ V \subseteq DOMAIN g.vectors
      /\ \A x \in V : NodeOK(g.nodes[x], x, V, g.slots, g.vectors)
      /\ (g.medoid = None <=> V = {}) /\ (g.medoid # None => g.medoid \in V)
  BY DEF ClosedIndex, IndexFields
<1>2. /\ DOMAIN h = IndexFields /\ h.vectors = w /\ h.nodes = g.nodes /\ h.medoid = g.medoid
      /\ h.buffer = g.buffer /\ h.slots = g.slots
  BY <1>1 DEF VectorWrite, IndexFields
<1>3. DOMAIN w = DOMAIN g.vectors \cup {r} /\ \A x \in V : w[x] = g.vectors[x]
  BY <1>1 DEF Put
<1> HIDE DEF w, h
<1>4. ASSUME NEW x \in V PROVE NodeOK(g.nodes[x], x, V, g.slots, w)
  <2>1. NodeOK(g.nodes[x], x, V, g.slots, g.vectors) /\ V \subseteq V
    BY <1>1
  <2> HIDE DEF V
  <2> QED
    BY <1>3, <2>1, NodeStaysOK
<1>5. ClosedIndex(h)
  BY <1>1, <1>2, <1>3, <1>4 DEF ClosedIndex, IndexFields
<1> QED
  BY <1>2, <1>3, <1>5 DEF h

\* The first row is a node without neighbours.
LEMMA FirstIsClosed ==
    ASSUME NEW g, ClosedIndex(g), g.medoid = None, NEW r \in DOMAIN g.vectors, r # None
    PROVE  LET h == MedoidSet(NodeWrite(g, r, EmptyNode(g)), r)
           IN  /\ ClosedIndex(h) /\ DOMAIN h.nodes = {r}
               /\ h.vectors = g.vectors /\ h.buffer = g.buffer
<1> DEFINE node == EmptyNode(g)
           nodes == Put(g.nodes, r, node)
           n == NodeWrite(g, r, node)
           h == MedoidSet(n, r)
<1>1. DOMAIN g = IndexFields /\ g.slots \in Nat /\ DOMAIN g.nodes = {}
  BY DEF ClosedIndex, IndexFields
<1>2. NodeOK(node, r, {r}, g.slots, g.vectors)
  BY EmptyNodeOK
<1> HIDE DEF node
<1>3. DOMAIN nodes = {r} /\ nodes[r] = node
  BY <1>1 DEF Put
<1> HIDE DEF nodes
<1>4. /\ DOMAIN n = IndexFields /\ n.nodes = nodes /\ n.vectors = g.vectors /\ n.buffer = g.buffer
      /\ n.slots = g.slots
  BY <1>1 DEF NodeWrite, IndexFields, nodes
<1> HIDE DEF n
<1>5. /\ DOMAIN h = IndexFields /\ h.nodes = nodes /\ h.vectors = g.vectors /\ h.buffer = g.buffer
      /\ h.slots = g.slots /\ h.medoid = r
  BY <1>4 DEF MedoidSet, IndexFields
<1> HIDE DEF h
<1>6. ClosedIndex(h)
  BY <1>1, <1>2, <1>3, <1>5 DEF ClosedIndex, IndexFields
<1> QED
  BY <1>3, <1>5, <1>6 DEF h, n, node

\* insert_graph makes the row a node, and no other.
LEMMA InsertedIsClosed ==
    ASSUME NEW g, ClosedIndex(g), NEW r \in DOMAIN g.vectors, r \notin DOMAIN g.nodes, r # None, NEW L
    PROVE  LET h == InsertGraph(g, r, L).index
           IN  /\ ClosedIndex(h) /\ DOMAIN h.nodes = DOMAIN g.nodes \cup {r}
               /\ h.vectors = g.vectors /\ h.buffer = g.buffer
<1>1. CASE g.medoid = None
  <2>1. InsertGraph(g, r, L).index = MedoidSet(NodeWrite(g, r, EmptyNode(g)), r)
    BY <1>1 DEF InsertGraph
  <2>2. DOMAIN g.nodes = {}
    BY <1>1 DEF ClosedIndex
  <2> QED
    BY <1>1, <2>1, <2>2, FirstIsClosed
<1>2. CASE g.medoid # None
  <2> DEFINE hit == Search(g, g.vectors[r], L, L)
             V == DOMAIN g.nodes
             T == Distances(V, g.vectors, g.vectors[r])
             taken == RobustPrune(g, r, hit.found)
  <2>1. hit.ok /\ hit.found \in Parts(V, T)
    BY SearchFinds
  <2>2. InsertGraph(g, r, L).index = LinkTo(g, r, taken)
    BY <1>2, <2>1, Zenon DEF InsertGraph, LinkToFound
  <2> HIDE DEF hit, T
  <2>3. taken \in Picked(V)
    <3>1. g.slots \in Nat
      BY DEF ClosedIndex
    <3> QED
      BY <2>1, <3>1, RobustPruneTakes
  <2> HIDE DEF taken
  <2> QED
    BY <1>2, <2>2, <2>3, LinkedIsClosed
<1> QED
  BY <1>1, <1>2

\* Without a buffer, an inserted row is a node.
LEMMA InsertKeepsFull ==
    ASSUME NEW g, NEW R, FullIndex(g, R), NEW r, r \notin R, r # None, NEW v, NEW L
    PROVE  FullIndex(Insert(g, r, v, 0, L).index, R \cup {r})
<1> DEFINE stored == VectorWrite(g, r, v)
           h == InsertGraph(stored, r, L).index
<1>1. Insert(g, r, v, 0, L).index = h
  BY DEF Insert
<1>2. /\ ClosedIndex(stored) /\ stored.nodes = g.nodes /\ stored.buffer = g.buffer
      /\ DOMAIN stored.vectors = R \cup {r}
  BY StoredIsClosed DEF FullIndex
<1> HIDE DEF stored
<1>3. /\ ClosedIndex(h) /\ DOMAIN h.nodes = DOMAIN stored.nodes \cup {r}
      /\ h.vectors = stored.vectors /\ h.buffer = stored.buffer
  BY <1>2, InsertedIsClosed DEF FullIndex
<1> HIDE DEF h
<1> QED
  BY <1>1, <1>2, <1>3 DEF FullIndex

-----------------------------------------------------------------------------
\* repair_reverse_edges: a slot is freed, or filled with what the node has not.
LEMMA RepairedOK ==
    ASSUME NEW g, ClosedIndex(g), NEW d \in DOMAIN g.nodes, NEW r \in DOMAIN g.nodes
    PROVE  NodeOK(Repaired(g, d, r), r, DOMAIN g.nodes, g.slots, g.vectors)
<1> DEFINE V == DOMAIN g.nodes
           n == g.slots
           left == g.nodes[d]
           slots == g.nodes[r]
           hit == {i \in 1..n : slots[i] # None /\ slots[i].id = d}
           spare == {i \in 1..n : /\ left[i] # None
                                  /\ left[i].id \notin {r, d} \cup Neighbours(slots)
                                  /\ HasVector(g, left[i].id)}
           First(S) == CHOOSE i \in S : \A j \in S : i <= j
           id == left[First(spare)].id
           edge == IF spare = {} THEN None ELSE Slot(id, g.vectors[id])
<1>1. NodeOK(slots, r, V, n, g.vectors) /\ NodeOK(left, d, V, n, g.vectors) /\ n \in Nat
  BY DEF ClosedIndex
<1>2. Repaired(g, d, r) = slots \/ \E i : Repaired(g, d, r) = [slots EXCEPT ![i] = edge]
  BY Zenon DEF Repaired
<1>3. edge \in Slots(V \ {r}, g.vectors) /\ (edge # None => edge.id \notin Neighbours(slots))
  <2>1. CASE spare = {}
    BY <2>1 DEF Slots
  <2>2. CASE spare # {}
    <3>1. First(spare) \in spare
      <4>1. spare \in SUBSET Nat
        BY <1>1
      <4> HIDE DEF spare
      <4>2. PICK i \in spare : \A j \in spare : i <= j
        BY <2>2, <4>1, SmallestExists
      <4> QED
        BY <4>2
    <3> DEFINE i == First(spare)
    <3>2. i \in 1..n /\ left[i] # None /\ left[i].id \notin {r, d} \cup Neighbours(slots)
      BY <3>1
    <3>3. edge = Slot(left[i].id, g.vectors[left[i].id])
      BY <2>2
    <3> HIDE DEF i, spare, left, slots, edge, V, n
    <3>4. left[i].id \in V \ {d}
      <4>1. left[i].id \in Neighbours(left) /\ Neighbours(left) \subseteq V \ {d}
        BY <1>1, <3>2, NeighboursAre
      <4> QED
        BY <4>1
    <3>5. left[i].id \in V \ {r}
      BY <3>2, <3>4
    <3> DEFINE x == left[i].id
    <3>6. edge \in Slots(V \ {r}, g.vectors) /\ edge.id = x
      <4>1. x \in V \ {r} /\ edge = Slot(x, g.vectors[x])
        BY <3>3, <3>5
      <4> HIDE DEF x
      <4> QED
        BY <4>1, SlotNames
    <3> QED
      BY <3>2, <3>6
  <2> QED
    BY <2>1, <2>2
<1> HIDE DEF V, n, slots, edge
<1>4. ASSUME NEW i PROVE NodeOK([slots EXCEPT ![i] = edge], r, V, n, g.vectors)
  BY <1>1, <1>3, SetSlotOK
<1> QED
  BY <1>1, <1>2, <1>4 DEF V, n

\* The graph is closed while its row is unlinked.
LEMMA RepairIsClosed ==
    ASSUME NEW g, ClosedIndex(g), NEW d \in DOMAIN g.nodes
    PROVE  LET h == RepairReverseEdges(g, d)
           IN  /\ ClosedIndex(h) /\ DOMAIN h.nodes = DOMAIN g.nodes
               /\ h.vectors = g.vectors /\ h.buffer = g.buffer /\ h.medoid = g.medoid
<1> DEFINE nodes == [r \in DOMAIN g.nodes |->
                        IF r \in Neighbours(g.nodes[d]) THEN Repaired(g, d, r) ELSE g.nodes[r]]
<1>1. RepairReverseEdges(g, d) = WithNodes(g, nodes)
  BY Zenon DEF RepairReverseEdges
<1>2. ASSUME NEW r \in DOMAIN g.nodes PROVE NodeOK(nodes[r], r, DOMAIN g.nodes, g.slots, g.vectors)
  <2>1. nodes[r] = Repaired(g, d, r) \/ nodes[r] = g.nodes[r]
    OBVIOUS
  <2>2. NodeOK(g.nodes[r], r, DOMAIN g.nodes, g.slots, g.vectors)
    BY DEF ClosedIndex
  <2> HIDE DEF nodes
  <2> QED
    BY <2>1, <2>2, RepairedOK
<1>3. DOMAIN nodes = DOMAIN g.nodes
  OBVIOUS
<1> HIDE DEF nodes
<1>4. ClosedIndex(WithNodes(g, nodes))
  BY <1>2, <1>3, RewiredIsClosed
<1>5. /\ WithNodes(g, nodes).nodes = nodes /\ WithNodes(g, nodes).vectors = g.vectors
      /\ WithNodes(g, nodes).buffer = g.buffer /\ WithNodes(g, nodes).medoid = g.medoid
  BY NodesOnly DEF ClosedIndex, IndexFields
<1> QED
  BY <1>1, <1>3, <1>4, <1>5

\* diskann_delete: the medoid is handed over and the slots that name the row are
\* cleared, so what is left of the index is the others'.
LEMMA DeleteKeepsFull ==
    ASSUME NEW g, NEW R, FullIndex(g, R), R \subseteq Int, NEW low \in Int, \A x \in R : low <= x,
           NEW d
    PROVE  FullIndex(Delete(g, d, 0), R \ {d})
<1>1. CASE ~HasNode(g, d)
  <2>1. Delete(g, d, 0) = g
    BY <1>1 DEF Delete
  <2>2. d \notin R
    BY <1>1 DEF HasNode, FullIndex
  <2>3. R \ {d} = R
    BY <2>2
  <2> QED
    BY <2>1, <2>3
<1>2. CASE HasNode(g, d)
  <2> DEFINE repaired == RepairReverseEdges(g, d)
             cut == NodeDelete(repaired, d)
             unlinked == VectorDelete(cut, d)
             handed == MedoidHandleDelete(unlinked, d)
             h == ScrubDeletedRowid(handed, d)
             rest == R \ {d}
             left == DOMAIN unlinked.vectors \ {d}
             next == IF left = {} THEN None ELSE CHOOSE r \in left : \A o \in left : r <= o
  <2>1. Delete(g, d, 0) = h
    BY <1>2 DEF Delete
  <2>2. /\ ClosedIndex(repaired) /\ DOMAIN repaired.nodes = R
        /\ DOMAIN repaired.vectors = R /\ DOMAIN repaired.buffer = {} /\ repaired.medoid = g.medoid
    BY <1>2, RepairIsClosed DEF FullIndex, HasNode
  <2> HIDE DEF repaired
  <2>3. DOMAIN repaired = IndexFields
    BY <2>2 DEF ClosedIndex, IndexFields
  <2>4. /\ DOMAIN cut = IndexFields /\ cut.nodes = Without(repaired.nodes, d)
        /\ cut.vectors = repaired.vectors /\ cut.buffer = repaired.buffer
        /\ cut.medoid = repaired.medoid /\ cut.slots = repaired.slots
    BY <2>3 DEF NodeDelete, IndexFields
  <2> HIDE DEF cut
  <2>5. /\ DOMAIN unlinked = IndexFields /\ unlinked.nodes = Without(repaired.nodes, d)
        /\ unlinked.vectors = Without(repaired.vectors, d) /\ unlinked.buffer = repaired.buffer
        /\ unlinked.medoid = repaired.medoid /\ unlinked.slots = repaired.slots
    BY <2>4 DEF VectorDelete, IndexFields
  <2>6. handed = IF unlinked.medoid # d THEN unlinked ELSE MedoidSet(unlinked, next)
    BY DEF MedoidHandleDelete
  <2> HIDE DEF unlinked
  <2>7. left = rest
    BY <2>2, <2>5 DEF Without
  <2> HIDE DEF left
  <2>8. (rest = {} => next = None) /\ (rest # {} => next \in rest /\ next # None)
    <3>1. CASE rest = {}
      BY <2>7, <3>1
    <3>2. CASE rest # {}
      <4>1. left \in SUBSET Int /\ left # {} /\ \A x \in left : low <= x
        BY <2>7, <3>2
      <4>2. PICK x \in left : \A y \in left : x <= y
        BY <4>1, SmallestIntegerExists
      <4>3. next \in left
        BY <4>1, <4>2
      <4> HIDE DEF next
      <4> QED
        BY <2>7, <3>2, <4>1, <4>3, NoneAssumption
    <3> QED
      BY <3>1, <3>2
  <2> HIDE DEF next
  <2>9. /\ DOMAIN handed = IndexFields /\ handed.nodes = unlinked.nodes
        /\ handed.vectors = unlinked.vectors /\ handed.buffer = unlinked.buffer
        /\ handed.slots = unlinked.slots
        /\ handed.medoid = IF unlinked.medoid # d THEN unlinked.medoid ELSE next
    <3>1. CASE unlinked.medoid # d
      BY <2>5, <2>6, <3>1
    <3>2. CASE unlinked.medoid = d
      BY <2>5, <2>6, <3>2 DEF MedoidSet, IndexFields
    <3> QED
      BY <3>1, <3>2
  <2> HIDE DEF handed, rest
  <2> DEFINE scrubbed == [r \in DOMAIN handed.nodes |-> [i \in 1..handed.slots |->
                              IF handed.nodes[r][i] # None /\ handed.nodes[r][i].id = d
                              THEN None ELSE handed.nodes[r][i]]]
  <2>10. /\ DOMAIN h = IndexFields /\ h.nodes = scrubbed /\ h.vectors = handed.vectors
         /\ h.buffer = handed.buffer /\ h.slots = handed.slots /\ h.medoid = handed.medoid
    BY <2>9 DEF ScrubDeletedRowid, IndexFields
  <2> HIDE DEF h
  <2>11. /\ DOMAIN handed.nodes = rest /\ DOMAIN handed.vectors = rest
         /\ handed.slots = repaired.slots
         /\ \A x \in rest : /\ handed.nodes[x] = repaired.nodes[x]
                            /\ handed.vectors[x] = repaired.vectors[x] /\ x \in R
    BY <2>2, <2>5, <2>9 DEF Without, rest
  <2>12. ASSUME NEW x \in rest
         PROVE  NodeOK(scrubbed[x], x, rest, handed.slots, handed.vectors)
    <3>1. NodeOK(repaired.nodes[x], x, R, repaired.slots, repaired.vectors)
      BY <2>2, <2>11 DEF ClosedIndex
    <3> DEFINE node == repaired.nodes[x]
    <3>2. NodeOK(Scrubbed(node, repaired.slots, d), x, R \ {d}, repaired.slots, handed.vectors)
      <4> HIDE DEF node
      <4>1. AgreeOn(R \ {d}, handed.vectors, repaired.vectors)
        BY <2>11 DEF rest, AgreeOn
      <4>2. NodeOK(node, x, R, repaired.slots, repaired.vectors)
        BY <3>1 DEF node
      <4> QED
        BY <4>1, <4>2, ScrubbedOK
    <3>3. scrubbed[x] = Scrubbed(node, repaired.slots, d)
      BY <2>11 DEF Scrubbed
    <3> HIDE DEF scrubbed, node
    <3> QED
      BY <2>11, <3>2, <3>3 DEF rest
  <2>13. DOMAIN scrubbed = rest
    BY <2>11
  <2> HIDE DEF scrubbed
  <2>14. (handed.medoid = None <=> rest = {}) /\ (handed.medoid # None => handed.medoid \in rest)
    <3>1. (g.medoid = None <=> R = {}) /\ (g.medoid # None => g.medoid \in R) /\ d \in R
      BY <1>2 DEF FullIndex, ClosedIndex, HasNode
    <3>2. handed.medoid = IF g.medoid # d THEN g.medoid ELSE next
      BY <2>2, <2>5, <2>9
    <3> QED
      BY <2>8, <3>1, <3>2 DEF rest
  <2>15. ClosedIndex(h)
    <3>1. h.slots \in Nat
      BY <2>2, <2>10, <2>11 DEF ClosedIndex
    <3> QED
      BY <2>10, <2>11, <2>12, <2>13, <2>14, <3>1 DEF ClosedIndex, IndexFields
  <2> QED
    BY <2>1, <2>2, <2>5, <2>9, <2>10, <2>11, <2>13, <2>15 DEF FullIndex, rest
<1> QED
  BY <1>1, <1>2

\* A new index has neither a vector nor a node.
LEMMA EmptyIsFull ==
    ASSUME NEW slots \in Nat
    PROVE  FullIndex(EmptyIndex(slots), {})
  BY DEF EmptyIndex, FullIndex, ClosedIndex, IndexFields


\* A search answers with at most as many as it was asked for, and with some
\* when it has visited every row it listed.
LEMMA SearchAnswers ==
    ASSUME NEW g, ClosedIndex(g), NEW query, NEW k \in Nat, NEW size
    PROVE  LET hit == Search(g, query, k, size)
           IN  /\ Len(hit.found) <= k
               /\ hit.ended /\ k # 0 /\ g.medoid # None => Len(hit.found) # 0
<1> DEFINE V == DOMAIN g.nodes
           T == Distances(V, g.vectors, query)
           capacity == IF size < k THEN k ELSE size
           list == SearchLoop(g, query, capacity).list
<1>1. CASE g.medoid = None
  <2>1. Search(g, query, k, size) = [ok |-> TRUE, ended |-> TRUE, found |-> <<>>]
    BY <1>1 DEF Search
  <2> QED
    BY <1>1, <2>1
<1>2. CASE g.medoid # None
  <2>1. HasVector(g, g.medoid)
    BY <1>2 DEF ClosedIndex, HasVector
  <2>2. Search(g, query, k, size) = SearchResult(list, k)
    BY <1>2, <2>1, Zenon DEF Search
  <2>3. list \in Lists(V, T, {})
    BY <1>2, SearchLoopKeeps DEF SearchStates
  <2> HIDE DEF list, V, T
  <2> DEFINE n == Len(list)
             F == {j \in 1..n : list[j].confirmed}
             found(i) == {j \in 1..i : list[j].confirmed}
             S == {i \in found(n) : Cardinality(found(i)) <= k}
             first == At(list, S)
  <2>4. IsList(list, n, V, T, {}) /\ n \in Nat /\ n # 0
    BY <2>3, ListIs DEF IsList, IsPart
  <2>5. SearchResult(list, k) = [ok |-> TRUE, ended |-> NextUnvisited(list) = 0, found |-> first]
    BY Zenon DEF SearchResult, FirstConfirmed
  <2>6. S = Within(F, k)
    <3>1. ASSUME NEW i \in 1..n PROVE found(i) = F \cap 1..i
      BY <2>4
    <3>2. found(n) = F
      OBVIOUS
    <3> HIDE DEF F, found, n
    <3>3. \A i \in F : i \in 1..n
      BY DEF F
    <3> QED
      BY <3>1, <3>2, <3>3 DEF Within
  <2>7. Len(first) = Cardinality(S)
    <3>1. F \in SUBSET (1..n)
      OBVIOUS
    <3>2. S \in SUBSET (1..n)
      OBVIOUS
    <3>3. first = [i \in 1..Cardinality(S) |-> list[Ranked(S, <)[i]]]
      BY Zenon DEF At
    <3> HIDE DEF S, first, n
    <3>4. Cardinality(S) \in Nat
      BY <2>4, <3>2, Enumerated
    <3> DEFINE c == Cardinality(S)
               x(i) == list[Ranked(S, <)[i]]
    <3>5. c \in Nat /\ first = [i \in 1..c |-> x(i)]
      BY <3>3, <3>4
    <3> HIDE DEF c, x
    <3>6. Len(first) = c
      BY <3>5
    <3> QED
      BY <3>6 DEF c
  <2> HIDE DEF first
  <2>8. F \in SUBSET (1..n)
    OBVIOUS
  <2> HIDE DEF S, F
  <2>9. Cardinality(S) <= k /\ (F # {} /\ k # 0 => S # {})
    BY <2>4, <2>6, <2>8, FirstFew
  <2>10. IsFiniteSet(S)
    <3>1. S \in SUBSET (1..n)
      BY <2>6, <2>8 DEF Within
    <3> QED
      BY <2>4, <3>1, Enumerated
  <2>11. ASSUME NextUnvisited(list) = 0 PROVE F # {}
    <3>1. \A i \in 1..n : list[i].visited
      BY <2>4, <2>11, NextUnvisitedIs
    <3>2. 1 \in 1..n
      BY <2>4
    <3>3. list[1].confirmed
      BY <2>4, <3>1, <3>2 DEF IsList, IsPart
    <3> QED
      BY <3>2, <3>3 DEF F
  <2>12. S # {} => Cardinality(S) # 0
    BY <2>10, FS_EmptySet
  <2> DEFINE hit == Search(g, query, k, size)
  <2>13. hit = [ok |-> TRUE, ended |-> NextUnvisited(list) = 0, found |-> first]
    BY <2>2, <2>5
  <2> HIDE DEF hit
  <2>14. Len(hit.found) <= k /\ (hit.ended /\ k # 0 => Len(hit.found) # 0)
    BY <2>7, <2>9, <2>11, <2>12, <2>13
  <2> QED
    BY <2>14 DEF hit
<1> QED
  BY <1>1, <1>2


\* Answers: nodes with distances, each node once.
AnswersOf(V, T) == [rowid : V, distance : T]
Answers(V, T, n) ==
    {s \in [1..n -> AnswersOf(V, T)] : \A i, j \in 1..n : s[i].rowid = s[j].rowid => i = j}

\* Swapping two answers, or not, leaves the same answers.
LEMMA SwappedAnswers ==
    ASSUME NEW V, NEW T, NEW n \in Nat, NEW s \in Answers(V, T, n), NEW i \in 1..n, NEW j \in 1..n
    PROVE  Swapped(s, i, j) \in Answers(V, T, n)
<1> DEFINE C == AnswersOf(V, T)
           w == Swapped(s, i, j)
<1> HIDE DEF C
<1>1. s \in [1..n -> C] /\ \A a, b \in 1..n : s[a].rowid = s[b].rowid => a = b
  BY DEF Answers, C
<1>2. Len(s) = n
  BY <1>1
<1>3. w = [m \in 1..n |-> IF m = i THEN s[j] ELSE IF m = j THEN s[i] ELSE s[m]]
  BY <1>2 DEF Swapped
<1> HIDE DEF w
<1>4. w \in [1..n -> C]
  BY <1>1, <1>3
<1>5. ASSUME NEW a \in 1..n, NEW b \in 1..n, w[a].rowid = w[b].rowid PROVE a = b
  BY <1>1, <1>3, <1>5
<1> QED
  BY <1>4, <1>5 DEF Answers, C, w

LEMMA SwapLaterKeeps ==
    ASSUME NEW V, NEW T, NEW n \in Nat, NEW found \in Answers(V, T, n), NEW i \in 1..n
    PROVE  SwapLater(found, i) \in Answers(V, T, n)
<1> DEFINE D == Answers(V, T, n)
           m == n - i
           later == [a \in 1..(Len(found) - i) |-> i + a]
           Step(s, a) == IF s[later[a]].distance < s[i].distance THEN Swapped(s, i, later[a]) ELSE s
           F == [p \in D \X (1..m) |-> Step(p[1], p[2])]
           G(h) == [s \in SUBSET (1..m) |-> IF s = {} THEN found ELSE Step(h[s \ {Top(s)}], Top(s))]
           it == CHOOSE h : h = G(h)
<1>0. m \in Nat
  OBVIOUS
<1>l. Len(found) = n
  <2> DEFINE C == AnswersOf(V, T)
  <2> HIDE DEF C
  <2>1. found \in [1..n -> C]
    BY DEF Answers, C
  <2> QED
    BY <2>1
<1>d. DOMAIN later = 1..m /\ \A a \in 1..m : later[a] = i + a
  BY <1>l
<1>a. ASSUME NEW a \in 1..m PROVE later[a] \in 1..n
  BY <1>d
<1> HIDE DEF later
<1>1. ASSUME NEW s \in D, NEW a \in 1..m PROVE Step(s, a) \in D
  <2>1. later[a] \in 1..n
    BY <1>a
  <2>2. Swapped(s, i, later[a]) \in D
    BY <2>1, SwappedAnswers
  <2> QED
    BY <2>2
<1>2. PICK h \in [SUBSET (1..m) -> D] : IsChain(F, found, m, h)
  <2>1. \A s \in D, a \in 1..m : F[<<s, a>>] \in D
    <3> HIDE DEF D, Step, m
    <3> QED
      BY <1>1
  <2> HIDE DEF F, D, m
  <2>2. found \in D
    BY DEF D
  <2> QED
    BY <1>0, <2>1, <2>2, ChainExists
<1>3. h = G(h)
  <2> HIDE DEF D, Step, m
  <2>1. ASSUME NEW s \in SUBSET (1..m), s # {} PROVE F[<<h[s \ {Top(s)}], Top(s)>>] = Step(h[s \ {Top(s)}], Top(s))
    <3>1. Top(s) \in 1..m
      BY <1>0, <2>1, TopIs
    <3>2. s \ {Top(s)} \in SUBSET (1..m)
      OBVIOUS
    <3> QED
      BY <3>1, <3>2
  <2> HIDE DEF F
  <2> QED
    BY <1>2, <2>1 DEF IsChain
<1>4. it = G(it)
  <2> HIDE DEF G
  <2> QED
    BY <1>3
<1> HIDE DEF m
<1>5. SwapLater(found, i) = it[1..m]
  BY <1>d, Zenon DEF SwapLater, FoldLeft, MapThenFoldSet, Max, Top, later
<1> HIDE DEF it, Step
<1>6. it[1..0] = found /\ \A a \in 1..m : it[1..a] = Step(it[1..(a - 1)], a)
  <2>1. it[1..0] = found
    BY <1>4
  <2>2. ASSUME NEW a \in 1..m PROVE it[1..a] = Step(it[1..(a - 1)], a)
    <3>1. Top(1..a) = a /\ (1..a) \ {a} = 1..(a - 1) /\ 1..a # {} /\ 1..a \in SUBSET (1..m)
      BY <1>0, TopOfInterval
    <3> QED
      BY <1>4, <3>1
  <2> QED
    BY <2>1, <2>2
<1> DEFINE S == {a \in 0..m : it[1..a] \in D}
<1> HIDE DEF D
<1>7. 0 \in S /\ \A a \in 1..m : a - 1 \in S => a \in S
  <2>1. found \in D
    BY DEF D
  <2> QED
    BY <1>0, <1>1, <1>6, <2>1
<1>8. m \in S
  <2> HIDE DEF S
  <2>1. \A a \in 0..m : a \in S
    BY <1>0, <1>7, UpTo
  <2> QED
    BY <1>0, <2>1
<1> QED
  BY <1>5, <1>8 DEF D

\* Sorting by exchange leaves the same answers.
LEMMA ExchangeSortKeeps ==
    ASSUME NEW V, NEW T, NEW n \in Nat, NEW found \in Answers(V, T, n)
    PROVE  ExchangeSort(found) \in Answers(V, T, n)
<1> DEFINE D == Answers(V, T, n)
           positions == [i \in 1..Len(found) |-> i]
           Step(s, a) == SwapLater(s, positions[a])
           F == [p \in D \X (1..n) |-> Step(p[1], p[2])]
           G(h) == [s \in SUBSET (1..n) |-> IF s = {} THEN found ELSE Step(h[s \ {Top(s)}], Top(s))]
           it == CHOOSE h : h = G(h)
<1>l. Len(found) = n
  <2> DEFINE C == AnswersOf(V, T)
  <2> HIDE DEF C
  <2>1. found \in [1..n -> C]
    BY DEF Answers, C
  <2> QED
    BY <2>1
<1>d. DOMAIN positions = 1..n /\ \A a \in 1..n : positions[a] = a
  BY <1>l
<1> HIDE DEF positions
<1>1. ASSUME NEW s \in D, NEW a \in 1..n PROVE Step(s, a) \in D
  BY <1>d, SwapLaterKeeps
<1>2. PICK h \in [SUBSET (1..n) -> D] : IsChain(F, found, n, h)
  <2>1. \A s \in D, a \in 1..n : F[<<s, a>>] \in D
    <3> HIDE DEF D, Step
    <3> QED
      BY <1>1
  <2> HIDE DEF F, D
  <2>2. found \in D
    BY DEF D
  <2> QED
    BY <2>1, <2>2, ChainExists
<1>3. h = G(h)
  <2> HIDE DEF D, Step
  <2>1. ASSUME NEW s \in SUBSET (1..n), s # {} PROVE F[<<h[s \ {Top(s)}], Top(s)>>] = Step(h[s \ {Top(s)}], Top(s))
    <3>1. Top(s) \in 1..n
      BY <2>1, TopIs
    <3>2. s \ {Top(s)} \in SUBSET (1..n)
      OBVIOUS
    <3> QED
      BY <3>1, <3>2
  <2> HIDE DEF F
  <2> QED
    BY <1>2, <2>1 DEF IsChain
<1>4. it = G(it)
  <2> HIDE DEF G
  <2> QED
    BY <1>3
<1>5. ExchangeSort(found) = it[1..n]
  BY <1>d, Zenon DEF ExchangeSort, FoldLeft, MapThenFoldSet, Max, Top, positions
<1> HIDE DEF it, Step
<1>6. it[1..0] = found /\ \A a \in 1..n : it[1..a] = Step(it[1..(a - 1)], a)
  <2>1. it[1..0] = found
    BY <1>4
  <2>2. ASSUME NEW a \in 1..n PROVE it[1..a] = Step(it[1..(a - 1)], a)
    <3>1. Top(1..a) = a /\ (1..a) \ {a} = 1..(a - 1) /\ 1..a # {} /\ 1..a \in SUBSET (1..n)
      BY TopOfInterval
    <3> QED
      BY <1>4, <3>1
  <2> QED
    BY <2>1, <2>2
<1> DEFINE S == {a \in 0..n : it[1..a] \in D}
<1> HIDE DEF D
<1>7. 0 \in S /\ \A a \in 1..n : a - 1 \in S => a \in S
  <2>1. found \in D
    BY DEF D
  <2> QED
    BY <1>1, <1>6, <2>1
<1>8. n \in S
  <2> HIDE DEF S
  <2>1. \A a \in 0..n : a \in S
    BY <1>7, UpTo
  <2> QED
    BY <2>1
<1> QED
  BY <1>5, <1>8 DEF D

\* With nothing buffered a KNN query answers with nodes, none twice, no more than
\* it asks for, and with some when its search ends.
LEMMA KnnAnswers ==
    ASSUME NEW g, NEW R, FullIndex(g, R), NEW query, NEW k \in Nat, NEW L
    PROVE  LET answer == Knn(g, query, k, L)
           IN  /\ answer.ok
               /\ \E n \in Nat :
                     /\ answer.rows \in Answers(R, Distances(R, g.vectors, query), n)
                     /\ n <= k
                     /\ answer.ended /\ k # 0 /\ R # {} => n # 0
<1> DEFINE T == Distances(R, g.vectors, query)
           hit == Search(g, query, k, L)
           graph == [i \in 1..Len(hit.found) |->
                        [rowid |-> hit.found[i].rowid, distance |-> hit.found[i].distance]]
           answer == Knn(g, query, k, L)
<1>1. ClosedIndex(g) /\ DOMAIN g.nodes = R /\ DOMAIN g.buffer = {}
  BY DEF FullIndex
<1>2. CASE k = 0
  <2>1. answer = [ok |-> TRUE, ended |-> TRUE, rows |-> <<>>]
    <3>1. k <= 0
      BY <1>2
    <3> QED
      BY <3>1, Zenon DEF Knn
  <2>2. <<>> \in Answers(R, T, 0)
    BY DEF Answers
  <2> QED
    BY <1>2, <2>1, <2>2
<1>3. CASE k # 0
  <2>1. hit.ok /\ hit.found \in Parts(R, T)
    BY <1>1, SearchFinds
  <2>2. Len(hit.found) <= k /\ (hit.ended /\ k # 0 /\ g.medoid # None => Len(hit.found) # 0)
    BY <1>1, SearchAnswers
  <2> HIDE DEF hit, T
  <2>3. PICK n \in Nat : IsPart(hit.found, n, R, T, R)
    BY <2>1, PartIs
  <2>4. Len(hit.found) = n
    BY <2>3, PartIs
  <2>5. graph \in Answers(R, T, n)
    <3>1. /\ hit.found \in [1..n -> Candidates(R, T)]
          /\ \A i, j \in 1..n : hit.found[i].rowid = hit.found[j].rowid => i = j
      BY <2>3 DEF IsPart
    <3>2. ASSUME NEW i \in 1..n PROVE graph[i] \in AnswersOf(R, T) /\ graph[i].rowid = hit.found[i].rowid
      BY <2>4, <3>1 DEF Candidates, AnswersOf
    <3>3. graph = [i \in 1..n |-> graph[i]]
      BY <2>4
    <3> HIDE DEF graph
    <3> QED
      BY <3>1, <3>2, <3>3 DEF Answers
  <2> DEFINE buffered == Ranked(DOMAIN g.buffer, <)
             merged == FoldLeft(LAMBDA f, r : MergeBuffered(f, r, Distance(query, g.buffer[r]), k),
                                graph, buffered)
  <2>6. DOMAIN buffered = {}
    <3>1. Cardinality(DOMAIN g.buffer) = 0
      BY <1>1, FS_EmptySet
    <3> QED
      BY <3>1 DEF Ranked
  <2> HIDE DEF graph, buffered
  <2>7. merged = graph
    <3> DEFINE G(h) == [s \in SUBSET {} |-> IF s = {} THEN graph ELSE
                           LET f == h[s \ {Top(s)}]
                               r == buffered[Top(s)]
                           IN  MergeBuffered(f, r, Distance(query, g.buffer[r]), k)]
               it == CHOOSE h : h = G(h)
    <3>1. [s \in {{}} |-> graph] = G([s \in {{}} |-> graph])
      OBVIOUS
    <3>2. it = G(it)
      <4> HIDE DEF G
      <4> QED
        BY <3>1
    <3>3. merged = it[{}]
      BY <2>6, Zenon DEF FoldLeft, MapThenFoldSet, Max, Top
    <3> HIDE DEF it
    <3> QED
      BY <3>2, <3>3
  <2> HIDE DEF merged
  <2>8. answer = [ok |-> hit.ok, ended |-> hit.ended, rows |-> ExchangeSort(merged)]
    <3>1. ~(k <= 0)
      BY <1>3
    <3> QED
      BY <3>1, Zenon DEF Knn, hit, merged, graph, buffered
  <2>9. ExchangeSort(merged) \in Answers(R, T, n)
    BY <2>5, <2>7, ExchangeSortKeeps
  <2>10. R # {} => g.medoid # None
    BY <1>1 DEF ClosedIndex
  <2> HIDE DEF answer
  <2>11. answer.ok = hit.ok /\ answer.ended = hit.ended /\ answer.rows = ExchangeSort(merged)
    BY <2>8
  <2>12. answer.ok /\ answer.rows \in Answers(R, T, n)
    BY <2>1, <2>9, <2>11
  <2>13. n <= k /\ (answer.ended /\ k # 0 /\ R # {} => n # 0)
    BY <1>3, <2>2, <2>4, <2>10, <2>11
  <2> QED
    BY <2>12, <2>13 DEF answer, T
<1> QED
  BY <1>2, <1>3


-----------------------------------------------------------------------------
\* What an INSERT into a DiskANN table needs. With a buffer the medoid may pass to
\* a row that is only buffered and stay when that row is deleted (see
\* NoRepairNeeded); every search then fails, and every INSERT that flushes.
Unbuffered(t) == t.index = "diskann" => t.bufferThreshold = 0
Searchable(s, t) ==
    t.index = "diskann" /\ Unbuffered(t) =>
        Seeded(s.graph) /\ FullIndex(s.graph, DOMAIN s.rowids)

\* An INSERT under a key that no row has succeeds, and so will the next.
LEMMA FreeKeyInserts ==
    ASSUME NEW s, NEW t, NEW id, NEW row, IsDeclared(t), StoreOK(s, t), Searchable(s, t),
           Unbuffered(t), IF id = None THEN t.pk = "int" ELSE ~HasId(s, t, id),
           t.pk = "int" => id \in Int \cup {None}
    PROVE  InsertRow(s, t, id, row).ok
<1> DEFINE r == NewRowid(s, t, id)
           s1 == InsertRowid(s, t, id, r)
<1>1. InsertRow(s, t, id, row) = IF Chunked(t) THEN InsertChunked(s1, t, r, row)
                                 ELSE InsertGraphRow(s1, t, r, row)
  BY DEF InsertRow, IsDeclared
<1>2. r \in Int /\ r \notin DOMAIN s.rowids
  <2>1. s.rowidSeq + 1 \in Int /\ s.rowidSeq + 1 \notin DOMAIN s.rowids
    BY DEF StoreOK, RowsShape
  <2> QED
    BY <2>1 DEF NewRowid, HasId, IsDeclared
<1>3. t.pk = "text" => ~HasId(s, t, id)
  BY DEF IsDeclared
<1> HIDE DEF r
<1>4. CASE Chunked(t)
  BY <1>1, <1>2, <1>3, <1>4, InsertChunkedIs
<1>5. CASE ~Chunked(t)
  <2>1. t.index = "diskann" /\ t.bufferThreshold = 0 /\ Seeded(s.graph)
    BY <1>5 DEF Chunked, Unbuffered, Searchable
  <2>2. s1.graph = s.graph
    BY DEF InsertRowid, StoreOK, RowsShape, Fields
  <2> HIDE DEF s1
  <2>3. InsertRow(s, t, id, row).ok = Insert(s.graph, r, row.vector, 0, InsertBeam(t)).ok
    BY <1>1, <1>5, <2>1, <2>2 DEF InsertGraphRow, WithGraph
  <2> QED
    BY <1>2, <2>1, <2>3, UnbufferedInsertSucceeds
<1> QED
  BY <1>4, <1>5

LEMMA InsertKeepsSearchable ==
    ASSUME NEW s, NEW t, NEW id, NEW row, IsDeclared(t), StoreOK(s, t), Searchable(s, t),
           t.pk = "int" => id \in Int \cup {None}, InsertRow(s, t, id, row).ok
    PROVE  Searchable(InsertRow(s, t, id, row).store, t)
<1> SUFFICES ASSUME t.index = "diskann", Unbuffered(t)
             PROVE  /\ Seeded(InsertRow(s, t, id, row).store.graph)
                    /\ FullIndex(InsertRow(s, t, id, row).store.graph,
                                 DOMAIN InsertRow(s, t, id, row).store.rowids)
  BY DEF Searchable
<1> DEFINE r == NewRowid(s, t, id)
           s1 == InsertRowid(s, t, id, r)
           taken == IF id = None THEN t.pk = "text" ELSE HasId(s, t, id)
<1>1. ~taken
  BY DEF InsertRow
<1>2. InsertRow(s, t, id, row) = InsertGraphRow(s1, t, r, row)
  BY <1>1 DEF InsertRow, Chunked
<1>3. r \in Int /\ r \notin DOMAIN s.rowids
  <2>1. s.rowidSeq + 1 \in Int /\ s.rowidSeq + 1 \notin DOMAIN s.rowids
    BY DEF StoreOK, RowsShape
  <2> QED
    BY <1>1, <2>1 DEF NewRowid, HasId, IsDeclared
<1>4. DOMAIN s1 = Fields /\ s1.graph = s.graph /\ DOMAIN s1.rowids = DOMAIN s.rowids \cup {r}
  <2>1. DOMAIN s = Fields
    BY DEF StoreOK, RowsShape
  <2> HIDE DEF r
  <2> QED
    BY <2>1 DEF InsertRowid, Put, Fields
<1> HIDE DEF r, s1, taken
<1> DEFINE linked == Insert(s.graph, r, row.vector, 0, InsertBeam(t)).index
           g == [s1 EXCEPT !.graph = linked]
<1>5. InsertRow(s, t, id, row).store = WriteAux(g, t, r, row.aux)
  BY <1>2, <1>4 DEF InsertGraphRow, WithGraph, Unbuffered
<1>6. Seeded(linked)
  BY <1>3, UnbufferedInsertSucceeds DEF Searchable
<1>f. FullIndex(linked, DOMAIN s.rowids \cup {r})
  <2>1. FullIndex(s.graph, DOMAIN s.rowids) /\ r # None
    BY <1>3, NoneAssumption DEF Searchable
  <2> QED
    BY <1>3, <2>1, InsertKeepsFull
<1> HIDE DEF linked
<1>7. DOMAIN g = Fields /\ g.graph = linked /\ DOMAIN g.rowids = DOMAIN s.rowids \cup {r}
  BY <1>4 DEF Fields
<1> HIDE DEF g
<1>8. /\ WriteAux(g, t, r, row.aux).graph = linked
      /\ DOMAIN WriteAux(g, t, r, row.aux).rowids = DOMAIN s.rowids \cup {r}
  BY <1>7 DEF WriteAux, Fields
<1> QED
  BY <1>5, <1>6, <1>f, <1>8

LEMMA DeleteKeepsSearchable ==
    ASSUME NEW s, NEW t, NEW id, StoreOK(s, t), Searchable(s, t)
    PROVE  Searchable(DeleteRow(s, t, id), t)
<1> SUFFICES ASSUME t.index = "diskann", Unbuffered(t)
             PROVE  /\ Seeded(DeleteRow(s, t, id).graph)
                    /\ FullIndex(DeleteRow(s, t, id).graph, DOMAIN DeleteRow(s, t, id).rowids)
  BY DEF Searchable
<1> DEFINE r == RowidFromId(s, t, id)
           cut == Delete(s.graph, r, 0)
           g == [s EXCEPT !.graph = cut]
<1>1. DeleteRow(s, t, id) = DeleteAux(DeleteRowids(g, r), t, r)
  BY DEF DeleteRow, Chunked, Unbuffered
<1> HIDE DEF r
<1>2. Seeded(cut)
  BY UnbufferedDeleteKeeps DEF Searchable
<1>f. FullIndex(cut, DOMAIN s.rowids \ {r})
  <2>1. FullIndex(s.graph, DOMAIN s.rowids) /\ Seeded(s.graph)
    BY DEF Searchable
  <2>2. DOMAIN s.rowids \subseteq Int /\ \E low \in Int : \A x \in DOMAIN s.rowids : low <= x
    BY <2>1 DEF FullIndex, Seeded
  <2> QED
    BY <2>1, <2>2, DeleteKeepsFull
<1> HIDE DEF cut
<1>3. DOMAIN g = Fields /\ g.graph = cut /\ g.rowids = s.rowids
  BY DEF StoreOK, RowsShape, Fields
<1> HIDE DEF g
<1>4. /\ DeleteAux(DeleteRowids(g, r), t, r).graph = cut
      /\ DOMAIN DeleteAux(DeleteRowids(g, r), t, r).rowids = DOMAIN s.rowids \ {r}
  BY <1>3 DEF DeleteAux, DeleteRowids, Without, Fields
<1> QED
  BY <1>1, <1>2, <1>f, <1>4

LEMMA ReplaceKeepsSearchable ==
    ASSUME NEW s, NEW t, NEW id, NEW row, IsDeclared(t), StoreOK(s, t), Searchable(s, t),
           t.pk = "int" => id \in Int \cup {None}, ReplaceRow(s, t, id, row).ok
    PROVE  Searchable(ReplaceRow(s, t, id, row).store, t)
<1>1. HasId(s, t, id) => RowidFromId(s, t, id) \in DOMAIN s.rowids
  BY DEF HasId, RowidFromId
<1> DEFINE d == IF id # None /\ HasId(s, t, id) THEN DeleteRow(s, t, id) ELSE s
<1>2. ReplaceRow(s, t, id, row) = InsertRow(d, t, id, row)
  BY DEF ReplaceRow
<1>3. StoreOK(d, t) /\ Searchable(d, t)
  BY <1>1, DeleteRowKeeps, DeleteKeepsSearchable
<1> HIDE DEF d
<1> QED
  BY <1>2, <1>3, InsertKeepsSearchable

\* A new index has neither a vector nor a medoid.
LEMMA EmptyIsSearchable ==
    ASSUME NEW t, IsDeclared(t)
    PROVE  Searchable(EmptyStore(t), t)
<1>1. EmptyStore(t).graph = EmptyIndex(t.slots) /\ DOMAIN EmptyStore(t).rowids = {}
  BY DEF EmptyStore
<1>2. Seeded(EmptyIndex(t.slots))
  BY DEF EmptyIndex, Seeded, IndexFields
<1>3. FullIndex(EmptyIndex(t.slots), {})
  BY EmptyIsFull DEF IsDeclared
<1> QED
  BY <1>1, <1>2, <1>3 DEF Searchable

-----------------------------------------------------------------------------
SeededInv == schema # Absent => Searchable(store, TableOf[schema.args])

LEMMA KindSearchable ==
    ASSUME NEW t, NEW u, SameKind(t, u)
    PROVE  /\ Unbuffered(t) <=> Unbuffered(u)
           /\ \A s : Searchable(s, t) <=> Searchable(s, u)
  BY SameKindIs DEF Searchable, Unbuffered

LEMMA StatementKeepsSeeded ==
    ASSUME IInv, SeededInv, table # Absent, NEW result, Statement(result),
           Searchable(store, table) => Searchable(result.store, table)
    PROVE  SeededInv'
<1>1. store' = result.store /\ schema' = schema
  BY DEF Statement
<1>2. SameKind(table, TableOf[schema.args]) /\ schema # Absent
  BY SchemaIsThere DEF IInv, TableInv
<1>3. Searchable(store, table)
  BY <1>2, KindSearchable DEF SeededInv
<1>4. Searchable(store', TableOf[schema.args])
  BY <1>1, <1>2, <1>3, KindSearchable
<1> QED
  BY <1>1, <1>4 DEF SeededInv

LEMMA NextKeepsSeeded == IInv /\ SeededInv /\ [Next]_vars => SeededInv'
<1> SUFFICES ASSUME IInv, SeededInv, [Next]_vars PROVE SeededInv'
  OBVIOUS
<1>1. ASSUME NEW args \in Declarations, NEW n \in NamesOf(TableOf[args]), Create(n, args)
      PROVE  SeededInv'
  <2>1. /\ schema' = [name |-> n, args |-> args]
        /\ table' = TableOf[args] /\ store' = EmptyStore(table')
    BY <1>1 DEF Create, TableOf
  <2>2. schema'.args = args
    BY <2>1
  <2>3. IsDeclared(TableOf[args])
    BY <1>1, DeclaredIsKind DEF Create, Accepts
  <2> QED
    BY <2>1, <2>2, <2>3, EmptyIsSearchable DEF SeededInv
<1>2. CASE Connect
  BY <1>2 DEF Connect, SeededInv
<1>3. CASE Disconnect
  BY <1>3 DEF Disconnect, SeededInv
<1>4. CASE Destroy
  BY <1>4 DEF Destroy, SeededInv
<1>5. ASSUME NEW new \in ForTable(NamesOf), Rename(new) PROVE SeededInv'
  <2>1. /\ schema # Absent /\ schema' = [schema EXCEPT !.name = new] /\ store' = store
        /\ DOMAIN schema = {"name", "args"}
    BY <1>5, SchemaIsThere DEF Rename
  <2>2. schema'.args = schema.args
    BY <2>1
  <2> QED
    BY <2>1, <2>2 DEF SeededInv
<1>6. ASSUME NEW command \in ForTable(CommandsOf), HandleCommand(command[1], command[2])
      PROVE  SeededInv'
  BY <1>6 DEF HandleCommand, SeededInv
<1>7. ASSUME NEW row \in ForTable(RowsOf), NEW id \in ForTable(KeysOf) \cup {None},
             InsertStatement(id, row)
      PROVE  SeededInv'
  <2>1. table # Absent /\ id \in KeysOf(TableOf[schema.args]) \cup {None}
    BY <1>7 DEF ForTable
  <2>2. IsDeclared(table) /\ StoreOK(store, table) /\ (table.pk = "int" => id \in Int \cup {None})
    BY <2>1, SchemaIsThere
  <2>3. Statement(InsertRow(store, table, id, row)) /\ InsertRow(store, table, id, row).ok
    BY <1>7 DEF InsertStatement, Statement
  <2>4. Searchable(store, table) => Searchable(InsertRow(store, table, id, row).store, table)
    BY <2>2, <2>3, InsertKeepsSearchable
  <2> QED
    BY <2>1, <2>3, <2>4, StatementKeepsSeeded
<1>8. ASSUME NEW row \in ForTable(RowsOf), NEW id \in ForTable(KeysOf), ReplaceStatement(id, row)
      PROVE  SeededInv'
  <2>1. table # Absent /\ id \in KeysOf(TableOf[schema.args])
    BY <1>8 DEF ForTable
  <2>2. IsDeclared(table) /\ StoreOK(store, table) /\ (table.pk = "int" => id \in Int \cup {None})
    BY <2>1, SchemaIsThere
  <2>3. Statement(ReplaceRow(store, table, id, row)) /\ ReplaceRow(store, table, id, row).ok
    BY <1>8 DEF ReplaceStatement, Statement
  <2>4. Searchable(store, table) => Searchable(ReplaceRow(store, table, id, row).store, table)
    BY <2>2, <2>3, ReplaceKeepsSearchable
  <2> QED
    BY <2>1, <2>3, <2>4, StatementKeepsSeeded
<1>9. ASSUME NEW id \in ForTable(KeysOf), NEW newId \in ForTable(KeysOf),
             NEW change \in ForTable(ChangesOf),
             UpdateByKey(id, newId, change) \/ UpdateByScan(id, newId, change)
      PROVE  SeededInv'
  <2> DEFINE result == UpdateRow(store, table, id, newId, change)
  <2>1. table # Absent /\ Statement(result)
    BY <1>9 DEF ForTable, UpdateByKey, UpdateByScan
  <2>2. IsDeclared(table) /\ StoreOK(store, table)
    BY <2>1, SchemaIsThere
  <2>3. ~Chunked(table) => result.store.graph = store.graph /\ result.store.rowids = store.rowids
    BY <2>2, UpdateRowKeepsOthers
  <2> HIDE DEF result
  <2>4. Searchable(store, table) => Searchable(result.store, table)
    BY <2>3 DEF Searchable, Chunked
  <2> QED
    BY <2>1, <2>4, StatementKeepsSeeded
<1>10. ASSUME NEW id \in ForTable(KeysOf), DeleteStatement(id) PROVE SeededInv'
  <2> DEFINE result == [ok |-> TRUE, store |-> DeleteRow(store, table, id)]
  <2>1. table # Absent /\ Statement(result) /\ result.store = DeleteRow(store, table, id)
    BY <1>10 DEF ForTable, DeleteStatement
  <2>2. StoreOK(store, table)
    BY <2>1, SchemaIsThere
  <2> HIDE DEF result
  <2>3. Searchable(store, table) => Searchable(result.store, table)
    BY <2>1, <2>2, DeleteKeepsSearchable
  <2> QED
    BY <2>1, <2>3, StatementKeepsSeeded
<1>11. CASE UNCHANGED vars
  BY <1>11 DEF vars, SeededInv
<1> QED
  BY <1>1, <1>2, <1>3, <1>4, <1>5, <1>6, <1>7, <1>8, <1>9, <1>10, <1>11 DEF Next

LEMMA FreeKeysDoInsert ==
    ASSUME IInv, SeededInv, \A args \in Declarations : Declare(args).ok => Unbuffered(TableOf[args])
    PROVE  FreeKeysInsert
<1> SUFFICES ASSUME table # Absent,
                    NEW id \in KeysOf(TableOf[schema.args]),
                    NEW row \in RowsOf(TableOf[schema.args]),
                    ~HasId(store, table, id)
             PROVE  InsertRow(store, table, id, row).ok
  BY DEF FreeKeysInsert, Kept
<1>1. /\ schema # Absent /\ Accepts(schema.args)
      /\ IsDeclared(table) /\ StoreOK(store, table)
      /\ table.pk = "int" => KeysOf(TableOf[schema.args]) \subseteq Int
      /\ SameKind(table, TableOf[schema.args])
  BY SchemaIsThere DEF IInv, TableInv
<1>2. id # None
  BY <1>1, DeclaredIsKind
<1>3. Unbuffered(table) /\ Searchable(store, table)
  BY <1>1, KindSearchable DEF SeededInv, Accepts
<1> QED
  BY <1>1, <1>2, <1>3, FreeKeyInserts

\* In tables whose DiskANN index is not buffered, a statement that succeeds leaves
\* the rows that SQL says, and an INSERT under a free key does succeed: rowids,
\* slots, text rows and the medoid that deletions left behind are not in its way.
THEOREM Vec0StatementsMeanRows ==
    ASSUME \A args \in Declarations : Declare(args).ok => Unbuffered(TableOf[args])
    PROVE  Spec => []StatementsMeanRows
<1>1. Init => IndexInv /\ SeededInv
  BY DEF Init, IndexInv, SeededInv
<1>2. IInv /\ IndexInv /\ SeededInv => StatementsMeanRows
  BY RowsMeant, FreeKeysDoInsert DEF StatementsMeanRows
<1> QED
  BY <1>1, <1>2, Vec0Invariant, NextIsTableNext, NextKeepsSeeded, PTL DEF Spec

-----------------------------------------------------------------------------
\* The index of a table that is not buffered describes its rows.
LEMMA GraphIsFull ==
    ASSUME IInv, SeededInv, table # Absent, table.index = "diskann",
           \A args \in Declarations : Declare(args).ok => Unbuffered(TableOf[args])
    PROVE  FullIndex(store.graph, Live)
<1>1. schema # Absent /\ Accepts(schema.args) /\ SameKind(table, TableOf[schema.args])
  BY SchemaIsThere DEF IInv, TableInv
<1> QED
  BY <1>1, KindSearchable DEF SeededInv, Accepts, Searchable, Live

LEMMA FullIsClosed ==
    ASSUME IInv, SeededInv, \A args \in Declarations : Declare(args).ok => Unbuffered(TableOf[args])
    PROVE  GraphIsClosed
<1> SUFFICES ASSUME table # Absent, table.index = "diskann" PROVE GraphIsClosed
  BY DEF GraphIsClosed, Kept
<1> DEFINE g == store.graph
<1>1. FullIndex(g, Live)
  BY GraphIsFull
<1> HIDE DEF g
<1>2. /\ DOMAIN g.vectors = Live /\ DOMAIN g.nodes \cup DOMAIN g.buffer = Live
      /\ DOMAIN g.nodes \cap DOMAIN g.buffer = {}
  BY <1>1 DEF FullIndex
<1>3. ClosedIndex(g) /\ g.slots \in Nat
  BY <1>1 DEF FullIndex, ClosedIndex
<1>4. ASSUME NEW r \in DOMAIN g.nodes
      PROVE  LET used == {i \in 1..g.slots : g.nodes[r][i] # None}
             IN  /\ Neighbours(g.nodes[r]) \subseteq DOMAIN g.nodes \ {r}
                 /\ \A i \in used : g.nodes[r][i].q = Quantize(g.vectors[g.nodes[r][i].id])
                 /\ Cardinality(Neighbours(g.nodes[r])) = Cardinality(used)
  <2> DEFINE node == g.nodes[r]
             V == DOMAIN g.nodes
  <2>1. NodeOK(node, r, V, g.slots, g.vectors)
    BY <1>3 DEF ClosedIndex
  <2> HIDE DEF node, V
  <2>2. Neighbours(node) \subseteq V \ {r}
    BY <1>3, <2>1, NeighboursAre
  <2>3. Cardinality(Neighbours(node)) = Cardinality({i \in 1..g.slots : node[i] # None})
    BY <1>3, <2>1, NeighboursCount
  <2>4. ASSUME NEW i \in 1..g.slots, node[i] # None PROVE node[i].q = Quantize(g.vectors[node[i].id])
    <3>1. node[i] \in Slots(V \ {r}, g.vectors)
      BY <2>1 DEF NodeOK
    <3> QED
      BY <2>4, <3>1, SlotIs
  <2> QED
    BY <2>2, <2>3, <2>4 DEF node, V
<1> QED
  BY <1>2, <1>3, <1>4 DEF GraphIsClosed, ClosedIndex, g

\* In tables whose DiskANN index is not buffered, the index describes the rows
\* after every statement: diskann_insert links a row to live rows, each way and
\* none twice, and diskann_delete leaves no slot and no medoid that names the row.
THEOREM Vec0GraphIsClosed ==
    ASSUME \A args \in Declarations : Declare(args).ok => Unbuffered(TableOf[args])
    PROVE  Spec => []GraphIsClosed
<1>1. Init => SeededInv
  BY DEF Init, SeededInv
<1>2. IInv /\ SeededInv => GraphIsClosed
  BY FullIsClosed
<1> QED
  BY <1>1, <1>2, Vec0Invariant, NextKeepsSeeded, PTL DEF Spec

\* Every KNN query that is asked wants so many rows, and its search ends.
SearchesStop ==
    (Kept /\ table.index = "diskann") =>
        \A n \in 1..Len(Asked) :
            LET q == Asked[n]
                plan == BestIndex(table, q.cs, q.orderBy)
            IN  (plan.ok /\ plan.plan = "knn") =>
                    KOf(q, plan) \in Nat /\ Filter(store, table, q.cs, plan).ended

\* A KNN query of a DiskANN table is answered by the graph.
LEMMA KnnOfGraph ==
    ASSUME NEW s, NEW t, t.index = "diskann", NEW q, NEW plan, plan.plan = "knn"
    PROVE  Filter(s, t, q.cs, plan) = Knn(s.graph, q.cs[plan.args[1]].value, KOf(q, plan), SearchBeam(t))
<1>1. Filter(s, t, q.cs, plan) = FilterKnn(s, t, q.cs, plan.args)
  BY Zenon DEF Filter
<1>2. FilterKnn(s, t, q.cs, plan.args)
        = Knn(s.graph, q.cs[plan.args[1]].value, q.cs[plan.args[2]].value, SearchBeam(t))
  BY Zenon DEF FilterKnn
<1> QED
  BY <1>1, <1>2 DEF KOf

LEMMA FullAnswersWell ==
    ASSUME IInv, SeededInv, SearchesStop,
           \A args \in Declarations : Declare(args).ok => Unbuffered(TableOf[args])
    PROVE  SearchEnds
<1> SUFFICES ASSUME Kept, table.index = "diskann", NEW n \in 1..Len(Asked)
             PROVE  LET q == Asked[n]
                        plan == BestIndex(table, q.cs, q.orderBy)
                    IN  (plan.ok /\ plan.plan = "knn") =>
                            EndsWell(Filter(store, table, q.cs, plan), KOf(q, plan))
  BY Zenon DEF SearchEnds
<1> DEFINE q == Asked[n]
           plan == BestIndex(table, q.cs, q.orderBy)
           answer == Filter(store, table, q.cs, plan)
           k == KOf(q, plan)
           query == q.cs[plan.args[1]].value
           T == Distances(Live, store.graph.vectors, query)
<1>1. FullIndex(store.graph, Live)
  BY GraphIsFull DEF Kept
<1>2. (plan.ok /\ plan.plan = "knn") => k \in Nat /\ answer.ended
  BY Zenon DEF SearchesStop
<1> HIDE DEF q, plan
<1> SUFFICES ASSUME plan.ok, plan.plan = "knn" PROVE EndsWell(answer, k)
  BY Zenon DEF q, plan
<1>3. k \in Nat /\ answer.ended
  BY <1>2
<1>4. answer = Knn(store.graph, query, k, SearchBeam(table))
  BY KnnOfGraph
<1> HIDE DEF k, query, answer
<1>5. PICK m \in Nat : /\ answer.ok
                       /\ answer.rows \in Answers(Live, T, m)
                       /\ m <= k
                       /\ answer.ended /\ k # 0 /\ Live # {} => m # 0
  BY <1>1, <1>3, <1>4, KnnAnswers
<1> DEFINE rows == answer.rows
           ids == [i \in 1..Len(rows) |-> rows[i].rowid]
<1> HIDE DEF T
<1>6. /\ rows \in [1..m -> AnswersOf(Live, T)]
      /\ \A i, j \in 1..m : rows[i].rowid = rows[j].rowid => i = j
  BY <1>5 DEF Answers
<1> HIDE DEF rows
<1>7. Len(rows) = m
  <2> DEFINE C == AnswersOf(Live, T)
  <2>1. rows \in [1..m -> C] /\ m \in Nat
    BY <1>5, <1>6
  <2> HIDE DEF C
  <2> QED
    BY <2>1
<1>8. ids = [i \in 1..m |-> rows[i].rowid]
  BY <1>7
<1>9. \A i \in 1..m : rows[i].rowid \in Live
  BY <1>6 DEF AnswersOf
<1> HIDE DEF ids
<1>10. Len(ids) = m /\ DOMAIN ids = 1..m /\ \A i \in 1..m : ids[i] = rows[i].rowid
  <2>1. m \in Nat
    BY <1>5
  <2> QED
    BY <1>8, <2>1
<1>11. Range(ids) \subseteq Live /\ IsInjective(ids)
  BY <1>6, <1>9, <1>10 DEF Range, IsInjective
<1>12. (Live # {} /\ k > 0) => ids # <<>>
  BY <1>3, <1>5, <1>10
<1>13. Len(ids) <= k
  BY <1>5, <1>10
<1> QED
  BY <1>3, <1>5, <1>11, <1>12, <1>13 DEF EndsWell, ids, rows

\* In tables whose DiskANN index is not buffered, what a KNN query returns when
\* its search ends (diskann_search, vec0Filter_knn_diskann) are live rows, none
\* twice, at most as many as it asks for, and at least one if there is any: no
\* slot, medoid or candidate outlives its row, and whatever is pushed off the
\* list, what is left of it has been confirmed.
THEOREM Vec0SearchesAnswer ==
    ASSUME \A args \in Declarations : Declare(args).ok => Unbuffered(TableOf[args])
    PROVE  Spec => [](SearchesStop => SearchEnds)
<1>1. Init => SeededInv
  BY DEF Init, SeededInv
<1>2. IInv /\ SeededInv => (SearchesStop => SearchEnds)
  BY FullAnswersWell
<1> QED
  BY <1>1, <1>2, Vec0Invariant, NextKeepsSeeded, PTL DEF Spec

=============================================================================
