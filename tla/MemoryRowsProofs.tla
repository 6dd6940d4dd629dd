-------------------------- MODULE MemoryRowsProofs --------------------------
(***************************************************************************)
(* Proofs about MemoryRows for any texts and topics, any number of         *)
(* memories, calls and consolidation runs, with any number of failing      *)
(* statements and lookups.                                                 *)
(***************************************************************************)
EXTENDS MemoryRows, FiniteSetTheorems, WellFoundedInduction, SequenceTheorems, TLAPS

\* Among subsets of a finite set there is a minimal one.
LEMMA MinimalExists ==
    ASSUME NEW S, IsFiniteSet(S), NEW B \in SUBSET (SUBSET S), B # {}
    PROVE  \E m \in B : \A t \in B : t \subseteq m => t = m
<1>1. IsWellFoundedOn(StrictSubsetOrdering(S), SUBSET S)
  BY FS_StrictSubsetOrderingWellFounded, FS_FiniteSubsetsOfFinite
<1>2. PICK m \in B : \A t \in B : ~ (<<t, m>> \in StrictSubsetOrdering(S))
  BY <1>1, WFMin
<1> QED
  BY <1>2 DEF StrictSubsetOrdering

\* A set of numbers has a smallest member, a bounded one a largest.
LEMMA SmallestExists ==
    ASSUME NEW S \in SUBSET Nat, S # {}
    PROVE  \E m \in S : \A n \in S : m <= n
<1>1. PICK m \in S : \A n \in S : ~ (<<n, m>> \in OpToRel(<, Nat))
  BY NatLessThanWellFounded, WFMin
<1>2. \A n \in S : ~ (n < m)
  BY <1>1 DEF OpToRel
<1> QED
  BY <1>2

LEMMA LargestExists ==
    ASSUME NEW k \in Nat, NEW S \in SUBSET (1..k), S # {}
    PROVE  \E m \in S : \A n \in S : n <= m
<1> DEFINE T == {n \in Nat : \A s \in S : s <= n}
<1>1. T \in SUBSET Nat /\ T # {}
  <2>1. k \in T
    OBVIOUS
  <2> QED
    BY <2>1
<1>2. PICK m \in T : \A n \in T : m <= n
  <2> HIDE DEF T
  <2> QED
    BY <1>1, SmallestExists
<1>3. m \in S
  <2> SUFFICES ASSUME m \notin S PROVE FALSE
    OBVIOUS
  <2>0. \A x \in S : x >= 1 /\ x \in Nat
    OBVIOUS
  <2>1. PICK x \in S : x >= 1 /\ x \in Nat
    <3> HIDE DEF T
    <3> QED
      BY <2>0
  <2>2. m \in Nat /\ \A s \in S : s <= m /\ s # m /\ s \in Nat
    OBVIOUS
  <2>3. m - 1 \in Nat /\ \A s \in S : s <= m - 1
    BY <2>1, <2>2
  <2>4. m - 1 \in T
    BY <2>3
  <2> QED
    BY <1>2, <2>2, <2>4
<1> QED
  BY <1>3

\* A set of numbers can be listed in increasing order.
Increasing(s, n, S) ==
    /\ s \in [1..n -> S]
    /\ \A a, b \in 1..n : a < b => s[a] < s[b]

\* By taking the largest member out of a smallest set that cannot be listed.
LEMMA EnumeratedFrom ==
    ASSUME NEW S, IsFiniteSet(S), \A x \in S : x \in Nat,
           \A R \in SUBSET S : R # {} => \E m \in R : \A n \in R : n <= m
    PROVE  \E s : Increasing(s, Cardinality(S), S)
<1> DEFINE B == {R \in SUBSET S : ~ \E s : Increasing(s, Cardinality(R), R)}
<1>1. B = {}
  <2> SUFFICES ASSUME B # {} PROVE FALSE
    OBVIOUS
  <2>1. PICK R \in B : \A r \in B : r \subseteq R => r = R
    <3>1. B \in SUBSET (SUBSET S) /\ B # {}
      OBVIOUS
    <3> HIDE DEF B
    <3> QED
      BY <3>1, MinimalExists
  <2>2. IsFiniteSet(R) /\ R \in SUBSET S /\ ~ \E s : Increasing(s, Cardinality(R), R)
    BY FS_Subset
  <2>n. \A x \in R : x \in Nat
    OBVIOUS
  <2>3. R # {}
    <3>1. Cardinality({}) = 0 /\ Increasing(<<>>, 0, {})
      BY FS_EmptySet DEF Increasing
    <3> QED
      BY <2>2, <3>1
  <2>4. PICK m \in R : \A n \in R : n <= m
    BY <2>3
  <2> DEFINE Q == R \ {m}
             n == Cardinality(Q)
  <2>5. IsFiniteSet(R) /\ Cardinality(R) = n + 1 /\ n \in Nat
    <3>1. IsFiniteSet(Q) /\ n = Cardinality(R) - 1 /\ Cardinality(R) \in Nat /\ n \in Nat
      BY <2>2, FS_RemoveElement, FS_CardinalityType
    <3> QED
      BY <2>2, <3>1
  <2>6. PICK q : Increasing(q, n, Q)
    <3>1. Q \notin B
      BY <2>1
    <3> QED
      BY <2>2, <3>1
  <2> DEFINE s == [i \in 1..n + 1 |-> IF i = n + 1 THEN m ELSE q[i]]
  <2>7. Increasing(s, n + 1, R)
    <3>0. n \in Nat /\ q \in [1..n -> Q] /\ \A a, b \in 1..n : a < b => q[a] < q[b]
      BY <2>5, <2>6 DEF Increasing
    <3> HIDE DEF n
    <3>1. \A i \in 1..n + 1 : i # n + 1 => i \in 1..n /\ q[i] \in R /\ q[i] # m
      BY <3>0
    <3>2. s \in [1..n + 1 -> R]
      BY <3>1
    <3>3. ASSUME NEW a \in 1..n + 1, NEW b \in 1..n + 1, a < b PROVE s[a] < s[b]
      <4>1. a \in 1..n
        BY <3>0, <3>3
      <4>2. CASE b = n + 1
        <5>1. q[a] \in R /\ q[a] # m /\ s[a] = q[a] /\ s[b] = m
          <6>1. a # n + 1
            BY <3>0, <4>1
          <6> QED
            BY <3>1, <4>2, <6>1
        <5>3. q[a] \in Nat /\ m \in Nat
          BY <2>n, <5>1
        <5>2. q[a] <= m
          BY <2>4, <5>1
        <5> QED
          BY <5>1, <5>2, <5>3
      <4>3. CASE b # n + 1
        BY <3>0, <3>1, <3>3, <4>1, <4>3
      <4> QED
        BY <4>2, <4>3
    <3> QED
      BY <3>2, <3>3 DEF Increasing
  <2> QED
    BY <2>2, <2>5, <2>7
<1> QED
  BY <1>1

\* So every set of numbers up to k can be listed.
LEMMA Enumerated ==
    ASSUME NEW k \in Nat, NEW S \in SUBSET (1..k)
    PROVE  IsFiniteSet(S) /\ Cardinality(S) \in Nat /\ \E s : Increasing(s, Cardinality(S), S)
<1>1. IsFiniteSet(S)
  <2>1. IsFiniteSet(1..k)
    BY FS_Interval
  <2> QED
    BY <2>1, FS_Subset
<1>2. \A R \in SUBSET S : R # {} => \E m \in R : \A n \in R : n <= m
  BY LargestExists
<1>3. \A x \in S : x \in Nat
  OBVIOUS
<1> QED
  BY <1>1, <1>2, <1>3, EnumeratedFrom, FS_CardinalityType

-----------------------------------------------------------------------------

\* Ids are given out in order and never twice: what is known of an id is about
\* the memory that has it, or about one that is gone.
IdInv ==
    /\ DOMAIN mem \subseteq 1..lastId
    /\ \A t \in tainted : t[1] \in DOMAIN mem
    /\ summ # NoSumm => summ.id \in 1..lastId

\* The text a summary is waited for is one the memory has had.
SummInv ==
    summ # NoSumm /\ summ.id \in Whole =>
        \E v \in DOMAIN vers[summ.id] : vers[summ.id][v] = summ.text

\* Between its two writes the consolidation job has an owner to point to.
ConsInv == cons.bumped => cons.todo # <<>> /\ Owners # {}

IInv == /\ TypeOK /\ IdInv /\ SummInv /\ ConsInv
        /\ TaintIsUntrusted /\ NoDuplicateVectors /\ VersionsAgree /\ MetadataAgrees
-----------------------------------------------------------------------------
Statuses == Live \cup {"deprecated"}
Trusts == {"trusted", "untrusted"}
Clusters == {"none", "id", "dedup"} \X (Ids \cup {0})

LEMMA Types ==
    ASSUME TypeOK, IdInv
    PROVE  /\ MaxRows \in Nat /\ MaxOps \in Nat /\ MaxRuns \in Nat
           /\ NoText \notin Texts /\ Ids \subseteq Nat /\ 0 \notin Ids
           /\ lastId \in Nat /\ DOMAIN mem \subseteq Ids /\ DOMAIN mem \subseteq 1..lastId
           /\ DOMAIN vers = DOMAIN mem /\ DOMAIN vec \subseteq DOMAIN mem /\ pins \subseteq DOMAIN mem
           /\ \A i \in DOMAIN mem : mem[i] \in Rows /\ vers[i] \in Seq(Texts)
           /\ \A i \in DOMAIN vec : vec[i] \in Vectors
           /\ \A i \in DOMAIN mem : mem[i].text \in Texts /\ mem[i].trust \in Trusts
           /\ tainted \subseteq (DOMAIN mem) \X Ways /\ hurt \subseteq Ids \X Failures
<1>1. MaxRows \in Nat /\ MaxOps \in Nat /\ MaxRuns \in Nat /\ NoText \notin Texts
  BY RowsAssumption DEF RowsAssumption
<1>2. Ids \subseteq Nat /\ 0 \notin Ids
  BY <1>1 DEF Ids
<1>3. tainted \subseteq (DOMAIN mem) \X Ways
  BY DEF TypeOK, IdInv
<1>4. \A i \in DOMAIN mem : mem[i].text \in Texts /\ mem[i].trust \in Trusts
  BY DEF TypeOK, Rows, Trusts
<1>5. /\ DOMAIN mem \subseteq Ids
      /\ DOMAIN vers = DOMAIN mem /\ DOMAIN vec \subseteq DOMAIN mem /\ pins \subseteq DOMAIN mem
      /\ \A i \in DOMAIN mem : mem[i] \in Rows /\ vers[i] \in Seq(Texts)
      /\ \A i \in DOMAIN vec : vec[i] \in Vectors
      /\ hurt \subseteq Ids \X Failures
  BY DEF TypeOK
<1> QED
  BY <1>1, <1>2, <1>3, <1>4, <1>5 DEF TypeOK, IdInv

\* A failing statement hurts the memory its closure is about and no other, and a
\* closure that hurt nothing ran all its statements.
HurtOnly(i) == hurt \subseteq hurt' /\ hurt' \subseteq hurt \cup {<<i, "statement">>}

LEMMA StatementsRun ==
    ASSUME NEW k \in Nat, NEW i, NEW n \in 1..k, Statements(n, k, i)
    PROVE  HurtOnly(i) /\ (n = k \/ <<i, "statement">> \in hurt')
  BY DEF Statements, Fails, HurtOnly

\* Trust after a source has contributed.
LEMMA TrustIs ==
    ASSUME NEW trust \in Trusts, NEW src \in Sources
    PROVE  /\ TrustAfter(trust, src) \in Trusts /\ TrustOf(src) \in Trusts
           /\ trust = "untrusted" => TrustAfter(trust, src) = "untrusted"
           /\ TrustOf(src) = "untrusted" => TrustAfter(trust, src) = "untrusted"
           /\ TrustOf(src) # "untrusted" => TrustAfter(trust, src) = trust
  BY DEF TrustAfter, TrustOf, Trusts

\* A row a duplicate is merged into.
LEMMA MergedRow ==
    ASSUME TypeOK, IdInv, NEW i \in DOMAIN mem, NEW src \in Sources, NEW cluster \in Clusters
    PROVE  LET m == Merged(i, src, cluster)
           IN  /\ DOMAIN m = DOMAIN mem /\ \A j \in DOMAIN mem : j # i => m[j] = mem[j]
               /\ m[i] \in Rows
               /\ m[i].text = mem[i].text /\ m[i].pinned = mem[i].pinned
               /\ m[i].summary = mem[i].summary /\ m[i].trust = TrustAfter(mem[i].trust, src)
<1>t. /\ mem[i] \in Rows /\ mem[i].trust \in Trusts
      /\ TrustAfter(mem[i].trust, src) \in Trusts
  BY Types, TrustIs
<1>1. /\ mem[i].ref \in Nat /\ mem[i].source \in Sources /\ mem[i].cluster \in Clusters
      /\ SourceAfter(mem[i], src) \in Sources
  BY <1>t DEF Rows, SourceAfter, Clusters
<1> DEFINE c == IF mem[i].cluster = NoCluster THEN cluster ELSE mem[i].cluster
           r == [mem[i] EXCEPT !.ref = @ + 1, !.trust = TrustAfter(@, src),
                               !.source = SourceAfter(mem[i], src), !.cluster = c]
<1>2. Merged(i, src, cluster) = [mem EXCEPT ![i] = r]
  BY DEF Merged
<1>3. c \in Clusters /\ mem[i].ref + 1 \in Nat
  BY <1>1
<1>4. r \in Rows /\ r.text = mem[i].text /\ r.pinned = mem[i].pinned
      /\ r.summary = mem[i].summary /\ r.trust = TrustAfter(mem[i].trust, src)
  <2> HIDE DEF c
  <2> QED
    BY <1>t, <1>1, <1>3 DEF Rows, Trusts, Clusters
<1> HIDE DEF r
<1> QED
  BY <1>2, <1>4

\* The vector after its trust is set.
LEMMA VecTrustIs ==
    ASSUME TypeOK, IdInv, NEW i, NEW trust \in Trusts
    PROVE  /\ DOMAIN VecTrust(i, trust) = DOMAIN vec
           /\ \A j \in DOMAIN vec : j # i => VecTrust(i, trust)[j] = vec[j]
           /\ i \in DOMAIN vec =>
                /\ VecTrust(i, trust)[i] \in Vectors
                /\ VecTrust(i, trust)[i].text = vec[i].text
                /\ VecTrust(i, trust)[i].pinned = vec[i].pinned
                /\ VecTrust(i, trust)[i].trust = trust
<1>1. i \in DOMAIN vec => vec[i] \in Vectors
  BY Types
<1> QED
  BY <1>1 DEF VecTrust, Vectors, Trusts
-----------------------------------------------------------------------------
\* What a step does that writes to the row i and leaves the other rows alone.
RowStep(i) ==
    /\ lastId' = lastId /\ DOMAIN mem' = DOMAIN mem
    /\ DOMAIN vers' = DOMAIN vers /\ DOMAIN vec' = DOMAIN vec
    /\ \A j \in DOMAIN mem : j # i => mem'[j] = mem[j] /\ vers'[j] = vers[j]
    /\ \A j \in DOMAIN vec : j # i => vec'[j] = vec[j]
    /\ \A j : j # i => (j \in pins' <=> j \in pins)
    /\ mem'[i] \in Rows
    /\ vers'[i] = vers[i] \/ \E x \in Texts : vers'[i] = Append(vers[i], x)
    /\ i \in DOMAIN vec => vec'[i] \in Vectors /\ vec'[i].text = vec[i].text
    /\ HurtOnly(i)
    /\ summ' \in {summ, NoSumm}

\* What it keeps of trust, text and pins if it runs to its end.
TrustKept(i) ==
    /\ mem[i].trust = "untrusted" => mem'[i].trust = "untrusted"
    /\ \/ tainted' = tainted
       \/ mem'[i].trust = "untrusted" /\ \E way \in Ways : tainted' = tainted \cup {<<i, way>>}
       \/ <<i, "statement">> \in hurt' /\ tainted' = tainted \cup {<<i, "version">>}

TextKept(i) ==
    i \in Whole' =>
        /\ \/ vers'[i] = vers[i] /\ mem'[i].text = mem[i].text
           \/ vers'[i] = Append(vers[i], mem'[i].text) /\ mem'[i].text \in Texts
        /\ \/ mem'[i].summary = mem[i].summary
           \/ summ # NoSumm /\ summ.id = i /\ mem'[i].summary = summ.text

MarksKept(i) ==
    i \in Whole' =>
        /\ (i \in pins <=> mem[i].pinned) => (i \in pins' <=> mem'[i].pinned)
        /\ i \in DOMAIN vec =>
              /\ vec[i].pinned = mem[i].pinned => vec'[i].pinned = mem'[i].pinned
              /\ (<<i, "text">> \notin tainted => vec[i].trust = mem[i].trust) =>
                 (<<i, "text">> \notin tainted' => vec'[i].trust = mem'[i].trust)

RestTyped ==
    /\ summ' \in [id : Ids \cup {0}, text : Texts \cup {NoText}]
    /\ cons' \in [todo : Seq(Entries), owners : Seq(Entries), bumped : BOOLEAN]
    /\ asked' \in [text : Texts \cup {NoText}, embedded : BOOLEAN]
    /\ ops' \in 0..MaxOps /\ runs' \in 0..MaxRuns

TablesInv == /\ TypeOK /\ IdInv /\ SummInv
             /\ TaintIsUntrusted /\ NoDuplicateVectors /\ VersionsAgree /\ MetadataAgrees

\* A text added at the end of a version chain; the older ones stay.
LEMMA Extended ==
    ASSUME NEW S, NEW s \in Seq(S), NEW x \in S
    PROVE  /\ Append(s, x) \in Seq(S) /\ Len(Append(s, x)) = Len(s) + 1 /\ Append(s, x) # <<>>
           /\ DOMAIN s \subseteq DOMAIN Append(s, x) /\ Len(s) + 1 \in DOMAIN Append(s, x)
           /\ Append(s, x)[Len(s) + 1] = x
           /\ \A v \in DOMAIN s : Append(s, x)[v] = s[v]
           /\ SubSeq(Append(s, x), 1, Len(s)) = s
<1> DEFINE t == Append(s, x)
<1>1. Len(s) \in Nat /\ DOMAIN s = 1..Len(s)
  BY LenProperties
<1>2. /\ t \in Seq(S) /\ Len(t) = Len(s) + 1 /\ t[Len(s) + 1] = x
      /\ \A v \in 1..Len(s) : t[v] = s[v]
  BY AppendProperties
<1> HIDE DEF t
<1>3. DOMAIN t = 1..Len(t)
  BY <1>2, LenProperties
<1>4. t # <<>>
  BY <1>1, <1>2, EmptySeq
<1>5. SubSeq(t, 1, Len(s)) = s
  <2> DEFINE u == SubSeq(t, 1, Len(s))
  <2>0. \A v \in 1..Len(s) : t[v] \in S
    BY <1>1, <1>2, ElementOfSeq
  <2>1. u \in Seq(S) /\ Len(u) = Len(s) /\ \A v \in 1..Len(s) : u[v] = t[v]
    <3>1. 1 \in Nat /\ 1..Len(s) \subseteq 1..Len(t)
      BY <1>1, <1>2
    <3>2. /\ u \in Seq(S)
          /\ Len(u) = (IF 1 <= Len(s) THEN Len(s) - 1 + 1 ELSE 0)
          /\ \A v \in 1..(Len(s) - 1 + 1) : u[v] = t[1 + v - 1]
      BY <2>0, <1>1, <1>2, SubSeqProperties
    <3> HIDE DEF u
    <3> QED
      BY <1>1, <3>2
  <2> HIDE DEF u
  <2>2. u = s
    BY <1>1, <1>2, <2>1, SeqEqual
  <2> QED
    BY <2>2 DEF u
<1> QED
  BY <1>1, <1>2, <1>3, <1>4, <1>5 DEF t

LEMMA ChainGrows ==
    ASSUME NEW s \in Seq(Texts), NEW t, t = s \/ \E x \in Texts : t = Append(s, x)
    PROVE  /\ t \in Seq(Texts) /\ Len(s) <= Len(t) /\ SubSeq(t, 1, Len(s)) = s
           /\ \A v \in DOMAIN s : v \in DOMAIN t /\ t[v] = s[v]
<1>1. Len(s) \in Nat /\ SubSeq(s, 1, Len(s)) = s
  BY LenProperties, SubSeqFull
<1>2. CASE t = s
  BY <1>1, <1>2
<1>3. ASSUME NEW x \in Texts, t = Append(s, x)
      PROVE  /\ t \in Seq(Texts) /\ Len(s) <= Len(t) /\ SubSeq(t, 1, Len(s)) = s
             /\ \A v \in DOMAIN s : v \in DOMAIN t /\ t[v] = s[v]
  <2>1. /\ t \in Seq(Texts) /\ Len(t) = Len(s) + 1 /\ SubSeq(t, 1, Len(s)) = s
        /\ DOMAIN s \subseteq DOMAIN t /\ \A v \in DOMAIN s : t[v] = s[v]
    <3>1. /\ Append(s, x) \in Seq(Texts) /\ Len(Append(s, x)) = Len(s) + 1
          /\ SubSeq(Append(s, x), 1, Len(s)) = s
          /\ DOMAIN s \subseteq DOMAIN Append(s, x) /\ \A v \in DOMAIN s : Append(s, x)[v] = s[v]
      BY Extended
    <3> QED
      BY <1>3, <3>1
  <2> QED
    BY <1>1, <2>1
<1> QED
  BY <1>2, <1>3

LEMMA RowStepKeeps ==
    ASSUME TablesInv, NEW i \in DOMAIN mem, RowStep(i), TrustKept(i), TextKept(i), MarksKept(i),
           RestTyped
    PROVE  TablesInv'
<1>t. /\ lastId \in Nat /\ DOMAIN mem \subseteq Ids /\ DOMAIN mem \subseteq 1..lastId
      /\ DOMAIN vers = DOMAIN mem /\ DOMAIN vec \subseteq DOMAIN mem /\ pins \subseteq DOMAIN mem
      /\ \A j \in DOMAIN mem : mem[j] \in Rows /\ vers[j] \in Seq(Texts)
      /\ \A j \in DOMAIN vec : vec[j] \in Vectors
      /\ tainted \subseteq (DOMAIN mem) \X Ways /\ lastId \in 0..MaxRows
  BY Types DEF TablesInv, TypeOK
<1>d. /\ DOMAIN mem' = DOMAIN mem /\ DOMAIN vers' = DOMAIN mem /\ DOMAIN vec' = DOMAIN vec
      /\ \A j \in DOMAIN mem : j # i => mem'[j] = mem[j] /\ vers'[j] = vers[j]
      /\ \A j \in DOMAIN vec : j # i => vec'[j] = vec[j]
      /\ lastId' = lastId /\ summ' \in {summ, NoSumm}
  BY <1>t DEF RowStep
<1>h. /\ hurt \subseteq hurt' /\ hurt' \subseteq Ids \X Failures
      /\ Whole' \subseteq Whole
  <2>1. hurt \subseteq Ids \X Failures /\ i \in Ids
    BY <1>t, Types DEF TablesInv
  <2>2. hurt \subseteq hurt' /\ hurt' \subseteq hurt \cup {<<i, "statement">>}
    BY DEF RowStep, HurtOnly
  <2> QED
    BY <1>d, <2>1, <2>2 DEF Whole, Failures
<1>v. \A j \in DOMAIN mem : /\ vers'[j] \in Seq(Texts)
                            /\ \A v \in DOMAIN vers[j] : v \in DOMAIN vers'[j] /\ vers'[j][v] = vers[j][v]
  <2> SUFFICES ASSUME NEW j \in DOMAIN mem
               PROVE  /\ vers'[j] \in Seq(Texts)
                      /\ \A v \in DOMAIN vers[j] : v \in DOMAIN vers'[j] /\ vers'[j][v] = vers[j][v]
    OBVIOUS
  <2>1. vers[j] \in Seq(Texts) /\ (vers'[j] = vers[j] \/ \E x \in Texts : vers'[j] = Append(vers[j], x))
    BY <1>t DEF RowStep
  <2> QED
    BY <2>1, ChainGrows
<1>x. \A j \in DOMAIN vec : vec'[j] \in Vectors /\ vec'[j].text = vec[j].text
  BY <1>t DEF RowStep
<1>n. /\ tainted \subseteq tainted'
      /\ \A t \in tainted' : t \in tainted \/ \E way \in Ways : t = <<i, way>>
  BY DEF TrustKept, Ways
<1>1. TypeOK'
  <2>1. tainted' \subseteq Ids \X Ways
    BY <1>t, <1>n
  <2>2. pins' \subseteq DOMAIN mem'
    BY <1>t, <1>d DEF RowStep
  <2>3. \A j \in DOMAIN mem' : mem'[j] \in Rows
    BY <1>t, <1>d DEF RowStep
  <2> QED
    BY <1>t, <1>d, <1>h, <1>v, <1>x, <2>1, <2>2, <2>3 DEF TypeOK, RestTyped
<1>2. IdInv'
  <2>1. \A t \in tainted' : t[1] \in DOMAIN mem
    BY <1>t, <1>n
  <2>2. summ' # NoSumm => summ' = summ
    BY <1>d
  <2> QED
    BY <1>d, <2>1, <2>2 DEF IdInv, TablesInv, NoSumm
<1>3. SummInv'
  <2> SUFFICES ASSUME summ' # NoSumm, summ'.id \in Whole'
               PROVE  \E v \in DOMAIN vers'[summ'.id] : vers'[summ'.id][v] = summ'.text
    BY DEF SummInv
  <2>1. summ' = summ /\ summ # NoSumm /\ summ.id \in Whole
    BY <1>d, <1>h DEF NoSumm
  <2>2. PICK v \in DOMAIN vers[summ.id] : vers[summ.id][v] = summ.text
    BY <2>1 DEF SummInv, TablesInv
  <2>3. summ.id \in DOMAIN mem
    BY <2>1 DEF Whole
  <2> QED
    BY <1>v, <2>1, <2>2, <2>3
<1>4. TaintIsUntrusted'
  <2> SUFFICES ASSUME NEW t \in tainted', t[1] \in DOMAIN mem
               PROVE  \/ mem'[t[1]].trust = "untrusted"
                      \/ t[2] = "version" /\ <<t[1], "statement">> \in hurt'
    BY <1>d DEF TaintIsUntrusted
  <2>1. CASE t[1] # i
    <3>1. t \in tainted
      BY <1>n, <2>1
    <3> QED
      BY <1>d, <1>h, <2>1, <3>1 DEF TablesInv, TaintIsUntrusted
  <2>2. CASE t[1] = i /\ t \in tainted
    BY <1>h, <2>2 DEF TablesInv, TaintIsUntrusted, TrustKept
  <2>3. CASE t[1] = i /\ t \notin tainted
    <3>1. \/ mem'[i].trust = "untrusted"
          \/ <<i, "statement">> \in hurt' /\ t = <<i, "version">>
      BY <2>3 DEF TrustKept
    <3> QED
      BY <2>3, <3>1
  <2> QED
    BY <2>1, <2>2, <2>3
<1>5. NoDuplicateVectors'
  BY <1>d, <1>h, <1>x DEF TablesInv, NoDuplicateVectors, Similar
<1>6. VersionsAgree'
  <2> SUFFICES ASSUME NEW j \in Whole'
               PROVE  /\ vers'[j] # <<>> /\ vers'[j][Len(vers'[j])] = mem'[j].text
                      /\ mem'[j].summary # NoText =>
                             \E v \in DOMAIN vers'[j] : vers'[j][v] = mem'[j].summary
    BY DEF VersionsAgree, HeadIsText, SummaryIsOwn
  <2>0. j \in Whole /\ j \in DOMAIN mem
    BY <1>h DEF Whole
  <2>1. /\ vers[j] \in Seq(Texts) /\ vers[j] # <<>> /\ vers[j][Len(vers[j])] = mem[j].text
        /\ mem[j].summary # NoText => \E v \in DOMAIN vers[j] : vers[j][v] = mem[j].summary
    BY <1>t, <2>0 DEF TablesInv, VersionsAgree, HeadIsText, SummaryIsOwn
  <2>2. CASE j # i
    BY <1>d, <2>0, <2>1, <2>2
  <2>3. CASE j = i
    <3>1. vers'[i] # <<>> /\ vers'[i][Len(vers'[i])] = mem'[i].text
      <4>1. CASE vers'[i] = vers[i] /\ mem'[i].text = mem[i].text
        BY <2>1, <2>3, <4>1
      <4>2. CASE vers'[i] = Append(vers[i], mem'[i].text) /\ mem'[i].text \in Texts
        <5>1. /\ Append(vers[i], mem'[i].text) # <<>>
              /\ Len(Append(vers[i], mem'[i].text)) = Len(vers[i]) + 1
              /\ Append(vers[i], mem'[i].text)[Len(vers[i]) + 1] = mem'[i].text
          BY <2>1, <2>3, <4>2, Extended
        <5> QED
          BY <4>2, <5>1
      <4> QED
        BY <2>3, <4>1, <4>2 DEF TextKept
    <3>2. CASE mem'[i].summary = mem[i].summary
      BY <1>v, <2>1, <2>3, <3>1, <3>2
    <3>3. CASE summ # NoSumm /\ summ.id = i /\ mem'[i].summary = summ.text
      <4>1. PICK v \in DOMAIN vers[i] : vers[i][v] = summ.text
        BY <2>0, <2>3, <3>3 DEF TablesInv, SummInv
      <4> QED
        BY <1>v, <2>3, <3>1, <3>3, <4>1
    <3> QED
      BY <2>3, <3>2, <3>3 DEF TextKept
  <2> QED
    BY <2>2, <2>3
<1>7. MetadataAgrees'
  <2>w. Whole' \subseteq DOMAIN mem
    BY <1>d DEF Whole
  <2>2. \A j \in DOMAIN vec \cap Whole' :
            /\ vec[j].pinned = mem[j].pinned
            /\ <<j, "text">> \notin tainted => vec[j].trust = mem[j].trust
    BY <1>h DEF TablesInv, MetadataAgrees
  <2>3. ASSUME NEW j \in Whole' PROVE j \in pins' <=> mem'[j].pinned
    <3>0. j \in DOMAIN mem
      BY <2>w
    <3>1. j \in pins <=> mem[j].pinned
      BY <1>h DEF TablesInv, MetadataAgrees
    <3>2. CASE j # i
      <4>1. j \in pins' <=> j \in pins
        BY <3>2 DEF RowStep
      <4> QED
        BY <1>d, <3>0, <3>1, <3>2, <4>1
    <3>3. CASE j = i
      BY <3>1, <3>3 DEF MarksKept
    <3> QED
      BY <3>2, <3>3
  <2>4. ASSUME NEW j \in DOMAIN vec \cap Whole' PROVE vec'[j].pinned = mem'[j].pinned
    <3>1. CASE j # i
      BY <1>d, <1>t, <2>2, <3>1
    <3>2. CASE j = i
      BY <2>2, <3>2 DEF MarksKept
    <3> QED
      BY <3>1, <3>2
  <2>5. ASSUME NEW j \in DOMAIN vec \cap Whole', <<j, "text">> \notin tainted'
        PROVE  vec'[j].trust = mem'[j].trust
    <3>1. tainted \subseteq tainted'
      BY <1>n
    <3>2. CASE j # i
      BY <1>d, <1>t, <2>2, <2>5, <3>1, <3>2
    <3>3. CASE j = i
      BY <2>2, <2>5, <3>3 DEF MarksKept
    <3> QED
      BY <3>2, <3>3
  <2> QED
    BY <1>1, <1>d, <2>3, <2>4, <2>5 DEF MetadataAgrees
<1> QED
  BY <1>1, <1>2, <1>3, <1>4, <1>5, <1>6, <1>7 DEF TablesInv
-----------------------------------------------------------------------------
\* A step that only reads the tables.
LEMMA ReadKeeps ==
    ASSUME TablesInv, UNCHANGED <<tables, tainted, hurt>>, RestTyped,
           \/ summ' \in {summ, NoSumm}
           \/ \E i \in DOMAIN mem : summ' = [id |-> i, text |-> mem[i].text]
    PROVE  TablesInv'
<1>u. mem' = mem /\ vers' = vers /\ vec' = vec /\ pins' = pins /\ lastId' = lastId
      /\ tainted' = tainted /\ hurt' = hurt /\ Whole' = Whole
  BY DEF tables, Whole
<1>1. TypeOK'
  BY <1>u DEF TablesInv, TypeOK, RestTyped
<1>2. TaintIsUntrusted' /\ NoDuplicateVectors' /\ VersionsAgree' /\ MetadataAgrees'
  BY <1>u, <1>1 DEF TablesInv, TaintIsUntrusted, NoDuplicateVectors, VersionsAgree, HeadIsText,
     SummaryIsOwn,
                    MetadataAgrees, Similar
<1>3. CASE summ' \in {summ, NoSumm}
  BY <1>u, <1>1, <1>2, <1>3 DEF TablesInv, IdInv, SummInv, NoSumm
<1>4. ASSUME NEW i \in DOMAIN mem, summ' = [id |-> i, text |-> mem[i].text] PROVE IdInv' /\ SummInv'
  <2>1. IdInv'
    BY <1>u, <1>4 DEF TablesInv, IdInv
  <2>2. i \in Whole => \E v \in DOMAIN vers[i] : vers[i][v] = mem[i].text
    <3>1. vers[i] \in Seq(Texts)
      BY DEF TablesInv, TypeOK
    <3>2. i \in Whole => vers[i] # <<>> /\ vers[i][Len(vers[i])] = mem[i].text
      BY DEF TablesInv, VersionsAgree, HeadIsText
    <3>3. vers[i] # <<>> => Len(vers[i]) \in DOMAIN vers[i]
      BY <3>1, EmptySeq, LenProperties
    <3> QED
      BY <3>2, <3>3
  <2> QED
    BY <1>u, <1>4, <2>1, <2>2 DEF SummInv
<1> QED
  BY <1>1, <1>2, <1>3, <1>4 DEF TablesInv

\* A new memory has an id no memory ever had, and with an embedding nothing
\* similar is in the vector table.
LEMMA InsertKeeps ==
    ASSUME TablesInv, RestTyped, summ' = summ,
           NEW x \in Texts, NEW src \in Sources, NEW status \in Live, NEW n \in 1..3,
           Inserted(x, src, status, n),
           hurt \subseteq hurt',
           hurt' \subseteq hurt \cup {<<NextId, "statement">>, <<NextId, "lookup">>},
           n = 1 => <<NextId, "statement">> \in hurt',
           n = 3 => Nearest(x) = {} \/ <<NextId, "lookup">> \in hurt'
    PROVE  TablesInv' /\ \A i \in DOMAIN vers : i \in DOMAIN vers' /\ vers'[i] = vers[i]
<1> DEFINE k == NextId
           row == NewRow(x, src, status)
           vector == [text |-> x, status |-> status, trust |-> TrustOf(src), pinned |-> FALSE]
<1>t. /\ lastId \in Nat /\ DOMAIN mem \subseteq Ids /\ DOMAIN mem \subseteq 1..lastId
      /\ DOMAIN vers = DOMAIN mem /\ DOMAIN vec \subseteq DOMAIN mem /\ pins \subseteq DOMAIN mem
      /\ \A j \in DOMAIN mem : mem[j] \in Rows /\ vers[j] \in Seq(Texts)
      /\ \A j \in DOMAIN vec : vec[j] \in Vectors
      /\ tainted \subseteq (DOMAIN mem) \X Ways /\ MaxRows \in Nat /\ NoText \notin Texts
      /\ hurt \subseteq Ids \X Failures
  BY Types DEF TablesInv
<1>k. k \in Ids /\ k = lastId + 1 /\ k \notin DOMAIN mem
  <2>1. k = lastId + 1 /\ k \in Ids
    BY DEF Inserted, NextId
  <2> HIDE DEF k
  <2> QED
    BY <1>t, <2>1
<1>w. /\ mem' = With(mem, k, row) /\ lastId' = k /\ pins' = pins
      /\ tainted' = Tainted(k, src, "vector")
  BY DEF Inserted
<1>r. /\ row \in Rows /\ row.text = x /\ row.summary = NoText /\ row.pinned = FALSE
      /\ row.trust = TrustOf(src) /\ vector \in Vectors /\ TrustOf(src) \in Trusts
  BY DEF NewRow, Rows, Vectors, TrustOf, Trusts, NoCluster
<1>n. /\ vers' = With(vers, k, IF n >= 2 THEN <<x>> ELSE <<>>)
      /\ vec' = IF n = 3 THEN With(vec, k, vector) ELSE vec
  BY DEF Inserted
<1>f. /\ hurt \subseteq hurt' /\ hurt' \subseteq Ids \X Failures
      /\ hurt' \subseteq hurt \cup {<<k, "statement">>, <<k, "lookup">>}
      /\ n = 1 => <<k, "statement">> \in hurt'
      /\ n = 3 => Nearest(x) = {} \/ <<k, "lookup">> \in hurt'
  BY <1>k, <1>t DEF Failures
<1> HIDE DEF k, row, vector
<1>m. /\ DOMAIN mem' = DOMAIN mem \cup {k} /\ mem'[k] = row
      /\ \A j \in DOMAIN mem : mem'[j] = mem[j]
  BY <1>k, <1>w DEF With
<1>v. /\ DOMAIN vers' = DOMAIN mem \cup {k} /\ \A j \in DOMAIN mem : vers'[j] = vers[j]
      /\ vers'[k] \in Seq(Texts)
      /\ k \in Whole' => vers'[k] = <<x>>
  <2> DEFINE c == IF n >= 2 THEN <<x>> ELSE <<>>
  <2>1. c \in Seq(Texts) /\ (k \in Whole' => c = <<x>>)
    BY <1>f DEF Whole
  <2> HIDE DEF c
  <2>2. vers' = With(vers, k, c)
    BY <1>n DEF c
  <2> QED
    BY <1>k, <1>t, <2>1, <2>2 DEF With
<1>e. /\ \/ vec' = vec
         \/ n = 3 /\ DOMAIN vec' = DOMAIN vec \cup {k} /\ vec'[k] = vector
      /\ \A j \in DOMAIN vec : j \in DOMAIN vec' /\ vec'[j] = vec[j]
  <2>1. CASE n = 3
    <3>1. vec' = With(vec, k, vector) /\ k \notin DOMAIN vec
      BY <1>n, <1>k, <1>t, <2>1
    <3> QED
      BY <1>f, <2>1, <3>1 DEF With
  <2>2. CASE n # 3
    BY <1>n, <2>2
  <2> QED
    BY <2>1, <2>2
<1>d. DOMAIN vec' \subseteq DOMAIN vec \cup {k}
  BY <1>e
<1>h. \A j \in Whole' : j = k \/ j \in Whole
  BY <1>f, <1>m DEF Whole
<1>x. tainted' = tainted \/ (TrustOf(src) = "untrusted" /\ tainted' = tainted \cup {<<k, "vector">>})
  BY <1>w DEF Tainted
<1>1. TypeOK'
  <2>1. tainted' \subseteq Ids \X Ways
    BY <1>t, <1>x, <1>k DEF Ways
  <2>2. /\ DOMAIN mem' \subseteq Ids /\ lastId' \in 0..MaxRows /\ \A i \in DOMAIN mem' : mem'[i] \in Rows
        /\ pins' \subseteq DOMAIN mem'
    <3>1. lastId' \in 0..MaxRows
      BY <1>w, <1>k, <1>t DEF Ids
    <3> QED
      BY <1>t, <1>m, <1>k, <1>w, <1>r, <3>1
  <2>3. DOMAIN vers' = DOMAIN mem' /\ \A i \in DOMAIN vers' : vers'[i] \in Seq(Texts)
    BY <1>t, <1>m, <1>v
  <2>4. DOMAIN vec' \subseteq DOMAIN mem' /\ \A i \in DOMAIN vec' : vec'[i] \in Vectors
    BY <1>t, <1>m, <1>e, <1>r, <1>d
  <2> QED
    BY <1>f, <2>1, <2>2, <2>3, <2>4 DEF TypeOK, RestTyped
<1>2. IdInv'
  <2>1. DOMAIN mem' \subseteq 1..lastId' /\ 1..lastId \subseteq 1..lastId'
    BY <1>t, <1>m, <1>w, <1>k
  <2>2. \A t \in tainted' : t[1] \in DOMAIN mem'
    BY <1>t, <1>x, <1>m
  <2>3. summ' # NoSumm => summ'.id \in 1..lastId
    BY DEF TablesInv, IdInv
  <2> QED
    BY <2>1, <2>2, <2>3 DEF IdInv
<1>3. SummInv'
  <2>1. summ # NoSumm => summ.id # k
    BY <1>k, <1>t DEF TablesInv, IdInv
  <2>2. \A j \in Whole : vers'[j] = vers[j]
    BY <1>v DEF Whole
  <2> QED
    BY <1>h, <2>1, <2>2 DEF TablesInv, SummInv
<1>4. TaintIsUntrusted'
  <2>1. ASSUME NEW t \in tainted'
        PROVE  \/ mem'[t[1]].trust = "untrusted"
               \/ t[2] = "version" /\ <<t[1], "statement">> \in hurt'
    <3>1. CASE t \in tainted
      BY <1>t, <1>m, <1>f, <3>1 DEF TablesInv, TaintIsUntrusted
    <3>2. CASE t = <<k, "vector">> /\ TrustOf(src) = "untrusted"
      BY <1>m, <1>r, <3>2
    <3> QED
      BY <1>x, <3>1, <3>2
  <2> QED
    BY <2>1 DEF TaintIsUntrusted
<1>5. NoDuplicateVectors'
  <2>1. n = 3 => \/ \A i \in DOMAIN vec : ~Similar(vec[i].text, x)
                 \/ <<k, "lookup">> \in hurt'
    BY <1>f DEF Nearest, Similar
  <2>2. vector.text = x
    BY DEF vector
  <2> QED
    BY <1>e, <1>d, <1>f, <2>1, <2>2 DEF TablesInv, NoDuplicateVectors, Similar
<1>6. VersionsAgree'
  <2> SUFFICES ASSUME NEW j \in Whole'
               PROVE  /\ vers'[j] # <<>> /\ vers'[j][Len(vers'[j])] = mem'[j].text
                      /\ mem'[j].summary # NoText =>
                             \E v \in DOMAIN vers'[j] : vers'[j][v] = mem'[j].summary
    BY DEF VersionsAgree, HeadIsText, SummaryIsOwn
  <2>1. CASE j \in Whole
    <3>1. j \in DOMAIN mem
      BY <2>1 DEF Whole
    <3> QED
      BY <1>m, <1>v, <2>1, <3>1, SMTT(30) DEF TablesInv, VersionsAgree, HeadIsText, SummaryIsOwn
  <2>2. CASE j = k
    BY <1>m, <1>v, <1>r, <2>2, SMTT(30)
  <2> QED
    BY <1>h, <2>1, <2>2
<1>7. MetadataAgrees'
  <2>1. ASSUME NEW j \in Whole PROVE j \in pins' <=> mem'[j].pinned
    <3>1. j \in DOMAIN mem /\ (j \in pins <=> mem[j].pinned)
      BY DEF Whole, TablesInv, MetadataAgrees
    <3> QED
      BY <1>m, <1>w, <3>1
  <2>2. k \in pins' <=> mem'[k].pinned
    BY <1>k, <1>m, <1>r, <1>t, <1>w
  <2>3. ASSUME NEW j \in DOMAIN vec \cap Whole
        PROVE  /\ vec'[j].pinned = mem'[j].pinned
               /\ <<j, "text">> \notin tainted' => vec'[j].trust = mem'[j].trust
    BY <1>e, <1>m, <1>t, <1>x, <2>3 DEF TablesInv, MetadataAgrees
  <2>4. k \in DOMAIN vec' => vec'[k] = vector
    BY <1>e, <1>k, <1>t
  <2>5. vector.pinned = row.pinned /\ vector.trust = row.trust
    BY <1>r DEF vector
  <2>6. ASSUME NEW j \in DOMAIN vec' \cap Whole'
        PROVE  /\ vec'[j].pinned = mem'[j].pinned
               /\ <<j, "text">> \notin tainted' => vec'[j].trust = mem'[j].trust
    <3>1. CASE j = k
      BY <1>m, <2>4, <2>5, <3>1
    <3>2. CASE j # k
      <4>1. j \in DOMAIN vec \cap Whole
        BY <1>d, <1>h, <3>2
      <4> QED
        BY <2>3, <4>1
    <3> QED
      BY <3>1, <3>2
  <2> QED
    BY <1>1, <1>h, <2>1, <2>2, <2>6 DEF MetadataAgrees
<1> QED
  BY <1>1, <1>2, <1>3, <1>4, <1>5, <1>6, <1>7, <1>v, <1>t DEF TablesInv

LEMMA PurgeKeeps ==
    ASSUME TablesInv, RestTyped, NEW i \in DOMAIN mem, Purge(i)
    PROVE  TablesInv' /\ \A j \in DOMAIN vers' : vers'[j] = vers[j]
<1>t. /\ lastId \in Nat /\ DOMAIN mem \subseteq Ids /\ DOMAIN mem \subseteq 1..lastId
      /\ DOMAIN vers = DOMAIN mem /\ DOMAIN vec \subseteq DOMAIN mem /\ pins \subseteq DOMAIN mem
      /\ tainted \subseteq (DOMAIN mem) \X Ways
  BY Types DEF TablesInv
<1>m. /\ DOMAIN mem' = DOMAIN mem \ {i} /\ \A j \in DOMAIN mem' : mem'[j] = mem[j]
      /\ DOMAIN vers' = DOMAIN mem \ {i} /\ \A j \in DOMAIN mem' : vers'[j] = vers[j]
      /\ DOMAIN vec' = DOMAIN vec \ {i} /\ \A j \in DOMAIN vec' : vec'[j] = vec[j]
  BY <1>t DEF Purge, VecPurged, Without
<1>u. /\ pins' = pins \ {i} /\ tainted' = {t \in tainted : t[1] # i}
      /\ lastId' = lastId /\ summ' = summ /\ hurt' = hurt
  BY DEF Purge
<1>h. Whole' = Whole \ {i} /\ Whole' \subseteq DOMAIN mem'
  BY <1>m, <1>u DEF Whole
<1>1. TypeOK'
  <2>1. /\ tainted' \subseteq Ids \X Ways /\ pins' \subseteq DOMAIN mem'
        /\ DOMAIN mem' \subseteq Ids
    BY <1>t, <1>m, <1>u
  <2> QED
    BY <1>t, <1>m, <1>u, <2>1 DEF TablesInv, TypeOK, RestTyped
<1>2. IdInv' /\ SummInv' /\ TaintIsUntrusted'
  <2>1. IdInv'
    <3>1. \A t \in tainted' : t[1] \in DOMAIN mem'
      BY <1>t, <1>m, <1>u
    <3> QED
      BY <1>t, <1>m, <1>u, <3>1 DEF TablesInv, IdInv, NoSumm
  <2> QED
    BY <1>t, <1>m, <1>u, <1>h, <2>1 DEF TablesInv, SummInv, TaintIsUntrusted, NoSumm
<1>3. NoDuplicateVectors'
  BY <1>t, <1>m, <1>u DEF TablesInv, NoDuplicateVectors, Similar
<1>4. VersionsAgree'
  BY <1>t, <1>m, <1>h DEF TablesInv, VersionsAgree, HeadIsText, SummaryIsOwn
<1>5. MetadataAgrees'
  <2>1. \A j \in Whole' : j \in pins' <=> mem'[j].pinned
    BY <1>m, <1>u, <1>h DEF TablesInv, MetadataAgrees
  <2>2. \A j \in DOMAIN vec' \cap Whole' :
            /\ vec'[j].pinned = mem'[j].pinned
            /\ <<j, "text">> \notin tainted' => vec'[j].trust = mem'[j].trust
    BY <1>t, <1>m, <1>u, <1>h DEF TablesInv, MetadataAgrees
  <2> QED
    BY <1>1, <1>u, <2>1, <2>2 DEF MetadataAgrees
<1> QED
  BY <1>m, <1>1, <1>2, <1>3, <1>4, <1>5 DEF TablesInv
-----------------------------------------------------------------------------
\* Versions are kept or gain one at the end.
Chained ==
    \A i \in DOMAIN vers \cap DOMAIN vers' :
        vers'[i] = vers[i] \/ \E x \in Texts : vers'[i] = Append(vers[i], x)

\* A row that changes in nothing the other tables or the history say.
LEMMA RowOnlyKeeps ==
    ASSUME TablesInv, RestTyped, NEW i \in DOMAIN mem, NEW r \in Rows, mem' = [mem EXCEPT ![i] = r],
           r.text = mem[i].text, r.trust = mem[i].trust, r.pinned = mem[i].pinned,
           \/ r.summary = mem[i].summary
           \/ summ # NoSumm /\ summ.id = i /\ r.summary = summ.text,
           UNCHANGED <<vers, vec, pins, lastId, tainted, hurt>>, summ' \in {summ, NoSumm}
    PROVE  TablesInv' /\ Chained
<1>t. /\ DOMAIN mem \subseteq Ids /\ \A j \in DOMAIN vec : vec[j] \in Vectors
  BY Types DEF TablesInv
<1>m. DOMAIN mem' = DOMAIN mem /\ mem'[i] = r /\ \A j \in DOMAIN mem : j # i => mem'[j] = mem[j]
  OBVIOUS
<1>1. RowStep(i)
  BY <1>t, <1>m DEF RowStep, HurtOnly
<1>2. TrustKept(i) /\ TextKept(i) /\ MarksKept(i)
  BY <1>m DEF TrustKept, TextKept, MarksKept
<1> QED
  BY <1>1, <1>2, RowStepKeeps DEF Chained

\* A duplicate is merged into row i.
LEMMA MergeKeeps ==
    ASSUME TablesInv, RestTyped, summ' = summ, NEW i \in DOMAIN mem, NEW src \in Sources,
           NEW cluster \in Clusters, mem' = Merged(i, src, cluster),
           UNCHANGED <<vers, pins, lastId>>, HurtOnly(i),
           \/ /\ tainted' = Tainted(i, src, "vector")
              /\ vec' \in {vec, VecTrust(i, mem'[i].trust)}
              /\ vec' = VecTrust(i, mem'[i].trust) \/ <<i, "statement">> \in hurt'
           \/ /\ tainted' = Tainted(i, src, "text")
              /\ vec' = vec
    PROVE  TablesInv' /\ Chained
<1>t. /\ DOMAIN mem \subseteq Ids /\ \A j \in DOMAIN vec : vec[j] \in Vectors
      /\ mem[i].trust \in Trusts /\ DOMAIN vec \subseteq DOMAIN mem
  BY Types DEF TablesInv
<1>m. /\ DOMAIN mem' = DOMAIN mem /\ \A j \in DOMAIN mem : j # i => mem'[j] = mem[j]
      /\ mem'[i] \in Rows
      /\ mem'[i].text = mem[i].text /\ mem'[i].pinned = mem[i].pinned
      /\ mem'[i].summary = mem[i].summary /\ mem'[i].trust = TrustAfter(mem[i].trust, src)
  BY MergedRow DEF TablesInv
<1>s. /\ TrustAfter(mem[i].trust, src) \in Trusts
      /\ mem[i].trust = "untrusted" => mem'[i].trust = "untrusted"
      /\ TrustOf(src) = "untrusted" => mem'[i].trust = "untrusted"
      /\ TrustOf(src) # "untrusted" => mem'[i].trust = mem[i].trust
  BY <1>t, <1>m, TrustIs
<1> DEFINE w == VecTrust(i, mem'[i].trust)
<1>w. /\ DOMAIN w = DOMAIN vec /\ \A j \in DOMAIN vec : j # i => w[j] = vec[j]
      /\ i \in DOMAIN vec => /\ w[i] \in Vectors /\ w[i].text = vec[i].text
                             /\ w[i].pinned = vec[i].pinned /\ w[i].trust = mem'[i].trust
  <2>1. mem'[i].trust \in Trusts
    BY <1>m, <1>s
  <2> QED
    BY <2>1, VecTrustIs DEF TablesInv
<1> HIDE DEF w
<1>v. vec' \in {vec, w}
  BY DEF w
<1>1. RowStep(i)
  <2>1. DOMAIN vec' = DOMAIN vec /\ \A j \in DOMAIN vec : j # i => vec'[j] = vec[j]
    BY <1>v, <1>w
  <2>2. i \in DOMAIN vec => vec'[i] \in Vectors /\ vec'[i].text = vec[i].text
    BY <1>v, <1>w, <1>t
  <2> QED
    BY <1>m, <2>1, <2>2 DEF RowStep
<1>2. TrustKept(i)
  BY <1>s DEF TrustKept, Tainted, Ways
<1>3. TextKept(i)
  BY <1>m DEF TextKept
<1>4. MarksKept(i)
  <2> SUFFICES ASSUME <<i, "statement">> \notin hurt'
               PROVE  i \in DOMAIN vec =>
                         /\ vec[i].pinned = mem[i].pinned => vec'[i].pinned = mem'[i].pinned
                         /\ (<<i, "text">> \notin tainted => vec[i].trust = mem[i].trust) =>
                            (<<i, "text">> \notin tainted' => vec'[i].trust = mem'[i].trust)
    BY <1>m DEF MarksKept, Whole
  <2>1. CASE vec' = w
    BY <1>m, <1>w, <2>1
  <2>2. CASE tainted' = Tainted(i, src, "text") /\ vec' = vec
    <3>1. TrustOf(src) = "untrusted" => <<i, "text">> \in tainted'
      BY <2>2 DEF Tainted
    <3>2. tainted \subseteq tainted'
      BY <2>2 DEF Tainted
    <3> QED
      BY <1>m, <1>s, <2>2, <3>1, <3>2
  <2> QED
    BY <2>1, <2>2 DEF w
<1> QED
  BY <1>1, <1>2, <1>3, <1>4, RowStepKeeps DEF Chained

\* A new text for row i, with or without a source.
LEMMA RewriteKeeps ==
    ASSUME TablesInv, RestTyped, NEW i \in DOMAIN mem, NEW x \in Texts,
           NEW trust \in Trusts, NEW source \in Sources, Rewrite(i, x, trust, source),
           mem[i].trust = "untrusted" => trust = "untrusted",
           \/ tainted' = tainted
           \/ /\ trust = "untrusted"
              /\ tainted' = tainted \cup {<<i, IF mem' = mem THEN "version" ELSE "vector">>}
    PROVE  TablesInv' /\ Chained
<1>t. /\ DOMAIN mem \subseteq Ids /\ \A j \in DOMAIN vec : vec[j] \in Vectors
      /\ mem[i] \in Rows /\ DOMAIN vec \subseteq DOMAIN mem /\ DOMAIN vers = DOMAIN mem
      /\ vers[i] \in Seq(Texts)
  BY Types DEF TablesInv
<1> DEFINE r == [mem[i] EXCEPT !.text = x, !.trust = trust, !.source = source]
           w == VecTrust(i, trust)
<1>n. PICK n \in 1..3 :
          /\ Statements(n, 3, i)
          /\ vers' = [vers EXCEPT ![i] = Chain(i, x)]
          /\ mem' = IF n = 1 THEN mem
                    ELSE [mem EXCEPT ![i].text = TextAfter(i, x), ![i].trust = trust, ![i].source = source]
          /\ vec' = IF n = 3 THEN VecTrust(i, trust) ELSE vec
  BY DEF Rewrite
<1>r. /\ r \in Rows /\ r.text = x /\ r.trust = trust /\ r.pinned = mem[i].pinned
      /\ r.summary = mem[i].summary
  BY <1>t DEF Rows, Trusts
<1>w. /\ DOMAIN w = DOMAIN vec /\ \A j \in DOMAIN vec : j # i => w[j] = vec[j]
      /\ i \in DOMAIN vec => /\ w[i] \in Vectors /\ w[i].text = vec[i].text
                             /\ w[i].pinned = vec[i].pinned /\ w[i].trust = trust
  BY VecTrustIs DEF TablesInv
<1>f. HurtOnly(i) /\ (n = 3 \/ <<i, "statement">> \in hurt')
  BY <1>n, StatementsRun
<1>m. /\ mem' = mem \/ mem' = [mem EXCEPT ![i] = r]
      /\ n # 1 => mem' = [mem EXCEPT ![i] = r]
  <2> DEFINE q == [mem EXCEPT ![i].text = TextAfter(i, x), ![i].trust = trust, ![i].source = source]
  <2>1. q = [mem EXCEPT ![i] = r]
    BY DEF TextAfter
  <2>2. mem' = IF n = 1 THEN mem ELSE q
    BY <1>n
  <2> HIDE DEF q, r
  <2> QED
    BY <2>1, <2>2
<1>v. /\ vec' \in {vec, w} /\ (n = 3 => vec' = w)
  BY <1>n
<1>u. UNCHANGED <<pins, lastId, summ>>
  BY DEF Rewrite
<1> HIDE DEF r, w
<1>e. /\ DOMAIN mem' = DOMAIN mem /\ \A j \in DOMAIN mem : j # i => mem'[j] = mem[j]
      /\ mem'[i] \in {mem[i], r} /\ (n # 1 => mem'[i] = r)
      /\ n = 1 => mem' = mem
  BY <1>m, <1>n
<1>c. /\ vers'[i] = Append(vers[i], x) /\ DOMAIN vers' = DOMAIN vers
      /\ \A j \in DOMAIN vers : j # i => vers'[j] = vers[j]
  BY <1>n, <1>t DEF Chain
<1>1. RowStep(i)
  <2>1. DOMAIN vec' = DOMAIN vec /\ \A j \in DOMAIN vec : j # i => vec'[j] = vec[j]
    BY <1>v, <1>w
  <2>2. i \in DOMAIN vec => vec'[i] \in Vectors /\ vec'[i].text = vec[i].text
    BY <1>v, <1>w, <1>t
  <2>3. mem'[i] \in Rows
    BY <1>e, <1>r, <1>t
  <2> QED
    BY <1>e, <1>c, <1>f, <1>u, <1>t, <2>1, <2>2, <2>3 DEF RowStep
<1>2. TrustKept(i)
  <2>1. CASE n = 1
    BY <1>e, <1>f, <2>1 DEF TrustKept
  <2>2. CASE n # 1
    BY <1>e, <1>r, <2>2 DEF TrustKept, Ways
  <2> QED
    BY <2>1, <2>2
<1>3. TextKept(i)
  BY <1>e, <1>r, <1>c, <1>f DEF TextKept, Whole
<1>4. MarksKept(i)
  BY <1>e, <1>r, <1>f, <1>v, <1>w, <1>u DEF MarksKept, Whole
<1> QED
  BY <1>1, <1>2, <1>3, <1>4, <1>t, <1>c, RowStepKeeps DEF Chained

LEMMA PinKeeps ==
    ASSUME TablesInv, RestTyped, NEW i \in DOMAIN mem, NEW b \in BOOLEAN, PinRow(i, b)
    PROVE  TablesInv' /\ Chained
<1>t. /\ DOMAIN mem \subseteq Ids /\ \A j \in DOMAIN vec : vec[j] \in Vectors
      /\ mem[i] \in Rows
  BY Types DEF TablesInv
<1> DEFINE r == [mem[i] EXCEPT !.pinned = b]
<1>n. PICK n \in 1..3 :
          /\ Statements(n, 3, i)
          /\ vec' = IF n >= 2 /\ i \in DOMAIN vec THEN [vec EXCEPT ![i].pinned = b] ELSE vec
          /\ pins' = IF n = 3 THEN PinsAfter(i, b) ELSE pins
  BY DEF PinRow
<1>r. /\ r \in Rows /\ r.text = mem[i].text /\ r.trust = mem[i].trust /\ r.pinned = b
      /\ r.summary = mem[i].summary
  BY <1>t DEF Rows
<1>f. HurtOnly(i) /\ (n = 3 \/ <<i, "statement">> \in hurt')
  BY <1>n, StatementsRun
<1>m. DOMAIN mem' = DOMAIN mem /\ mem'[i] = r /\ \A j \in DOMAIN mem : j # i => mem'[j] = mem[j]
  BY DEF PinRow
<1>u. UNCHANGED <<vers, lastId, summ, tainted>>
  BY DEF PinRow
<1>v. /\ DOMAIN vec' = DOMAIN vec /\ \A j \in DOMAIN vec : j # i => vec'[j] = vec[j]
      /\ i \in DOMAIN vec => vec'[i] \in Vectors /\ vec'[i].text = vec[i].text
                             /\ vec'[i].trust = vec[i].trust /\ (n = 3 => vec'[i].pinned = b)
  <2>1. i \in DOMAIN vec => vec[i] \in Vectors
    BY <1>t
  <2> QED
    BY <1>n, <2>1 DEF Vectors
<1>p. /\ \A j : j # i => (j \in pins' <=> j \in pins)
      /\ n = 3 => (i \in pins' <=> b = TRUE)
  BY <1>n DEF PinsAfter
<1> HIDE DEF r
<1>1. RowStep(i)
  BY <1>m, <1>r, <1>v, <1>p, <1>f, <1>u DEF RowStep
<1>2. TrustKept(i) /\ TextKept(i)
  BY <1>m, <1>r, <1>u DEF TrustKept, TextKept
<1>3. MarksKept(i)
  BY <1>m, <1>r, <1>v, <1>p, <1>f, <1>u DEF MarksKept, Whole
<1> QED
  BY <1>1, <1>2, <1>3, <1>u, RowStepKeeps DEF Chained
-----------------------------------------------------------------------------
\* The consolidation job's lists are of rows that were there when it read.
LEMMA InOrderIs ==
    ASSUME TypeOK
    PROVE  /\ Cardinality(ActiveIds) \in Nat
           /\ \A n \in 1..Cardinality(ActiveIds) : InOrder(ActiveIds)[n] \in DOMAIN mem
<1>1. MaxRows \in Nat /\ ActiveIds \in SUBSET (1..MaxRows) /\ ActiveIds \subseteq DOMAIN mem
  BY RowsAssumption DEF RowsAssumption, TypeOK, ActiveIds, Ids
<1> DEFINE S == ActiveIds
           k == Cardinality(S)
<1>2. k \in Nat /\ \E s : Increasing(s, k, S)
  <2> HIDE DEF S
  <2> QED
    BY <1>1, Enumerated DEF S
<1> HIDE DEF k
<1>3. \E s \in [1..k -> S] : \A a, b \in DOMAIN s : a < b => s[a] < s[b]
  BY <1>2 DEF Increasing
<1>4. InOrder(S) \in [1..k -> S]
  BY <1>3 DEF InOrder, k
<1> QED
  BY <1>1, <1>2, <1>4 DEF k

LEMMA EntryTyped ==
    ASSUME TypeOK, NEW i \in DOMAIN mem
    PROVE  Entry(i) \in Entries
<1>1. i \in Ids /\ mem[i].text \in Texts /\ (i \in DOMAIN vec => vec[i].text \in Texts)
  BY DEF TypeOK, Rows, Vectors
<1> QED
  BY <1>1 DEF Entry, Entries

LEMMA OwnerIs ==
    ASSUME TypeOK, cons.todo # <<>>
    PROVE  /\ Head1 \in Entries /\ Tail(cons.todo) \in Seq(Entries)
           /\ Append(cons.owners, Head1) \in Seq(Entries)
           /\ Head1.id \in Ids /\ (Owners # {} => Owner.id \in Ids)
<1>1. cons.todo \in Seq(Entries) /\ cons.owners \in Seq(Entries)
  BY DEF TypeOK
<1>2. Head1 \in Entries /\ Tail(cons.todo) \in Seq(Entries)
  BY <1>1, HeadTailProperties DEF Head1
<1>3. Append(cons.owners, Head1) \in Seq(Entries)
  BY <1>1, <1>2, AppendProperties
<1>4. Owners # {} => Owner \in Entries
  <2> SUFFICES ASSUME Owners # {} PROVE Owner \in Entries
    OBVIOUS
  <2>1. DOMAIN cons.owners = 1..Len(cons.owners) /\ \A n \in 1..Len(cons.owners) : cons.owners[n] \in Entries
    BY <1>1, LenProperties, ElementOfSeq
  <2>2. Owners \in SUBSET Nat /\ \A n \in Owners : cons.owners[n] \in Entries
    BY <2>1 DEF Owners
  <2>3. \E n \in Owners : \A m \in Owners : n <= m
    BY <2>2, SmallestExists
  <2>4. (CHOOSE n \in Owners : \A m \in Owners : n <= m) \in Owners
    BY <2>3
  <2> QED
    BY <2>2, <2>4 DEF Owner
<1> QED
  BY <1>2, <1>3, <1>4 DEF Entries

LEMMA RestStep ==
    ASSUME TypeOK, ConsInv, Next
    PROVE  RestTyped /\ ConsInv'
<1>t. /\ summ \in [id : Ids \cup {0}, text : Texts \cup {NoText}]
      /\ cons \in [todo : Seq(Entries), owners : Seq(Entries), bumped : BOOLEAN]
      /\ ops \in 0..MaxOps /\ runs \in 0..MaxRuns /\ MaxOps \in Nat /\ MaxRuns \in Nat
      /\ NoAsk \in [text : Texts \cup {NoText}, embedded : BOOLEAN]
      /\ NoSumm \in [id : Ids \cup {0}, text : Texts \cup {NoText}]
  BY RowsAssumption DEF RowsAssumption, TypeOK, NoAsk, NoSumm
<1>b. Call => ops' \in 0..MaxOps
  BY <1>t DEF Call
<1>c. cons' = cons => cons' \in [todo : Seq(Entries), owners : Seq(Entries), bumped : BOOLEAN] /\ ConsInv'
  BY <1>t DEF ConsInv, Owners, Head1
<1>1. ASSUME Client PROVE RestTyped /\ ConsInv'
  <2>1. ASSUME NEW x \in Texts, NEW src \in Sources, NEW st \in Live,
               Remember(x, src, st) \/ RememberUnembedded(x, src, st)
        PROVE  RestTyped /\ ConsInv'
    <3>1. /\ asked' = [text |-> x, embedded |-> TRUE] \/ asked' = [text |-> x, embedded |-> FALSE]
          /\ summ' = summ /\ cons' = cons /\ runs' = runs /\ Call
      BY <2>1 DEF Remember, RememberUnembedded
    <3>2. asked' \in [text : Texts \cup {NoText}, embedded : BOOLEAN]
      <4>1. \A b \in BOOLEAN : [text |-> x, embedded |-> b] \in [text : Texts \cup {NoText}, embedded : BOOLEAN]
        OBVIOUS
      <4>2. \E b \in BOOLEAN : asked' = [text |-> x, embedded |-> b]
        BY <3>1
      <4> QED
        BY <4>1, <4>2
    <3> QED
      BY <1>t, <1>b, <1>c, <3>1, <3>2 DEF RestTyped
  <2>2. ASSUME NEW i \in DOMAIN mem, NEW x \in Texts, NEW src \in Sources, Update(i, x, src)
        PROVE  RestTyped /\ ConsInv'
    BY <1>t, <1>b, <1>c, <2>2 DEF Update, Rewrite, RestTyped
  <2>3. ASSUME NEW i \in DOMAIN mem, NEW v \in DOMAIN vers[i], Rollback(i, v)
        PROVE  RestTyped /\ ConsInv'
    BY <1>t, <1>b, <1>c, <2>3 DEF Rollback, Rewrite, RestTyped
  <2>4. ASSUME NEW i \in DOMAIN mem, NEW b \in BOOLEAN, PinRow(i, b)
        PROVE  RestTyped /\ ConsInv'
    BY <1>t, <1>b, <1>c, <2>4 DEF PinRow, RestTyped
  <2>5. ASSUME NEW i \in DOMAIN mem, NEW st \in {"active", "deprecated"}, SetStatus(i, st)
        PROVE  RestTyped /\ ConsInv'
    BY <1>t, <1>b, <1>c, <2>5 DEF SetStatus, RestTyped
  <2>6. ASSUME NEW i \in DOMAIN mem, Purge(i) PROVE RestTyped /\ ConsInv'
    BY <1>t, <1>b, <1>c, <2>6 DEF Purge, RestTyped
  <2>7. ASSUME NEW i \in DOMAIN mem, SummarizeRead(i) PROVE RestTyped /\ ConsInv'
    <3>1. i \in Ids /\ mem[i].text \in Texts
      BY DEF TypeOK, Rows
    <3> QED
      BY <1>t, <1>b, <1>c, <2>7, <3>1 DEF SummarizeRead, RestTyped
  <2> QED
    BY <1>1, <2>1, <2>2, <2>3, <2>4, <2>5, <2>6, <2>7 DEF Client
<1>2. ASSUME SummarizeWrite \/ SummarizeFails PROVE RestTyped /\ ConsInv'
  BY <1>t, <1>c, <1>2 DEF SummarizeWrite, SummarizeFails, RestTyped
<1>3. ASSUME ConsolidateRead PROVE RestTyped /\ ConsInv'
  <2> DEFINE k == Cardinality(ActiveIds)
             todo == [n \in 1..k |-> Entry(InOrder(ActiveIds)[n])]
  <2>1. k \in Nat /\ \A n \in 1..k : Entry(InOrder(ActiveIds)[n]) \in Entries
    BY InOrderIs, EntryTyped
  <2>2. todo \in Seq(Entries)
    <3> HIDE DEF k
    <3>1. todo \in [1..k -> Entries]
      BY <2>1
    <3> HIDE DEF todo
    <3> QED
      BY <2>1, <3>1, SeqDef
  <2> HIDE DEF todo
  <2>3. cons' = [todo |-> todo, owners |-> <<>>, bumped |-> FALSE]
    BY <1>3 DEF ConsolidateRead, todo
  <2>4. runs' \in 0..MaxRuns
    BY <1>t, <1>3 DEF ConsolidateRead
  <2>5. <<>> \in Seq(Entries)
    OBVIOUS
  <2>6. /\ cons' \in [todo : Seq(Entries), owners : Seq(Entries), bumped : BOOLEAN]
        /\ cons'.bumped = FALSE
    BY <2>2, <2>3, <2>5
  <2>7. asked' = NoAsk /\ ops' = ops /\ summ' = summ
    BY <1>3 DEF ConsolidateRead
  <2> QED
    BY <1>t, <2>4, <2>6, <2>7 DEF RestTyped, ConsInv
<1>4. ASSUME ConsolidateBump PROVE RestTyped /\ ConsInv'
  <2>1. /\ cons'.todo = cons.todo /\ cons'.owners = cons.owners
        /\ cons' \in [todo : Seq(Entries), owners : Seq(Entries), bumped : BOOLEAN]
    BY <1>t, <1>4 DEF ConsolidateBump
  <2>2. cons'.todo # <<>> /\ Owners' = Owners /\ Owners # {}
    BY <1>4, <2>1 DEF ConsolidateBump, Owners, Head1
  <2> QED
    BY <1>t, <1>4, <2>1, <2>2 DEF ConsolidateBump, RestTyped, ConsInv
<1>5. ASSUME ConsolidateTag PROVE RestTyped /\ ConsInv'
  <2>1. cons.todo # <<>>
    BY <1>5 DEF ConsolidateTag
  <2>2. /\ cons' \in [todo : Seq(Entries), owners : Seq(Entries), bumped : BOOLEAN]
        /\ cons'.bumped = FALSE
    <3>1. Tail(cons.todo) \in Seq(Entries) /\ Append(cons.owners, Head1) \in Seq(Entries)
      BY <2>1, OwnerIs
    <3>2. CASE cons' = [cons EXCEPT !.todo = Tail(@), !.bumped = FALSE]
      BY <1>t, <3>1, <3>2
    <3>3. CASE Owners = {} /\ cons' = [cons EXCEPT !.todo = Tail(@), !.owners = Append(@, Head1)]
      BY <1>t, <3>1, <3>3 DEF ConsInv
    <3> QED
      BY <1>5, <3>2, <3>3 DEF ConsolidateTag
  <2> QED
    BY <1>t, <1>5, <2>2 DEF ConsolidateTag, RestTyped, ConsInv
<1> QED
  BY <1>1, <1>2, <1>3, <1>4, <1>5 DEF Next, Job
-----------------------------------------------------------------------------
LEMMA Statused ==
    ASSUME TypeOK, NEW i \in DOMAIN mem, NEW st \in {"active", "deprecated"}
    PROVE  LET r == [mem[i] EXCEPT !.status = st]
           IN  /\ r \in Rows /\ r.text = mem[i].text /\ r.trust = mem[i].trust
               /\ r.pinned = mem[i].pinned /\ r.summary = mem[i].summary
<1>1. mem[i] \in Rows
  BY DEF TypeOK
<1> QED
  BY <1>1 DEF Rows, Live

LEMMA RememberKeeps ==
    ASSUME IInv, RestTyped, NEW x \in Texts, NEW src \in Sources, NEW st \in Live,
           Remember(x, src, st) \/ RememberUnembedded(x, src, st)
    PROVE  TablesInv' /\ Chained
<1>i. TablesInv
  BY DEF IInv, TablesInv
<1>t. DOMAIN vec \subseteq DOMAIN mem /\ DOMAIN mem \subseteq Ids
  BY <1>i, Types DEF TablesInv
<1>s. summ' = summ
  BY DEF Remember, RememberUnembedded
<1>1. ASSUME NEW e \in BOOLEAN, InsertRow(x, src, st, e), e => Nearest(x) = {}
      PROVE  TablesInv' /\ Chained
  <2>1. PICK n \in 1..3 : /\ Statements(n, IF e THEN 3 ELSE 2, NextId)
                          /\ Inserted(x, src, st, n)
    BY <1>1 DEF InsertRow
  <2>2. /\ hurt \subseteq hurt' /\ hurt' \subseteq hurt \cup {<<NextId, "statement">>}
        /\ n = 1 => <<NextId, "statement">> \in hurt'
        /\ n = 3 => e = TRUE
    BY <2>1 DEF Statements, Fails
  <2> QED
    BY <1>i, <1>s, <1>1, <2>1, <2>2, InsertKeeps DEF Chained
<1>2. ASSUME Fails(NextId, "lookup"), Inserted(x, src, st, 3) PROVE TablesInv' /\ Chained
  <2>1. hurt' = hurt \cup {<<NextId, "lookup">>}
    BY <1>2 DEF Fails
  <2> QED
    BY <1>i, <1>s, <1>2, <2>1, InsertKeeps DEF Chained
<1>3. ASSUME NEW i \in Nearest(x),
             mem' = Merged(i, src, <<"id", i>>),
             tainted' = Tainted(i, src, "vector"),
             \E n \in 1..3 : /\ Statements(n, 3, i)
                             /\ vec' = IF n = 1 THEN vec ELSE VecTrust(i, mem'[i].trust),
             UNCHANGED <<vers, pins, lastId>>
      PROVE  TablesInv' /\ Chained
  <2>1. i \in DOMAIN mem /\ <<"id", i>> \in Clusters
    BY <1>t DEF Nearest, Clusters
  <2>2. PICK n \in 1..3 : /\ Statements(n, 3, i)
                          /\ vec' = IF n = 1 THEN vec ELSE VecTrust(i, mem'[i].trust)
    BY <1>3
  <2>3. HurtOnly(i) /\ (n = 3 \/ <<i, "statement">> \in hurt')
    BY <2>2, StatementsRun
  <2>4. /\ vec' \in {vec, VecTrust(i, mem'[i].trust)}
        /\ vec' = VecTrust(i, mem'[i].trust) \/ <<i, "statement">> \in hurt'
    BY <2>2, <2>3
  <2> QED
    BY <1>i, <1>s, <1>3, <2>1, <2>3, <2>4, MergeKeeps
<1>4. ASSUME NEW i \in SameText(x),
             mem' = Merged(i, src, NoCluster),
             tainted' = Tainted(i, src, "text"),
             \E n \in 1..2 : Statements(n, 2, i),
             UNCHANGED <<vers, vec, pins, lastId>>
      PROVE  TablesInv' /\ Chained
  <2>1. i \in DOMAIN mem /\ NoCluster \in Clusters
    BY DEF SameText, Clusters, NoCluster
  <2>2. PICK n \in 1..2 : Statements(n, 2, i)
    BY <1>4
  <2>3. HurtOnly(i)
    BY <2>2, StatementsRun
  <2> QED
    BY <1>i, <1>s, <1>4, <2>1, <2>3, MergeKeeps
<1>5. CASE Remember(x, src, st)
  BY <1>5, <1>1, <1>2, <1>3 DEF Remember, PersistEmbedded
<1>6. CASE RememberUnembedded(x, src, st)
  BY <1>6, <1>1, <1>4 DEF RememberUnembedded, PersistUnembedded
<1> QED
  BY <1>5, <1>6

LEMMA ClientKeeps ==
    ASSUME IInv, RestTyped, Client
    PROVE  TablesInv' /\ Chained
<1>i. TablesInv
  BY DEF IInv, TablesInv
<1>t. /\ DOMAIN vers = DOMAIN mem
      /\ \A i \in DOMAIN mem : vers[i] \in Seq(Texts) /\ mem[i] \in Rows /\ mem[i].trust \in Trusts
  BY <1>i, Types DEF TablesInv
<1>1. ASSUME NEW i \in DOMAIN mem, NEW x \in Texts, NEW src \in Sources, Update(i, x, src)
      PROVE  TablesInv' /\ Chained
  <2> DEFINE trust == TrustAfter(mem[i].trust, src)
             source == SourceAfter(mem[i], src)
  <2>1. /\ trust \in Trusts
        /\ mem[i].trust = "untrusted" => trust = "untrusted"
        /\ TrustOf(src) = "untrusted" => trust = "untrusted"
    BY <1>t, TrustIs
  <2>2. source \in Sources
    BY <1>t DEF SourceAfter, Rows
  <2>3. Rewrite(i, x, trust, source)
    BY <1>1 DEF Update
  <2>4. \/ tainted' = tainted
        \/ /\ trust = "untrusted"
           /\ tainted' = tainted \cup {<<i, IF mem' = mem THEN "version" ELSE "vector">>}
    BY <1>1, <2>1 DEF Update, Tainted
  <2> HIDE DEF trust, source
  <2> QED
    BY <1>i, <2>1, <2>2, <2>3, <2>4, RewriteKeeps
<1>2. ASSUME NEW i \in DOMAIN mem, NEW v \in DOMAIN vers[i], Rollback(i, v)
      PROVE  TablesInv' /\ Chained
  <2>1. vers[i][v] \in Texts
    BY <1>t, LenProperties, ElementOfSeq
  <2>2. mem[i].trust \in Trusts /\ mem[i].source \in Sources
    BY <1>t DEF Rows
  <2>3. Rewrite(i, vers[i][v], mem[i].trust, mem[i].source) /\ tainted' = tainted
    BY <1>2 DEF Rollback
  <2> QED
    BY <1>i, <2>1, <2>2, <2>3, RewriteKeeps
<1>3. ASSUME NEW i \in DOMAIN mem, NEW st \in {"active", "deprecated"}, SetStatus(i, st)
      PROVE  TablesInv' /\ Chained
  <2> DEFINE r == [mem[i] EXCEPT !.status = st]
  <2>1. /\ r \in Rows /\ r.text = mem[i].text /\ r.trust = mem[i].trust
        /\ r.pinned = mem[i].pinned /\ r.summary = mem[i].summary
    BY <1>i, Statused DEF TablesInv
  <2>2. mem' = [mem EXCEPT ![i] = r]
    BY <1>3 DEF SetStatus
  <2>3. UNCHANGED <<vers, vec, pins, lastId, tainted, hurt, summ>>
    BY <1>3 DEF SetStatus
  <2> HIDE DEF r
  <2> QED
    BY <1>i, <2>1, <2>2, <2>3, RowOnlyKeeps
<1>4. ASSUME NEW i \in DOMAIN mem, Purge(i) PROVE TablesInv' /\ Chained
  BY <1>i, <1>4, PurgeKeeps DEF Chained
<1>5. ASSUME NEW i \in DOMAIN mem, SummarizeRead(i) PROVE TablesInv' /\ Chained
  <2>1. /\ UNCHANGED <<tables, tainted, hurt>>
        /\ summ' = [id |-> i, text |-> mem[i].text]
    BY <1>5 DEF SummarizeRead
  <2>2. vers' = vers
    BY <2>1 DEF tables
  <2> QED
    BY <1>i, <2>1, <2>2, ReadKeeps DEF Chained
<1> QED
  BY <1>i, <1>1, <1>2, <1>3, <1>4, <1>5, RememberKeeps, PinKeeps DEF Client

LEMMA JobKeeps ==
    ASSUME IInv, RestTyped, Job
    PROVE  TablesInv' /\ Chained
<1>i. TablesInv /\ TypeOK
  BY DEF IInv, TablesInv
<1>t. \A i \in DOMAIN mem : mem[i] \in Rows
  BY <1>i DEF TypeOK
<1>c. \A i \in DOMAIN mem : \A o \in Ids :
        /\ [mem[i] EXCEPT !.cluster = <<"dedup", o>>] \in Rows
        /\ [mem[i] EXCEPT !.ref = @ + 1] \in Rows
  BY <1>t DEF Rows
<1>1. ASSUME ConsolidateRead \/ SummarizeFails PROVE TablesInv' /\ Chained
  <2>1. UNCHANGED <<tables, tainted, hurt>> /\ summ' \in {summ, NoSumm}
    BY <1>1 DEF ConsolidateRead, SummarizeFails
  <2>2. vers' = vers
    BY <2>1 DEF tables
  <2> QED
    BY <1>i, <2>1, <2>2, ReadKeeps DEF Chained
<1>2. ASSUME UNCHANGED <<vers, vec, pins, lastId, tainted, hurt>>, summ' = summ,
             NEW i \in Ids, NEW o \in Ids, mem' = Bumped(i) \/ mem' = Tagged(i, o)
      PROVE  TablesInv' /\ Chained
  <2>1. CASE i \in DOMAIN mem /\ mem' = Bumped(i)
    <3> DEFINE r == [mem[i] EXCEPT !.ref = @ + 1]
    <3>1. /\ r \in Rows /\ r.text = mem[i].text /\ r.trust = mem[i].trust
          /\ r.pinned = mem[i].pinned /\ r.summary = mem[i].summary
      BY <1>c, <1>t, <2>1 DEF Rows
    <3>2. mem' = [mem EXCEPT ![i] = r]
      BY <2>1 DEF Bumped
    <3> HIDE DEF r
    <3> QED
      BY <1>i, <1>2, <2>1, <3>1, <3>2, RowOnlyKeeps
  <2>2. CASE i \in DOMAIN mem /\ mem' = Tagged(i, o)
    <3> DEFINE r == [mem[i] EXCEPT !.cluster = <<"dedup", o>>]
    <3>1. /\ r \in Rows /\ r.text = mem[i].text /\ r.trust = mem[i].trust
          /\ r.pinned = mem[i].pinned /\ r.summary = mem[i].summary
      BY <1>c, <1>t, <2>2 DEF Rows
    <3>2. mem' = [mem EXCEPT ![i] = r]
      BY <2>2 DEF Tagged
    <3> HIDE DEF r
    <3> QED
      BY <1>i, <1>2, <2>2, <3>1, <3>2, RowOnlyKeeps
  <2>3. CASE i \notin DOMAIN mem
    <3>1. mem' = mem
      BY <1>2, <2>3 DEF Bumped, Tagged
    <3> QED
      BY <1>i, <1>2, <3>1, ReadKeeps DEF Chained, tables
  <2> QED
    BY <1>2, <2>1, <2>2, <2>3
<1>3. ASSUME SummarizeWrite PROVE TablesInv' /\ Chained
  <2> DEFINE i == summ.id
             r == [mem[i] EXCEPT !.summary = summ.text]
  <2>1. /\ UNCHANGED <<vers, vec, pins, lastId, tainted, hurt>> /\ summ' = NoSumm /\ summ # NoSumm
        /\ mem' = IF i \in DOMAIN mem THEN [mem EXCEPT ![i] = r] ELSE mem
    BY <1>3 DEF SummarizeWrite
  <2>2. CASE summ.id \in DOMAIN mem
    <3>1. PICK w \in DOMAIN mem : w = summ.id
      BY <2>2
    <3>2. [mem[w] EXCEPT !.summary = summ.text] = r /\ mem' = [mem EXCEPT ![w] = r]
      BY <2>1, <3>1
    <3>3. summ.text \in Texts \cup {NoText}
      BY <1>i DEF TypeOK
    <3>4. /\ r \in Rows /\ r.text = mem[w].text /\ r.trust = mem[w].trust
          /\ r.pinned = mem[w].pinned /\ r.summary = summ.text
      BY <1>t, <3>1, <3>3 DEF Rows
    <3> HIDE DEF r
    <3> QED
      BY <1>i, <2>1, <3>1, <3>2, <3>4, RowOnlyKeeps
  <2>3. CASE summ.id \notin DOMAIN mem
    <3>1. mem' = mem
      BY <2>1, <2>3
    <3> QED
      BY <1>i, <2>1, <3>1, ReadKeeps DEF Chained, tables
  <2> QED
    BY <2>2, <2>3
<1>4. ASSUME ConsolidateBump PROVE TablesInv' /\ Chained
  <2>1. Owner.id \in Ids
    BY <1>i, <1>4, OwnerIs DEF ConsolidateBump
  <2> QED
    BY <1>2, <1>4, <2>1 DEF ConsolidateBump
<1>5. ASSUME ConsolidateTag PROVE TablesInv' /\ Chained
  <2>1. Head1.id \in Ids /\ (cons.bumped => Owner.id \in Ids)
    BY <1>i, <1>5, OwnerIs DEF ConsolidateTag, IInv, ConsInv
  <2> QED
    BY <1>2, <1>5, <2>1 DEF ConsolidateTag
<1> QED
  BY <1>1, <1>3, <1>4, <1>5 DEF Job
-----------------------------------------------------------------------------
LEMMA MemoryStep ==
    ASSUME IInv, [Next]_vars
    PROVE  IInv' /\ Chained
<1>1. ASSUME Next PROVE IInv' /\ Chained
  <2>1. RestTyped /\ ConsInv'
    BY <1>1, RestStep DEF IInv
  <2>2. TablesInv' /\ Chained
    BY <1>1, <2>1, ClientKeeps, JobKeeps DEF Next
  <2> QED
    BY <2>1, <2>2 DEF IInv, TablesInv
<1>2. ASSUME UNCHANGED vars PROVE IInv' /\ Chained
  <2>1. TypeOK' /\ IdInv' /\ SummInv' /\ ConsInv'
    BY <1>2 DEF vars, IInv, TypeOK, IdInv, SummInv, ConsInv, Owners, Head1, Whole
  <2>2. TaintIsUntrusted' /\ NoDuplicateVectors' /\ VersionsAgree' /\ MetadataAgrees'
    BY <1>2, <2>1 DEF vars, IInv, TaintIsUntrusted, NoDuplicateVectors, Similar, VersionsAgree,
       HeadIsText, SummaryIsOwn, MetadataAgrees, Whole
  <2>3. Chained
    BY <1>2 DEF vars, Chained
  <2> QED
    BY <2>1, <2>2, <2>3 DEF IInv
<1> QED
  BY <1>1, <1>2

LEMMA MemoryInit == Init => IInv
<1> SUFFICES ASSUME Init PROVE IInv
  OBVIOUS
<1>0. /\ DOMAIN mem = {} /\ DOMAIN vers = {} /\ DOMAIN vec = {} /\ pins = {} /\ lastId = 0
      /\ tainted = {} /\ hurt = {} /\ ops = 0 /\ runs = 0 /\ summ = NoSumm /\ cons = IdleCons
      /\ asked = NoAsk
  BY DEF Init
<1>1. TypeOK
  <2>1. /\ summ \in [id : Ids \cup {0}, text : Texts \cup {NoText}]
        /\ cons \in [todo : Seq(Entries), owners : Seq(Entries), bumped : BOOLEAN]
        /\ asked \in [text : Texts \cup {NoText}, embedded : BOOLEAN]
    BY <1>0 DEF NoSumm, IdleCons, NoAsk
  <2>2. MaxRows \in Nat /\ MaxOps \in Nat /\ MaxRuns \in Nat
    BY RowsAssumption DEF RowsAssumption
  <2> QED
    BY <1>0, <2>1, <2>2 DEF TypeOK
<1>2. IdInv /\ SummInv /\ ConsInv
  BY <1>0 DEF IdInv, SummInv, ConsInv, IdleCons, Whole
<1>3. TaintIsUntrusted /\ NoDuplicateVectors /\ VersionsAgree /\ MetadataAgrees
  BY <1>0, <1>1 DEF TaintIsUntrusted, NoDuplicateVectors, VersionsAgree, HeadIsText,
     SummaryIsOwn, MetadataAgrees, Whole
<1> QED
  BY <1>1, <1>2, <1>3 DEF IInv

LEMMA Invariance == Spec => []IInv
<1>1. Init => IInv
  BY MemoryInit
<1>2. IInv /\ [Next]_vars => IInv'
  BY MemoryStep
<1> QED
  BY <1>1, <1>2, PTL DEF Spec

\* A memory whose text, source or duplicates an untrusted source has written is
\* untrusted, whatever wrote to it since and wherever a statement failed: trust
\* only goes down (TrustAfter), a source's text and the trust it leaves are one
\* statement, and an id is never given out twice (sqlite_sequence).  It says
\* nothing of an untrusted version whose edit failed after it: store.rs writes the
\* version first, and a rollback to it asks for no source.
THEOREM MemoryTaintIsUntrusted == Spec => []TaintIsUntrusted
<1>1. IInv => TaintIsUntrusted
  BY DEF IInv
<1> QED
  BY <1>1, Invariance, PTL

\* Two vectors are close enough to be duplicates only if the lookup for one of
\* them failed: the lookup and the insert are one closure, and an edit leaves the
\* vector it found.
THEOREM MemoryNoDuplicateVectors == Spec => []NoDuplicateVectors
<1>1. IInv => NoDuplicateVectors
  BY DEF IInv
<1> QED
  BY <1>1, Invariance, PTL

\* Of every memory no statement has failed on, whatever failed on others, the last
\* version is the text and the summary is of one of the versions, although the
\* summary is written to an id read before the model was asked.
THEOREM MemoryVersionsAgree == Spec => []VersionsAgree
<1>1. IInv => VersionsAgree
  BY DEF IInv
<1> QED
  BY <1>1, Invariance, PTL

\* The tables keep their types and, of every memory no statement has failed on,
\* row, vector and pins agree on pins and, but for the collision found by text, on
\* trust.
THEOREM MemoryMetadataAgrees == Spec => []MetadataAgrees
<1>1. IInv => MetadataAgrees
  BY DEF IInv
<1> QED
  BY <1>1, Invariance, PTL

\* No step of a client or of a job takes or changes a version a memory has.
THEOREM MemoryChainIsKept == Spec => ChainIsKept
<1>1. ASSUME IInv, [Next]_vars
      PROVE  [\A i \in DOMAIN vers \cap DOMAIN vers' :
                 /\ Len(vers[i]) <= Len(vers'[i])
                 /\ SubSeq(vers'[i], 1, Len(vers[i])) = vers[i]]_vars
  <2>1. Chained /\ \A i \in DOMAIN vers : vers[i] \in Seq(Texts)
    BY <1>1, MemoryStep DEF IInv, TypeOK
  <2>2. ASSUME NEW i \in DOMAIN vers \cap DOMAIN vers'
        PROVE  /\ Len(vers[i]) <= Len(vers'[i])
               /\ SubSeq(vers'[i], 1, Len(vers[i])) = vers[i]
    <3>1. /\ vers[i] \in Seq(Texts)
          /\ vers'[i] = vers[i] \/ \E x \in Texts : vers'[i] = Append(vers[i], x)
      BY <2>1 DEF Chained
    <3> QED
      BY <3>1, ChainGrows
  <2> QED
    BY <2>2
<1> QED
  BY <1>1, Invariance, PTL DEF Spec, ChainIsKept
=============================================================================
