--------------------------- MODULE ReadPoolProofs ---------------------------
(***************************************************************************)
(* Proofs about ReadPool for any reads (also infinitely many), any number  *)
(* of connections and any number of worker threads.                        *)
(***************************************************************************)
EXTENDS ReadPool, FiniteSetTheorems, WellFoundedInduction, TLAPS

\* A set of numbers has a smallest member.
LEMMA SmallestExists ==
    ASSUME NEW S \in SUBSET Nat, S # {}
    PROVE  \E m \in S : \A n \in S : m <= n
<1>1. PICK m \in S : \A n \in S : ~ (<<n, m>> \in OpToRel(<, Nat))
  BY NatLessThanWellFounded, WFMin
<1>2. \A n \in S : ~ (n < m)
  BY <1>1 DEF OpToRel
<1> QED
  BY <1>2

-----------------------------------------------------------------------------

\* A call holds a connection exactly while its query runs, and a slot is empty
\* exactly when one call holds its connection.
HoldsInv ==
    /\ \A t \in Reads : pc[t] = "reading" <=> holds[t] # NoSlot
    /\ \A t \in Reads : holds[t] # NoSlot => ~slots[holds[t]]
    /\ \A s \in Slots : ~slots[s] => \E t \in Reads : holds[t] = s
    /\ \A t, u \in Reads : holds[t] # NoSlot /\ holds[t] = holds[u] => t = u

\* The calls that occupy a worker are finitely many, as the workers are.
WorkersInv == IsFiniteSet(OnWorker) /\ Cardinality(OnWorker) <= Workers

IInv == TypeOK /\ HoldsInv /\ WorkersInv /\ NoLostWakeup
-----------------------------------------------------------------------------
LEMMA Types ==
    ASSUME TypeOK
    PROVE  /\ Size \in Nat /\ Workers \in Nat
           /\ Slots \subseteq Nat /\ NoSlot \notin Slots /\ IsFiniteSet(Slots)
           /\ slots \in [Slots -> BOOLEAN]
           /\ pc \in [Reads -> States]
           /\ holds \in [Reads -> Slots \cup {NoSlot}]
<1>1. Size \in Nat /\ Workers \in Nat
  BY PoolAssumption DEF PoolAssumption
<1>2. Slots \subseteq Nat /\ NoSlot \notin Slots
  BY <1>1 DEF Slots, NoSlot
<1>3. IsFiniteSet(Slots)
  BY <1>1, FS_Interval DEF Slots
<1> QED
  BY <1>1, <1>2, <1>3 DEF TypeOK

\* The slot get_timeout takes is free.
LEMMA FirstFreeIsFree ==
    ASSUME TypeOK, Free # {}
    PROVE  FirstFree \in Slots /\ slots[FirstFree] /\ FirstFree # NoSlot
<1>1. Free \in SUBSET Nat
  BY Types DEF Free
<1>2. \E s \in Free : \A u \in Free : s <= u
  BY <1>1, SmallestExists
<1>3. FirstFree \in Free
  BY <1>2 DEF FirstFree
<1> QED
  BY <1>3, Types DEF Free

\* What the slots and the holders of connections mean after a step.
LEMMA HoldsStep ==
    ASSUME TypeOK, HoldsInv, Next
    PROVE  /\ slots' \in [Slots -> BOOLEAN]
           /\ pc' \in [Reads -> States]
           /\ holds' \in [Reads -> Slots \cup {NoSlot}]
           /\ HoldsInv'
<1> DEFINE Goal == /\ slots' \in [Slots -> BOOLEAN]
                   /\ pc' \in [Reads -> States]
                   /\ holds' \in [Reads -> Slots \cup {NoSlot}]
                   /\ HoldsInv'
<1>t. /\ slots \in [Slots -> BOOLEAN] /\ pc \in [Reads -> States] /\ NoSlot \notin Slots
      /\ holds \in [Reads -> Slots \cup {NoSlot}]
  BY Types
\* Moves of a call that has no connection.
<1>1. ASSUME NEW t \in Reads, NEW state \in States \ {"reading"}, pc[t] # "reading",
             pc' = [pc EXCEPT ![t] = state], UNCHANGED <<slots, holds>>
      PROVE  Goal
  BY <1>1, <1>t DEF HoldsInv
<1>2. ASSUME NEW t \in Reads, Checkout(t), pc[t] # "reading" PROVE Goal
  <2> DEFINE s == FirstFree
  <2>1. s \in Slots /\ slots[s] /\ s # NoSlot
    BY <1>2, FirstFreeIsFree DEF Checkout
  <2> HIDE DEF s
  <2>2. /\ slots' = [slots EXCEPT ![s] = FALSE]
        /\ holds' = [holds EXCEPT ![t] = s]
        /\ pc' = [pc EXCEPT ![t] = "reading"]
    BY <1>2 DEF Checkout, SlotsTaken, s
  <2>3. holds[t] = NoSlot /\ \A u \in Reads : holds[u] # s
    BY <1>2, <2>1 DEF HoldsInv
  <2>4. HoldsInv'
    <3>1. \A u \in Reads : pc'[u] = "reading" <=> holds'[u] # NoSlot
      BY <1>t, <2>1, <2>2 DEF HoldsInv
    <3>2. \A u \in Reads : holds'[u] # NoSlot => ~slots'[holds'[u]]
      BY <1>t, <2>1, <2>2 DEF HoldsInv
    <3>3. \A r \in Slots : ~slots'[r] => \E u \in Reads : holds'[u] = r
      <4>1. ASSUME NEW r \in Slots, ~slots'[r], r # s PROVE \E u \in Reads : holds'[u] = r
        <5>1. PICK u \in Reads : holds[u] = r
          BY <1>t, <2>1, <2>2, <4>1 DEF HoldsInv
        <5>2. u # t
          BY <1>t, <2>3, <5>1
        <5> QED
          BY <1>t, <2>2, <5>1, <5>2
      <4> QED
        BY <1>t, <2>2, <4>1
    <3>4. \A u, v \in Reads : holds'[u] # NoSlot /\ holds'[u] = holds'[v] => u = v
      BY <1>t, <2>1, <2>2, <2>3 DEF HoldsInv
    <3> QED
      BY <3>1, <3>2, <3>3, <3>4 DEF HoldsInv
  <2> QED
    BY <1>t, <2>1, <2>2, <2>4 DEF States
<1>3. ASSUME NEW t \in Reads, ReadEnds(t) PROVE Goal
  <2>1. PICK W \in Notified :
            pc' = [u \in Reads |-> IF u = t THEN "done" ELSE IF u \in W THEN "woken" ELSE pc[u]]
    BY <1>3 DEF ReadEnds
  <2>2. /\ pc[t] = "reading" /\ holds[t] \in Slots /\ holds[t] # NoSlot
        /\ slots' = [slots EXCEPT ![holds[t]] = TRUE]
        /\ holds' = [holds EXCEPT ![t] = NoSlot]
    BY <1>3, <1>t DEF ReadEnds, HoldsInv
  <2>3. \A u \in W : u \in Reads /\ pc[u] = "waiting"
    BY DEF Notified, Waiting
  <2>4. \A u \in Reads : u # t => /\ pc'[u] \in {pc[u], "woken"}
                                  /\ pc'[u] = "reading" <=> pc[u] = "reading"
    BY <2>1, <2>3
  <2>5. pc'[t] = "done" /\ pc' \in [Reads -> States]
    BY <1>t, <2>1 DEF States
  <2>6. HoldsInv'
    <3>1. \A u \in Reads : pc'[u] = "reading" <=> holds'[u] # NoSlot
      BY <1>t, <2>2, <2>4, <2>5 DEF HoldsInv
    <3>2. \A u \in Reads : holds'[u] # NoSlot => ~slots'[holds'[u]]
      BY <1>t, <2>2 DEF HoldsInv
    <3>3. \A r \in Slots : ~slots'[r] => \E u \in Reads : holds'[u] = r
      <4>1. ASSUME NEW r \in Slots, ~slots'[r] PROVE \E u \in Reads : holds'[u] = r
        <5>1. r # holds[t] /\ ~slots[r]
          BY <1>t, <2>2, <4>1
        <5>2. PICK u \in Reads : holds[u] = r
          BY <5>1 DEF HoldsInv
        <5> QED
          BY <1>t, <2>2, <5>1, <5>2
      <4> QED
        BY <4>1
    <3>4. \A u, v \in Reads : holds'[u] # NoSlot /\ holds'[u] = holds'[v] => u = v
      BY <1>t, <2>2 DEF HoldsInv
    <3> QED
      BY <3>1, <3>2, <3>3, <3>4 DEF HoldsInv
  <2> QED
    BY <1>t, <2>2, <2>5, <2>6
<1> HIDE DEF Goal
<1>4. ASSUME NEW t \in Reads, Read(t) \/ Poll(t) \/ Expire(t) \/ SpuriousWake(t) PROVE Goal
  <2>1. PICK state \in {"ready", "locking", "woken"} : pc' = [pc EXCEPT ![t] = state]
    BY <1>4 DEF Read, Poll, Expire, SpuriousWake
  <2>2. pc[t] # "reading" /\ UNCHANGED <<slots, holds>>
    BY <1>4 DEF Read, Poll, Expire, SpuriousWake
  <2> QED
    BY <1>1, <2>1, <2>2 DEF States
<1>5. ASSUME NEW t \in Reads, TryGet(t) \/ Resume(t) PROVE Goal
  BY <1>1, <1>2, <1>5 DEF TryGet, Resume, Wait, States
<1> QED
  BY <1>3, <1>4, <1>5 DEF Next, ReadStep, Goal

\* A call occupies a worker only after one was free.
LEMMA WorkersStep ==
    ASSUME TypeOK, WorkersInv, Next
    PROVE  WorkersInv'
<1>t. Workers \in Nat /\ pc \in [Reads -> States] /\ Cardinality(OnWorker) \in Nat
  BY Types, FS_CardinalityType DEF WorkersInv
<1>1. ASSUME OnWorker' \subseteq OnWorker PROVE WorkersInv'
  <2> HIDE DEF OnWorker
  <2>1. IsFiniteSet(OnWorker') /\ Cardinality(OnWorker') <= Cardinality(OnWorker)
    BY <1>1, FS_Subset DEF WorkersInv
  <2>2. Cardinality(OnWorker') \in Nat
    BY <2>1, FS_CardinalityType
  <2> QED
    BY <1>t, <2>1, <2>2 DEF WorkersInv
<1>2. ASSUME NEW t \in Reads, Poll(t) PROVE WorkersInv'
  <2>1. OnWorker' = OnWorker \cup {t} /\ t \notin OnWorker
    BY <1>2, <1>t DEF Poll, OnWorker
  <2>2. Cardinality(OnWorker) < Workers
    BY <1>2 DEF Poll, WorkerFree
  <2>3. IsFiniteSet(OnWorker') /\ Cardinality(OnWorker') = Cardinality(OnWorker) + 1
    BY <2>1, FS_AddElement DEF WorkersInv
  <2> QED
    BY <1>t, <2>2, <2>3 DEF WorkersInv
<1>3. ASSUME NEW t \in Reads, Read(t) PROVE WorkersInv'
  BY <1>1, <1>3, <1>t DEF Read, OnWorker
<1>4. ASSUME NEW t \in Reads, TryGet(t) PROVE WorkersInv'
  BY <1>1, <1>4, <1>t DEF TryGet, Checkout, Wait, OnWorker
<1>5. ASSUME NEW t \in Reads, Expire(t) \/ SpuriousWake(t) PROVE WorkersInv'
  BY <1>1, <1>5, <1>t DEF Expire, SpuriousWake, OnWorker
<1>6. ASSUME NEW t \in Reads, Resume(t) PROVE WorkersInv'
  BY <1>1, <1>6, <1>t DEF Resume, Checkout, Wait, OnWorker
<1>7. ASSUME NEW t \in Reads, ReadEnds(t) PROVE WorkersInv'
  BY <1>1, <1>7, <1>t DEF ReadEnds, Notified, Waiting, OnWorker
<1> QED
  BY <1>2, <1>3, <1>4, <1>5, <1>6, <1>7 DEF Next, ReadStep

\* While somebody waits, every free connection has a woken call on its way.
LEMMA WakeupStep ==
    ASSUME TypeOK, HoldsInv, WorkersInv, NoLostWakeup, Next
    PROVE  NoLostWakeup'
<1>t. /\ pc \in [Reads -> States] /\ slots \in [Slots -> BOOLEAN]
      /\ holds \in [Reads -> Slots \cup {NoSlot}] /\ IsFiniteSet(Slots)
  BY Types
<1>f. IsFiniteSet(Free) /\ Cardinality(Free) \in Nat
  BY <1>t, FS_Subset, FS_CardinalityType DEF Free
<1>w. IsFiniteSet(Woken) /\ Cardinality(Woken) \in Nat
  BY FS_Subset, FS_CardinalityType DEF WorkersInv, Woken, OnWorker
<1>w2. IsFiniteSet(Woken') /\ Cardinality(Woken') \in Nat
  <2>1. WorkersInv'
    BY WorkersStep
  <2> QED
    BY <2>1, FS_Subset, FS_CardinalityType DEF WorkersInv, Woken, OnWorker
\* Nobody left waiting, or nothing free.
<1>1. ASSUME Waiting' = {} \/ Free' = {} PROVE NoLostWakeup'
  BY <1>1, <1>w2, FS_EmptySet DEF NoLostWakeup
\* The free connections do not grow and the woken calls do not shrink.
<1>2. ASSUME Free' \subseteq Free, Woken \subseteq Woken', Waiting' # {} => Waiting # {}
      PROVE  NoLostWakeup'
  <2> HIDE DEF Free, Woken, Waiting
  <2>1. Cardinality(Free') <= Cardinality(Free) /\ Cardinality(Free') \in Nat
    BY <1>2, <1>f, FS_Subset, FS_CardinalityType
  <2>2. Cardinality(Woken) <= Cardinality(Woken')
    BY <1>2, <1>w2, FS_Subset
  <2> QED
    BY <1>2, <1>f, <1>w, <1>w2, <2>1, <2>2 DEF NoLostWakeup
<1>3. ASSUME NEW t \in Reads, Checkout(t), pc[t] \in {"locking", "woken"} PROVE NoLostWakeup'
  <2> DEFINE s == FirstFree
  <2>1. s \in Slots /\ slots[s]
    BY <1>3, FirstFreeIsFree DEF Checkout
  <2> HIDE DEF s
  <2>2. slots' = [slots EXCEPT ![s] = FALSE] /\ pc' = [pc EXCEPT ![t] = "reading"]
    BY <1>3 DEF Checkout, SlotsTaken, s
  <2>3. Free' = Free \ {s} /\ s \in Free
    BY <1>t, <2>1, <2>2 DEF Free
  <2>4. Woken' = Woken \ {t} /\ Waiting' = Waiting
    BY <1>3, <1>t, <2>2 DEF Woken, Waiting
  <2> HIDE DEF Free, Woken, Waiting
  <2>5. Cardinality(Free') = Cardinality(Free) - 1
    BY <1>f, <2>3, FS_RemoveElement
  <2>6. Cardinality(Woken') >= Cardinality(Woken) - 1
    <3>1. Cardinality(Woken') = IF t \in Woken THEN Cardinality(Woken) - 1 ELSE Cardinality(Woken)
      BY <1>w, <2>4, FS_RemoveElement
    <3> QED
      BY <1>w, <3>1
  <2> QED
    BY <1>f, <1>w, <1>w2, <2>4, <2>5, <2>6 DEF NoLostWakeup
<1>4. ASSUME NEW t \in Reads, Wait(t) PROVE NoLostWakeup'
  BY <1>1, <1>4 DEF Wait, Free
<1>5. ASSUME NEW t \in Reads, Read(t) \/ Poll(t) \/ Expire(t) \/ SpuriousWake(t) PROVE NoLostWakeup'
  <2>1. PICK state \in {"ready", "locking", "woken"} : pc' = [pc EXCEPT ![t] = state]
    BY <1>5 DEF Read, Poll, Expire, SpuriousWake
  <2>2. pc[t] # "woken" /\ UNCHANGED slots
    BY <1>5 DEF Read, Poll, Expire, SpuriousWake
  <2>3. Free' \subseteq Free
    BY <2>2 DEF Free
  <2>4. Woken \subseteq Woken' /\ (Waiting' # {} => Waiting # {})
    BY <1>t, <2>1, <2>2 DEF Woken, Waiting
  <2> QED
    BY <1>2, <2>3, <2>4
<1>6. ASSUME NEW t \in Reads, TryGet(t) \/ Resume(t) PROVE NoLostWakeup'
  <2>1. CASE Checkout(t) \/ Wait(t)
    BY <1>3, <1>4, <1>6, <2>1 DEF TryGet, Resume
  <2>2. CASE Free = {} /\ UNCHANGED slots
    BY <1>1, <2>2 DEF Free
  <2> QED
    BY <1>6, <2>1, <2>2 DEF TryGet, Resume, GivesUp
<1>7. ASSUME NEW t \in Reads, ReadEnds(t) PROVE NoLostWakeup'
  <2>1. PICK W \in Notified :
            pc' = [u \in Reads |-> IF u = t THEN "done" ELSE IF u \in W THEN "woken" ELSE pc[u]]
    BY <1>7 DEF ReadEnds
  <2>2. pc[t] = "reading" /\ slots' = [slots EXCEPT ![holds[t]] = TRUE]
    BY <1>7 DEF ReadEnds
  <2>3. CASE Waiting = {}
    BY <1>1, <2>1, <2>3 DEF Notified, Waiting
  <2>4. CASE Waiting # {}
    <3>1. PICK w \in Waiting : W = {w}
      BY <2>4 DEF Notified
    <3>2. w # t /\ w \in Reads /\ w \notin Woken
      BY <2>2, <3>1 DEF Waiting, Woken
    <3>3. Woken' = Woken \cup {w}
      BY <2>1, <2>2, <3>1, <3>2 DEF Woken
    <3>4. Free' \subseteq Free \cup {holds[t]}
      BY <1>t, <2>2 DEF Free
    <3> HIDE DEF Free, Woken, Waiting
    <3>5. Cardinality(Woken') = Cardinality(Woken) + 1
      BY <1>w, <3>2, <3>3, FS_AddElement
    <3>6. Cardinality(Free') <= Cardinality(Free) + 1
      <4>1. /\ IsFiniteSet(Free \cup {holds[t]})
            /\ Cardinality(Free \cup {holds[t]}) =
                  IF holds[t] \in Free THEN Cardinality(Free) ELSE Cardinality(Free) + 1
        BY <1>f, FS_AddElement
      <4>2. Cardinality(Free') <= Cardinality(Free \cup {holds[t]}) /\ Cardinality(Free') \in Nat
        BY <3>4, <4>1, FS_Subset, FS_CardinalityType
      <4> QED
        BY <1>f, <4>1, <4>2
    <3>7. Cardinality(Free') \in Nat
      BY <1>f, <3>4, FS_AddElement, FS_Subset, FS_CardinalityType
    <3> QED
      BY <1>f, <1>w, <2>4, <3>5, <3>6, <3>7 DEF NoLostWakeup
  <2> QED
    BY <2>3, <2>4
<1> QED
  BY <1>5, <1>6, <1>7 DEF Next, ReadStep

LEMMA Invariance == Spec => []IInv
<1>1. Init => IInv
  <2> SUFFICES ASSUME Init PROVE IInv
    OBVIOUS
  <2>1. Workers \in Nat /\ Size \in Nat /\ NoSlot \notin Slots
    BY PoolAssumption DEF PoolAssumption, Slots, NoSlot
  <2>2. OnWorker = {} /\ Waiting = {}
    BY DEF Init, OnWorker, Waiting
  <2>3. IsFiniteSet({}) /\ Cardinality({}) = 0
    BY FS_EmptySet
  <2>4. WorkersInv
    BY <2>1, <2>2, <2>3 DEF WorkersInv
  <2>5. TypeOK
    BY <2>4 DEF Init, TypeOK, States, WorkersInv
  <2>6. HoldsInv
    BY <2>1 DEF Init, HoldsInv
  <2> QED
    BY <2>2, <2>4, <2>5, <2>6 DEF IInv, NoLostWakeup
<1>2. IInv /\ [Next]_vars => IInv'
  <2> SUFFICES ASSUME IInv, [Next]_vars PROVE IInv'
    OBVIOUS
  <2>1. CASE Next
    <3>1. WorkersInv' /\ NoLostWakeup' /\ HoldsInv'
      BY <2>1, HoldsStep, WorkersStep, WakeupStep DEF IInv
    <3>2. TypeOK'
      BY <2>1, <3>1, HoldsStep DEF IInv, TypeOK, WorkersInv
    <3> QED
      BY <3>1, <3>2 DEF IInv
  <2>2. CASE UNCHANGED vars
    BY <2>2 DEF IInv, vars, TypeOK, HoldsInv, WorkersInv, NoLostWakeup, OnWorker, Waiting, Woken,
       Free
  <2> QED
    BY <2>1, <2>2
<1> QED
  BY <1>1, <1>2, PTL DEF Spec
-----------------------------------------------------------------------------
\* A connection of the pool is in its slot or with exactly one read, whose query
\* runs; and no more calls wait inside the pool than there are workers.
THEOREM PoolConnectionsConserved == Spec => []ConnectionsConserved
<1>1. IInv => ConnectionsConserved
  BY Types DEF IInv, HoldsInv, ConnectionsConserved
<1> QED
  BY <1>1, Invariance, PTL

\* No wakeup is lost, whatever timeouts and spurious wakeups come between: while
\* a read waits, every free connection has a woken read that will try for it.
THEOREM PoolNoLostWakeup == Spec => []NoLostWakeup
<1>1. IInv => NoLostWakeup
  BY DEF IInv
<1> QED
  BY <1>1, Invariance, PTL
=============================================================================
