------------------------------ MODULE ReadPool ------------------------------
(***************************************************************************)
(* The read-connection pool of src/storage/pool.rs together with           *)
(* StoreHandle::read_timeout, its only user.                               *)
(*                                                                         *)
(* A read calls get_timeout on the tokio worker that polls it, so a reader *)
(* that waits for a connection blocks one of the Workers threads; the      *)
(* query itself runs in spawn_blocking, on a thread of its own, and the    *)
(* connection is returned there when the closure ends or panics.  All      *)
(* accesses to the slots hold the pool's mutex: a step below is one        *)
(* critical section.  The condition variable may wake a waiter without a   *)
(* notification.                                                           *)
(***************************************************************************)
EXTENDS Naturals, FiniteSets

CONSTANTS Reads,     \* the calls of read_timeout
          Timed,     \* those with a timeout
          Spurious,  \* those a condition variable may wake unnotified
          Size,      \* number of connections
          Workers    \* number of tokio worker threads

ASSUME PoolAssumption ==
    /\ Timed \subseteq Reads
    /\ Spurious \subseteq Reads
    /\ Size \in Nat \ {0}      \* size.max(1)
    /\ Workers \in Nat \ {0}

Slots == 1..Size
NoSlot == 0

VARIABLES slots,     \* Slots -> is the connection in its slot
          pc,        \* Reads -> where the call is
          holds      \* Reads -> the slot of the connection checked out

vars == <<slots, pc, holds>>

States == {"idle", "ready", "locking", "waiting", "woken", "reading", "done", "none"}

\* Calls that occupy a tokio worker: they are inside get_timeout.
OnWorker == {t \in Reads : pc[t] \in {"locking", "waiting", "woken"}}
Waiting  == {t \in Reads : pc[t] = "waiting"}
Woken    == {t \in Reads : pc[t] = "woken"}
Free     == {s \in Slots : slots[s]}

TypeOK ==
    /\ slots \in [Slots -> BOOLEAN]
    /\ pc \in [Reads -> States]
    /\ holds \in [Reads -> Slots \cup {NoSlot}]
    /\ Cardinality(OnWorker) <= Workers

Init ==
    /\ slots = [s \in Slots |-> TRUE]
    /\ pc = [t \in Reads |-> "idle"]
    /\ holds = [t \in Reads |-> NoSlot]
-----------------------------------------------------------------------------
\* A task wants to read; it runs when a worker polls it.
Read(t) ==
    /\ pc[t] = "idle"
    /\ pc' = [pc EXCEPT ![t] = "ready"]
    /\ UNCHANGED <<slots, holds>>

WorkerFreeLeaks == Cardinality({t \in Reads : pc[t] \notin {"idle", "ready"}}) < Workers
WorkerFree == Cardinality(OnWorker) < Workers

Poll(t) ==
    /\ pc[t] = "ready"
    /\ WorkerFree
    /\ pc' = [pc EXCEPT ![t] = "locking"]
    /\ UNCHANGED <<slots, holds>>

\* slots.iter().position(|s| s.is_some()), then take().
FirstFree == CHOOSE s \in Free : \A u \in Free : s <= u
SlotsTakenNone(s) == slots
SlotsTaken(s) == [slots EXCEPT ![s] = FALSE]

Checkout(t) ==
    /\ Free # {}
    /\ slots' = SlotsTaken(FirstFree)
    /\ holds' = [holds EXCEPT ![t] = FirstFree]
    /\ pc' = [pc EXCEPT ![t] = "reading"]

Wait(t) ==
    /\ Free = {}
    /\ pc' = [pc EXCEPT ![t] = "waiting"]
    /\ UNCHANGED <<slots, holds>>

\* The first turn of the loop of get_timeout.
TryGet(t) == pc[t] = "locking" /\ (Checkout(t) \/ Wait(t))

\* Condvar::wait_timeout gives up; any waiter may also wake spuriously.
Expire(t) ==
    /\ pc[t] = "waiting"
    /\ t \in Timed
    /\ pc' = [pc EXCEPT ![t] = "woken"]
    /\ UNCHANGED <<slots, holds>>

SpuriousWake(t) ==
    /\ pc[t] = "waiting"
    /\ t \in Spurious
    /\ pc' = [pc EXCEPT ![t] = "woken"]
    /\ UNCHANGED <<slots, holds>>

\* After the wait a call with a timeout returns None when every slot is empty
\* again; the loop gives everyone else another turn.
GivesUp(t) == t \in Timed /\ Free = {}

Resume(t) ==
    /\ pc[t] = "woken"
    /\ \/ /\ GivesUp(t)
          /\ pc' = [pc EXCEPT ![t] = "none"]
          /\ UNCHANGED <<slots, holds>>
       \/ /\ ~GivesUp(t)
          /\ Checkout(t) \/ Wait(t)

\* Drop for PooledConn, on the blocking thread: the connection goes back to its
\* slot and notify_one wakes one waiter, if there is one.
NotifiedNobody == {{}}
Notified == IF Waiting = {} THEN {{}} ELSE {{w} : w \in Waiting}

ReadEnds(t) ==
    /\ pc[t] = "reading"
    /\ slots' = [slots EXCEPT ![holds[t]] = TRUE]
    /\ holds' = [holds EXCEPT ![t] = NoSlot]
    /\ \E W \in Notified :
          pc' = [u \in Reads |-> IF u = t THEN "done"
                                 ELSE IF u \in W THEN "woken"
                                 ELSE pc[u]]
-----------------------------------------------------------------------------
ReadStep(t) == Poll(t) \/ TryGet(t) \/ Expire(t) \/ Resume(t) \/ ReadEnds(t)

Next == \E t \in Reads : Read(t) \/ ReadStep(t) \/ SpuriousWake(t)

Spec == Init /\ [][Next]_vars

\* Threads are scheduled and queries end; timeouts expire.  A spurious wakeup
\* need not happen.
Fairness == \A t \in Reads : WF_vars(ReadStep(t))
FairSpec == Spec /\ Fairness
-----------------------------------------------------------------------------
\* A connection is in its slot or with exactly one reader: rusqlite connections
\* are not Sync, two readers on one connection would be undefined behaviour. And
\* no more reads run than there are workers.
ConnectionsConserved ==
    TypeOK /\ \A s \in Slots :
        IF slots[s] THEN \A t \in Reads : holds[t] # s
        ELSE \E t \in Reads : /\ holds[t] = s
                              /\ pc[t] = "reading"
                              /\ \A u \in Reads : holds[u] = s => u = t

\* No lost wakeup: while somebody waits, every free connection has a woken
\* reader on its way to the mutex.
NoLostWakeup == Waiting # {} => Cardinality(Free) <= Cardinality(Woken)

\* Every read ends, also when all workers are blocked waiting for a connection:
\* connections come back from threads that are not workers.  One without a
\* timeout ends with a connection ("get with no timeout should never fail").
ReadsEnd ==
    \A t \in Reads : (pc[t] = "ready") ~> (pc[t] = "done" \/ (pc[t] = "none" /\ t \in Timed))
=============================================================================
