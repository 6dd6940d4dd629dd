----------------------------- MODULE Forgetting -----------------------------
(***************************************************************************)
(* Removal of memories: soft deprecation, restore, verified hard purge     *)
(* (src/storage/store.rs) and the TTL reaper (src/memory/ttl_reaper.rs)    *)
(* that drives both.                                                       *)
(*                                                                         *)
(* Each StoreHandle::write is one step: the single writer runs closures    *)
(* one after the other.  What is not one step is an operation made of      *)
(* several writes (a purge has four) or of a read followed by writes (the  *)
(* reaper), nor a closure whose statements commit one by one.  A memory is *)
(* its row and everything that references it; the delete phase is a        *)
(* transaction, so they go together.  Time is counted in days.             *)
(***************************************************************************)
EXTENDS Naturals, FiniteSets

CONSTANTS MaxMemories, \* bound: rows ever inserted
          Expiring,    \* ids whose tier has a TTL (ttl_days > 0)
          Users,       \* client tasks that may purge
          Ttl,         \* ttl_for_tier, in days
          Grace,       \* ttl_grace_days
          Faults,      \* the faults that may strike
          MaxFaults,   \* bound: how many do
          MaxOps       \* bound: calls by clients

FaultKinds == {"statement", "vacuum", "timeout", "crash"}
Ids == 1..MaxMemories

ASSUME ForgettingAssumption ==
    /\ MaxMemories \in Nat /\ Ttl \in Nat \ {0} /\ Grace \in Nat
    /\ Expiring \subseteq Ids
    /\ "reaper" \notin Users
    /\ Faults \subseteq FaultKinds
    /\ MaxFaults \in Nat /\ MaxOps \in Nat

Purgers == Users \cup {"reaper"}
NoId == 0

VARIABLES status,   \* Ids -> memories.status; "unborn" and "purged" have no row
          created,  \* Ids -> created_at
          deleted,  \* Ids -> deleted_at; meaningful while deprecated
          tombs,    \* Ids -> rows in tombstones
          log,      \* Ids -> [last |-> newest forget_audit action, purges |-> number
                    \*         of hard_delete and ttl_purge rows]
          stage,    \* Purgers -> the write of hard_purge that comes next
          target,   \* Purgers -> the memory it has deleted
          rpc,      \* where the reaper is
          todo,     \* ids the reaper has read and not dealt with
          clock,
          by,       \* history: Ids -> who deleted the row
          touched,  \* history: rows a client changed since the reaper listed them
          faults, ops

vars == <<status, created, deleted, tombs, log, stage, target, rpc, todo, clock,
          by, touched, faults, ops>>
rows == <<status, created, deleted>>
ledger == <<tombs, log>>
reaper == <<rpc, todo>>

Rowless == {"unborn", "purged"}
Actions == {"none", "deprecate", "ttl_deprecate", "restore", "hard_delete", "ttl_purge"}
HasRow(m) == status[m] \notin Rowless

TypeOK ==
    /\ status \in [Ids -> {"unborn", "active", "pending", "deprecated", "purged"}]
    /\ created \in [Ids -> Nat] /\ deleted \in [Ids -> Nat]
    /\ tombs \in [Ids -> Nat]
    /\ log \in [Ids -> [last : Actions, purges : Nat]]
    /\ stage \in [Purgers -> {"idle", "vacuum", "checkpoint", "record"}]
    /\ target \in [Purgers -> Ids \cup {NoId}]
    /\ \A p \in Purgers : stage[p] = "idle" <=> target[p] = NoId
    /\ rpc \in {"idle", "deprecating", "purging"}
    /\ todo \subseteq Ids
    /\ clock \in Nat
    /\ by \in [Ids -> Purgers \cup {"nobody"}]
    /\ touched \subseteq Ids
    /\ faults \in 0..MaxFaults /\ ops \in 0..MaxOps

Init ==
    /\ status = [m \in Ids |-> "unborn"]
    /\ created = [m \in Ids |-> 0] /\ deleted = [m \in Ids |-> 0]
    /\ tombs = [m \in Ids |-> 0]
    /\ log = [m \in Ids |-> [last |-> "none", purges |-> 0]]
    /\ stage = [p \in Purgers |-> "idle"] /\ target = [p \in Purgers |-> NoId]
    /\ rpc = "idle" /\ todo = {}
    /\ clock = 0
    /\ by = [m \in Ids |-> "nobody"]
    /\ touched = {}
    /\ faults = 0 /\ ops = 0

Strike(kind) == kind \in Faults /\ faults < MaxFaults /\ faults' = faults + 1
Logged(m, action) == [log EXCEPT ![m].last = action]

Call == ops < MaxOps /\ ops' = ops + 1
-----------------------------------------------------------------------------
\* insert_memory, persist: ids are handed out in order and never reused.
Insert(m) ==
    /\ status[m] = "unborn" /\ \A i \in 1..(m - 1) : status[i] # "unborn"
    /\ \E s \in {"active", "pending"} : status' = [status EXCEPT ![m] = s]
    /\ created' = [created EXCEPT ![m] = clock]
    /\ UNCHANGED <<deleted, ledger, stage, target, reaper, clock, by, faults, ops, touched>>

\* deprecate_with_action: the row whatever its status, then the audit row.
SetDeprecated(m) ==
    /\ status' = [status EXCEPT ![m] = "deprecated"]
    /\ deleted' = [deleted EXCEPT ![m] = clock]
    /\ UNCHANGED created

\* The second statement writes the audit row, unless it fails.
Audited(m, action) ==
    \/ log' = Logged(m, action) /\ UNCHANGED faults
    \/ Strike("statement") /\ UNCHANGED log

Touched(m) == IF rpc = "purging" THEN touched \cup {m} ELSE touched

Deprecate(m) ==
    /\ Call
    /\ HasRow(m)
    /\ SetDeprecated(m)
    /\ Audited(m, "deprecate")
    /\ touched' = Touched(m)
    /\ UNCHANGED <<tombs, stage, target, reaper, clock, by>>

Restorable(m) == HasRow(m)

Restore(m) ==
    /\ Call
    /\ Restorable(m)
    /\ status' = [status EXCEPT ![m] = "active"]
    /\ Audited(m, "restore")
    /\ touched' = Touched(m)
    /\ UNCHANGED <<created, deleted, tombs, stage, target, reaper, clock, by>>
-----------------------------------------------------------------------------
\* hard_purge_with_action, first write: existence gate, then the delete phase
\* as one transaction, committed before the survivors are counted.
ExistsUnchecked(m) == status[m] # "unborn"
Exists(m) == HasRow(m)

DeleteRow(p, m) ==
    /\ status' = [status EXCEPT ![m] = "purged"]
    /\ by' = [by EXCEPT ![m] = p]
    /\ UNCHANGED <<created, deleted>>

\* The caller goes on with VACUUM, or it gave up waiting while the closure was
\* still queued and the purge ends here.
PurgeDelete(p, m) ==
    /\ stage[p] = "idle"
    /\ Exists(m)
    /\ DeleteRow(p, m)
    /\ \/ /\ stage' = [stage EXCEPT ![p] = "vacuum"]
          /\ target' = [target EXCEPT ![p] = m]
          /\ UNCHANGED faults
       \/ Strike("timeout") /\ UNCHANGED <<stage, target>>

Purge(u, m) ==
    /\ Call
    /\ PurgeDelete(u, m)
    /\ UNCHANGED <<ledger, reaper, clock, touched>>

\* An error ends the purge, and with it the reaper's run.
Ended(p) ==
    /\ stage' = [stage EXCEPT ![p] = "idle"]
    /\ target' = [target EXCEPT ![p] = NoId]
AbortRun(p) ==
    IF p = "reaper" THEN rpc' = "idle" /\ todo' = {} ELSE UNCHANGED reaper

\* Second and third write.
NextStage(p) == IF stage[p] = "vacuum" THEN "checkpoint" ELSE "record"

Vacuum(p) ==
    /\ stage[p] \in {"vacuum", "checkpoint"}
    /\ \/ /\ stage' = [stage EXCEPT ![p] = NextStage(p)]
          /\ UNCHANGED <<target, reaper, faults>>
       \/ Strike("vacuum") /\ Ended(p) /\ AbortRun(p)
    /\ UNCHANGED <<rows, ledger, clock, by, ops, touched>>

\* Fourth write: the tombstone, then the audit row.
PurgeActionManual(p) == "hard_delete"
PurgeAction(p) == IF p = "reaper" THEN "ttl_purge" ELSE "hard_delete"

Record(p) ==
    /\ stage[p] = "record"
    /\ tombs' = [tombs EXCEPT ![target[p]] = @ + 1]
    /\ Ended(p)
    /\ \/ /\ log' = [log EXCEPT ![target[p]] = [last |-> PurgeAction(p), purges |-> @.purges + 1]]
          /\ UNCHANGED <<reaper, faults>>
       \/ Strike("statement") /\ AbortRun(p) /\ UNCHANGED log
    /\ UNCHANGED <<rows, clock, by, ops, touched>>
-----------------------------------------------------------------------------
\* run_ttl_reaper.
ExpiredPending == {m \in Expiring : status[m] = "pending" /\ created[m] + Ttl < clock}
Expired == {m \in Expiring : status[m] = "active" /\ created[m] + Ttl < clock}
PastGraceIgnored == {m \in Ids : status[m] = "deprecated"}
PastGrace == {m \in Ids : status[m] = "deprecated" /\ deleted[m] + Grace < clock}
First(S) == CHOOSE m \in S : \A i \in S : m <= i

ReaperStart ==
    /\ rpc = "idle"
    /\ rpc' = "deprecating" /\ todo' = Expired
    /\ UNCHANGED <<rows, ledger, stage, target, clock, by, faults, ops, touched>>

\* deprecate_for_ttl acts on the id: an UPDATE of a row that is gone changes no
\* row, which is no error, and the run goes on.
GoneEndsRun == AbortRun("reaper")
Gone == todo' = todo \ {First(todo)} /\ UNCHANGED rpc

ReaperDeprecate ==
    /\ rpc = "deprecating" /\ todo # {}
    /\ IF HasRow(First(todo))
         THEN /\ SetDeprecated(First(todo))
              /\ \/ /\ log' = Logged(First(todo), "ttl_deprecate")
                    /\ todo' = todo \ {First(todo)}
                    /\ UNCHANGED <<rpc, faults>>
                 \/ Strike("statement") /\ AbortRun("reaper") /\ UNCHANGED log
         ELSE Gone /\ UNCHANGED <<rows, log, faults>>
    /\ UNCHANGED <<tombs, stage, target, clock, by, ops, touched>>

ReaperList ==
    /\ rpc = "deprecating" /\ todo = {}
    /\ rpc' = "purging" /\ todo' = PastGrace
    /\ touched' = {}
    /\ UNCHANGED <<rows, ledger, stage, target, clock, by, faults, ops>>

\* hard_purge_for_ttl acts on the id; when the caller gives up, or the row is
\* gone, the run ends.
ReaperPurge ==
    /\ rpc = "purging" /\ todo # {} /\ stage["reaper"] = "idle"
    /\ PurgeDelete("reaper", First(todo))
    /\ IF stage' = stage THEN AbortRun("reaper")
                         ELSE todo' = todo \ {First(todo)} /\ UNCHANGED rpc
    /\ UNCHANGED <<ledger, clock, ops, touched>>

ReaperFails ==
    /\ rpc = "purging" /\ todo # {} /\ stage["reaper"] = "idle"
    /\ ~Exists(First(todo))
    /\ AbortRun("reaper")
    /\ UNCHANGED <<rows, ledger, stage, target, clock, by, faults, ops, touched>>

ReaperEnds ==
    /\ rpc = "purging" /\ todo = {} /\ stage["reaper"] = "idle"
    /\ rpc' = "idle"
    /\ UNCHANGED <<rows, ledger, stage, target, todo, clock, by, faults, ops, touched>>
-----------------------------------------------------------------------------
\* The process dies and is started again: only the tables survive.
Crash ==
    /\ Strike("crash")
    /\ stage' = [p \in Purgers |-> "idle"] /\ target' = [p \in Purgers |-> NoId]
    /\ rpc' = "idle" /\ todo' = {}
    /\ UNCHANGED <<rows, ledger, clock, by, ops, touched>>

\* Days pass as long as some row waits for one to pass.
Waiting == {m \in Ids : \/ m \in Expiring /\ status[m] = "active" /\ created[m] + Ttl >= clock
                        \/ status[m] = "deprecated" /\ deleted[m] + Grace >= clock}
Tick ==
    /\ Waiting # {}
    /\ clock' = clock + 1
    /\ UNCHANGED <<rows, ledger, stage, target, reaper, by, faults, ops, touched>>
-----------------------------------------------------------------------------
PurgeStep(p) == Vacuum(p) \/ Record(p)
RunStep == ReaperDeprecate \/ ReaperList \/ ReaperPurge \/ ReaperFails \/ ReaperEnds
ReaperStep == ReaperStart \/ RunStep

Next ==
    \/ \E m \in Ids : Insert(m) \/ Deprecate(m) \/ Restore(m) \/ \E u \in Users : Purge(u, m)
    \/ \E p \in Purgers : PurgeStep(p)
    \/ ReaperStep
    \/ Crash
    \/ Tick

Spec == Init /\ [][Next]_vars

\* A purge and a run of the reaper, once begun, are polled to their end.  Nothing
\* makes a run begin, nor the days pass: the scheduler enqueues the maintain job
\* under a key it never changes, so once in the life of a store (JobQueue), and
\* `maintain --ttl` is the operator's.
Fairness ==
    /\ \A p \in Purgers : WF_vars(PurgeStep(p))
    /\ WF_vars(RunStep)
FairSpec == Spec /\ Fairness
-----------------------------------------------------------------------------
\* A tombstone is never written for a memory that still has its row, and never
\* twice, although clients and the reaper may purge the same id at once; a purge
\* is logged at most once, and only after its tombstone.
TombstonesAreTrue ==
    \A m \in Ids : /\ tombs[m] <= 1
                   /\ log[m].purges <= tombs[m]
                   /\ tombs[m] = 1 => status[m] = "purged"

\* docs/forget.md: "never loses a fact silently: every removal is two-phase,
\* audited, and -- for hard deletes -- provable by replay".  A row that is gone
\* has its tombstone and its audit row, or the purge is still under way.
RemovalIsRecorded ==
    \A m \in Ids : status[m] = "purged" =>
        \/ tombs[m] = 1 /\ log[m].purges = 1
        \/ \E p \in Purgers : target[p] = m

\* The same as long as no fault strikes, and then the newest audit row of a
\* memory tells its state, whoever raced whom.
LedgerAgrees ==
    /\ TypeOK
    /\ faults = 0 =>
        /\ RemovalIsRecorded
        /\ \A m \in Ids : /\ status[m] = "deprecated" => log[m].last \in {"deprecate", "ttl_deprecate"}
                          /\ status[m] = "active" => log[m].last \in {"none", "restore"}
                          /\ tombs[m] = 1 => (log[m].last = "ttl_purge" <=> by[m] = "reaper")

\* ADR-008: "nothing auto-purges before `ttl_grace_days` ... after deprecation".
GraceRespected ==
    [][\A m \in Ids : by[m] = "nobody" /\ by'[m] = "reaper" =>
          status[m] = "deprecated" /\ deleted[m] + Grace < clock]_vars

\* What the code keeps of it: the reaper purges early only a row that a client
\* deprecated anew or restored after the reaper had listed it. And a row that is
\* gone never comes back, by a restore that raced the purge either.
PurgesAreDueAndFinal ==
    [][/\ \A m \in Ids \ touched : by[m] = "nobody" /\ by'[m] = "reaper" =>
            status[m] = "deprecated" /\ deleted[m] + Grace < clock
       /\ \A m \in Ids : status[m] = "purged" => status'[m] = "purged"]_vars

\* A run of the reaper deals with every row it listed, whatever clients do to them
\* while it goes through the list: one listed as expired is deprecated or gone, and
\* one listed for purging is gone with its tombstone, whether the reaper or a client
\* who came first deletes it.  Only a fault keeps a run from it, or a client purging
\* another row of the list, on which the run ends with an error.
RunSettlesItsRows ==
    \A m \in Ids :
        /\ (rpc = "deprecating" /\ m \in todo) ~>
               (status[m] \in {"deprecated", "purged"} \/ faults > 0)
        /\ (rpc = "purging" /\ m \in todo) ~>
               (tombs[m] = 1 \/ faults > 0 \/ \E i \in Ids \ {m} : by[i] \in Users)
=============================================================================
