-------------------------- MODULE ForgettingProofs --------------------------
(***************************************************************************)
(* Proofs about Forgetting for any memories, clients, times and faults.    *)
(***************************************************************************)
EXTENDS Forgetting, WellFoundedInduction, TLAPS

\* A purge under way has deleted its row and recorded nothing; the row names
\* the purger, so no two purges are after the same row.
PurgeInv ==
    \A p \in Purgers : target[p] # NoId =>
        /\ status[target[p]] = "purged"
        /\ tombs[target[p]] = 0
        /\ log[target[p]].purges = 0
        /\ by[target[p]] = p

\* Nothing has recorded the removal of a row that is there.
RowInv ==
    \A m \in Ids : /\ status[m] # "purged" => tombs[m] = 0 /\ log[m].purges = 0
                   /\ status[m] = "unborn" => log[m].last = "none"

\* What the reaper has listed is still due, unless a client touched or purged it.
ListInv ==
    rpc = "purging" =>
        \A m \in todo : /\ status[m] # "unborn"
                        /\ m \notin touched /\ HasRow(m) =>
                               status[m] = "deprecated" /\ deleted[m] + Grace < clock

IInv == TypeOK /\ PurgeInv /\ RowInv /\ ListInv /\ TombstonesAreTrue /\ LedgerAgrees
-----------------------------------------------------------------------------
\* A set of naturals that is not empty has a least element, so First is in it.
LEMMA LeastExists ==
    ASSUME NEW S \in SUBSET Nat, S # {}
    PROVE  \E m \in S : \A i \in S : m <= i
<1> DEFINE R == {ss \in Nat \X Nat : ss[1] < ss[2]}
<1>1. IsWellFoundedOn(R, Nat)
  BY NatLessThanWellFounded DEF OpToRel
<1> HIDE DEF R
<1>2. PICK m \in S : \A i \in S : ~ (<<i, m>> \in R)
  BY <1>1, WFMin
<1>3. \A i \in S : ~ (i < m)
  BY <1>2 DEF R
<1> QED
  BY <1>3

LEMMA FirstIsMember ==
    ASSUME NEW S \in SUBSET Ids, S # {}
    PROVE  First(S) \in S
<1>1. S \in SUBSET Nat
  BY ForgettingAssumption DEF Ids
<1>2. PICK m \in S : \A i \in S : m <= i
  BY <1>1, LeastExists
<1> QED
  BY <1>2 DEF First

\* Every step keeps the types.
LEMMA TypeStep ==
    ASSUME TypeOK, [Next]_vars
    PROVE  TypeOK'
<1>0. NoId \notin Ids /\ \A S \in SUBSET Ids : S # {} => First(S) \in S /\ First(S) \in Ids
  <2>1. NoId \notin Ids
    BY DEF NoId, Ids
  <2> QED
    BY <2>1, FirstIsMember
<1> USE ForgettingAssumption DEF TypeOK
<1>a. /\ Call => ops' \in 0..MaxOps
      /\ \A kind \in FaultKinds : Strike(kind) => faults' \in 0..MaxFaults
  BY DEF Call, Strike
<1>b. \A m \in Ids, action \in Actions :
          /\ Logged(m, action) \in [Ids -> [last : Actions, purges : Nat]]
          /\ Audited(m, action) =>
                /\ log' \in [Ids -> [last : Actions, purges : Nat]]
                /\ faults' \in 0..MaxFaults
  <2> SUFFICES ASSUME NEW m \in Ids, NEW action \in Actions
               PROVE  /\ Logged(m, action) \in [Ids -> [last : Actions, purges : Nat]]
                      /\ Audited(m, action) =>
                            /\ log' \in [Ids -> [last : Actions, purges : Nat]]
                            /\ faults' \in 0..MaxFaults
    OBVIOUS
  <2>1. Logged(m, action) \in [Ids -> [last : Actions, purges : Nat]]
    BY DEF Logged
  <2> QED
    BY <1>a, <2>1 DEF Audited, FaultKinds
<1>c. \A m \in Ids : SetDeprecated(m) =>
          /\ status' \in [Ids -> {"unborn", "active", "pending", "deprecated", "purged"}]
          /\ created' \in [Ids -> Nat] /\ deleted' \in [Ids -> Nat]
  BY DEF SetDeprecated
<1> USE DEF Actions, FaultKinds
<1>1. ASSUME NEW m \in Ids, Insert(m) PROVE TypeOK'
  BY <1>1 DEF Insert, ledger, reaper
<1>2. ASSUME NEW m \in Ids, Deprecate(m) PROVE TypeOK'
  BY <1>a, <1>b, <1>c, <1>2 DEF Deprecate, Touched, reaper
<1>3. ASSUME NEW m \in Ids, Restore(m) PROVE TypeOK'
  BY <1>a, <1>b, <1>3 DEF Restore, Touched, reaper
<1>4. ASSUME NEW u \in Users, NEW m \in Ids, Purge(u, m) PROVE TypeOK'
  BY <1>0, <1>a, <1>4, SMTT(30) DEF Purge, PurgeDelete, DeleteRow, ledger, reaper, Purgers
<1>5. ASSUME NEW p \in Purgers, Vacuum(p) PROVE TypeOK'
  BY <1>a, <1>5 DEF Vacuum, NextStage, Ended, AbortRun, rows, ledger, reaper
<1>6. ASSUME NEW p \in Purgers, Record(p) PROVE TypeOK'
  BY <1>a, <1>6, SMTT(30) DEF Record, PurgeAction, Ended, AbortRun, rows, reaper
<1>7. ASSUME ReaperStart PROVE TypeOK'
  BY <1>7 DEF ReaperStart, Expired, rows, ledger
<1>8. ASSUME ReaperDeprecate PROVE TypeOK'
  <2> DEFINE m == First(todo)
  <2>1. m \in Ids
    BY <1>0, <1>8 DEF ReaperDeprecate, Gone
  <2> HIDE DEF m
  <2>2. log' \in [Ids -> [last : Actions, purges : Nat]] /\ faults' \in 0..MaxFaults
    BY <1>a, <1>b, <1>8, <2>1 DEF ReaperDeprecate, Gone, m
  <2> QED
    BY <1>c, <1>8, <2>1, <2>2 DEF ReaperDeprecate, Gone, AbortRun, rows, m
<1>9. ASSUME ReaperList PROVE TypeOK'
  BY <1>9 DEF ReaperList, PastGrace, rows, ledger
<1>10. ASSUME ReaperPurge PROVE TypeOK'
  BY <1>0, <1>a, <1>10 DEF ReaperPurge, PurgeDelete, DeleteRow, AbortRun, ledger, Purgers
<1>11. ASSUME ReaperFails PROVE TypeOK'
  BY <1>11 DEF ReaperFails, AbortRun, rows, ledger
<1>12. ASSUME ReaperEnds PROVE TypeOK'
  BY <1>12 DEF ReaperEnds, rows, ledger
<1>13. ASSUME Crash PROVE TypeOK'
  BY <1>a, <1>13 DEF Crash, rows, ledger
<1>14. ASSUME Tick PROVE TypeOK'
  BY <1>14 DEF Tick, rows, ledger, reaper
<1>15. ASSUME UNCHANGED vars PROVE TypeOK'
  BY <1>15 DEF vars
<1> QED
  BY <1>1, <1>2, <1>3, <1>4, <1>5, <1>6, <1>7, <1>8, <1>9, <1>10, <1>11, <1>12, <1>13, <1>14,
     <1>15 DEF Next, PurgeStep, ReaperStep, RunStep

\* A removal is recorded after the row is gone, once.
LEMMA RecordsStep ==
    ASSUME TypeOK, TypeOK', PurgeInv, RowInv, TombstonesAreTrue, [Next]_vars
    PROVE  PurgeInv' /\ RowInv' /\ TombstonesAreTrue'
<1> USE DEF TypeOK, PurgeInv, RowInv, TombstonesAreTrue
<1>1. ASSUME NEW m \in Ids, Insert(m) PROVE PurgeInv' /\ RowInv' /\ TombstonesAreTrue'
  BY <1>1 DEF Insert, ledger, reaper, rows
<1>2. ASSUME NEW m \in Ids, Deprecate(m) PROVE PurgeInv' /\ RowInv' /\ TombstonesAreTrue'
  BY <1>2 DEF Deprecate, SetDeprecated, Audited, Logged, Touched, HasRow, Rowless, reaper
<1>3. ASSUME NEW m \in Ids, Restore(m) PROVE PurgeInv' /\ RowInv' /\ TombstonesAreTrue'
  BY <1>3 DEF Restore, Restorable, Audited, Logged, Touched, HasRow, Rowless, reaper
<1>4. ASSUME NEW u \in Users, NEW m \in Ids, Purge(u, m)
      PROVE  PurgeInv' /\ RowInv' /\ TombstonesAreTrue'
  BY <1>4 DEF Purge, PurgeDelete, DeleteRow, Exists, HasRow, Rowless, ledger, reaper, Purgers
<1>5. ASSUME NEW p \in Purgers, Vacuum(p) PROVE PurgeInv' /\ RowInv' /\ TombstonesAreTrue'
  BY <1>5 DEF Vacuum, NextStage, Ended, rows, ledger
<1>6. ASSUME NEW p \in Purgers, Record(p) PROVE PurgeInv' /\ RowInv' /\ TombstonesAreTrue'
  BY <1>6 DEF Record, PurgeAction, Ended, rows
<1>7. ASSUME ReaperStart PROVE PurgeInv' /\ RowInv' /\ TombstonesAreTrue'
  BY <1>7 DEF ReaperStart, rows, ledger
<1>8. ASSUME ReaperDeprecate PROVE PurgeInv' /\ RowInv' /\ TombstonesAreTrue'
  BY <1>8, FirstIsMember DEF ReaperDeprecate, Gone, SetDeprecated, Logged, HasRow, Rowless, rows
<1>9. ASSUME ReaperList PROVE PurgeInv' /\ RowInv' /\ TombstonesAreTrue'
  BY <1>9 DEF ReaperList, rows, ledger
<1>10. ASSUME ReaperPurge PROVE PurgeInv' /\ RowInv' /\ TombstonesAreTrue'
  BY <1>10, FirstIsMember DEF ReaperPurge, PurgeDelete, DeleteRow, Exists, HasRow, Rowless,
     ledger, Purgers
<1>11. ASSUME ReaperFails PROVE PurgeInv' /\ RowInv' /\ TombstonesAreTrue'
  BY <1>11 DEF ReaperFails, rows, ledger
<1>12. ASSUME ReaperEnds PROVE PurgeInv' /\ RowInv' /\ TombstonesAreTrue'
  BY <1>12 DEF ReaperEnds, rows, ledger
<1>13. ASSUME Crash PROVE PurgeInv' /\ RowInv' /\ TombstonesAreTrue'
  BY <1>13 DEF Crash, rows, ledger
<1>14. ASSUME Tick PROVE PurgeInv' /\ RowInv' /\ TombstonesAreTrue'
  BY <1>14 DEF Tick, rows, ledger, reaper
<1>15. ASSUME UNCHANGED vars PROVE PurgeInv' /\ RowInv' /\ TombstonesAreTrue'
  BY <1>15 DEF vars
<1> QED
  BY <1>1, <1>2, <1>3, <1>4, <1>5, <1>6, <1>7, <1>8, <1>9, <1>10, <1>11, <1>12, <1>13, <1>14,
     <1>15 DEF Next, PurgeStep, ReaperStep, RunStep

\* The list of the reaper stays true while clients work.
LEMMA ListStep ==
    ASSUME TypeOK, TypeOK', ListInv, [Next]_vars
    PROVE  ListInv'
<1> USE ForgettingAssumption DEF TypeOK, ListInv, HasRow, Rowless
<1>1. ASSUME NEW m \in Ids, Insert(m) PROVE ListInv'
  BY <1>1 DEF Insert, ledger, reaper, rows, Touched
<1>2. ASSUME NEW m \in Ids, Deprecate(m) PROVE ListInv'
  BY <1>2 DEF Deprecate, SetDeprecated, Audited, Logged, Touched, HasRow, Rowless, reaper
<1>3. ASSUME NEW m \in Ids, Restore(m) PROVE ListInv'
  BY <1>3 DEF Restore, Restorable, Audited, Logged, Touched, HasRow, Rowless, reaper
<1>4. ASSUME NEW u \in Users, NEW m \in Ids, Purge(u, m) PROVE ListInv'
  BY <1>4 DEF Purge, PurgeDelete, DeleteRow, Exists, HasRow, Rowless, ledger, reaper, Purgers
<1>5. ASSUME NEW p \in Purgers, Vacuum(p) PROVE ListInv'
  BY <1>5 DEF Vacuum, NextStage, Ended, AbortRun, rows, ledger, reaper
<1>6. ASSUME NEW p \in Purgers, Record(p) PROVE ListInv'
  BY <1>6 DEF Record, PurgeAction, Ended, AbortRun, rows, reaper
<1>7. ASSUME ReaperStart PROVE ListInv'
  BY <1>7 DEF ReaperStart, rows, ledger
<1>8. ASSUME ReaperDeprecate PROVE ListInv'
  BY <1>8, FirstIsMember DEF ReaperDeprecate, Gone, SetDeprecated, Logged, HasRow, Rowless, AbortRun, rows
<1>9. ASSUME ReaperList PROVE ListInv'
  BY <1>9 DEF ReaperList, rows, ledger, PastGrace
<1>10. ASSUME ReaperPurge PROVE ListInv'
  BY <1>10, FirstIsMember DEF ReaperPurge, PurgeDelete, DeleteRow, Exists, HasRow, Rowless,
     AbortRun, ledger, Purgers
<1>11. ASSUME ReaperFails PROVE ListInv'
  BY <1>11 DEF ReaperFails, AbortRun, rows, ledger
<1>12. ASSUME ReaperEnds PROVE ListInv'
  BY <1>12 DEF ReaperEnds, rows, ledger
<1>13. ASSUME Crash PROVE ListInv'
  BY <1>13 DEF Crash, rows, ledger
<1>14. ASSUME Tick PROVE ListInv'
  BY <1>14 DEF Tick, rows, ledger, reaper
<1>15. ASSUME UNCHANGED vars PROVE ListInv'
  BY <1>15 DEF vars
<1> QED
  BY <1>1, <1>2, <1>3, <1>4, <1>5, <1>6, <1>7, <1>8, <1>9, <1>10, <1>11, <1>12, <1>13, <1>14,
     <1>15 DEF Next, PurgeStep, ReaperStep, RunStep

\* Without a fault the ledger tells what happened.
LEMMA LedgerStep ==
    ASSUME TypeOK, TypeOK', PurgeInv, RowInv, TombstonesAreTrue, LedgerAgrees, [Next]_vars
    PROVE  LedgerAgrees'
<1>0. ASSUME NEW p \in Purgers, NEW m \in Ids, PurgeDelete(p, m), UNCHANGED ledger
      PROVE  LedgerAgrees'
  <2> SUFFICES ASSUME faults' = 0
               PROVE  /\ RemovalIsRecorded'
                      /\ \A i \in Ids :
                            /\ status'[i] = "deprecated" => log'[i].last \in {"deprecate", "ttl_deprecate"}
                            /\ status'[i] = "active" => log'[i].last \in {"none", "restore"}
                            /\ tombs'[i] = 1 => (log'[i].last = "ttl_purge" <=> by'[i] = "reaper")
    BY DEF LedgerAgrees
  <2>1. faults = 0 /\ faults' = faults
    BY <1>0 DEF PurgeDelete, Strike, TypeOK
  <2>2. status' = [status EXCEPT ![m] = "purged"] /\ by' = [by EXCEPT ![m] = p] /\ HasRow(m)
    BY <1>0 DEF PurgeDelete, DeleteRow, Exists
  <2>3. stage' = [stage EXCEPT ![p] = "vacuum"] /\ target' = [target EXCEPT ![p] = m] /\ target[p] = NoId
    BY <1>0, <2>1 DEF PurgeDelete, Strike, TypeOK
  <2>4. RemovalIsRecorded'
    <3>1. NoId \notin Ids
      BY DEF NoId, Ids
    <3> QED
      BY <1>0, <2>1, <2>2, <2>3, <3>1 DEF LedgerAgrees, RemovalIsRecorded, TypeOK, ledger
  <2>5. tombs[m] # 1
    BY <2>2 DEF RowInv, HasRow, Rowless
  <2> QED
    BY <1>0, <2>1, <2>2, <2>4, <2>5 DEF LedgerAgrees, TypeOK, ledger
<1> USE ForgettingAssumption DEF TypeOK, PurgeInv, RowInv, TombstonesAreTrue, LedgerAgrees,
   RemovalIsRecorded, Strike
<1>1. ASSUME NEW m \in Ids, Insert(m) PROVE LedgerAgrees'
  BY <1>1 DEF Insert, ledger, reaper, rows
<1>2. ASSUME NEW m \in Ids, Deprecate(m) PROVE LedgerAgrees'
  BY <1>2 DEF Deprecate, SetDeprecated, Audited, Logged, Touched, HasRow, Rowless, reaper
<1>3. ASSUME NEW m \in Ids, Restore(m) PROVE LedgerAgrees'
  BY <1>3 DEF Restore, Restorable, Audited, Logged, Touched, HasRow, Rowless, reaper
<1>4. ASSUME NEW u \in Users, NEW m \in Ids, Purge(u, m) PROVE LedgerAgrees'
  <2>1. u \in Purgers /\ u # "reaper" /\ PurgeDelete(u, m) /\ UNCHANGED ledger
    BY <1>4 DEF Purge, Purgers
  <2> QED
    BY <1>0, <2>1
<1>5. ASSUME NEW p \in Purgers, Vacuum(p) PROVE LedgerAgrees'
  BY <1>5 DEF Vacuum, NextStage, Ended, AbortRun, rows, ledger, reaper
<1>6. ASSUME NEW p \in Purgers, Record(p) PROVE LedgerAgrees'
  BY <1>6 DEF Record, PurgeAction, Ended, AbortRun, rows, reaper
<1>7. ASSUME ReaperStart PROVE LedgerAgrees'
  BY <1>7 DEF ReaperStart, rows, ledger
<1>8. ASSUME ReaperDeprecate PROVE LedgerAgrees'
  <2> DEFINE m == First(todo)
  <2>1. m \in Ids
    BY <1>8, FirstIsMember DEF ReaperDeprecate, Gone
  <2> HIDE DEF m
  <2>2. CASE HasRow(m)
    <3>1. /\ status' = [status EXCEPT ![m] = "deprecated"]
          /\ UNCHANGED <<tombs, target, by>>
          /\ faults' = 0 => faults = 0 /\ log' = [log EXCEPT ![m].last = "ttl_deprecate"]
      BY <1>8, <2>2 DEF ReaperDeprecate, Gone, SetDeprecated, Logged, m
    <3>2. status[m] # "purged" /\ tombs[m] = 0
      BY <2>1, <2>2 DEF HasRow, Rowless
    <3>3. faults' = 0 => RemovalIsRecorded'
      BY <2>1, <3>1, <3>2
    <3> QED
      BY <2>1, <3>1, <3>2, <3>3
  <2>3. CASE ~HasRow(m)
    BY <1>8, <2>3 DEF ReaperDeprecate, Gone, rows, m
  <2> QED
    BY <2>2, <2>3
<1>9. ASSUME ReaperList PROVE LedgerAgrees'
  BY <1>9 DEF ReaperList, rows, ledger
<1>10. ASSUME ReaperPurge PROVE LedgerAgrees'
  <2>1. First(todo) \in Ids /\ PurgeDelete("reaper", First(todo)) /\ UNCHANGED ledger
    BY <1>10, FirstIsMember DEF ReaperPurge, TypeOK
  <2> QED
    BY <1>0, <2>1 DEF Purgers
<1>11. ASSUME ReaperFails PROVE LedgerAgrees'
  BY <1>11 DEF ReaperFails, AbortRun, rows, ledger
<1>12. ASSUME ReaperEnds PROVE LedgerAgrees'
  BY <1>12 DEF ReaperEnds, rows, ledger
<1>13. ASSUME Crash PROVE LedgerAgrees'
  BY <1>13 DEF Crash, rows, ledger
<1>14. ASSUME Tick PROVE LedgerAgrees'
  BY <1>14 DEF Tick, rows, ledger, reaper
<1>15. ASSUME UNCHANGED vars PROVE LedgerAgrees'
  BY <1>15 DEF vars
<1> QED
  BY <1>1, <1>2, <1>3, <1>4, <1>5, <1>6, <1>7, <1>8, <1>9, <1>10, <1>11, <1>12, <1>13, <1>14,
     <1>15 DEF Next, PurgeStep, ReaperStep, RunStep

\* The invariant holds at the start and every step keeps it.
LEMMA Invariance == Spec => []IInv
<1>1. Init => IInv
  <2> SUFFICES ASSUME Init PROVE IInv
    OBVIOUS
  <2>1. TypeOK
    BY ForgettingAssumption DEF Init, TypeOK, Actions, NoId
  <2>2. PurgeInv /\ RowInv /\ ListInv /\ TombstonesAreTrue
    BY ForgettingAssumption DEF Init, PurgeInv, RowInv, ListInv, TombstonesAreTrue
  <2>3. LedgerAgrees
    BY <2>1 DEF Init, LedgerAgrees, RemovalIsRecorded
  <2> QED
    BY <2>1, <2>2, <2>3 DEF IInv
<1>2. IInv /\ [Next]_vars => IInv'
  BY TypeStep, RecordsStep, ListStep, LedgerStep DEF IInv
<1> QED
  BY <1>1, <1>2, PTL DEF Spec
-----------------------------------------------------------------------------
\* Every variable keeps its type, and only a purge under way has a target.
THEOREM ForgettingTypeOK == Spec => []TypeOK
<1>1. IInv => TypeOK
  BY DEF IInv
<1> QED
  BY <1>1, Invariance, PTL

\* hard_purge_with_action writes a tombstone once, for a row that is gone,
\* however clients and the reaper purge one id at the same time.
THEOREM ForgettingTombstonesAreTrue == Spec => []TombstonesAreTrue
<1>1. IInv => TombstonesAreTrue
  BY DEF IInv
<1> QED
  BY <1>1, Invariance, PTL

\* As long as no fault strikes, every removal has its tombstone and audit row or
\* is being recorded, and the newest audit row tells the state of its memory.
THEOREM ForgettingLedgerAgrees == Spec => []LedgerAgrees
<1>1. IInv => LedgerAgrees
  BY DEF IInv
<1> QED
  BY <1>1, Invariance, PTL

\* The reaper purges nothing before the grace period but what a client touched
\* after the listing, and nothing that is gone comes back.
THEOREM ForgettingPurgesAreDueAndFinal == Spec => PurgesAreDueAndFinal
<1> DEFINE Due(m) == by[m] = "nobody" /\ by'[m] = "reaper" =>
                         status[m] = "deprecated" /\ deleted[m] + Grace < clock
<1> DEFINE Final(m) == status[m] = "purged" => status'[m] = "purged"
<1>1. ASSUME IInv, [Next]_vars
      PROVE  (\A m \in Ids \ touched : Due(m)) /\ (\A m \in Ids : Final(m))
  <2> USE <1>1
  <2>1. TypeOK /\ ListInv
    BY DEF IInv
  <2>2. CASE UNCHANGED <<status, by>>
    BY <2>2
  <2>3. ASSUME NEW p \in Purgers, NEW m \in Ids, PurgeDelete(p, m),
               p = "reaper" => rpc = "purging" /\ m \in todo
        PROVE  (\A i \in Ids \ touched : Due(i)) /\ (\A i \in Ids : Final(i))
    BY <2>1, <2>3 DEF PurgeDelete, DeleteRow, Exists, ListInv, TypeOK
  <2>4. ASSUME UNCHANGED by, \A i \in Ids : Final(i)
        PROVE  (\A i \in Ids \ touched : Due(i)) /\ (\A i \in Ids : Final(i))
    BY <2>4
  <2>5. ASSUME NEW m \in Ids, Insert(m) \/ Deprecate(m) \/ Restore(m)
        PROVE  UNCHANGED by /\ \A i \in Ids : Final(i)
    BY <2>1, <2>5 DEF Insert, Deprecate, SetDeprecated, Restore, Restorable, HasRow, Rowless, TypeOK
  <2>6. ASSUME NEW u \in Users, NEW m \in Ids, Purge(u, m)
        PROVE  u \in Purgers /\ u # "reaper" /\ PurgeDelete(u, m)
    BY <2>6, ForgettingAssumption DEF Purge, Purgers
  <2>7. ASSUME ReaperPurge
        PROVE  rpc = "purging" /\ First(todo) \in todo /\ PurgeDelete("reaper", First(todo))
    BY <2>1, <2>7, FirstIsMember DEF ReaperPurge, TypeOK
  <2>8. ASSUME ReaperDeprecate PROVE UNCHANGED by /\ \A i \in Ids : Final(i)
    BY <2>1, <2>8 DEF ReaperDeprecate, Gone, SetDeprecated, HasRow, Rowless, rows, TypeOK
  <2>9. ASSUME \/ \E p \in Purgers : Vacuum(p) \/ Record(p)
               \/ ReaperStart \/ ReaperList \/ ReaperFails \/ ReaperEnds \/ Crash \/ Tick
               \/ UNCHANGED vars
        PROVE  UNCHANGED <<status, by>>
    BY <2>9 DEF Vacuum, Record, ReaperStart, ReaperList, ReaperFails, ReaperEnds, Crash, Tick,
                rows, vars
  <2>10. First(todo) \in todo => First(todo) \in Ids
    BY <2>1 DEF TypeOK
  <2> HIDE DEF Due, Final
  <2> QED
    BY <2>2, <2>3, <2>4, <2>5, <2>6, <2>7, <2>8, <2>9, <2>10
       DEF Next, PurgeStep, ReaperStep, RunStep, Purgers
<1> QED
  BY <1>1, Invariance, PTL DEF Spec, PurgesAreDueAndFinal
=============================================================================
