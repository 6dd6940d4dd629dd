--------------------------- MODULE JobQueueProofs ---------------------------
(***************************************************************************)
(* Proofs about JobQueue for any keys, workers, attempts, times and faults.*)
(***************************************************************************)
EXTENDS JobQueue, SequenceTheorems, FiniteSetTheorems, TLAPS

Finishing(c) == c.op # "claim"

\* A closure somebody waits for is the only one of its worker, and the worker
\* is where it waits for that very answer.
AnswerInv ==
    \A i \in DOMAIN writes :
        /\ writes[i].now <= clock
        /\ writes[i].live =>
              /\ pc[writes[i].who] = IF Finishing(writes[i]) THEN "finishing" ELSE "claiming"
              /\ \A k \in DOMAIN writes :
                    writes[k].live /\ writes[k].who = writes[i].who => k = i

\* The job in a worker's hands is running under the worker's claim, in one pair
\* of hands only.
HeldInv ==
    \A w \in Workers :
        IF pc[w] = "handling"
          THEN /\ held[w].id \in Ids
               /\ jobs[held[w].id].status = "running"
               /\ held[w].claim = hist[held[w].id].claims
               /\ jobs[held[w].id].attempts = hist[held[w].id].fails + 1
               /\ \A v \in Workers : held[v].id = held[w].id => v = w
          ELSE held[w] = NoJob

\* So is the job whose complete or fail waits in the writer's queue, whoever
\* waits for it, and the handler's result is the one the closure reports.
FinishInv ==
    \A i \in DOMAIN writes : Finishing(writes[i]) =>
        LET c == writes[i] IN
        /\ c.id \in Ids
        /\ jobs[c.id].status = "running"
        /\ c.claim = hist[c.id].claims
        /\ c.op = "complete" => hist[c.id].ok
        /\ c.op = "fail" => /\ jobs[c.id].attempts = hist[c.id].fails
                            /\ hist[c.id].failedAt = c.now
        /\ \A w \in Workers : held[w].id # c.id
        /\ \A k \in DOMAIN writes : Finishing(writes[k]) /\ writes[k].id = c.id => k = i

\* A queued job has failed as often as it was claimed, less often than
\* max_attempts, and is not due before its backoff is over.
JobInv ==
    \A j \in Ids :
        /\ jobs[j].status = "queued" =>
              /\ jobs[j].attempts = hist[j].fails
              /\ jobs[j].attempts < MaxAttempts
              /\ hist[j].fails > 0 =>
                    jobs[j].run_after >= hist[j].failedAt + Backoff(hist[j].fails)
        /\ jobs[j].status = "dead" => hist[j].fails = MaxAttempts
        /\ jobs[j].status = "done" => hist[j].ok

\* DlqAgrees without cardinalities.
DlqInv ==
    \A j \in Ids :
        /\ jobs[j].status = "dead" => \E i \in DOMAIN dead : dead[i].id = j /\ dead[i].open
        /\ faults = 0 =>
              \A i \in DOMAIN dead : dead[i].id = j /\ dead[i].open =>
                  /\ jobs[j].status = "dead"
                  /\ \A k \in DOMAIN dead : dead[k].id = j /\ dead[k].open => k = i

IInv == TypeOK /\ AnswerInv /\ HeldInv /\ FinishInv /\ JobInv /\ DlqInv
-----------------------------------------------------------------------------
\* 2 ^ n is a number for the exponents in use.
LEMMA BackoffIsNat ==
    ASSUME NEW n \in Nat
    PROVE  Backoff(n) \in Nat
<1>1. /\ 2 ^ 0 \in Nat /\ 2 ^ 1 \in Nat /\ 2 ^ 2 \in Nat /\ 2 ^ 3 \in Nat
      /\ 2 ^ 4 \in Nat /\ 2 ^ 5 \in Nat /\ 2 ^ 6 \in Nat /\ 2 ^ 7 \in Nat
      /\ 2 ^ 8 \in Nat /\ 2 ^ 9 \in Nat /\ 2 ^ 10 \in Nat
  BY SMT
<1>2. \A i \in {0, 1, 2, 3, 4, 5, 6, 7, 8, 9, 10} : 2 ^ i \in Nat
  BY <1>1, Zenon
<1>3. Min10(n) \in {0, 1, 2, 3, 4, 5, 6, 7, 8, 9, 10}
  BY DEF Min10
<1> QED
  BY <1>2, <1>3 DEF Backoff

\* A sequence after an assignment to one of its elements.
LEMMA Assigned ==
    ASSUME NEW S, NEW s \in Seq(S), NEW i \in DOMAIN s, NEW e \in S
    PROVE  /\ [s EXCEPT ![i] = e] \in Seq(S)
           /\ Len([s EXCEPT ![i] = e]) = Len(s)
           /\ DOMAIN [s EXCEPT ![i] = e] = DOMAIN s
           /\ \A j \in DOMAIN s : [s EXCEPT ![i] = e][j] = IF j = i THEN e ELSE s[j]
<1>1. i \in 1..Len(s) /\ DOMAIN s = 1..Len(s)
  BY LenProperties
<1> QED
  BY <1>1, ExceptSeq

\* A sequence after the same change to every element.
LEMMA Mapped ==
    ASSUME NEW S, NEW s \in Seq(S), NEW t, DOMAIN t = DOMAIN s, t = [i \in DOMAIN s |-> t[i]],
           \A i \in DOMAIN s : t[i] \in S
    PROVE  t \in Seq(S) /\ Len(t) = Len(s)
<1>1. Len(s) \in Nat /\ DOMAIN s = 1..Len(s)
  BY LenProperties
<1> QED
  BY <1>1, SMT

\* A sequence after its first element left.
LEMMA Shifted ==
    ASSUME NEW S, NEW s \in Seq(S), s # <<>>
    PROVE  /\ Tail(s) \in Seq(S)
           /\ 1 \in DOMAIN s /\ Head(s) = s[1] /\ Head(s) \in S
           /\ \A i \in DOMAIN Tail(s) : /\ i \in Nat /\ i + 1 \in DOMAIN s
                                        /\ i + 1 # 1
                                        /\ Tail(s)[i] = s[i + 1]
<1>1. /\ Len(s) \in Nat /\ DOMAIN s = 1..Len(s)
      /\ Tail(s) \in Seq(S) /\ Head(s) \in S /\ Head(s) = s[1] /\ Len(s) # 0
      /\ Len(Tail(s)) = Len(s) - 1
      /\ \A i \in 1..Len(Tail(s)) : Tail(s)[i] = s[i + 1]
  BY HeadTailProperties, LenProperties, EmptySeq
<1>2. DOMAIN Tail(s) = 1..Len(Tail(s))
  BY <1>1, LenProperties
<1> QED
  BY <1>1, <1>2

\* A sequence with one more element.
LEMMA Extended ==
    ASSUME NEW S, NEW s \in Seq(S), NEW e \in S
    PROVE  /\ Append(s, e) \in Seq(S)
           /\ Len(Append(s, e)) = Len(s) + 1
           /\ DOMAIN Append(s, e) = DOMAIN s \cup {Len(s) + 1}
           /\ Len(s) + 1 \notin DOMAIN s
           /\ Append(s, e)[Len(s) + 1] = e
           /\ \A i \in DOMAIN s : Append(s, e)[i] = s[i]
<1>1. Len(s) \in Nat /\ DOMAIN s = 1..Len(s)
  BY LenProperties
<1>2. DOMAIN Append(s, e) = 1..Len(Append(s, e))
  BY AppendProperties, LenProperties
<1>3. /\ Append(s, e) \in Seq(S)
      /\ Len(Append(s, e)) = Len(s) + 1
      /\ Append(s, e)[Len(s) + 1] = e
      /\ \A i \in 1..Len(s) : Append(s, e)[i] = s[i]
  BY AppendProperties
<1> QED
  BY <1>1, <1>2, <1>3

Hists == [claims : Nat, fails : Nat, ok : BOOLEAN, failedAt : Nat]
DeadRows == [id : Nat, attempts : Nat, open : BOOLEAN]

\* The types of the elements of the sequences.
LEMMA TypedFields ==
    ASSUME TypeOK
    PROVE  /\ Ids = 1..Len(jobs) /\ DOMAIN hist = Ids /\ 0 \notin Ids /\ Ids \subseteq Nat
           /\ \A j \in Ids : /\ jobs[j] \in Rows
                             /\ hist[j] \in Hists
           /\ \A i \in DOMAIN writes : writes[i] \in Calls
           /\ \A i \in DOMAIN dead : dead[i] \in DeadRows
<1> USE DEF TypeOK, Ids, Hists, DeadRows
<1>1. Ids = 1..Len(jobs) /\ DOMAIN hist = 1..Len(hist) /\ DOMAIN writes = 1..Len(writes)
      /\ DOMAIN dead = 1..Len(dead) /\ Len(jobs) \in Nat
  BY LenProperties
<1>2. \A j \in 1..Len(jobs) : jobs[j] \in Rows
  BY ElementOfSeq
<1>3. \A j \in 1..Len(hist) : hist[j] \in Hists
  BY ElementOfSeq
<1>4. \A i \in 1..Len(writes) : writes[i] \in Calls
  BY ElementOfSeq
<1>5. \A i \in 1..Len(dead) : dead[i] \in DeadRows
  BY ElementOfSeq
<1> QED
  BY <1>1, <1>2, <1>3, <1>4, <1>5

\* Every step keeps the types; attempts stays bounded because only a queued job
\* is claimed.
LEMMA TypeStep ==
    ASSUME TypeOK, HeldInv, FinishInv, JobInv, [Next]_vars
    PROVE  TypeOK'
<1>c. /\ MaxAttempts \in Nat \ {0} /\ MaxFaults \in Nat /\ MaxRequeues \in Nat /\ MaxTicks \in Nat
      /\ Scheduled \subseteq Keys /\ Unhandled \subseteq Keys
  BY JobAssumption DEF JobAssumption
<1> USE <1>c
<1>f. /\ Ids = 1..Len(jobs) /\ DOMAIN hist = Ids /\ 0 \notin Ids /\ Ids \subseteq Nat
      /\ \A j \in Ids : jobs[j] \in Rows /\ hist[j] \in Hists
      /\ \A i \in DOMAIN writes : writes[i] \in Calls
      /\ \A i \in DOMAIN dead : dead[i] \in DeadRows
  BY TypedFields
<1>h. hist \in Seq(Hists) /\ dead \in Seq(DeadRows) /\ jobs \in Seq(Rows) /\ writes \in Seq(Calls)
  BY DEF TypeOK, Hists, DeadRows
\* The parts of TypeOK a step on one job or one closure establishes.
<1>s. \A kind \in FaultKinds : Strike(kind) => faults' \in 0..MaxFaults
  BY DEF Strike, TypeOK
<1> DEFINE JobsTyped == /\ jobs' \in Seq(Rows) /\ Len(jobs') = Len(jobs) /\ Ids' = Ids
                          /\ \A k \in Ids : jobs'[k].attempts <= MaxAttempts
           HistTyped == hist' \in Seq(Hists) /\ Len(hist') = Len(hist)
<1>j. ASSUME NEW j \in Ids, NEW row \in Rows, row.attempts <= MaxAttempts,
             jobs' = [jobs EXCEPT ![j] = row]
      PROVE  JobsTyped
  <2>1. \A k \in Ids : jobs[k].attempts <= MaxAttempts
    BY DEF TypeOK
  <2> QED
    BY <1>h, <1>j, <2>1, Assigned DEF Ids
<1>k. ASSUME NEW j \in Ids, NEW h \in Hists, hist' = [hist EXCEPT ![j] = h]
      PROVE  HistTyped
  BY <1>f, <1>h, <1>k, Assigned
<1>n. NoJob \in [id : Nat, claim : Nat]
  BY DEF NoJob
<1>w. ASSUME NEW op \in {"claim", "complete", "fail"}, NEW w \in Workers
      PROVE  Append(writes, Call(op, w)) \in Seq(Calls)
  <2>1. Call(op, w) \in Calls
    BY DEF Call, Calls, TypeOK
  <2> QED
    BY <1>h, <2>1, Extended
<1>i. ASSUME NEW k \in Keys, Inserted(k)
      PROVE  /\ jobs' \in Seq(Rows) /\ hist' \in Seq(Hists) /\ Len(hist') = Len(jobs')
             /\ Ids \subseteq Ids' /\ \A j \in Ids' : jobs'[j].attempts <= MaxAttempts
  <2>1. NewRow(k) \in Rows /\ NewRow(k).attempts <= MaxAttempts /\ NewHist \in Hists
    BY DEF NewRow, NewHist, Rows, Statuses, Hists
  <2>2. Len(hist) = Len(jobs) /\ \A j \in Ids : jobs[j].attempts <= MaxAttempts
    BY DEF TypeOK
  <2>3. CASE UNCHANGED <<jobs, hist>>
    BY <1>h, <2>2, <2>3 DEF Ids
  <2>4. CASE jobs' = Append(jobs, NewRow(k)) /\ hist' = Append(hist, NewHist)
    BY <1>h, <2>1, <2>2, <2>4, Extended DEF Ids
  <2> QED
    BY <1>i, <2>3, <2>4 DEF Inserted
<1>1. ASSUME NEW k \in Keys, Enqueue(k) PROVE TypeOK'
  BY <1>1, <1>i DEF TypeOK, Enqueue, bounds, Hists
<1>2. ASSUME NEW k \in Keys, SchedulerTick(k) PROVE TypeOK'
  BY <1>2, <1>i, SMTT(30) DEF TypeOK, SchedulerTick, Hists
<1>3. ASSUME NEW j \in Ids, RequeueDead(j) PROVE TypeOK'
  <2> DEFINE row == [jobs[j] EXCEPT !.status = "queued", !.attempts = 0, !.run_after = 0]
             h == [hist[j] EXCEPT !.fails = 0]
  <2>1. row \in Rows /\ row.attempts <= MaxAttempts /\ h \in Hists
    <3>1. row \in Rows /\ row.attempts = 0
      BY <1>f DEF Rows, Statuses
    <3>2. h \in Hists
      BY <1>f DEF Hists
    <3> QED
      BY <3>1, <3>2
  <2>2. jobs' = [jobs EXCEPT ![j] = row] /\ hist' = [hist EXCEPT ![j] = h]
    BY <1>3 DEF RequeueDead, Requeued
  <2>3. /\ Closed(j) \in Seq(DeadRows) /\ DOMAIN Closed(j) = DOMAIN dead
        /\ \A i \in DOMAIN dead : Closed(j)[i].id = dead[i].id
    <3>1. /\ DOMAIN Closed(j) = DOMAIN dead
          /\ \A i \in DOMAIN dead : Closed(j)[i] \in DeadRows /\ Closed(j)[i].id = dead[i].id
      BY <1>f DEF Closed, DeadRows
    <3>2. Closed(j) = [i \in DOMAIN dead |-> Closed(j)[i]]
      BY DEF Closed
    <3> QED
      BY <1>h, <3>1, <3>2, Mapped
  <2>4. dead' \in Seq(DeadRows) /\ \A i \in DOMAIN dead' : dead'[i].id \in Ids
    BY <1>3, <1>h, <2>3 DEF RequeueDead, TypeOK
  <2>5. faults' \in 0..MaxFaults
    BY <1>3, <1>s DEF RequeueDead, FaultKinds, TypeOK
  <2> HIDE DEF row, h
  <2>6. JobsTyped /\ HistTyped
    BY <1>j, <1>k, <2>1, <2>2
  <2>7. requeues' \in 0..MaxRequeues
    BY <1>3 DEF RequeueDead, TypeOK
  <2>8. UNCHANGED <<writes, pc, held, stopping, clock, due, ticks>>
    BY <1>3 DEF RequeueDead
  <2> QED
    BY <2>4, <2>5, <2>6, <2>7, <2>8 DEF TypeOK, Hists, DeadRows
<1>4. ASSUME NEW w \in Workers, Shutdown(w) PROVE TypeOK'
  BY <1>4 DEF TypeOK, Shutdown, bounds, Ids
<1>5. ASSUME NEW w \in Workers, Stop(w) PROVE TypeOK'
  BY <1>5 DEF TypeOK, Stop, bounds, Ids
<1>6. ASSUME NEW w \in Workers, ClaimNext(w) PROVE TypeOK'
  BY <1>6, <1>w DEF TypeOK, ClaimNext, Claiming, bounds, Ids
<1>7. ASSUME NEW w \in Workers, HandlerOk(w) PROVE TypeOK'
  <2>1. [hist[held[w].id] EXCEPT !.ok = TRUE] \in Hists /\ held[w].id \in Ids
    BY <1>7, <1>f DEF HandlerOk, HeldInv, Hists
  <2>2. hist' = [hist EXCEPT ![held[w].id] = [hist[held[w].id] EXCEPT !.ok = TRUE]]
    BY <1>7 DEF HandlerOk
  <2>3. HistTyped
    BY <1>k, <2>1, <2>2
  <2>4. writes' \in Seq(Calls)
    BY <1>7, <1>w DEF HandlerOk
  <2> QED
    BY <1>7, <1>n, <2>3, <2>4 DEF TypeOK, HandlerOk, bounds, Ids, Hists
<1>8. ASSUME NEW w \in Workers, HandlerErr(w) PROVE TypeOK'
  <2> DEFINE h == [hist[held[w].id] EXCEPT !.ok = FALSE, !.fails = @ + 1, !.failedAt = clock]
  <2>1. held[w].id \in Ids /\ clock \in Nat
    BY <1>8 DEF HandlerErr, HeldInv, TypeOK
  <2>2. h \in Hists
    <3>1. hist[held[w].id] \in Hists /\ hist[held[w].id].fails + 1 \in Nat
      BY <1>f, <2>1 DEF Hists
    <3> QED
      BY <2>1, <3>1 DEF Hists
  <2>3. hist' = [hist EXCEPT ![held[w].id] = h]
    BY <1>8, <1>f, <2>1 DEF HandlerErr
  <2> HIDE DEF h
  <2>4. HistTyped
    BY <1>k, <2>1, <2>2, <2>3
  <2>5. writes' \in Seq(Calls)
    BY <1>8, <1>w DEF HandlerErr
  <2> QED
    BY <1>8, <1>n, <2>4, <2>5 DEF TypeOK, HandlerErr, bounds, Ids, Hists
<1>9. ASSUME RunWrite PROVE TypeOK'
  <2> DEFINE c == Head(writes)
  <2>1. /\ c \in Calls /\ writes' \in Seq(Calls)
        /\ c.op # "claim" => c.id \in Ids
    BY <1>9, <1>h, Shifted DEF RunWrite, FinishInv, Finishing
  <2>2. CASE RunClaim(c)
    <3>1. CASE UNCHANGED <<jobs, held, hist, due>>
      BY <1>9, <2>1, <2>2, <3>1 DEF TypeOK, RunWrite, RunClaim, Answered, Ids, Calls
    <3>2. ASSUME NEW j \in Eligible(c.now),
                 jobs' = MarkRunning(j),
                 hist' = [hist EXCEPT ![j].claims = @ + 1],
                 IF c.live
                   THEN /\ held' = [held EXCEPT ![c.who] =
                                       [id |-> j, claim |-> hist[j].claims + 1]]
                        /\ due' = due \ {jobs[j].key}
                   ELSE UNCHANGED <<held, due>>
          PROVE  TypeOK'
      <4> DEFINE row == [jobs[j] EXCEPT !.status = "running", !.attempts = @ + 1]
                 h == [hist[j] EXCEPT !.claims = @ + 1]
      <4>0. j \in Ids /\ jobs[j].attempts < MaxAttempts
        BY <3>2 DEF Eligible, JobInv
      <4>1. row \in Rows /\ row.attempts <= MaxAttempts
        <5>1. jobs[j] \in Rows /\ jobs[j].attempts + 1 \in Nat
          BY <1>f, <4>0 DEF Rows
        <5>2. row \in Rows /\ row.attempts = jobs[j].attempts + 1
          BY <5>1 DEF Rows, Statuses
        <5>3. jobs[j].attempts + 1 <= MaxAttempts
          BY <4>0, <5>1 DEF Rows
        <5> QED
          BY <5>2, <5>3
      <4>5. h \in Hists
        BY <1>f, <4>0, SMTT(30) DEF Hists
      <4>2. jobs' = [jobs EXCEPT ![j] = row] /\ hist' = [hist EXCEPT ![j] = h]
        BY <1>f, <3>2, <4>0 DEF MarkRunning
      <4>3. held' \in [Workers -> [id : Nat, claim : Nat]] /\ due' \subseteq Scheduled
        <5>1. j \in Nat /\ hist[j].claims + 1 \in Nat
          BY <1>f, <4>0 DEF Hists
        <5>2. [id |-> j, claim |-> hist[j].claims + 1] \in [id : Nat, claim : Nat]
          BY <5>1
        <5>3. CASE c.live
          <6>1. held' = [held EXCEPT ![c.who] = [id |-> j, claim |-> hist[j].claims + 1]]
                /\ due' = due \ {jobs[j].key}
            BY <3>2, <5>3
          <6> QED
            BY <5>2, <6>1 DEF TypeOK
        <5>4. CASE ~c.live
          BY <3>2, <5>4 DEF TypeOK
        <5> QED
          BY <5>3, <5>4
      <4>4. pc' \in [Workers -> {"polling", "claiming", "handling", "finishing", "stopped"}]
        BY <2>1, <2>2 DEF RunClaim, Answered, TypeOK, Calls
      <4> HIDE DEF row, h
      <4>6. JobsTyped /\ HistTyped
        BY <1>j, <1>k, <4>0, <4>1, <4>2, <4>5
      <4> QED
        BY <1>9, <2>1, <2>2, <4>3, <4>4, <4>6 DEF TypeOK, RunWrite, RunClaim, Hists
    <3> QED
      BY <2>2, <3>1, <3>2 DEF RunClaim
  <2>3. CASE RunComplete(c)
    <3>0. c.id \in Ids
      BY <2>1, <2>3 DEF RunComplete
    <3>a. jobs[c.id] \in Rows /\ jobs[c.id].attempts <= MaxAttempts
      BY <1>f, <3>0 DEF TypeOK
    <3>1. c.id \in Ids /\ [jobs[c.id] EXCEPT !.status = "done"] \in Rows
          /\ [jobs[c.id] EXCEPT !.status = "done"].attempts <= MaxAttempts
      BY <3>0, <3>a DEF Rows, Statuses
    <3>2. jobs' = [jobs EXCEPT ![c.id] = [jobs[c.id] EXCEPT !.status = "done"]]
      BY <2>3 DEF RunComplete
    <3>3. JobsTyped
      BY <1>j, <3>1, <3>2
    <3>4. pc' \in [Workers -> {"polling", "claiming", "handling", "finishing", "stopped"}]
      BY <2>1, <2>3 DEF RunComplete, Answered, TypeOK, Calls
    <3> QED
      BY <1>9, <2>1, <2>3, <3>3, <3>4 DEF TypeOK, RunWrite, RunComplete
  <2>4. CASE RunFail(c)
    <3>0. c.id \in Ids /\ c.now \in Nat
      BY <2>1, <2>4 DEF RunFail, Calls
    <3>3. pc' \in [Workers -> {"polling", "claiming", "handling", "finishing", "stopped"}]
      BY <2>1, <2>4 DEF RunFail, Answered, TypeOK, Calls
    <3> SUFFICES /\ JobsTyped
                 /\ dead' \in Seq(DeadRows) /\ \A i \in DOMAIN dead' : dead'[i].id \in Ids
                 /\ faults' \in 0..MaxFaults
      BY <1>9, <2>1, <2>4, <3>3 DEF TypeOK, RunWrite, RunFail, DeadRows
    <3>1. CASE Retry(c)
      <4> DEFINE row == [jobs[c.id] EXCEPT !.status = "queued",
                                           !.run_after = c.now + Backoff(jobs[c.id].attempts)]
      <4>1. Backoff(jobs[c.id].attempts) \in Nat
        BY <1>f, <3>0, BackoffIsNat DEF Rows
      <4>b. c.now + Backoff(jobs[c.id].attempts) \in Nat
        <5> DEFINE delay == Backoff(jobs[c.id].attempts)
        <5> HIDE DEF delay, c
        <5>1. delay \in Nat
          BY <4>1 DEF delay
        <5>2. c.now + delay \in Nat
          BY <3>0, <5>1
        <5> QED
          BY <5>2 DEF delay
      <4>2. c.now + Backoff(jobs[c.id].attempts) \in Nat /\ jobs[c.id].attempts <= MaxAttempts
        BY <3>0, <4>b DEF TypeOK
      <4>3. row \in Rows /\ row.attempts <= MaxAttempts
        BY <1>f, <3>0, <4>2 DEF Rows, Statuses
      <4>4. jobs' = [jobs EXCEPT ![c.id] = row]
        BY <3>0, <3>1 DEF Retry
      <4> HIDE DEF row
      <4>5. JobsTyped
        BY <1>j, <3>0, <4>3, <4>4
      <4> QED
        BY <3>1, <4>5 DEF Retry, TypeOK, DeadRows
    <3>2. CASE Bury(c)
      <4>1. dead' \in Seq(DeadRows) /\ \A i \in DOMAIN dead' : dead'[i].id \in Ids
        <5> DEFINE d == [id |-> c.id, attempts |-> jobs[c.id].attempts, open |-> TRUE]
        <5>1. d \in DeadRows /\ d.id \in Ids
          BY <1>f, <3>0 DEF DeadRows, Rows
        <5>2. dead' = Append(dead, d)
          BY <3>2 DEF Bury
        <5>3. \A i \in DOMAIN dead : dead[i].id \in Ids
          BY DEF TypeOK
        <5> HIDE DEF d
        <5> QED
          BY <1>h, <5>1, <5>2, <5>3, Extended
      <4>2. faults' \in 0..MaxFaults
        BY <1>s, <3>2 DEF Bury, FaultKinds, TypeOK
      <4>3. [jobs[c.id] EXCEPT !.status = "dead"] \in Rows
            /\ [jobs[c.id] EXCEPT !.status = "dead"].attempts <= MaxAttempts
        BY <1>f, <3>0 DEF Rows, Statuses, TypeOK
      <4>4. \/ jobs' = [jobs EXCEPT ![c.id] = [jobs[c.id] EXCEPT !.status = "dead"]]
            \/ UNCHANGED jobs
        BY <3>2 DEF Bury
      <4>5. CASE UNCHANGED jobs
        BY <4>1, <4>2, <4>5 DEF Ids, TypeOK
      <4> QED
        BY <1>j, <3>0, <4>1, <4>2, <4>3, <4>4, <4>5
    <3> QED
      BY <2>4, <3>1, <3>2 DEF RunFail
  <2> QED
    BY <1>9, <2>2, <2>3, <2>4 DEF RunWrite
<1>10. ASSUME Tick PROVE TypeOK'
  BY <1>10 DEF TypeOK, Tick, bounds, Ids
<1>11. ASSUME Crash PROVE TypeOK'
  <2>1. <<>> \in Seq(Calls) /\ faults' \in 0..MaxFaults
    BY <1>11, <1>s, EmptySeq DEF Crash, FaultKinds
  <2> QED
    BY <1>11, <1>n, <2>1 DEF TypeOK, Crash, Ids
<1>12. ASSUME NEW w \in Workers, GiveUp(w) PROVE TypeOK'
  <2>1. faults' \in 0..MaxFaults
    BY <1>12, <1>s DEF GiveUp, FaultKinds
  <2>2. /\ DOMAIN writes' = DOMAIN writes /\ writes' = [i \in DOMAIN writes |-> writes'[i]]
        /\ \A i \in DOMAIN writes : writes'[i] \in Calls
    BY <1>12, <1>f DEF GiveUp, Calls
  <2>3. writes' \in Seq(Calls)
    BY <1>h, <2>2, Mapped
  <2> QED
    BY <1>12, <2>1, <2>3 DEF TypeOK, GiveUp, Ids
<1>13. ASSUME NEW w \in Workers, FinishLost(w) \/ HandlerPanics(w) PROVE TypeOK'
  <2>1. faults' \in 0..MaxFaults
    BY <1>13, <1>s DEF FinishLost, HandlerPanics, FaultKinds
  <2>2. /\ UNCHANGED <<jobs, dead, writes, stopping, clock, hist, due, requeues, ticks>>
        /\ held' = [held EXCEPT ![w] = NoJob]
        /\ pc' = [pc EXCEPT ![w] = "polling"] \/ pc' = [pc EXCEPT ![w] = "stopped"]
    BY <1>13 DEF FinishLost, HandlerPanics
  <2>3. /\ held' \in [Workers -> [id : Nat, claim : Nat]]
        /\ pc' \in [Workers -> {"polling", "claiming", "handling", "finishing", "stopped"}]
    BY <1>n, <2>2 DEF TypeOK
  <2> QED
    BY <2>1, <2>2, <2>3 DEF TypeOK, Ids
<1>14. ASSUME UNCHANGED vars PROVE TypeOK'
  BY <1>14 DEF TypeOK, vars, Ids
<1> QED
  BY <1>1, <1>2, <1>3, <1>4, <1>5, <1>6, <1>7, <1>8, <1>9, <1>10, <1>11, <1>12, <1>13, <1>14
  DEF Next, WorkerStep, Fault
-----------------------------------------------------------------------------
\* What the steps do to the queue of closures and to the rows, element by element.
LEMMA SendEffect ==
    ASSUME TypeOK, NEW w \in Workers, NEW op \in {"claim", "complete", "fail"},
           writes' = Append(writes, Call(op, w))
    PROVE  \E n : /\ n \notin DOMAIN writes
                  /\ DOMAIN writes' = DOMAIN writes \cup {n}
                  /\ writes'[n] = Call(op, w)
                  /\ \A i \in DOMAIN writes : writes'[i] = writes[i]
<1>1. Call(op, w) \in Calls /\ writes \in Seq(Calls)
  BY DEF Call, Calls, TypeOK
<1> QED
  BY <1>1, Extended

LEMMA RunEffect ==
    ASSUME TypeOK, RunWrite
    PROVE  /\ 1 \in DOMAIN writes /\ Head(writes) = writes[1] /\ writes[1] \in Calls
           /\ \A i \in DOMAIN writes' : /\ i \in Nat /\ i + 1 \in DOMAIN writes /\ i + 1 # 1
                                        /\ writes'[i] = writes[i + 1]
<1>1. writes \in Seq(Calls) /\ writes # <<>> /\ writes' = Tail(writes)
  BY DEF TypeOK, RunWrite
<1> QED
  BY <1>1, Shifted

LEMMA InsertEffect ==
    ASSUME TypeOK, NEW k \in Keys, Inserted(k)
    PROVE  /\ Ids \subseteq Ids'
           /\ \A j \in Ids : jobs'[j] = jobs[j] /\ hist'[j] = hist[j]
           /\ \A j \in Ids' \ Ids : /\ jobs'[j] = NewRow(k) /\ hist'[j] = NewHist
                                    /\ \A i \in DOMAIN dead : dead[i].id # j
                                    /\ \A i \in Ids : jobs[i].key # k
<1>1. NewRow(k) \in Rows /\ NewHist \in Hists
  BY DEF NewRow, NewHist, Rows, Statuses, Hists
<1>2. hist \in Seq(Hists) /\ jobs \in Seq(Rows) /\ Len(hist) = Len(jobs) /\ DOMAIN hist = Ids
      /\ \A i \in DOMAIN dead : dead[i].id \in Ids
  BY TypedFields DEF TypeOK, Hists
<1>3. CASE UNCHANGED <<jobs, hist>>
  BY <1>3 DEF Ids
<1>4. CASE /\ jobs' = Append(jobs, NewRow(k)) /\ hist' = Append(hist, NewHist)
           /\ ~ \E j \in Ids : jobs[j].key = k
  BY <1>1, <1>2, <1>4, Extended DEF Ids
<1> QED
  BY <1>3, <1>4 DEF Inserted

\* A worker's answer is still the one it waits for.
LEMMA AnswerStep ==
    ASSUME TypeOK, TypeOK', AnswerInv, HeldInv, [Next]_vars
    PROVE  AnswerInv'
<1>f. /\ \A i \in DOMAIN writes : writes[i] \in Calls
      /\ clock \in Nat
      /\ pc \in [Workers -> {"polling", "claiming", "handling", "finishing", "stopped"}]
  BY TypedFields DEF TypeOK
<1> USE DEF AnswerInv, Finishing
<1>0. ASSUME UNCHANGED <<writes, pc, clock>> PROVE AnswerInv'
  BY <1>0
<1>1. ASSUME NEW w \in Workers, Stop(w) PROVE AnswerInv'
  BY <1>1, <1>f DEF Stop, Calls
<1>2. ASSUME NEW w \in Workers, NEW op \in {"claim", "complete", "fail"},
             pc[w] \in {"polling", "handling"},
             pc' = [pc EXCEPT ![w] = IF op = "claim" THEN "claiming" ELSE "finishing"],
             writes' = Append(writes, Call(op, w)), clock' = clock
      PROVE  AnswerInv'
  <2>1. PICK n : /\ n \notin DOMAIN writes
                 /\ DOMAIN writes' = DOMAIN writes \cup {n}
                 /\ writes'[n] = Call(op, w)
                 /\ \A i \in DOMAIN writes : writes'[i] = writes[i]
    BY <1>2, SendEffect
  <2>2. \A i \in DOMAIN writes : writes[i].live => writes[i].who # w
    BY <1>2
  <2>3. /\ Call(op, w).op = op /\ Call(op, w).who = w /\ Call(op, w).now = clock
        /\ Call(op, w).live
    BY DEF Call
  <2> HIDE <2>3
  <2> QED
    BY <1>2, <1>f, <2>1, <2>2, <2>3 DEF Calls
<1>3. ASSUME RunWrite PROVE AnswerInv'
  <2> DEFINE c == writes[1]
  <2>1. /\ 1 \in DOMAIN writes /\ Head(writes) = c /\ c \in Calls
        /\ \A i \in DOMAIN writes' : /\ i \in Nat /\ i + 1 \in DOMAIN writes /\ i + 1 # 1
                                     /\ writes'[i] = writes[i + 1]
    BY <1>3, RunEffect
  <2>2. clock' = clock /\ \A v \in Workers : pc'[v] # pc[v] => c.live /\ v = c.who
    <3>1. \E s : pc' = Answered(c, s)
      BY <1>3, <2>1 DEF RunWrite, RunClaim, RunComplete, RunFail
    <3>2. clock' = clock
      BY <1>3 DEF RunWrite
    <3> QED
      BY <1>f, <2>1, <3>1, <3>2 DEF Answered
  <2>3. \A i \in DOMAIN writes' : writes'[i].live => pc'[writes'[i].who] = pc[writes'[i].who]
    BY <1>f, <2>1, <2>2 DEF Calls
  <2> QED
    BY <1>f, <2>1, <2>2, <2>3 DEF Calls
<1>4. ASSUME Tick PROVE AnswerInv'
  BY <1>4, <1>f DEF Tick, Calls
<1>5. ASSUME Crash PROVE AnswerInv'
  BY <1>5 DEF Crash
<1>6. ASSUME NEW w \in Workers, GiveUp(w) PROVE AnswerInv'
  BY <1>6, <1>f DEF GiveUp, Calls
<1>7. ASSUME NEW w \in Workers, FinishLost(w) \/ HandlerPanics(w) PROVE AnswerInv'
  BY <1>7, <1>f DEF FinishLost, HandlerPanics, Calls
<1>8. ASSUME NEW w \in Workers, ClaimNext(w) PROVE AnswerInv'
  BY <1>2, <1>8 DEF ClaimNext, Claiming
<1>9. ASSUME NEW w \in Workers, HandlerOk(w) PROVE AnswerInv'
  BY <1>2, <1>9 DEF HandlerOk, bounds
<1>10. ASSUME NEW w \in Workers, HandlerErr(w) PROVE AnswerInv'
  BY <1>2, <1>10 DEF HandlerErr, bounds
<1> QED
  BY <1>0, <1>1, <1>3, <1>4, <1>5, <1>6, <1>7, <1>8, <1>9, <1>10
  DEF Next, WorkerStep, Fault, Enqueue, SchedulerTick, RequeueDead, Shutdown, vars

\* A job changes hands only when nobody holds it.
LEMMA HeldStep ==
    ASSUME TypeOK, TypeOK', AnswerInv, HeldInv, FinishInv, JobInv, [Next]_vars
    PROVE  HeldInv'
<1>f. /\ \A j \in Ids : jobs[j] \in Rows /\ hist[j] \in Hists
      /\ DOMAIN hist = Ids /\ DOMAIN jobs = Ids /\ 0 \notin Ids
      /\ held \in [Workers -> [id : Nat, claim : Nat]]
      /\ pc \in [Workers -> {"polling", "claiming", "handling", "finishing", "stopped"}]
  BY TypedFields DEF TypeOK, Ids
<1>n. NoJob.id = 0
  BY DEF NoJob
<1> USE DEF HeldInv
<1>0. ASSUME UNCHANGED <<pc, held>>, Ids \subseteq Ids',
             \A j \in Ids : jobs'[j] = jobs[j] /\ hist'[j] = hist[j]
      PROVE  HeldInv'
  BY <1>0
<1>1. ASSUME NEW w \in Workers, pc[w] # "handling", UNCHANGED <<jobs, hist, held>>,
             NEW s, s # "handling", pc' = [pc EXCEPT ![w] = s]
      PROVE  HeldInv'
  BY <1>1, <1>f DEF Ids
<1>2. ASSUME NEW w \in Workers, pc[w] = "handling", held' = [held EXCEPT ![w] = NoJob],
             NEW s, s # "handling", pc' = [pc EXCEPT ![w] = s], jobs' = jobs,
             \A j \in Ids : j # held[w].id => hist'[j] = hist[j]
      PROVE  HeldInv'
  <2>1. \A v \in Workers : pc'[v] = "handling" => v # w /\ pc[v] = "handling" /\ held'[v] = held[v]
    BY <1>2, <1>f
  <2>2. \A v \in Workers : pc'[v] # "handling" => held'[v] = NoJob
    BY <1>2, <1>f
  <2>3. ASSUME NEW v \in Workers, pc'[v] = "handling"
        PROVE  /\ held[v].id \in Ids /\ held[v].id # held[w].id
               /\ \A u \in Workers : held'[u].id = held'[v].id => u = v
    BY <1>2, <1>f, <1>n, <2>1, <2>3
  <2> QED
    BY <1>2, <2>1, <2>2, <2>3 DEF Ids
<1>3. ASSUME NEW k \in Keys, Enqueue(k) \/ SchedulerTick(k) PROVE HeldInv'
  BY <1>0, <1>3, InsertEffect DEF Enqueue, SchedulerTick
<1>4. ASSUME NEW j \in Ids, RequeueDead(j) PROVE HeldInv'
  BY <1>4, <1>f DEF RequeueDead, CanRequeue, Requeued, Ids, Rows
<1>5. ASSUME NEW w \in Workers, Shutdown(w) \/ Stop(w) \/ ClaimNext(w) PROVE HeldInv'
  BY <1>0, <1>1, <1>5 DEF Shutdown, Stop, ClaimNext, Claiming, Ids
<1>6. ASSUME NEW w \in Workers, HandlerOk(w) PROVE HeldInv'
  BY <1>2, <1>6, <1>f DEF HandlerOk
<1>7. ASSUME NEW w \in Workers, HandlerErr(w) PROVE HeldInv'
  BY <1>2, <1>7, <1>f DEF HandlerErr
<1>8. ASSUME NEW w \in Workers, FinishLost(w) \/ HandlerPanics(w) PROVE HeldInv'
  BY <1>2, <1>8 DEF FinishLost, HandlerPanics
<1>9. ASSUME NEW w \in Workers, GiveUp(w) PROVE HeldInv'
  BY <1>1, <1>9 DEF GiveUp
<1>10. ASSUME Crash PROVE HeldInv'
  BY <1>10 DEF Crash
<1>11. ASSUME Tick PROVE HeldInv'
  BY <1>0, <1>11 DEF Tick, Ids
<1>12. ASSUME RunWrite PROVE HeldInv'
  <2> DEFINE c == writes[1]
  <2>1. 1 \in DOMAIN writes /\ Head(writes) = c /\ c \in Calls
    BY <1>12, RunEffect
  <2>2. c.live => pc[c.who] # "handling" /\ c.who \in Workers
    BY <1>f, <2>1 DEF AnswerInv, Calls
  <2>3. CASE pc' = Answered(c, "polling") /\ UNCHANGED <<jobs, held, hist>>
    BY <1>0, <1>1, <2>2, <2>3 DEF Answered, Ids
  <2>4. CASE RunComplete(c) \/ RunFail(c)
    <3>1. pc' = Answered(c, "polling") /\ UNCHANGED <<held, hist>>
      BY <2>4 DEF RunComplete, RunFail
    <3>2. c.id \in Ids /\ \A w \in Workers : held[w].id # c.id
      BY <2>1, <2>4 DEF FinishInv, Finishing, RunComplete, RunFail
    <3>3. DOMAIN jobs' = DOMAIN jobs /\ \A j \in Ids : j # c.id => jobs'[j] = jobs[j]
      BY <1>f, <2>4, <3>2 DEF RunComplete, RunFail, Retry, Bury
    <3>4. \A v \in Workers : pc'[v] = "handling" <=> pc[v] = "handling"
      BY <1>f, <2>2, <3>1 DEF Answered
    <3> QED
      BY <3>1, <3>2, <3>3, <3>4 DEF Ids
  <2>5. ASSUME NEW j \in Eligible(c.now),
               jobs' = MarkRunning(j),
               hist' = [hist EXCEPT ![j].claims = @ + 1],
               pc' = Answered(c, "handling"),
               IF c.live
                 THEN held' = [held EXCEPT ![c.who] = [id |-> j, claim |-> hist[j].claims + 1]]
                 ELSE UNCHANGED held
        PROVE  HeldInv'
    <3>1. j \in Ids /\ jobs[j].status = "queued" /\ jobs[j].attempts = hist[j].fails
      BY <2>5 DEF Eligible, JobInv
    <3>2. \A w \in Workers : held[w].id # j
      BY <1>f, <1>n, <3>1
    <3>3. /\ DOMAIN jobs' = Ids /\ \A i \in Ids : i # j => jobs'[i] = jobs[i] /\ hist'[i] = hist[i]
          /\ jobs'[j].status = "running" /\ jobs'[j].attempts = jobs[j].attempts + 1
          /\ hist'[j].fails = hist[j].fails /\ hist'[j].claims = hist[j].claims + 1
      BY <1>f, <2>5, <3>1 DEF MarkRunning, Rows, Hists
    <3>4. CASE ~c.live
      BY <2>5, <3>2, <3>3, <3>4 DEF Answered, Ids
    <3>5. CASE c.live
      <4>1. /\ pc'[c.who] = "handling" /\ held'[c.who].id = j /\ held'[c.who].claim = hist'[j].claims
            /\ \A v \in Workers : v # c.who => pc'[v] = pc[v] /\ held'[v] = held[v]
        BY <1>f, <2>2, <2>5, <3>3, <3>5 DEF Answered
      <4> QED
        BY <2>2, <3>1, <3>2, <3>3, <3>5, <4>1 DEF Ids
    <3> QED
      BY <3>4, <3>5
  <2> QED
    BY <1>12, <2>1, <2>3, <2>4, <2>5 DEF RunWrite, RunClaim
<1>13. ASSUME UNCHANGED vars PROVE HeldInv'
  BY <1>0, <1>13 DEF vars, Ids
<1> QED
  BY <1>3, <1>4, <1>5, <1>6, <1>7, <1>8, <1>9, <1>10, <1>11, <1>12, <1>13
  DEF Next, WorkerStep, Fault

\* A job with a complete or a fail under way is nobody else's.
LEMMA FinishStep ==
    ASSUME TypeOK, TypeOK', HeldInv, HeldInv', FinishInv, JobInv, [Next]_vars
    PROVE  FinishInv'
<1>f. /\ \A j \in Ids : jobs[j] \in Rows /\ hist[j] \in Hists
      /\ DOMAIN hist = Ids /\ DOMAIN jobs = Ids /\ 0 \notin Ids
      /\ held \in [Workers -> [id : Nat, claim : Nat]] /\ clock \in Nat
      /\ pc \in [Workers -> {"polling", "claiming", "handling", "finishing", "stopped"}]
      /\ \A i \in DOMAIN writes : writes[i] \in Calls
  BY TypedFields DEF TypeOK, Ids
<1>n. NoJob.id = 0
  BY DEF NoJob
<1> USE DEF FinishInv, Finishing
\* What a step may do to the rows and the hands while the queue stays the same,
\* or loses its oldest closure.
<1> DEFINE Kept(c) == /\ c.id \in Ids' /\ jobs'[c.id] = jobs[c.id] /\ hist'[c.id] = hist[c.id]
                      /\ \A w \in Workers : held'[w].id # c.id
<1>0. ASSUME UNCHANGED writes, \A i \in DOMAIN writes : Finishing(writes[i]) => Kept(writes[i])
      PROVE  FinishInv'
  BY <1>0
<1>1. ASSUME \A j \in Ids : j \in Ids' /\ jobs'[j] = jobs[j] /\ hist'[j] = hist[j],
             \A w \in Workers : held'[w].id \in {held[w].id, 0}, UNCHANGED writes
      PROVE  FinishInv'
  BY <1>0, <1>1, <1>f
<1>2. ASSUME NEW w \in Workers, NEW op \in {"complete", "fail"}, pc[w] = "handling",
             held' = [held EXCEPT ![w] = NoJob], UNCHANGED <<jobs, clock>>,
             writes' = Append(writes, Call(op, w)),
             \A j \in Ids : j # held[w].id => hist'[j] = hist[j],
             LET j == held[w].id IN
             /\ hist'[j].claims = hist[j].claims
             /\ op = "complete" => hist'[j].ok
             /\ op = "fail" => /\ hist'[j].fails = hist[j].fails + 1
                               /\ hist'[j].failedAt = clock
      PROVE  FinishInv'
  <2> DEFINE j == held[w].id
             c == Call(op, w)
  <2>1. PICK n : /\ n \notin DOMAIN writes
                 /\ DOMAIN writes' = DOMAIN writes \cup {n}
                 /\ writes'[n] = c
                 /\ \A i \in DOMAIN writes : writes'[i] = writes[i]
    BY <1>2, SendEffect
  <2>2. /\ c.op = op /\ c.id = j /\ c.claim = held[w].claim /\ c.now = clock
    BY DEF Call
  <2>3. /\ j \in Ids /\ Ids' = Ids /\ jobs[j].status = "running" /\ held[w].claim = hist[j].claims
        /\ jobs[j].attempts = hist[j].fails + 1
        /\ \A v \in Workers : v # w => held[v].id # j
    BY <1>2 DEF HeldInv, Ids
  <2>4. \A v \in Workers : held'[v].id = IF v = w THEN 0 ELSE held[v].id
    BY <1>2, <1>f, <1>n
  <2>5. \A i \in DOMAIN writes : Finishing(writes[i]) => writes[i].id \in Ids /\ writes[i].id # j
    OBVIOUS
  <2> HIDE DEF c, j
  <2>6. ASSUME NEW i \in DOMAIN writes, Finishing(writes[i])
        PROVE  /\ hist'[writes[i].id] = hist[writes[i].id] /\ jobs' = jobs
               /\ \A v \in Workers : held'[v].id # writes[i].id
    BY <1>2, <1>f, <2>4, <2>5, <2>6 DEF j
  <2>7. /\ hist'[j].claims = hist[j].claims
        /\ op = "complete" => hist'[j].ok
        /\ op = "fail" => /\ hist'[j].fails = hist[j].fails + 1
                          /\ hist'[j].failedAt = clock
        /\ jobs' = jobs
    BY <1>2 DEF j
  <2>8. \A v \in Workers : held'[v].id # j
    BY <1>f, <2>3, <2>4
  <2>9. ASSUME NEW i \in DOMAIN writes', Finishing(writes'[i])
        PROVE  LET d == writes'[i] IN
               /\ d.id \in Ids'
               /\ jobs'[d.id].status = "running"
               /\ d.claim = hist'[d.id].claims
               /\ d.op = "complete" => hist'[d.id].ok
               /\ d.op = "fail" => /\ jobs'[d.id].attempts = hist'[d.id].fails
                                   /\ hist'[d.id].failedAt = d.now
               /\ \A v \in Workers : held'[v].id # d.id
    <3>1. CASE i \in DOMAIN writes
      BY <2>1, <2>3, <2>6, <2>9, <3>1
    <3>2. CASE i = n
      BY <1>2, <2>1, <2>2, <2>3, <2>7, <2>8, <3>2
    <3> QED
      BY <2>1, <2>9, <3>1, <3>2
  <2>10. ASSUME NEW i \in DOMAIN writes', Finishing(writes'[i]),
                NEW k \in DOMAIN writes', Finishing(writes'[k]), writes'[k].id = writes'[i].id
         PROVE  k = i
    BY <2>1, <2>2, <2>5, <2>10
  <2> QED
    BY <2>9, <2>10
<1>3. ASSUME NEW k \in Keys, Enqueue(k) \/ SchedulerTick(k) PROVE FinishInv'
  BY <1>1, <1>3, InsertEffect DEF Enqueue, SchedulerTick
<1>4. ASSUME NEW j \in Ids, RequeueDead(j) PROVE FinishInv'
  BY <1>0, <1>4, <1>f DEF RequeueDead, CanRequeue, Requeued, Ids, Rows
<1>5. ASSUME NEW w \in Workers, Shutdown(w) \/ Stop(w) PROVE FinishInv'
  BY <1>1, <1>5 DEF Shutdown, Stop, Ids
<1>6. ASSUME NEW w \in Workers, ClaimNext(w) PROVE FinishInv'
  <2>1. PICK n : /\ n \notin DOMAIN writes
                 /\ DOMAIN writes' = DOMAIN writes \cup {n}
                 /\ writes'[n] = Call("claim", w)
                 /\ \A i \in DOMAIN writes : writes'[i] = writes[i]
    BY <1>6, SendEffect DEF ClaimNext, Claiming
  <2>2. Call("claim", w).op = "claim"
    BY DEF Call
  <2> QED
    BY <1>6, <2>1, <2>2 DEF ClaimNext, Claiming, Ids
<1>7. ASSUME NEW w \in Workers, HandlerOk(w) PROVE FinishInv'
  <2>1. held[w].id \in Ids
    BY <1>7 DEF HandlerOk, HeldInv
  <2>2. /\ \A j \in Ids : j # held[w].id => hist'[j] = hist[j]
        /\ LET j == held[w].id IN hist'[j].claims = hist[j].claims /\ hist'[j].ok
    BY <1>7, <1>f, <2>1 DEF HandlerOk, Hists
  <2> QED
    BY <1>2, <1>7, <2>2 DEF HandlerOk, bounds
<1>8. ASSUME NEW w \in Workers, HandlerErr(w) PROVE FinishInv'
  <2>1. held[w].id \in Ids
    BY <1>8 DEF HandlerErr, HeldInv
  <2>2. /\ \A j \in Ids : j # held[w].id => hist'[j] = hist[j]
        /\ LET j == held[w].id IN /\ hist'[j].claims = hist[j].claims
                                  /\ hist'[j].fails = hist[j].fails + 1
                                  /\ hist'[j].failedAt = clock
    BY <1>8, <1>f, <2>1 DEF HandlerErr, Hists
  <2> QED
    BY <1>2, <1>8, <2>2 DEF HandlerErr
<1>9. ASSUME NEW w \in Workers, FinishLost(w) \/ HandlerPanics(w) PROVE FinishInv'
  BY <1>1, <1>9, <1>f, <1>n DEF FinishLost, HandlerPanics, Ids
<1>10. ASSUME NEW w \in Workers, GiveUp(w) PROVE FinishInv'
  BY <1>10, <1>f DEF GiveUp, Calls, Ids
<1>11. ASSUME Crash PROVE FinishInv'
  BY <1>11 DEF Crash
<1>12. ASSUME Tick PROVE FinishInv'
  BY <1>1, <1>12 DEF Tick, Ids
<1>13. ASSUME RunWrite PROVE FinishInv'
  <2> DEFINE c == writes[1]
  <2>1. /\ 1 \in DOMAIN writes /\ Head(writes) = c /\ c \in Calls
        /\ \A i \in DOMAIN writes' : /\ i \in Nat /\ i + 1 \in DOMAIN writes /\ i + 1 # 1
                                     /\ writes'[i] = writes[i + 1]
    BY <1>13, RunEffect
  <2>2. ASSUME \A i \in DOMAIN writes : i # 1 /\ Finishing(writes[i]) => Kept(writes[i])
        PROVE  FinishInv'
    BY <2>1, <2>2
  <2>3. CASE UNCHANGED <<jobs, held, hist>>
    BY <2>2, <2>3 DEF Ids
  <2>4. CASE RunComplete(c) \/ RunFail(c)
    <3>1. c.id \in Ids /\ UNCHANGED <<held, hist>>
          /\ \A i \in DOMAIN writes : i # 1 /\ Finishing(writes[i]) => writes[i].id # c.id
      BY <2>1, <2>4 DEF RunComplete, RunFail
    <3>2. DOMAIN jobs' = DOMAIN jobs /\ \A j \in Ids : j # c.id => jobs'[j] = jobs[j]
      BY <1>f, <2>4, <3>1 DEF RunComplete, RunFail, Retry, Bury
    <3> QED
      BY <2>2, <3>1, <3>2 DEF Ids
  <2>5. ASSUME NEW j \in Eligible(c.now),
               jobs' = MarkRunning(j),
               hist' = [hist EXCEPT ![j].claims = @ + 1],
               \A w \in Workers : held'[w].id \in {held[w].id, j}
        PROVE  FinishInv'
    <3>1. j \in Ids /\ jobs[j].status = "queued"
      BY <2>5 DEF Eligible
    <3>2. \A i \in DOMAIN writes : Finishing(writes[i]) => writes[i].id # j
      BY <3>1
    <3>3. DOMAIN jobs' = Ids /\ \A i \in Ids : i # j => jobs'[i] = jobs[i] /\ hist'[i] = hist[i]
      BY <1>f, <2>5, <3>1 DEF MarkRunning
    <3> QED
      BY <2>2, <2>5, <3>2, <3>3 DEF Ids
  <2>6. CASE RunClaim(c)
    <3>1. ASSUME NEW j \in Eligible(c.now),
                 IF c.live
                   THEN held' = [held EXCEPT ![c.who] = [id |-> j, claim |-> hist[j].claims + 1]]
                   ELSE UNCHANGED held
          PROVE  \A w \in Workers : held'[w].id \in {held[w].id, j}
      BY <1>f, <3>1
    <3>2. \/ UNCHANGED <<jobs, held, hist>>
          \/ \E j \in Eligible(c.now) :
                /\ jobs' = MarkRunning(j)
                /\ hist' = [hist EXCEPT ![j].claims = @ + 1]
                /\ IF c.live
                     THEN held' = [held EXCEPT ![c.who] = [id |-> j, claim |-> hist[j].claims + 1]]
                     ELSE UNCHANGED held
      BY <2>6 DEF RunClaim
    <3> QED
      BY <2>3, <2>5, <3>1, <3>2
  <2> QED
    BY <1>13, <2>1, <2>4, <2>6 DEF RunWrite
<1>14. ASSUME UNCHANGED vars PROVE FinishInv'
  BY <1>1, <1>14 DEF vars, Ids
<1> QED
  BY <1>3, <1>4, <1>5, <1>6, <1>7, <1>8, <1>9, <1>10, <1>11, <1>12, <1>13, <1>14
  DEF Next, WorkerStep, Fault

\* A job is queued, done or dead for a reason.
LEMMA JobStep ==
    ASSUME TypeOK, HeldInv, FinishInv, JobInv, [Next]_vars
    PROVE  JobInv'
<1>f. /\ \A j \in Ids : jobs[j] \in Rows /\ hist[j] \in Hists
      /\ DOMAIN hist = Ids /\ DOMAIN jobs = Ids
      /\ clock \in Nat /\ MaxAttempts \in Nat \ {0}
      /\ \A j \in Ids : jobs[j].attempts <= MaxAttempts
  BY TypedFields, JobAssumption DEF TypeOK, Ids, JobAssumption
<1> USE DEF JobInv
<1>0. ASSUME \A j \in Ids' : j \in Ids /\ jobs'[j] = jobs[j] /\ hist'[j] = hist[j]
      PROVE  JobInv'
  BY <1>0
\* A step on one job that leaves it running.
<1>1. ASSUME NEW j \in Ids, jobs'[j].status = "running", Ids' = Ids,
             \A i \in Ids : i # j => jobs'[i] = jobs[i] /\ hist'[i] = hist[i]
      PROVE  JobInv'
  BY <1>1
<1>2. ASSUME NEW k \in Keys, Enqueue(k) \/ SchedulerTick(k) PROVE JobInv'
  <2>1. /\ NewRow(k).status = "queued" /\ NewRow(k).attempts = 0 /\ NewHist.fails = 0
    BY DEF NewRow, NewHist
  <2>2. /\ \A j \in Ids : jobs'[j] = jobs[j] /\ hist'[j] = hist[j]
        /\ \A j \in Ids' \ Ids : jobs'[j] = NewRow(k) /\ hist'[j] = NewHist
    BY <1>2, InsertEffect DEF Enqueue, SchedulerTick
  <2>3. ASSUME NEW j \in Ids', j \notin Ids
        PROVE  /\ jobs'[j].status = "queued" /\ jobs'[j].attempts = 0 /\ hist'[j].fails = 0
    BY <2>1, <2>2, <2>3
  <2> QED
    BY <1>f, <2>2, <2>3
<1>3. ASSUME NEW j \in Ids, RequeueDead(j) PROVE JobInv'
  <2>1. /\ Ids' = Ids /\ \A i \in Ids : i # j => jobs'[i] = jobs[i] /\ hist'[i] = hist[i]
        /\ jobs'[j].status = "queued" /\ jobs'[j].attempts = 0 /\ hist'[j].fails = 0
    BY <1>3, <1>f DEF RequeueDead, Requeued, Ids, Rows, Hists
  <2> QED
    BY <1>f, <2>1
<1>4. ASSUME NEW w \in Workers, HandlerOk(w) PROVE JobInv'
  BY <1>1, <1>4, <1>f DEF HandlerOk, HeldInv, Ids
<1>5. ASSUME NEW w \in Workers, HandlerErr(w) PROVE JobInv'
  BY <1>1, <1>5, <1>f DEF HandlerErr, HeldInv, Ids
<1>6. ASSUME RunWrite PROVE JobInv'
  <2> DEFINE c == writes[1]
  <2>1. 1 \in DOMAIN writes /\ Head(writes) = c /\ c \in Calls
    BY <1>6, RunEffect
  <2>2. CASE RunClaim(c)
    <3>1. ASSUME NEW j \in Eligible(c.now), jobs' = MarkRunning(j),
                 hist' = [hist EXCEPT ![j].claims = @ + 1]
          PROVE  JobInv'
      BY <1>1, <1>f, <3>1 DEF Eligible, MarkRunning, Ids, Rows
    <3>2. CASE UNCHANGED <<jobs, hist>>
      BY <1>0, <3>2 DEF Ids
    <3> QED
      BY <2>2, <3>1, <3>2 DEF RunClaim
  <2>3. CASE RunComplete(c)
    <3>1. c.id \in Ids /\ hist[c.id].ok /\ UNCHANGED hist
      BY <2>1, <2>3 DEF RunComplete, FinishInv, Finishing
    <3>2. /\ Ids' = Ids /\ \A i \in Ids : i # c.id => jobs'[i] = jobs[i]
          /\ jobs'[c.id].status = "done"
      BY <1>f, <2>3, <3>1 DEF RunComplete, Ids, Rows
    <3> QED
      BY <3>1, <3>2
  <2>4. CASE RunFail(c)
    <3>1. /\ c.id \in Ids /\ UNCHANGED hist
          /\ jobs[c.id].attempts = hist[c.id].fails /\ hist[c.id].failedAt = c.now
      BY <2>1, <2>4 DEF RunFail, FinishInv, Finishing
    <3>2. CASE Retry(c)
      <4> DEFINE new == c.now + Backoff(jobs[c.id].attempts)
      <4>1. new \in Nat
        BY <1>f, <2>1, <3>1, BackoffIsNat DEF Rows, Calls
      <4>2. jobs' = [jobs EXCEPT ![c.id].status = "queued", ![c.id].run_after = new]
        BY <3>2 DEF Retry
      <4>3. new = hist[c.id].failedAt + Backoff(hist[c.id].fails)
        BY <3>1
      <4> HIDE DEF new
      <4>4. /\ Ids' = Ids /\ \A i \in Ids : i # c.id => jobs'[i] = jobs[i]
            /\ jobs'[c.id].status = "queued" /\ jobs'[c.id].run_after = new
            /\ jobs'[c.id].attempts = jobs[c.id].attempts
        BY <1>f, <3>1, <4>2 DEF Ids, Rows
      <4>5. jobs[c.id].attempts < MaxAttempts
        BY <3>2 DEF Retry, AttemptsLeft
      <4> QED
        BY <3>1, <4>1, <4>3, <4>4, <4>5
    <3>3. CASE Bury(c)
      <4>1. jobs[c.id].attempts = MaxAttempts
        BY <1>f, <3>1, <3>3 DEF Bury, AttemptsLeft, Rows
      <4>2. CASE jobs' = [jobs EXCEPT ![c.id].status = "dead"]
        <5>1. /\ Ids' = Ids /\ \A i \in Ids : i # c.id => jobs'[i] = jobs[i]
              /\ jobs'[c.id].status = "dead"
          BY <1>f, <3>1, <4>2 DEF Ids, Rows
        <5> QED
          BY <3>1, <4>1, <5>1, ZenonT(30)
      <4>3. CASE UNCHANGED jobs
        <5>1. Ids' = Ids /\ \A i \in Ids : jobs'[i] = jobs[i]
          BY <4>3 DEF Ids
        <5> QED
          BY <3>1, <5>1
      <4> QED
        BY <3>3, <4>2, <4>3 DEF Bury
    <3> QED
      BY <2>4, <3>2, <3>3 DEF RunFail
  <2> QED
    BY <1>6, <2>1, <2>2, <2>3, <2>4 DEF RunWrite
<1>7. ASSUME UNCHANGED <<jobs, hist>> PROVE JobInv'
  BY <1>0, <1>7 DEF Ids
<1> QED
  BY <1>2, <1>3, <1>4, <1>5, <1>6, <1>7
  DEF Next, WorkerStep, Fault, Shutdown, Stop, ClaimNext, Claiming, GiveUp, FinishLost,
      HandlerPanics, Crash, Tick, vars

\* A burial opens a row of the DLQ and a requeue closes it.
LEMMA DlqStep ==
    ASSUME TypeOK, FinishInv, DlqInv, [Next]_vars
    PROVE  DlqInv'
<1>f. /\ \A j \in Ids : jobs[j] \in Rows
      /\ DOMAIN jobs = Ids
      /\ dead \in Seq(DeadRows) /\ \A i \in DOMAIN dead : dead[i] \in DeadRows /\ dead[i].id \in Ids
      /\ faults \in Nat
      /\ \A kind \in FaultKinds : Strike(kind) => faults' # 0
  <2>1. MaxFaults \in Nat
    BY JobAssumption DEF JobAssumption
  <2>2. faults \in Nat /\ \A kind \in FaultKinds : Strike(kind) => faults' # 0
    BY <2>1 DEF TypeOK, Strike
  <2> QED
    BY <2>2, TypedFields DEF TypeOK, Ids, DeadRows
<1> USE DEF DlqInv
<1>1. ASSUME NEW k \in Keys, Enqueue(k) \/ SchedulerTick(k) PROVE DlqInv'
  <2>1. NewRow(k).status = "queued"
    BY DEF NewRow
  <2> QED
    BY <1>1, <1>f, <2>1, InsertEffect DEF Enqueue, SchedulerTick, bounds
<1>2. ASSUME NEW j \in Ids, RequeueDead(j) PROVE DlqInv'
  <2>1. /\ Ids' = Ids /\ \A i \in Ids : i # j => jobs'[i] = jobs[i]
        /\ jobs'[j].status = "queued" /\ jobs[j].status = "dead"
    BY <1>2, <1>f DEF RequeueDead, CanRequeue, Requeued, Ids, Rows
  <2>2. CASE dead' = Closed(j) /\ UNCHANGED faults
    <3>1. /\ DOMAIN dead' = DOMAIN dead
          /\ \A i \in DOMAIN dead : /\ dead'[i].id = dead[i].id
                                    /\ dead[i].id = j => ~dead'[i].open
                                    /\ dead[i].id # j => dead'[i] = dead[i]
      BY <1>f, <2>2 DEF Closed, DeadRows
    <3> QED
      BY <2>1, <2>2, <3>1
  <2>3. CASE Strike("statement") /\ UNCHANGED dead
    BY <1>f, <2>1, <2>3 DEF FaultKinds
  <2> QED
    BY <1>2, <2>2, <2>3 DEF RequeueDead
<1>3. ASSUME RunWrite PROVE DlqInv'
  <2> DEFINE c == writes[1]
  <2>1. 1 \in DOMAIN writes /\ Head(writes) = c /\ c \in Calls
    BY <1>3, RunEffect
  <2>2. CASE RunClaim(c)
    <3>1. ASSUME NEW j \in Eligible(c.now), jobs' = MarkRunning(j) PROVE DlqInv'
      <4>1. /\ Ids' = Ids /\ \A i \in Ids : i # j => jobs'[i] = jobs[i]
            /\ jobs'[j].status = "running" /\ jobs[j].status = "queued"
        BY <1>f, <3>1 DEF Eligible, MarkRunning, Ids, Rows
      <4> QED
        BY <2>2, <4>1 DEF RunClaim
    <3>2. CASE UNCHANGED jobs
      BY <2>2, <3>2 DEF RunClaim, Ids
    <3> QED
      BY <2>2, <3>1, <3>2 DEF RunClaim
  <2>3. ASSUME RunComplete(c) \/ RunFail(c)
        PROVE  c.id \in Ids /\ jobs[c.id].status = "running"
    BY <2>1, <2>3 DEF RunComplete, RunFail, FinishInv, Finishing
  <2>4. ASSUME c.id \in Ids, jobs[c.id].status = "running",
               NEW s, s # "dead", UNCHANGED <<dead, faults>>, Ids' = Ids,
               jobs'[c.id].status = s,
               \A i \in Ids : i # c.id => jobs'[i] = jobs[i]
        PROVE  DlqInv'
    BY <2>4
  <2>5. CASE RunComplete(c)
    <3>1. /\ Ids' = Ids /\ \A i \in Ids : i # c.id => jobs'[i] = jobs[i]
          /\ jobs'[c.id].status = "done"
      BY <1>f, <2>3, <2>5 DEF RunComplete, Ids, Rows
    <3> QED
      BY <2>3, <2>4, <2>5, <3>1 DEF RunComplete
  <2>6. CASE RunFail(c) /\ Retry(c)
    <3>1. /\ Ids' = Ids /\ \A i \in Ids : i # c.id => jobs'[i] = jobs[i]
          /\ jobs'[c.id].status = "queued"
      BY <1>f, <2>3, <2>6 DEF Retry, Ids, Rows
    <3> QED
      BY <2>3, <2>4, <2>6, <3>1 DEF Retry
  <2>7. CASE RunFail(c) /\ Bury(c)
    <3> DEFINE d == [id |-> c.id, attempts |-> jobs[c.id].attempts, open |-> TRUE]
               n == Len(dead) + 1
    <3>1. c.id \in Ids /\ jobs[c.id].status = "running" /\ d \in DeadRows /\ d.id = c.id /\ d.open
      BY <1>f, <2>1, <2>3, <2>7 DEF DeadRows, Rows, Calls
    <3>2. dead' = Append(dead, d)
      BY <2>7 DEF Bury
    <3> HIDE DEF d
    <3>3. /\ DOMAIN dead' = DOMAIN dead \cup {n} /\ n \notin DOMAIN dead
          /\ dead'[n].id = c.id /\ dead'[n].open
          /\ \A i \in DOMAIN dead : dead'[i] = dead[i]
      BY <1>f, <3>1, <3>2, Extended
    <3> HIDE DEF n
    <3>4. CASE jobs' = [jobs EXCEPT ![c.id].status = "dead"] /\ UNCHANGED faults
      <4>1. /\ Ids' = Ids /\ \A i \in Ids : i # c.id => jobs'[i] = jobs[i]
            /\ jobs'[c.id].status = "dead"
        BY <1>f, <3>1, <3>4 DEF Ids, Rows
      <4> QED
        BY <3>1, <3>3, <3>4, <4>1
    <3>5. CASE Strike("statement") /\ UNCHANGED jobs
      BY <1>f, <3>3, <3>5 DEF FaultKinds, Ids
    <3> QED
      BY <2>7, <3>4, <3>5 DEF Bury
  <2> QED
    BY <1>3, <2>1, <2>2, <2>5, <2>6, <2>7 DEF RunWrite, RunFail
<1>4. ASSUME UNCHANGED <<jobs, dead>>, faults' = faults \/ \E kind \in FaultKinds : Strike(kind)
      PROVE  DlqInv'
  BY <1>4, <1>f DEF Ids
<1>5. ASSUME Fault PROVE DlqInv'
  BY <1>4, <1>5 DEF Fault, Crash, GiveUp, FinishLost, HandlerPanics, FaultKinds
<1>6. ASSUME UNCHANGED <<jobs, dead, faults>> PROVE DlqInv'
  BY <1>4, <1>6
<1> QED
  BY <1>1, <1>2, <1>3, <1>5, <1>6
  DEF Next, WorkerStep, Shutdown, Stop, ClaimNext, Claiming, HandlerOk, HandlerErr, Tick,
      bounds, vars
-----------------------------------------------------------------------------
LEMMA Invariance == Spec => []IInv
<1>1. Init => IInv
  <2> SUFFICES ASSUME Init PROVE IInv
    OBVIOUS
  <2>1. /\ \A S : <<>> \in Seq(S)
        /\ DOMAIN <<>> = {} /\ NoJob \in [id : Nat, claim : Nat]
        /\ 0 \in 0..MaxFaults /\ 0 \in 0..MaxRequeues /\ 0 \in 0..MaxTicks
    BY EmptySeq, JobAssumption DEF JobAssumption, NoJob
  <2>2. TypeOK
    BY <2>1 DEF Init, TypeOK, Ids
  <2> QED
    BY <2>1, <2>2 DEF Init, IInv, AnswerInv, HeldInv, FinishInv, JobInv, DlqInv, Ids
<1>2. IInv /\ [Next]_vars => IInv'
  BY TypeStep, AnswerStep, HeldStep, FinishStep, JobStep, DlqStep DEF IInv
<1> QED
  BY <1>1, <1>2, PTL DEF Spec

\* The tables, the queue and the workers keep their types, and no job is claimed
\* more than max_attempts times between two requeues.
THEOREM JobQueueTypeOK == Spec => []TypeOK
<1>1. IInv => TypeOK
  BY DEF IInv
<1> QED
  BY <1>1, Invariance, PTL

\* complete and fail, which update by id alone, only ever touch a job that is
\* running under the claim they were called for, and nobody else is about to.
THEOREM JobQueueOnlyHolderFinishes == Spec => []OnlyHolderFinishes
<1>1. IInv => OnlyHolderFinishes
  <2> SUFFICES ASSUME IInv, NEW j \in Ids
               PROVE  /\ Cardinality(Holders(j)) + Cardinality(Finishes(j)) <= 1
                      /\ \A w \in Holders(j) : jobs[j].status = "running"
                                               /\ held[w].claim = hist[j].claims
                      /\ \A i \in Finishes(j) : jobs[j].status = "running"
                                                /\ writes[i].claim = hist[j].claims
    BY DEF OnlyHolderFinishes
  <2>1. NoJob.id # j
    BY TypedFields DEF NoJob, IInv
  <2>2. \A w \in Holders(j) : pc[w] = "handling"
    BY <2>1 DEF Holders, IInv, HeldInv
  <2>3. \A w, v \in Holders(j) : w = v
    BY <2>2 DEF Holders, IInv, HeldInv
  <2>4. \A i, k \in Finishes(j) : i = k
    BY DEF Finishes, IInv, FinishInv, Finishing
  <2>5. Holders(j) = {} \/ Finishes(j) = {}
    BY DEF Holders, Finishes, IInv, FinishInv, Finishing
  <2>6. ASSUME NEW S, \A s, t \in S : s = t PROVE S = {} \/ \E s : S = {s}
    <3>1. ASSUME NEW s \in S PROVE S = {s}
      BY <2>6
    <3> QED
      BY <3>1
  <2>7. \A S : (\A s, t \in S : s = t) => Cardinality(S) \in {0, 1} /\ (S = {} => Cardinality(S) = 0)
    <3> SUFFICES ASSUME NEW S, \A s, t \in S : s = t
                 PROVE  Cardinality(S) \in {0, 1} /\ (S = {} => Cardinality(S) = 0)
      OBVIOUS
    <3>1. CASE S = {}
      BY <3>1, FS_EmptySet
    <3>2. CASE \E s : S = {s}
      <4>1. PICK s : S = {s}
        BY <3>2
      <4>2. S # {} /\ Cardinality(S) = 1
        BY <4>1, FS_Singleton
      <4> QED
        BY <4>2
    <3> QED
      BY <2>6, <3>1, <3>2
  <2>8. Cardinality(Holders(j)) + Cardinality(Finishes(j)) <= 1
    <3>1. /\ Cardinality(Holders(j)) \in {0, 1} /\ Cardinality(Finishes(j)) \in {0, 1}
          /\ Cardinality(Holders(j)) = 0 \/ Cardinality(Finishes(j)) = 0
      BY <2>3, <2>4, <2>5, <2>7
    <3> QED
      BY <3>1
  <2> QED
    BY <2>2, <2>8 DEF Holders, Finishes, IInv, HeldInv, FinishInv, Finishing
<1> QED
  BY <1>1, Invariance, PTL

\* A job is dead only after max_attempts failures of its handler since it was
\* last enqueued or requeued, and done only when its handler said so.
THEOREM JobQueueOutcomesAreEarned == Spec => []OutcomesAreEarned
<1>1. IInv => OutcomesAreEarned
  BY DEF IInv, JobInv, OutcomesAreEarned
<1> QED
  BY <1>1, Invariance, PTL

\* A dead job has an open row in the DLQ whatever fails in between; without
\* faults, the dead jobs have exactly one and the others none.
THEOREM JobQueueDlqAgrees == Spec => []DlqAgrees
<1>1. IInv => DlqAgrees
  <2> SUFFICES ASSUME IInv, NEW j \in Ids
               PROVE  /\ jobs[j].status = "dead" => OpenRows(j) # {}
                      /\ faults = 0 => Cardinality(OpenRows(j)) =
                                          IF jobs[j].status = "dead" THEN 1 ELSE 0
    BY DEF DlqAgrees
  <2>1. jobs[j].status = "dead" => OpenRows(j) # {}
    BY DEF IInv, DlqInv, OpenRows
  <2>2. faults = 0 => \A i, k \in OpenRows(j) : i = k
    BY DEF IInv, DlqInv, OpenRows
  <2>3. faults = 0 /\ jobs[j].status # "dead" => OpenRows(j) = {}
    BY DEF IInv, DlqInv, OpenRows
  <2>4. ASSUME faults = 0, jobs[j].status = "dead" PROVE Cardinality(OpenRows(j)) = 1
    <3>1. PICK i : i \in OpenRows(j)
      BY <2>1, <2>4
    <3>2. OpenRows(j) = {i}
      BY <2>2, <2>4, <3>1
    <3> QED
      BY <3>2, FS_Singleton
  <2> QED
    BY <2>1, <2>3, <2>4, FS_EmptySet
<1> QED
  BY <1>1, Invariance, PTL

\* claim_next never takes a job before its backoff is over: a retry starts at
\* least 2^n seconds after the n-th failure.
THEOREM JobQueueBackoffRespected == Spec => BackoffRespected
<1>1. ASSUME IInv, [Next]_vars
      PROVE  [\A j \in Ids : jobs[j].status = "queued" /\ jobs'[j].status = "running"
                                 /\ hist[j].fails \in 1..10
                  => clock >= hist[j].failedAt + 2 ^ hist[j].fails]_vars
  <2> SUFFICES ASSUME NEW j \in Ids, jobs[j].status = "queued", jobs'[j].status = "running",
                      hist[j].fails \in 1..10
               PROVE  clock >= hist[j].failedAt + 2 ^ hist[j].fails
    OBVIOUS
  <2>f. /\ jobs[j] \in Rows /\ hist[j] \in Hists /\ clock \in Nat
        /\ DOMAIN jobs = Ids /\ TypeOK
    <3>1. TypeOK /\ DOMAIN jobs = Ids
      BY <1>1 DEF IInv, Ids
    <3> QED
      BY <3>1, TypedFields DEF TypeOK
  <2>1. RunWrite
    <3>1. jobs' # jobs
      OBVIOUS
    <3>2. ASSUME NEW i \in Ids, RequeueDead(i) PROVE FALSE
      BY <2>f, <3>2 DEF RequeueDead, Requeued, Rows
    <3>3. ASSUME NEW k \in Keys, Enqueue(k) \/ SchedulerTick(k) PROVE FALSE
      BY <2>f, <3>3, InsertEffect DEF Enqueue, SchedulerTick
    <3> QED
      BY <1>1, <3>1, <3>2, <3>3
      DEF Next, WorkerStep, Fault, Shutdown, Stop, ClaimNext, Claiming, HandlerOk, HandlerErr,
          GiveUp, FinishLost, HandlerPanics, Crash, Tick, vars
  <2> DEFINE c == writes[1]
  <2>2. /\ 1 \in DOMAIN writes /\ Head(writes) = c /\ c \in Calls
    BY <2>1, <2>f, RunEffect
  <2>3. RunClaim(c)
    <3>1. ASSUME RunComplete(c) \/ RunFail(c) PROVE c.id \in Ids /\ jobs[c.id].status = "running"
      BY <1>1, <2>2, <3>1 DEF RunComplete, RunFail, IInv, FinishInv, Finishing
    <3>2. ASSUME RunComplete(c) \/ RunFail(c) PROVE jobs'[j] = jobs[j]
      BY <2>f, <3>1, <3>2 DEF RunComplete, RunFail, Retry, Bury
    <3> QED
      BY <2>1, <2>2, <3>2 DEF RunWrite
  <2>4. j \in Eligible(c.now)
    BY <2>f, <2>3 DEF RunClaim, MarkRunning, Eligible
  <2>5. jobs[j].run_after <= c.now /\ c.now <= clock
    BY <1>1, <2>2, <2>4 DEF Eligible, IInv, AnswerInv
  <2>6. hist[j].fails \in Nat /\ hist[j].fails > 0 /\ hist[j].failedAt \in Nat
        /\ jobs[j].run_after \in Nat /\ c.now \in Nat
    BY <2>f, <2>2 DEF Hists, Rows, Calls
  <2>7. jobs[j].run_after >= hist[j].failedAt + Backoff(hist[j].fails)
    BY <1>1, <2>6 DEF IInv, JobInv
  <2>8. Backoff(hist[j].fails) = 2 ^ hist[j].fails /\ Backoff(hist[j].fails) \in Nat
    <3>1. Min10(hist[j].fails) = hist[j].fails
      BY DEF Min10
    <3> QED
      BY <2>6, <3>1, BackoffIsNat DEF Backoff
  <2> HIDE DEF c
  <2>9. clock >= hist[j].failedAt + Backoff(hist[j].fails)
    BY <2>f, <2>5, <2>6, <2>7, <2>8
  <2> QED
    BY <2>8, <2>9
<1> QED
  BY <1>1, Invariance, PTL DEF Spec, BackoffRespected
=============================================================================
