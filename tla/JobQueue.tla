------------------------------ MODULE JobQueue ------------------------------
(***************************************************************************)
(* The durable job queue (src/memory/jobs.rs), the polling worker that     *)
(* drains it (src/memory/worker.rs) and the scheduler that feeds it        *)
(* (run_scheduler in src/cli/root.rs).                                     *)
(*                                                                         *)
(* A row of the table jobs is identified by its position: ids are handed   *)
(* out in order and rows are never deleted.  Every call goes through the   *)
(* writer actor, so a worker's call is a closure in the FIFO `writes` that *)
(* runs later, and the worker may have given up waiting by then (see       *)
(* WriteService).  A caller that nobody waits on behalf of (enqueue,       *)
(* requeue_dead) is a single step, taken when its closure runs.  A closure *)
(* is not a transaction: each SQL statement commits by itself.             *)
(***************************************************************************)
EXTENDS Naturals, Sequences, FiniteSets

CONSTANTS Keys,         \* idempotency keys, each with its kind and payload
          Unhandled,    \* those whose kind has no handler (reembed, reeval)
          Scheduled,    \* those the scheduler enqueues (scheduler:ttl, ...)
          Workers,
          Stoppable,    \* the workers somebody may tell to shut down
          MaxAttempts,  \* DEFAULT_MAX_ATTEMPTS (5)
          Faults,       \* the faults that may strike
          MaxFaults,    \* bound: how many do
          MaxRequeues,  \* bound: calls of requeue_dead
          MaxTicks,     \* bound: scheduler ticks that enqueue
          Horizon       \* bound: time passes freely up to here

FaultKinds == {"claim_timeout", "finish_timeout", "finish_lost",
               "statement", "panic", "crash"}

ASSUME JobAssumption ==
    /\ Unhandled \subseteq Keys
    /\ Scheduled \subseteq Keys
    /\ Stoppable \subseteq Workers
    /\ MaxAttempts \in Nat \ {0}
    /\ Faults \subseteq FaultKinds
    /\ {MaxFaults, MaxRequeues, MaxTicks, Horizon} \subseteq Nat

VARIABLES jobs,      \* table jobs: rows in id order
          dead,      \* table jobs_dead: rows in insertion order
          writes,    \* worker closures accepted by the writer, oldest first
          pc,        \* Workers -> where run() is
          held,      \* Workers -> the claimed job
          stopping,  \* Workers -> the shutdown flag
          clock,     \* SystemClock, in seconds
          hist,      \* history: per job, what happened to it
          due,       \* history: scheduled keys ticked and not yet run since
          faults, requeues, ticks   \* how much of each bound is used

vars == <<jobs, dead, writes, pc, held, stopping, clock, hist, due,
          faults, requeues, ticks>>
bounds == <<faults, requeues, ticks>>

Ids == DOMAIN jobs
NoJob == [id |-> 0, claim |-> 0]

\* hist[j]: claims ever made; failures since the job was last (re)queued by a
\* client; whether the last handler run returned Ok; when it last failed.
NewHist == [claims |-> 0, fails |-> 0, ok |-> FALSE, failedAt |-> 0]
NewRow(k) == [key |-> k, status |-> "queued", attempts |-> 0, run_after |-> 0]

Statuses == {"queued", "running", "done", "dead"}
Rows == [key : Keys, status : Statuses, attempts : Nat, run_after : Nat]
Calls == [op : {"claim", "complete", "fail"}, who : Workers, id : Nat,
          claim : Nat, now : Nat, live : BOOLEAN]

TypeOK ==
    /\ jobs \in Seq(Rows)
    /\ dead \in Seq([id : Nat, attempts : Nat, open : BOOLEAN])
    /\ \A i \in DOMAIN dead : dead[i].id \in Ids
    /\ writes \in Seq(Calls)
    /\ pc \in [Workers -> {"polling", "claiming", "handling", "finishing", "stopped"}]
    /\ held \in [Workers -> [id : Nat, claim : Nat]]
    /\ stopping \in [Workers -> BOOLEAN]
    /\ clock \in Nat
    /\ hist \in Seq([claims : Nat, fails : Nat, ok : BOOLEAN, failedAt : Nat])
    /\ Len(hist) = Len(jobs)
    /\ due \subseteq Scheduled
    /\ faults \in 0..MaxFaults /\ requeues \in 0..MaxRequeues /\ ticks \in 0..MaxTicks
    \* Nobody is claimed more often than max_attempts allows.
    /\ \A j \in Ids : jobs[j].attempts <= MaxAttempts

Init ==
    /\ jobs = <<>> /\ dead = <<>> /\ writes = <<>> /\ hist = <<>>
    /\ pc = [w \in Workers |-> "polling"]
    /\ held = [w \in Workers |-> NoJob]
    /\ stopping = [w \in Workers |-> FALSE]
    /\ clock = 0
    /\ due = {}
    /\ faults = 0 /\ requeues = 0 /\ ticks = 0

Strike(kind) == kind \in Faults /\ faults < MaxFaults /\ faults' = faults + 1
-----------------------------------------------------------------------------
\* enqueue: the row with this key whatever its status, or a new one.
Inserted(k) ==
    IF \E j \in Ids : jobs[j].key = k
      THEN UNCHANGED <<jobs, hist>>
      ELSE jobs' = Append(jobs, NewRow(k)) /\ hist' = Append(hist, NewHist)

Enqueue(k) ==
    /\ k \notin Scheduled
    /\ Inserted(k)
    /\ UNCHANGED <<dead, writes, pc, held, stopping, clock, due, bounds>>

\* A tick of run_scheduler at the hour of the action.
SchedulerTick(k) ==
    /\ k \in Scheduled
    /\ ticks < MaxTicks /\ ticks' = ticks + 1
    /\ Inserted(k)
    /\ due' = due \cup {k}
    /\ UNCHANGED <<dead, writes, pc, held, stopping, clock, faults, requeues>>

\* requeue_dead: the row leaves `dead`, then its jobs_dead rows are closed.
ClosedNone(j) == dead
Closed(j) == [i \in DOMAIN dead |->
                 IF dead[i].id = j THEN [dead[i] EXCEPT !.open = FALSE] ELSE dead[i]]

CanRequeue(j) == jobs[j].status = "dead"

Requeued(j) ==
    [jobs EXCEPT ![j].status = "queued", ![j].attempts = 0, ![j].run_after = 0]

RequeueDead(j) ==
    /\ CanRequeue(j)
    /\ requeues < MaxRequeues /\ requeues' = requeues + 1
    /\ jobs' = Requeued(j)
    /\ hist' = [hist EXCEPT ![j].fails = 0]
    /\ \/ dead' = Closed(j) /\ UNCHANGED faults
       \/ Strike("statement") /\ UNCHANGED dead
    /\ UNCHANGED <<writes, pc, held, stopping, clock, due, ticks>>
-----------------------------------------------------------------------------
\* Worker::run: the flag is read between jobs, then claim_next is called with
\* the time of the call.
Shutdown(w) ==
    /\ w \in Stoppable /\ ~stopping[w]
    /\ stopping' = [stopping EXCEPT ![w] = TRUE]
    /\ UNCHANGED <<jobs, dead, writes, pc, held, clock, hist, due, bounds>>

Stop(w) ==
    /\ pc[w] = "polling" /\ stopping[w]
    /\ pc' = [pc EXCEPT ![w] = "stopped"]
    /\ UNCHANGED <<jobs, dead, writes, held, stopping, clock, hist, due, bounds>>

Call(op, w) == [op |-> op, who |-> w, id |-> held[w].id, claim |-> held[w].claim,
                now |-> clock, live |-> TRUE]

Claiming(w) ==
    /\ pc' = [pc EXCEPT ![w] = "claiming"]
    /\ writes' = Append(writes, Call("claim", w))
    /\ UNCHANGED <<jobs, dead, held, stopping, clock, hist, due, bounds>>

ClaimNextIgnoresFlag(w) == pc[w] = "polling" /\ Claiming(w)
ClaimNext(w) == pc[w] = "polling" /\ ~stopping[w] /\ Claiming(w)

\* The handler of the job's kind returns; without one the job has failed.
HandlerOk(w) ==
    /\ pc[w] = "handling"
    /\ jobs[held[w].id].key \notin Unhandled
    /\ pc' = [pc EXCEPT ![w] = "finishing"]
    /\ writes' = Append(writes, Call("complete", w))
    /\ hist' = [hist EXCEPT ![held[w].id].ok = TRUE]
    /\ held' = [held EXCEPT ![w] = NoJob]
    /\ UNCHANGED <<jobs, dead, stopping, clock, due, bounds>>

HandlerErrSkipped(w) ==
    /\ pc[w] = "handling"
    /\ pc' = [pc EXCEPT ![w] = "polling"]
    /\ held' = [held EXCEPT ![w] = NoJob]
    /\ UNCHANGED <<jobs, dead, writes, stopping, clock, hist, due, bounds>>
HandlerErr(w) ==
    /\ pc[w] = "handling"
    /\ pc' = [pc EXCEPT ![w] = "finishing"]
    /\ writes' = Append(writes, Call("fail", w))
    /\ hist' = [hist EXCEPT ![held[w].id].ok = FALSE,
                            ![held[w].id].fails = @ + 1,
                            ![held[w].id].failedAt = clock]
    /\ held' = [held EXCEPT ![w] = NoJob]
    /\ UNCHANGED <<jobs, dead, stopping, clock, due, bounds>>
-----------------------------------------------------------------------------
\* The writer thread runs the oldest closure; its caller, if it still waits,
\* gets the answer.
EligibleAnyStatus(now) == {j \in Ids : jobs[j].status # "done" /\ jobs[j].run_after <= now}
Eligible(now) == {j \in Ids : jobs[j].status = "queued" /\ jobs[j].run_after <= now}

MarkRunning(j) == [jobs EXCEPT ![j].status = "running", ![j].attempts = @ + 1]

Answered(c, state) == IF c.live THEN [pc EXCEPT ![c.who] = state] ELSE pc

RunClaim(c) ==
    /\ c.op = "claim"
    /\ \/ /\ Eligible(c.now) = {}
          /\ pc' = Answered(c, "polling")
          /\ UNCHANGED <<jobs, held, hist, due>>
       \/ \E j \in Eligible(c.now) :
             /\ \A i \in Eligible(c.now) : j <= i
             /\ jobs' = MarkRunning(j)
             /\ hist' = [hist EXCEPT ![j].claims = @ + 1]
             /\ pc' = Answered(c, "handling")
             /\ IF c.live
                  THEN /\ held' = [held EXCEPT ![c.who] =
                                      [id |-> j, claim |-> hist[j].claims + 1]]
                       /\ due' = due \ {jobs[j].key}
                  ELSE UNCHANGED <<held, due>>
    /\ UNCHANGED <<dead, faults>>

RunComplete(c) ==
    /\ c.op = "complete"
    /\ jobs' = [jobs EXCEPT ![c.id].status = "done"]
    /\ pc' = Answered(c, "polling")
    /\ UNCHANGED <<dead, held, hist, due, faults>>

Min10(n) == IF n < 10 THEN n ELSE 10
BackoffShort(attempts) == Min10(attempts)
Backoff(attempts) == 2 ^ Min10(attempts)
AttemptsLeftOneLess(j) == jobs[j].attempts + 1 < MaxAttempts
AttemptsLeft(j) == jobs[j].attempts < MaxAttempts

Retry(c) ==
    /\ AttemptsLeft(c.id)
    /\ jobs' = [jobs EXCEPT ![c.id].status = "queued",
                            ![c.id].run_after = c.now + Backoff(jobs[c.id].attempts)]
    /\ UNCHANGED <<dead, faults>>

\* Two statements: the second may fail, or never run.
Bury(c) ==
    /\ ~AttemptsLeft(c.id)
    /\ dead' = Append(dead, [id |-> c.id, attempts |-> jobs[c.id].attempts, open |-> TRUE])
    /\ \/ jobs' = [jobs EXCEPT ![c.id].status = "dead"] /\ UNCHANGED faults
       \/ Strike("statement") /\ UNCHANGED jobs

RunFail(c) ==
    /\ c.op = "fail"
    /\ Retry(c) \/ Bury(c)
    /\ pc' = Answered(c, "polling")
    /\ UNCHANGED <<held, hist, due>>

RunWrite ==
    /\ writes # <<>>
    /\ RunClaim(Head(writes)) \/ RunComplete(Head(writes)) \/ RunFail(Head(writes))
    /\ writes' = Tail(writes)
    /\ UNCHANGED <<stopping, clock, requeues, ticks>>

\* Nothing happens between two moments of the day, except that jobs become due.
TimeMatters == clock < Horizon \/ \E j \in Ids : jobs[j].status = "queued" /\ jobs[j].run_after > clock
Tick ==
    /\ TimeMatters
    /\ clock' = clock + 1
    /\ UNCHANGED <<jobs, dead, writes, pc, held, stopping, hist, due, bounds>>
-----------------------------------------------------------------------------
\* The worker stops waiting for an answer (recv_timeout); the closure stays
\* in the queue.  A failed claim is polled again, a failed complete or fail is
\* ignored.
GiveUp(w) ==
    /\ pc[w] \in {"claiming", "finishing"}
    /\ Strike(IF pc[w] = "claiming" THEN "claim_timeout" ELSE "finish_timeout")
    /\ writes' = [i \in DOMAIN writes |->
                     IF writes[i].who = w THEN [writes[i] EXCEPT !.live = FALSE]
                                          ELSE writes[i]]
    /\ pc' = [pc EXCEPT ![w] = "polling"]
    /\ UNCHANGED <<jobs, dead, held, stopping, clock, hist, due, requeues, ticks>>

\* complete or fail is refused by the writer or its statement fails; run()
\* ignores the error.
FinishLost(w) ==
    /\ pc[w] = "handling"
    /\ Strike("finish_lost")
    /\ pc' = [pc EXCEPT ![w] = "polling"]
    /\ held' = [held EXCEPT ![w] = NoJob]
    /\ UNCHANGED <<jobs, dead, writes, stopping, clock, hist, due, requeues, ticks>>

\* A handler that panics takes the worker's task with it.
HandlerPanics(w) ==
    /\ pc[w] = "handling"
    /\ Strike("panic")
    /\ pc' = [pc EXCEPT ![w] = "stopped"]
    /\ held' = [held EXCEPT ![w] = NoJob]
    /\ UNCHANGED <<jobs, dead, writes, stopping, clock, hist, due, requeues, ticks>>

\* The process dies and is started again: only the tables survive.  Dying
\* between the statements of a closure is a "statement" fault and a crash.
Crash ==
    /\ Strike("crash")
    /\ writes' = <<>>
    /\ pc' = [w \in Workers |-> "polling"]
    /\ held' = [w \in Workers |-> NoJob]
    /\ stopping' = [w \in Workers |-> FALSE]
    /\ UNCHANGED <<jobs, dead, clock, hist, due, requeues, ticks>>
-----------------------------------------------------------------------------
WorkerStep(w) == Stop(w) \/ ClaimNext(w) \/ HandlerOk(w) \/ HandlerErr(w)
Fault == Crash \/ \E w \in Workers : GiveUp(w) \/ FinishLost(w) \/ HandlerPanics(w)

Next ==
    \/ \E k \in Keys : Enqueue(k) \/ SchedulerTick(k)
    \/ \E j \in Ids : RequeueDead(j)
    \/ \E w \in Workers : Shutdown(w) \/ WorkerStep(w)
    \/ RunWrite
    \/ Tick
    \/ Fault

Spec == Init /\ [][Next]_vars

\* The worker's task is polled, handlers return (every model call has a
\* timeout), the writer thread runs and time passes.
Fairness ==
    /\ \A w \in Workers : WF_vars(WorkerStep(w))
    /\ WF_vars(RunWrite)
    /\ WF_vars(Tick)
FairSpec == Spec /\ Fairness
-----------------------------------------------------------------------------
OpenRows(j) == {i \in DOMAIN dead : dead[i].id = j /\ dead[i].open}

\* Whoever is about to finish a job.
Holders(j) == {w \in Workers : held[w].id = j}
Finishes(j) == {i \in DOMAIN writes : writes[i].op # "claim" /\ writes[i].id = j}

\* complete and fail update by id alone.  They are safe because a job being
\* handled, or whose complete or fail is still queued, is running under that
\* very claim and under no other, however late the closure runs.
OnlyHolderFinishes ==
    \A j \in Ids :
        /\ Cardinality(Holders(j)) + Cardinality(Finishes(j)) <= 1
        /\ \A w \in Holders(j) : jobs[j].status = "running" /\ held[w].claim = hist[j].claims
        /\ \A i \in Finishes(j) : jobs[j].status = "running" /\ writes[i].claim = hist[j].claims

\* A job is buried only after its handler failed max_attempts times since it
\* was enqueued or requeued, and it is reported done only if its last run was Ok.
\* It is never claimed more often than max_attempts allows (TypeOK).
OutcomesAreEarned ==
    /\ TypeOK
    /\ \A j \in Ids : /\ jobs[j].status = "dead" => hist[j].fails = MaxAttempts
                      /\ jobs[j].status = "done" => hist[j].ok

\* A dead job is in the DLQ with an open row, also when a statement fails half
\* way: nothing is dead and invisible to the operator.  As long as no fault
\* strikes exactly the dead jobs have an open row, one each, through any number
\* of burials and requeues.
DlqAgrees ==
    \A j \in Ids :
        /\ jobs[j].status = "dead" => OpenRows(j) # {}
        /\ faults = 0 => Cardinality(OpenRows(j)) = (IF jobs[j].status = "dead" THEN 1 ELSE 0)

\* The n-th retry starts at least 2^n seconds after the n-th failure, although
\* claim_next and fail both use the time of their call.
BackoffRespected ==
    [][\A j \in Ids : jobs[j].status = "queued" /\ jobs'[j].status = "running"
                          /\ hist[j].fails \in 1..10
          => clock >= hist[j].failedAt + 2 ^ hist[j].fails]_vars

AllStopped == \A w \in Workers : pc[w] = "stopped"
HasStatus(j, S) == j \in Ids /\ jobs[j].status \in S

\* The queue is durable: a queued job ends done or dead while a worker runs.
JobsSettle ==
    \A j \in 1..Cardinality(Keys) :
        HasStatus(j, {"queued"}) ~> (HasStatus(j, {"done", "dead"}) \/ AllStopped)

\* What the code does guarantee: the only way not to settle is to be running for
\* nobody, after a fault took the answer of the claim or the worker away.
Orphaned(j) == HasStatus(j, {"running"}) /\ Holders(j) = {} /\ Finishes(j) = {}
JobsSettleOrOrphan ==
    \A j \in 1..Cardinality(Keys) :
        HasStatus(j, {"queued"}) ~>
            (HasStatus(j, {"done", "dead"}) \/ AllStopped \/ (faults > 0 /\ Orphaned(j)))

\* Worker::shutdown: "the run loop exits after the current job", whatever the
\* job and the writer do; a process that crashed has forgotten the flag.
WorkersStop == \A w \in Workers : stopping[w] ~> (pc[w] = "stopped" \/ ~stopping[w])

\* The scheduled reaper "runs daily": a tick that finds the previous run done
\* starts another one.
ScheduledWorkRuns ==
    \A k \in Scheduled :
        (k \in due /\ \E j \in Ids : jobs[j].key = k /\ jobs[j].status = "done")
            ~> (k \notin due \/ AllStopped)
=============================================================================
