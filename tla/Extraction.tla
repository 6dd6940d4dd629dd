----------------------------- MODULE Extraction -----------------------------
(***************************************************************************)
(* Sessions and their turns (src/memory/sessions.rs, the session commands  *)
(* of src/cli/remember.rs), the extraction a worker runs on a closed       *)
(* session (src/memory/extract.rs, run_extract_job in                      *)
(* src/memory/worker.rs), and the token ceiling it is charged against      *)
(* (src/memory/mod.rs, src/observe/ledger.rs).                             *)
(*                                                                         *)
(* A client command and a job are several reads and writes; each closure   *)
(* is one step, and anything may happen between two of them.  Of a job     *)
(* only what JobQueue promises is kept: a claimed job has one holder, a    *)
(* failed one is retried at some later moment until its attempts are used  *)
(* up.  A turn is its length; a model call costs some tokens, and its      *)
(* answer is a number of valid candidates or not JSON at all.              *)
(***************************************************************************)
EXTENDS Naturals, Sequences, FiniteSets, Functions

CONSTANTS Clients, Workers,
          Sizes,        \* lengths of a turn's line in the prompt
          Room,         \* MAX_PROMPT_CHARS
          Window,       \* turns a prompt looks back (50)
          Ceiling,      \* [budget] max_tokens_per_session, 0 is unlimited
          MaxCost,      \* tokens of one call, prompt and answer, at most
          MaxCandidates,\* memories of one answer, at most
          MaxAttempts,  \* DEFAULT_MAX_ATTEMPTS
          Faults,       \* the faults that may strike
          MaxSessions, MaxTurns, MaxFaults, MaxRequeues   \* bounds

FaultKinds == {"client_crash", "enqueue", "read", "ledger", "mark", "worker_crash"}

ASSUME ExtractionAssumption ==
    /\ Sizes \subseteq Nat \ {0}
    /\ {Room, Window, MaxCost, MaxAttempts} \subseteq Nat \ {0}
    /\ {Ceiling, MaxCandidates, MaxSessions, MaxTurns, MaxFaults, MaxRequeues} \subseteq Nat
    /\ Faults \subseteq FaultKinds

VARIABLES sess,     \* table sessions: id -> status
          turns,    \* table turns: id -> its turns in seq order
          upto,     \* meta: extracted_upto_<id>
          job,      \* table jobs: the extract job of a session
          ledger,   \* table llm_calls: tokens charged to the session
          client,   \* Clients -> the command under way
          run,      \* Workers -> the extraction under way
          sameMs,   \* sessions idle-closed with the current ended_at
          billed,   \* history: tokens of the answers the provider gave
          shown,    \* history: turns in a prompt that was answered with JSON
          faults, requeues

vars == <<sess, turns, upto, job, ledger, client, run, sameMs,
          billed, shown, faults, requeues>>
spend == <<ledger, billed, shown>>
db == <<sess, turns, upto, job>>
bounds == <<faults, requeues>>

Ids == 1..MaxSessions
IdleClient == [op |-> "idle", todo |-> {}]
IdleRun == [at |-> "idle", s |-> 0, n |-> 0, from |-> 0, cost |-> 0, left |-> 0]
Stages == {"idle", "claimed", "checked", "turns_read", "calling", "answered",
           "persisting", "marking", "ok", "err"}

TypeOK ==
    /\ sess \in [Ids -> {"none", "open", "closed"}]
    /\ \A s \in Ids : turns[s] \in Seq(Sizes) /\ upto[s] \in 0..Len(turns[s])
    /\ job \in [Ids -> [status : {"none", "queued", "running", "done", "dead"},
                        attempts : 0..MaxAttempts]]
    /\ {ledger, billed} \subseteq [Ids -> Nat]
    /\ shown \in [Ids -> SUBSET (1..MaxTurns)]
    /\ client \in [Clients -> [op : {"idle", "append", "close", "enqueue"}, todo : SUBSET Ids]]
    /\ run \in [Workers -> [at : Stages, s : 0..MaxSessions, n : 0..MaxTurns,
                            from : 0..MaxTurns, cost : 0..MaxCost, left : 0..MaxCandidates]]
    /\ \A w \in Workers : run[w].at # "idle" => run[w].s \in Ids
    /\ sameMs \subseteq Ids
    /\ faults \in 0..MaxFaults /\ requeues \in 0..MaxRequeues

Init ==
    /\ sess = [s \in Ids |-> "none"]
    /\ turns = [s \in Ids |-> <<>>]
    /\ upto = [s \in Ids |-> 0]
    /\ job = [s \in Ids |-> [status |-> "none", attempts |-> 0]]
    /\ ledger = [s \in Ids |-> 0] /\ billed = [s \in Ids |-> 0]
    /\ shown = [s \in Ids |-> {}]
    /\ client = [c \in Clients |-> IdleClient]
    /\ run = [w \in Workers |-> IdleRun]
    /\ sameMs = {}
    /\ faults = 0 /\ requeues = 0

Strike(kind) == kind \in Faults /\ faults < MaxFaults /\ faults' = faults + 1
Opened(s) == sess[s] # "none"
Goes(c, op, todo) == client' = [client EXCEPT ![c] = [op |-> op, todo |-> todo]]
-----------------------------------------------------------------------------
OpenSession(c) ==
    /\ client[c].op = "idle"
    /\ \E s \in Ids : /\ ~Opened(s) /\ \A r \in Ids : r < s => Opened(r)
                      /\ sess' = [sess EXCEPT ![s] = "open"]
    /\ UNCHANGED <<turns, upto, job, spend, client, run, sameMs, bounds>>

Appends(s) == Cardinality({c \in Clients : client[c].op = "append" /\ s \in client[c].todo})

\* session_id_by_public or get_open_session: the id is read before, and used
\* in, the write that follows.
Resolve(c, op) ==
    /\ client[c].op = "idle"
    /\ \E s \in Ids : /\ Opened(s)
                      /\ op = "append" => MaxTurns > Len(turns[s]) + Appends(s)
                      /\ Goes(c, op, {s})
    /\ UNCHANGED <<db, spend, run, sameMs, bounds>>

MayAppendAlways(s) == Opened(s)
MayAppend(s) == sess[s] = "open"

\* A refused append changes nothing.
AppendTurn(c) ==
    /\ client[c].op = "append"
    /\ \E s \in client[c].todo :
          \/ /\ MayAppend(s)
             /\ \E size \in Sizes : turns' = [turns EXCEPT ![s] = Append(@, size)]
          \/ ~MayAppend(s) /\ UNCHANGED turns
    /\ Goes(c, "idle", {})
    /\ UNCHANGED <<sess, upto, job, spend, run, sameMs, bounds>>

CloseSession(c) ==
    /\ client[c].op = "close"
    /\ \E s \in client[c].todo :
          \/ /\ sess[s] = "open"
             /\ sess' = [sess EXCEPT ![s] = "closed"]
             /\ Goes(c, "enqueue", {s})
          \/ /\ sess[s] # "open"
             /\ UNCHANGED sess
             /\ Goes(c, "idle", {})
    /\ UNCHANGED <<turns, upto, job, spend, run, sameMs, bounds>>

\* close_idle_sessions: whatever has been quiet for idle_minutes is closed, and
\* the ids returned are those with the reason and the ended_at just written.
ReturnedBefore(idle) == sameMs
Returned(idle) == idle \cup sameMs

CloseIdle(c) ==
    /\ client[c].op = "idle"
    /\ \E idle \in SUBSET {s \in Ids : sess[s] = "open"} :
          /\ idle \cup sameMs # {}
          /\ sess' = [s \in Ids |-> IF s \in idle THEN "closed" ELSE sess[s]]
          /\ Goes(c, "enqueue", Returned(idle))
          /\ sameMs' = sameMs \cup idle
    /\ UNCHANGED <<turns, upto, job, spend, run, bounds>>

\* The next millisecond.
Tick ==
    /\ sameMs # {} /\ sameMs' = {}
    /\ UNCHANGED <<db, spend, client, run, bounds>>

EnqueuedAgain(s) == [job EXCEPT ![s] = [status |-> "queued", attempts |-> 0]]
Enqueued(s) ==
    IF job[s].status = "none" THEN [job EXCEPT ![s].status = "queued"] ELSE job

\* One session after the other; a failed enqueue is only warned about.
EnqueueExtract(c) ==
    /\ client[c].op = "enqueue"
    /\ \E s \in client[c].todo :
          /\ \A r \in client[c].todo : s <= r
          /\ \/ job' = Enqueued(s) /\ UNCHANGED faults
             \/ Strike("enqueue") /\ UNCHANGED job
          /\ LET rest == client[c].todo \ {s}
             IN  Goes(c, IF rest = {} THEN "idle" ELSE "enqueue", rest)
    /\ UNCHANGED <<sess, turns, upto, spend, run, sameMs, requeues>>

ClientCrash(c) ==
    /\ client[c].op # "idle" /\ Strike("client_crash")
    /\ Goes(c, "idle", {})
    /\ UNCHANGED <<db, spend, run, sameMs, requeues>>
-----------------------------------------------------------------------------
Claim(w) ==
    /\ run[w].at = "idle"
    /\ \E s \in Ids :
          /\ job[s].status = "queued"
          /\ job' = [job EXCEPT ![s] = [status |-> "running", attempts |-> @.attempts + 1]]
          /\ run' = [run EXCEPT ![w] = [IdleRun EXCEPT !.at = "claimed", !.s = s]]
    /\ UNCHANGED <<sess, turns, upto, spend, client, sameMs, bounds>>

At(w, stage) == run[w].at = stage
Moves(w, stage) == run' = [run EXCEPT ![w].at = stage]

\* check_session_budget.
OverBudgetLate(s) == Ceiling # 0 /\ ledger[s] > Ceiling
OverBudget(s) == Ceiling # 0 /\ ledger[s] >= Ceiling

\* The job is refused over the ceiling, and also when the embedder's dimension
\* is not the store's.
CheckBudget(w) ==
    /\ At(w, "claimed")
    /\ \/ ~OverBudget(run[w].s) /\ Moves(w, "checked")
       \/ Moves(w, "err")
    /\ UNCHANGED <<db, spend, client, sameMs, bounds>>

ReadTurns(w) ==
    /\ At(w, "checked")
    /\ run' = [run EXCEPT ![w].at = "turns_read", ![w].n = Len(turns[run[w].s])]
    /\ UNCHANGED <<db, spend, client, sameMs, bounds>>

HasFreshInclusive(n, from) == n >= from
HasFresh(n, from) == n > from

\* The watermark; a read that fails counts as none (unwrap_or(0)).
ReadUpto(w) ==
    /\ At(w, "turns_read")
    /\ \E from \in {upto[run[w].s], 0} :
          /\ from # upto[run[w].s] => Strike("read")
          /\ from = upto[run[w].s] => UNCHANGED faults
          /\ run' = [run EXCEPT ![w].from = from,
                                ![w].at = IF HasFresh(run[w].n, from) THEN "calling" ELSE "ok"]
    /\ UNCHANGED <<db, spend, client, sameMs, requeues>>

\* build_prompt: of the last Window fresh turns, the oldest first, those that
\* fit before the first that does not.
Prompt(s, from, n) ==
    LET start == IF n > from + Window THEN n - Window ELSE from
    IN  {q \in start + 1 .. n : SumFunctionOnSet(turns[s], start + 1 .. q) <= Room}

Paid(s, cost) == billed' = [billed EXCEPT ![s] = @ + cost]

Complete(w) ==
    /\ At(w, "calling")
    /\ \/ Moves(w, "err") /\ UNCHANGED spend          \* the request fails
       \/ \E cost \in 1..MaxCost :                    \* parse_output fails: paid, never recorded
             /\ Paid(run[w].s, cost)
             /\ Moves(w, "err")
             /\ UNCHANGED <<ledger, shown>>
       \/ \E cost \in 1..MaxCost, k \in 0..MaxCandidates :
             /\ Paid(run[w].s, cost)
             /\ shown' = [shown EXCEPT ![run[w].s] = @ \cup Prompt(run[w].s, run[w].from, run[w].n)]
             /\ run' = [run EXCEPT ![w].at = "answered", ![w].cost = cost, ![w].left = k]
             /\ UNCHANGED ledger
    /\ UNCHANGED <<db, client, sameMs, bounds>>

\* record_entry; an entry that cannot be written is only warned about.
Charged(s, r) == [ledger EXCEPT ![s] = @ + r.cost]

Record(w) ==
    /\ At(w, "answered")
    /\ \/ ledger' = Charged(run[w].s, run[w]) /\ UNCHANGED faults
       \/ Strike("ledger") /\ UNCHANGED ledger
    /\ run' = [run EXCEPT ![w].at = "persisting", ![w].cost = 0]
    /\ UNCHANGED <<db, billed, shown, client, sameMs, requeues>>

\* The candidates one by one (MemoryRows has what becomes of each); the first
\* that fails fails the job, and its answer is lost.
Persist(w) ==
    /\ At(w, "persisting")
    /\ \/ run[w].left = 0 /\ Moves(w, "marking")
       \/ run[w].left > 0 /\ run' = [run EXCEPT ![w].left = @ - 1]
       \/ run[w].left > 0 /\ Moves(w, "err")
    /\ UNCHANGED <<db, spend, client, sameMs, bounds>>

\* The watermark is the last turn read; when the write reports an error it may
\* have taken place all the same.
LastSeq(r) == IF r.n > r.from THEN r.n ELSE r.from

Mark(w) ==
    /\ At(w, "marking")
    /\ \/ /\ upto' = [upto EXCEPT ![run[w].s] = LastSeq(run[w])]
          /\ \/ Moves(w, "ok") /\ UNCHANGED faults
             \/ Moves(w, "err") /\ Strike("mark")
       \/ UNCHANGED upto /\ Moves(w, "err") /\ Strike("mark")
    /\ UNCHANGED <<sess, turns, job, spend, client, sameMs, requeues>>

\* complete and fail.
FailedStatusOneMore(s) == IF job[s].attempts <= MaxAttempts THEN "queued" ELSE "dead"
FailedStatus(s) == IF job[s].attempts < MaxAttempts THEN "queued" ELSE "dead"

Finish(w) ==
    /\ \/ At(w, "ok") /\ job' = [job EXCEPT ![run[w].s].status = "done"]
       \/ At(w, "err") /\ job' = [job EXCEPT ![run[w].s].status = FailedStatus(run[w].s)]
    /\ run' = [run EXCEPT ![w] = IdleRun]
    /\ UNCHANGED <<sess, turns, upto, spend, client, sameMs, bounds>>

RequeueDead(s) ==
    /\ job[s].status = "dead"
    /\ requeues < MaxRequeues /\ requeues' = requeues + 1
    /\ job' = [job EXCEPT ![s] = [status |-> "queued", attempts |-> 0]]
    /\ UNCHANGED <<sess, turns, upto, spend, client, run, sameMs, faults>>

\* The process dies; its job stays running (JobQueue).
WorkerCrash(w) ==
    /\ ~At(w, "idle") /\ Strike("worker_crash")
    /\ run' = [run EXCEPT ![w] = IdleRun]
    /\ UNCHANGED <<db, spend, client, sameMs, requeues>>
-----------------------------------------------------------------------------
ClientStep(c) == AppendTurn(c) \/ CloseSession(c) \/ EnqueueExtract(c)
WorkerStep(w) ==
    \/ Claim(w) \/ CheckBudget(w) \/ ReadTurns(w) \/ ReadUpto(w) \/ Complete(w)
    \/ Record(w) \/ Persist(w) \/ Mark(w) \/ Finish(w)

Next ==
    \/ \E c \in Clients : \/ OpenSession(c) \/ CloseIdle(c) \/ ClientStep(c) \/ ClientCrash(c)
                          \/ \E op \in {"append", "close"} : Resolve(c, op)
    \/ Tick
    \/ \E w \in Workers : WorkerStep(w) \/ WorkerCrash(w)
    \/ \E s \in Ids : RequeueDead(s)

Spec == Init /\ [][Next]_vars

\* A command once begun goes on, the worker polls and its calls return (each
\* has a timeout), and a retry's backoff ends.
Fairness ==
    /\ \A c \in Clients : WF_vars(ClientStep(c))
    /\ \A w \in Workers : WF_vars(WorkerStep(w))
FairSpec == Spec /\ Fairness
-----------------------------------------------------------------------------
Extracting(s) == {w \in Workers : run[w].at # "idle" /\ run[w].s = s}
InFlight(s) == SumFunctionOnSet([w \in Workers |-> run[w].cost], Extracting(s))

\* extract_session reads the watermark, calls the model and writes the
\* watermark without a lock: nothing but the idempotency key of enqueue_extract
\* keeps two workers from extracting, and paying for, a session at once.
OneExtraction ==
    /\ TypeOK
    /\ \A s \in Ids : Cardinality(Extracting(s)) <= 1

\* A session that fits in a prompt and whose extraction is done has been shown
\* to the model to its last turn: no append slips in behind the worker's read,
\* and no retry or lost watermark skips one.
Short(s) == Len(turns[s]) <= Window /\ SumFunction(turns[s]) <= Room
ShortSessionsAreSeen ==
    \A s \in Ids : job[s].status = "done" /\ Short(s) => shown[s] = DOMAIN turns[s]

\* What the provider bills for a session, recorded or not.  The ledger never holds
\* more than was billed, but it may hold less: an answer that is not JSON returns
\* before its row is written, and a row that cannot be written is only warned
\* about.  So the ceiling does not bound the bill; the attempts of the job do, each
\* of which makes one call at most, whatever fails and however often the operator
\* requeues it.
SpendingIsBounded ==
    \A s \in Ids : /\ ledger[s] + InFlight(s) <= billed[s]
                   /\ billed[s] <= MaxCost * (MaxAttempts * (requeues + 1))

\* Only closed sessions are extracted, so an open one has spent nothing: the
\* check remember makes on the agent's open session never refuses.
OpenIsUncharged == \A s \in Ids : sess[s] = "open" => billed[s] = 0

\* What is recorded of a session obeys the ceiling: no call is begun once the ledger
\* has reached it (docs/interfaces.md: "at or above the ceiling, further work for
\* that session" is refused), although the budget is read before the call and
\* charged after it, and the ledger, with the row of the call under way, ends less
\* than one call above it.  It says nothing of answers that are never recorded
\* (SpendingIsBounded does).
RecordedSpendingIsCapped ==
    /\ OpenIsUncharged
    /\ Ceiling # 0 =>
          /\ \A w \in Workers : At(w, "calling") => ledger[run[w].s] < Ceiling
          /\ \A s \in Ids : ledger[s] + InFlight(s) < Ceiling + MaxCost

\* A session whose watermark is at its last turn is not sent to the model again,
\* however the job that wrote it ended; only a watermark write that reported an
\* error and, on the retry, a watermark read that failed lead to a second bill.
ExtractedOnce ==
    [][\A s \in Ids : upto[s] = Len(turns[s]) /\ billed'[s] # billed[s] => faults >= 2]_vars

\* A closed session is extracted or its job is in the DLQ, unless a fault came
\* between the close and the enqueue or took the worker away.
ClosedSettles ==
    \A s \in Ids : sess[s] = "closed" ~> (job[s].status \in {"done", "dead"} \/ faults > 0)
=============================================================================
