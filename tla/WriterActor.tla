---------------------------- MODULE WriterActor ----------------------------
(***************************************************************************)
(* The single-writer actor of src/storage/writer.rs.                       *)
(*                                                                         *)
(* One thread owns the only write connection.  A caller of write() sends a *)
(* closure over a bounded channel (send_timeout), then waits on a reply    *)
(* channel of capacity one (recv_timeout).  The closure sends a first      *)
(* reply itself; the loop then sends a second one on the same channel, so  *)
(* the loop waits there until the caller took the first or gave up.        *)
(*                                                                         *)
(* A job stands for one call of write(), on a thread of its own            *)
(* (StoreHandle::write wraps it in spawn_blocking).  What its closure does *)
(* to the database belongs to the modules of the store; here the closure   *)
(* returns Ok, returns Err or panics.                                      *)
(***************************************************************************)
EXTENDS Naturals, Sequences

CONSTANTS Jobs,        \* the calls of write()
          Shutdowns,   \* the calls of shutdown()
          QueueSize,   \* WriterConfig::queue_size
          NoJob        \* no call

ASSUME WriterAssumption ==
    /\ QueueSize \in Nat \ {0}
    /\ Jobs \cap Shutdowns = {}
    /\ NoJob \notin Jobs \cup Shutdowns

Results  == {"ok", "jobErr", "panicErr"}
Rejected == {"queueFull", "stopped", "dropped"}
Outcomes == Results \cup Rejected \cup {"timeout"}
Active   == {"sending", "waiting"}
NoReply  == "none"
Messages == Jobs \cup Shutdowns

VARIABLES queue,      \* the bounded channel tx / rx
          connected,  \* the receiver rx is alive
          handles,    \* some clone of the WriterHandle is alive
          callers,    \* Jobs -> where the call is, or what it returned
          shutting,   \* Shutdowns -> where the call is
          loop,       \* the statement writer_loop is at
          current,    \* the job being processed, or NoJob
          reply,      \* Jobs -> content of the reply channel
          result,     \* Jobs -> content of the result channel
          healthy,    \* the AtomicBool
          accepted,   \* history: the messages in the order they were queued
          ran         \* history: Jobs -> results of the closure's executions

vars == <<queue, connected, handles, callers, shutting, loop, current, reply,
          result, healthy, accepted, ran>>

TypeOK ==
    /\ queue \in Seq(Messages)
    /\ Len(queue) <= QueueSize
    /\ connected \in BOOLEAN
    /\ handles \in BOOLEAN
    /\ callers \in [Jobs -> {"idle"} \cup Active \cup Outcomes]
    /\ shutting \in [Shutdowns -> {"idle", "sending", "done"}]
    /\ loop \in {"recv", "run", "inner", "outerOk", "outerPanic", "ending",
                 "closing", "stopped"}
    /\ current \in Jobs \cup {NoJob}
    /\ reply \in [Jobs -> {NoReply, "ok", "panicErr"}]
    /\ result \in [Jobs -> {NoReply, "ok", "jobErr"}]
    /\ healthy \in BOOLEAN
    /\ accepted \in Seq(Messages)
    /\ ran \in [Jobs -> Seq(Results)]

\* spawn_with_config
Init ==
    /\ queue = <<>>
    /\ connected = TRUE
    /\ handles = TRUE
    /\ callers = [j \in Jobs |-> "idle"]
    /\ shutting = [s \in Shutdowns |-> "idle"]
    /\ loop = "recv"
    /\ current = NoJob
    /\ reply = [j \in Jobs |-> NoReply]
    /\ result = [j \in Jobs |-> NoReply]
    /\ healthy = TRUE
    /\ accepted = <<>>
    /\ ran = [j \in Jobs |-> <<>>]
-----------------------------------------------------------------------------
(***************************************************************************)
(* The caller: WriterHandle::write.                                        *)
(***************************************************************************)
writerVars == <<connected, loop, current, healthy, ran>>

WriteRetries(j) ==
    /\ callers[j] \in {"idle", "timeout"}
    /\ handles
    /\ callers' = [callers EXCEPT ![j] = "sending"]
    /\ UNCHANGED <<writerVars, queue, handles, shutting, reply, result, accepted>>

Write(j) ==
    /\ callers[j] = "idle"
    /\ handles
    /\ callers' = [callers EXCEPT ![j] = "sending"]
    /\ UNCHANGED <<writerVars, queue, handles, shutting, reply, result, accepted>>

HasRoomOffByOne == Len(queue) <= QueueSize
HasRoom == Len(queue) < QueueSize

SendOk(j) ==
    /\ callers[j] = "sending"
    /\ connected
    /\ HasRoom
    /\ queue' = Append(queue, j)
    /\ accepted' = Append(accepted, j)
    /\ callers' = [callers EXCEPT ![j] = "waiting"]
    /\ UNCHANGED <<writerVars, handles, shutting, reply, result>>

\* send_timeout expires on a full queue, or the receiver is gone.
SendErrorRetries == IF ~connected THEN "sending"
                    ELSE IF ~HasRoom THEN "queueFull"
                    ELSE "none"
SendError == IF ~connected THEN "stopped"
             ELSE IF ~HasRoom THEN "queueFull"
             ELSE "none"

SendFails(j) ==
    /\ callers[j] = "sending"
    /\ SendError # "none"
    /\ callers' = [callers EXCEPT ![j] = SendError]
    /\ UNCHANGED <<writerVars, queue, handles, shutting, reply, result, accepted>>

\* An Ok reply leads to the value in the result channel; an Err reply (a
\* panic) is returned as it is.
Returned(j) == IF reply[j] = "ok" THEN result[j] ELSE reply[j]

RecvReply(j) ==
    /\ callers[j] = "waiting"
    /\ reply[j] # NoReply
    /\ callers' = [callers EXCEPT ![j] = Returned(j)]
    /\ reply' = [reply EXCEPT ![j] = NoReply]
    /\ UNCHANGED <<writerVars, queue, handles, shutting, result, accepted>>

\* recv_timeout expires; the job itself stays queued or running.
RecvTimeout(j) ==
    /\ callers[j] = "waiting"
    /\ reply[j] = NoReply
    /\ callers' = [callers EXCEPT ![j] = "timeout"]
    /\ UNCHANGED <<writerVars, queue, handles, shutting, reply, result, accepted>>

\* No message holds a reply sender of job j any more.
SendersGoneForgetsQueue(j) == current # j
SendersGone(j) ==
    /\ current # j
    /\ \A i \in 1..Len(queue) : queue[i] # j

RecvDisconnected(j) ==
    /\ callers[j] = "waiting"
    /\ reply[j] = NoReply
    /\ SendersGone(j)
    /\ callers' = [callers EXCEPT ![j] = "dropped"]
    /\ UNCHANGED <<writerVars, queue, handles, shutting, reply, result, accepted>>
-----------------------------------------------------------------------------
(***************************************************************************)
(* WriterHandle::shutdown: a send without timeout whose error is ignored.  *)
(***************************************************************************)
Shutdown(s) ==
    /\ shutting[s] = "idle"
    /\ handles
    /\ shutting' = [shutting EXCEPT ![s] = "sending"]
    /\ UNCHANGED <<writerVars, queue, handles, callers, reply, result, accepted>>

ShutdownSend(s) ==
    /\ shutting[s] = "sending"
    /\ connected
    /\ HasRoom
    /\ queue' = Append(queue, s)
    /\ accepted' = Append(accepted, s)
    /\ shutting' = [shutting EXCEPT ![s] = "done"]
    /\ UNCHANGED <<writerVars, handles, callers, reply, result>>

ShutdownIgnored(s) ==
    /\ shutting[s] = "sending"
    /\ ~connected
    /\ shutting' = [shutting EXCEPT ![s] = "done"]
    /\ UNCHANGED <<writerVars, queue, accepted, handles, callers, reply, result>>

\* The last WriterHandle is dropped: every call borrows one until it returns.
DropHandles ==
    /\ handles
    /\ \A j \in Jobs : callers[j] \notin Active
    /\ \A s \in Shutdowns : shutting[s] # "sending"
    /\ handles' = FALSE
    /\ UNCHANGED <<writerVars, queue, callers, shutting, reply, result, accepted>>
-----------------------------------------------------------------------------
(***************************************************************************)
(* The writer thread: writer_loop.                                         *)
(***************************************************************************)
callerVars == <<handles, callers, shutting, accepted>>

NextMsgLifo == queue[Len(queue)]
NextMsg == Head(queue)

RecvJobBatches ==
    /\ loop = "recv"
    /\ Len(queue) = QueueSize \/ (queue # <<>> /\ ~handles)
    /\ NextMsg \in Jobs
    /\ current' = NextMsg
    /\ queue' = Tail(queue)
    /\ loop' = "run"
    /\ UNCHANGED <<callerVars, connected, reply, result, healthy, ran>>

RecvJob ==
    /\ loop = "recv"
    /\ queue # <<>>
    /\ NextMsg \in Jobs
    /\ current' = NextMsg
    /\ queue' = Tail(queue)
    /\ loop' = "run"
    /\ UNCHANGED <<callerVars, connected, reply, result, healthy, ran>>

RecvShutdown ==
    /\ loop = "recv"
    /\ queue # <<>>
    /\ NextMsg \in Shutdowns
    /\ queue' = Tail(queue)
    /\ loop' = "ending"
    /\ UNCHANGED <<callerVars, connected, current, reply, result, healthy, ran>>

\* The iteration over rx also ends on an empty queue without senders.
AllSendersGoneUndrained == ~handles
AllSendersGone == queue = <<>> /\ ~handles

RecvClosed ==
    /\ loop = "recv"
    /\ AllSendersGone
    /\ loop' = "ending"
    /\ UNCHANGED <<callerVars, queue, connected, current, reply, result, healthy, ran>>

\* The closure runs under catch_unwind.  A value goes to the result channel
\* unless its receiver is gone; a panic marks the writer unhealthy.
HealthAfterForgets(r) == r # "panicErr"
HealthAfter(r) == healthy /\ r # "panicErr"

RunJob(j, r) ==
    /\ loop = "run"
    /\ current = j
    /\ ran' = [ran EXCEPT ![j] = Append(@, r)]
    /\ result' = IF r # "panicErr" /\ callers[j] = "waiting"
                 THEN [result EXCEPT ![j] = r] ELSE result
    /\ healthy' = HealthAfter(r)
    /\ loop' = IF r = "panicErr" THEN "outerPanic" ELSE "inner"
    /\ UNCHANGED <<callerVars, queue, connected, current, reply>>

\* The reply sent inside the job, on an empty channel: it never blocks.
InnerReply(j) ==
    /\ loop = "inner"
    /\ current = j
    /\ reply' = IF callers[j] = "waiting" THEN [reply EXCEPT ![j] = "ok"] ELSE reply
    /\ loop' = "outerOk"
    /\ UNCHANGED <<callerVars, queue, connected, current, result, healthy, ran>>

\* The reply sent by the loop on the same channel of capacity one: it waits
\* for the caller to take an earlier reply and fails when the caller is gone.
CanReply(j) == callers[j] = "waiting" => reply[j] = NoReply

OuterReply(j) ==
    /\ loop \in {"outerOk", "outerPanic"}
    /\ current = j
    /\ CanReply(j)
    /\ reply' = IF callers[j] = "waiting"
                THEN [reply EXCEPT ![j] = IF loop = "outerOk" THEN "ok" ELSE "panicErr"]
                ELSE reply
    /\ loop' = "recv"
    /\ current' = NoJob
    /\ UNCHANGED <<callerVars, queue, connected, result, healthy, ran>>

\* Leaving the for loop drops rx and every message still queued ...
DropReceiver ==
    /\ loop = "ending"
    /\ loop' = "closing"
    /\ connected' = FALSE
    /\ queue' = <<>>
    /\ UNCHANGED <<callerVars, current, reply, result, healthy, ran>>

\* ... and only then is the writer marked unhealthy.
MarkStopped ==
    /\ loop = "closing"
    /\ loop' = "stopped"
    /\ healthy' = FALSE
    /\ UNCHANGED <<callerVars, queue, connected, current, reply, result, ran>>
-----------------------------------------------------------------------------
CallerStep(j) == SendOk(j) \/ SendFails(j) \/ RecvReply(j) \/ RecvTimeout(j)
                 \/ RecvDisconnected(j)

WriterStep ==
    \/ RecvJob
    \/ RecvShutdown
    \/ RecvClosed
    \/ \E j \in Jobs : \/ \E r \in Results : RunJob(j, r)
                       \/ InnerReply(j)
                       \/ OuterReply(j)
    \/ DropReceiver
    \/ MarkStopped

\* Every call has returned, every handle is gone and the thread has ended.
Done == /\ loop = "stopped"
        /\ ~handles
        /\ UNCHANGED vars

Next ==
    \/ \E j \in Jobs : Write(j) \/ CallerStep(j)
    \/ \E s \in Shutdowns : Shutdown(s) \/ ShutdownSend(s) \/ ShutdownIgnored(s)
    \/ DropHandles
    \/ WriterStep
    \/ Done

Spec == Init /\ [][Next]_vars

\* The OS schedules the writer thread and the callers; closures end (SQLite
\* gives up after busy_timeout).  Nobody is obliged to call or to shut down.
Fairness == /\ WF_vars(WriterStep)
            /\ \A j \in Jobs : WF_vars(CallerStep(j))

FairSpec == Spec /\ Fairness
-----------------------------------------------------------------------------
HasRun(j) == ran[j] # <<>>

\* A closure is never executed twice, whatever its caller was told.
AtMostOnce == \A j \in Jobs : Len(ran[j]) <= 1

\* write() returns the value of an execution that really happened: Ok only
\* after the closure returned Ok, a panic only after a panic.
AnswersAreTrue ==
    \A j \in Jobs : callers[j] \in Results => ran[j] = <<callers[j]>>

\* An error that names a full queue, a stopped writer or a dropped reply
\* channel is final: the closure has not run and never will.  A timeout is the
\* only ambiguous error.
RejectionIsFinal ==
    \A j \in Jobs : callers[j] \in Rejected =>
        /\ ran[j] = <<>>
        /\ current # j
        /\ \A i \in 1..Len(queue) : queue[i] # j

\* Jobs run in the order they entered the queue, none behind a Shutdown: what
\* has run is a prefix of what was accepted.
Fifo ==
    \A a, b \in 1..Len(accepted) :
        (b < a /\ accepted[a] \in Jobs /\ HasRun(accepted[a])) =>
            accepted[b] \in Jobs /\ HasRun(accepted[b])

\* "drains the queue, then stops the writer thread": once the receiver is gone
\* every job accepted before the first Shutdown has run.
DrainedWhenStopped ==
    ~connected =>
        \A a \in 1..Len(accepted) :
            (\A b \in 1..a : accepted[b] \in Jobs) => HasRun(accepted[a])

\* is_healthy: "no panics have occurred".  A caller that was told of a panic
\* never finds the writer healthy again.
PanicIsVisible ==
    \A j \in Jobs : callers[j] = "panicErr" => ~healthy

\* The loop waits for a caller at most until that caller takes its reply or
\* times out: every queued job is eventually executed or dropped by a Shutdown.
QueuedJobsLeave ==
    \A j \in Jobs : (callers[j] = "waiting") ~> (HasRun(j) \/ ~connected)

\* Every call of write() returns.
CallsReturn == \A j \in Jobs : (callers[j] \in Active) ~> (callers[j] \in Outcomes)
=============================================================================
