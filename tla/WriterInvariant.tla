-------------------------- MODULE WriterInvariant ---------------------------
(***************************************************************************)
(* The inductive invariant behind the safety properties of WriterActor, in *)
(* named parts.  WriterProofs proves it; TLC confirms it on small instances *)
(***************************************************************************)
EXTENDS WriterRefinement

\* How many accepted messages the loop has taken from the queue so far.
Taken == Len(accepted) - Len(queue)

Past(j) == callers[j] \in {"waiting", "timeout", "dropped"} \cup Results

\* A call keeps a handle alive until it returns.
HandlesInv ==
    ~handles => /\ \A j \in Jobs : callers[j] \notin Active
                /\ \A s \in Shutdowns : shutting[s] # "sending"

\* Every call queues its message once, and only then leaves "sending".
AcceptedInv ==
    /\ \A a, b \in 1..Len(accepted) : accepted[a] = accepted[b] => a = b
    /\ \A a \in 1..Len(accepted) :
        /\ accepted[a] \in Jobs => Past(accepted[a])
        /\ accepted[a] \in Shutdowns => shutting[accepted[a]] = "done"
    /\ \A j \in Jobs : Past(j) => \E a \in 1..Len(accepted) : accepted[a] = j

\* The queue is the untaken tail of what was accepted.
QueueInv ==
    /\ Len(queue) <= Len(accepted)
    /\ connected => \A i \in 1..Len(queue) : queue[i] = accepted[Taken + i]
    /\ ~connected => queue = <<>>
    /\ connected <=> loop \notin {"closing", "stopped"}

RanUpTo(n) == \A a \in 1..n : accepted[a] \in Jobs /\ HasRun(accepted[a])

\* What the position of the loop says about the messages taken so far.
LoopInv ==
    /\ current = NoJob <=> loop \in {"recv", "ending", "closing", "stopped"}
    /\ loop \in {"recv", "inner", "outerOk", "outerPanic"} => RanUpTo(Taken)
    /\ loop = "run" => /\ Taken >= 1
                       /\ current = accepted[Taken]
                       /\ ~HasRun(accepted[Taken])
                       /\ RanUpTo(Taken - 1)
    /\ loop = "ending" =>
         \/ Taken >= 1 /\ accepted[Taken] \in Shutdowns /\ RanUpTo(Taken - 1)
         \/ ~handles /\ queue = <<>> /\ RanUpTo(Taken)
    /\ connected => \A a \in (Taken + 1)..Len(accepted) :
                        accepted[a] \in Jobs => ~HasRun(accepted[a])
    /\ \A j \in Jobs :
        /\ loop \in {"inner", "outerOk"} /\ current = j =>
               ran[j] \in {<<"ok">>, <<"jobErr">>}
        /\ loop = "outerPanic" /\ current = j => ran[j] = <<"panicErr">>

\* What a waiting caller will read, and who still owes it a reply.
ReplyInv ==
    \A j \in Jobs :
        /\ HasRun(j) => Past(j)
        /\ ~HasRun(j) => reply[j] = NoReply
        /\ callers[j] = "waiting" =>
            /\ reply[j] = "ok" => ran[j] = <<result[j]>>
            /\ reply[j] = "panicErr" => ran[j] = <<"panicErr">>
            /\ loop = "inner" /\ current = j =>
                   reply[j] = NoReply /\ ran[j] = <<result[j]>>
            /\ loop = "outerOk" /\ current = j => reply[j] = "ok"
            /\ HasRun(j) /\ current # j => reply[j] # NoReply
        /\ callers[j] = "dropped" => ~connected /\ ~HasRun(j)

HealthInv == healthy => \A j \in Jobs : ran[j] # <<"panicErr">>

IInv ==
    /\ TypeOK
    /\ AtMostOnce
    /\ HandlesInv
    /\ AcceptedInv
    /\ QueueInv
    /\ LoopInv
    /\ ReplyInv
    /\ AnswersAreTrue
    /\ HealthInv
    /\ Fifo
    /\ DrainedWhenStopped
=============================================================================
