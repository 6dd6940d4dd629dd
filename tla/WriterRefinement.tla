-------------------------- MODULE WriterRefinement --------------------------
(***************************************************************************)
(* The writer actor implements WriteService: the channels, the two replies *)
(* and the timeouts of writer.rs add nothing a caller could tell from an   *)
(* at-most-once write with truthful answers.                               *)
(***************************************************************************)
EXTENDS WriterActor

\* A call is refused once no message for it is left and its closure has not
\* run: never queued, or dropped from the queue with the receiver.
PhaseOf(j) ==
    IF callers[j] = "idle" THEN "idle"
    ELSE IF HasRun(j) THEN "applied"
    ELSE IF callers[j] # "sending" /\ SendersGone(j) THEN "refused"
    ELSE "open"

EffectOf(j) == IF HasRun(j) THEN ran[j][1] ELSE "none"
AnswerOf(j) == IF callers[j] \in Outcomes THEN callers[j] ELSE "none"

WS == INSTANCE WriteService WITH
        phase  <- [j \in Jobs |-> PhaseOf(j)],
        effect <- [j \in Jobs |-> EffectOf(j)],
        answer <- [j \in Jobs |-> AnswerOf(j)]

\* Every step of the actor is a step of the abstract write service or changes
\* nothing it can see.
ImplementsWriteService == WS!Spec
=============================================================================
