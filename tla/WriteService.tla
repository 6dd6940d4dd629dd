---------------------------- MODULE WriteService ----------------------------
(***************************************************************************)
(* What the rest of the program may rely on when it calls                  *)
(* StoreHandle::write: each write is applied at most once, in one piece as *)
(* far as other writes can tell, and the answer tells the truth about it,  *)
(* except that a timeout says nothing.                                     *)
(***************************************************************************)
EXTENDS Naturals, Sequences

CONSTANTS Jobs

AppliedAnswers == {"ok", "jobErr", "panicErr"}
RefusedAnswers == {"queueFull", "stopped", "dropped"}

VARIABLES phase,   \* Jobs -> "idle" | "open" | "applied" | "refused"
          effect,  \* Jobs -> how the write ended, "none" until applied
          answer   \* Jobs -> what the caller was told, "none" before

vars == <<phase, effect, answer>>

Init ==
    /\ phase = [j \in Jobs |-> "idle"]
    /\ effect = [j \in Jobs |-> "none"]
    /\ answer = [j \in Jobs |-> "none"]

Submit(j) ==
    /\ phase[j] = "idle"
    /\ phase' = [phase EXCEPT ![j] = "open"]
    /\ UNCHANGED <<effect, answer>>

Apply(j, r) ==
    /\ phase[j] = "open"
    /\ phase' = [phase EXCEPT ![j] = "applied"]
    /\ effect' = [effect EXCEPT ![j] = r]
    /\ UNCHANGED answer

\* A set of open writes is given up for good.
Refuse(S) ==
    /\ \A j \in S : phase[j] = "open"
    /\ phase' = [j \in Jobs |-> IF j \in S THEN "refused" ELSE phase[j]]
    /\ UNCHANGED <<effect, answer>>

\* Refuse one write and say so, in one step.
Reject(j, a) ==
    /\ phase[j] = "open"
    /\ answer[j] = "none"
    /\ phase' = [phase EXCEPT ![j] = "refused"]
    /\ answer' = [answer EXCEPT ![j] = a]
    /\ UNCHANGED effect

Answer(j, a) ==
    /\ phase[j] # "idle"
    /\ answer[j] = "none"
    /\ \/ a \in AppliedAnswers /\ phase[j] = "applied" /\ effect[j] = a
       \/ a \in RefusedAnswers /\ phase[j] = "refused"
       \/ a = "timeout"
    /\ answer' = [answer EXCEPT ![j] = a]
    /\ UNCHANGED <<phase, effect>>

Next ==
    \/ \E j \in Jobs :
        \/ Submit(j)
        \/ \E r \in AppliedAnswers : Apply(j, r)
        \/ \E a \in RefusedAnswers : Reject(j, a)
        \/ \E a \in AppliedAnswers \cup RefusedAnswers \cup {"timeout"} : Answer(j, a)
    \/ \E S \in SUBSET Jobs : Refuse(S)

Spec == Init /\ [][Next]_vars
=============================================================================
