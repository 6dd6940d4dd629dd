---------------------------- MODULE MCMemoryRows ----------------------------
(* Two paraphrases of one fact and a text about something else. *)
EXTENDS MemoryRows

CONSTANTS a1, a2, b

MCTexts == {a1, a2, b}
MCTopic == [t \in MCTexts |-> IF t = b THEN "B" ELSE "A"]
=============================================================================
