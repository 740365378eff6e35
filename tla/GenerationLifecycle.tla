------------------------- MODULE GenerationLifecycle --------------------------
(***************************************************************************)
(* What the durable lifecycle promises of a generation, whoever writes its  *)
(* row: a turn is live until it pauses or ends; a pause that offers a       *)
(* continuation is left only by Continue (one epoch on) or by ending, one   *)
(* that waits for an approval only by its resume (same epoch) or by ending, *)
(* a blocked one only by ending; a turn asked to stop can only end; an      *)
(* ended turn never comes back; and a conversation has one busy turn.       *)
(* GenerationControl implements this specification.                         *)
(***************************************************************************)
EXTENDS Naturals

CONSTANTS Generations, Conversations, ConversationOf, MaxRoll

VARIABLES phase, epoch

Phases == {"none", "live", "stopping", "offered", "asking", "blocked", "ended"}

Busy(g) == phase[g] \in {"live", "stopping"}

(* No other turn of g's conversation is busy. *)
Free(g) == \A h \in Generations \ {g} :
                ConversationOf[h] = ConversationOf[g] => ~Busy(h)

Init == /\ phase = [g \in Generations |-> "none"]
        /\ epoch = [g \in Generations |-> 0]

Become(g, from, to) == /\ phase[g] \in from
                       /\ phase' = [phase EXCEPT ![g] = to]

Open(g) == Free(g) /\ Become(g, {"none"}, "live") /\ UNCHANGED epoch

AskToStop(g) == Become(g, {"live"}, "stopping") /\ UNCHANGED epoch

PauseAtBudget(g) ==
    /\ Become(g, {"live"}, "offered") \/ Become(g, {"live"}, "blocked")
    /\ \E roll \in 0..MaxRoll : epoch' = [epoch EXCEPT ![g] = @ + roll]

PauseForApproval(g) == Become(g, {"live"}, "asking") /\ UNCHANGED epoch

Continue(g) == /\ Free(g)
               /\ Become(g, {"offered"}, "live")
               /\ epoch' = [epoch EXCEPT ![g] = @ + 1]

ResumeApproved(g) == Free(g) /\ Become(g, {"asking"}, "live") /\ UNCHANGED epoch

(* A departing producer's turns all end in one statement. *)
End(over) ==
    /\ \A g \in over : phase[g] \notin {"none", "ended"}
    /\ phase' = [g \in Generations |-> IF g \in over THEN "ended" ELSE phase[g]]
    /\ UNCHANGED epoch

Next == \/ \E g \in Generations :
               \/ Open(g) \/ AskToStop(g) \/ PauseAtBudget(g) \/ PauseForApproval(g)
               \/ Continue(g) \/ ResumeApproved(g)
        \/ \E over \in SUBSET Generations : End(over)

Spec == Init /\ [][Next]_<<phase, epoch>>

(* One busy turn per conversation. *)
OneBusyTurn ==
    \A g, h \in Generations :
        Busy(g) /\ Busy(h) /\ ConversationOf[g] = ConversationOf[h] => g = h
=============================================================================
