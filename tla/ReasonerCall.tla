----------------------------- MODULE ReasonerCall -----------------------------
(***************************************************************************)
(* What the agent runtime is promised of one reasoner call: it is answered *)
(* once, the answer is CANCELLED exactly when the call was cancelled       *)
(* before it was answered, and an answer comes whatever the program behind *)
(* the reasoner does.                                                      *)
(***************************************************************************)
CONSTANTS Classes  \* the classes of an answer other than CANCELLED

VARIABLES cancelled,  \* the caller's signal was raised
          answer      \* the class of the answer, or "none"

Init == cancelled \in BOOLEAN /\ answer = "none"

Cancel == ~cancelled /\ cancelled' = TRUE /\ UNCHANGED answer

Answer ==
    /\ answer = "none"
    /\ answer' \in IF cancelled THEN {"CANCELLED"} ELSE Classes
    /\ UNCHANGED cancelled

Next == Cancel \/ Answer

Spec == Init /\ [][Next]_<<cancelled, answer>> /\ WF_<<cancelled, answer>>(Answer)
===============================================================================
