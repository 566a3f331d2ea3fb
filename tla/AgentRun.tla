------------------------------- MODULE AgentRun -------------------------------
(***************************************************************************)
(* What the campaign relies on from one agent run: it is started, it ends  *)
(* for a reason, a pause and an exhausted budget always leave a checkpoint *)
(* to continue from, a completion, a cancel or a refusal never does, and   *)
(* an instance that ended for good stays so.                               *)
(***************************************************************************)

CONSTANTS Reasons,  \* termination reasons
          None      \* no reason

VARIABLES status,  \* READY, RUNNING, PAUSED or TERMINATED
          reason,  \* why the last run ended
          stored   \* a checkpoint exists

vars == <<status, reason, stored>>

\* A run that ends for one of these always returns a checkpoint, ...
Resumable == {"PAUSED", "BUDGET_EXHAUSTED"}

\* ... for this one it may, and for the others it never does.
Maybe == {"REASONER_FAILURE"}

Init == status = "READY" /\ reason = None /\ stored = FALSE

Begin == /\ status # "TERMINATED"
         /\ status' = "RUNNING"
         /\ UNCHANGED <<reason, stored>>

End(r) == /\ status # "TERMINATED"
          /\ reason' = r
          /\ status' = IF r = "PAUSED" THEN "PAUSED" ELSE "TERMINATED"
          /\ \/ r \in Resumable \cup Maybe /\ stored' = TRUE
             \/ r \notin Resumable /\ UNCHANGED stored

\* A pause is withdrawn.
Continue == /\ status = "PAUSED"
            /\ status' = "READY" /\ reason' = None
            /\ UNCHANGED stored

\* A checkpoint on request.
Keep == stored' = TRUE /\ UNCHANGED <<status, reason>>

\* A new instance takes over from a checkpoint.
Renew == /\ stored
         /\ status' = "READY" /\ reason' = None
         /\ UNCHANGED stored

Next == Begin \/ (\E r \in Reasons : End(r)) \/ Continue \/ Keep \/ Renew

Spec == Init /\ [][Next]_vars

=============================================================================
