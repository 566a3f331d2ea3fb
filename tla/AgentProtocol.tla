---------------------------- MODULE AgentProtocol ----------------------------
(***************************************************************************)
(* The decisions the agent runtime takes from its budget usage and from    *)
(* its action log.  They are pure: the budget ceilings, the repetition and *)
(* exhaustion filters on tool calls, and the no-progress window.           *)
(*                                                                         *)
(* An action record keeps what those decisions read: the fingerprint of    *)
(* the action (a tool call with its argument digest, or an intent kind),   *)
(* the class of its result, whether it produced evidence, and for a failed *)
(* tool call the disposition the host gave the failure.                    *)
(***************************************************************************)
EXTENDS Integers, Sequences, FiniteSets

CONSTANTS Calls  \* fingerprints of tool calls: the tool and its argument digest

\* The budget dimensions, in the order classifyBudgetExhaustion reads them.
Counted == {"calls", "tools", "candidates", "failures", "consecutive", "provider"}
Bytes   == {"input", "output", "payload"}
Dims    == {"wall"} \cup Bytes \cup Counted

Usage == [Dims -> Nat]

NoUsage == [d \in Dims |-> 0]

\* Some dimension reached its ceiling.
BudgetExhausted(policy, usage) == \E d \in Dims : usage[d] >= policy[d]

------------------------------------------------------------------------------
\* Why an investigation, or a campaign, ends.
Reasons == {"COMPLETE_WITH_FINDING", "COMPLETE_NO_FINDING", "BUDGET_EXHAUSTED",
            "CANCELLED", "PAUSED", "SAFETY_BLOCKED", "NO_PROGRESS", "REASONER_FAILURE"}

IntentKinds == {"FORM_HYPOTHESIS", "PROPOSE_CANDIDATE", "REJECT_CANDIDATE",
                "REPLAN", "PAUSE", "CANCEL", "TERMINATE"}

Actions == Calls \cup IntentKinds
                 \cup {"REASONER_CALL", "REASONER_RESPONSE", "BLOCKED", "NO_PROGRESS"}

\* The executor's disposition of a failed call.  DETERMINISTIC_TERMINAL,
\* ENVIRONMENT_BLOCKED and no disposition at all exhaust alike: "TERMINAL".
Dispositions == {"NONE", "TERMINAL", "TRANSIENT"}

Results == {"TOOL_OK", "TOOL_ERROR", "DEDUPED_REPEAT", "CANDIDATE_PROPOSED",
            "CANDIDATE_REJECTED", "RECORDED", "FAILED"}

Record == [action : Actions, result : Results, evidence : BOOLEAN,
           disposition : Dispositions]

RepeatLimit == 3      \* NO_PROGRESS_REPEAT_LIMIT
TransientBudget == 2  \* TRANSIENT_ACTION_RETRY_BUDGET
Window == 6           \* windowSize of detectNoProgress

\* The trailing n records of a log, all of them of one action.
EndsWith(log, action, n) ==
    /\ Len(log) >= n
    /\ \A i \in (Len(log) - n + 1)..Len(log) : log[i].action = action

\* detectRepeatedAction: the log ends with a streak of the same action.
Repeated(log, action) == EndsWith(log, action, RepeatLimit)

\* The executions of an action that failed with the given disposition.
Failures(log, action, disposition) ==
    {i \in DOMAIN log : /\ log[i].action = action
                        /\ log[i].result = "TOOL_ERROR"
                        /\ log[i].disposition = disposition}

Discards(log, action) ==
    {i \in DOMAIN log : log[i].action = action /\ log[i].result = "DEDUPED_REPEAT"}

\* detectExhaustedAction, over the whole log and never a streak.
Exhausted(log, action) ==
    \/ Discards(log, action) # {}
    \/ Failures(log, action, "TERMINAL") # {}
    \/ Cardinality(Failures(log, action, "TRANSIENT")) >= TransientBudget

\* detectNoProgress: the last records are one action over and over, with
\* neither evidence nor a candidate decision among them.
NoProgress(log) ==
    /\ Len(log) >= Window
    /\ EndsWith(log, log[Len(log)].action, Window)
    /\ \A i \in (Len(log) - Window + 1)..Len(log) :
           /\ ~log[i].evidence
           /\ log[i].result \notin {"CANDIDATE_PROPOSED", "CANDIDATE_REJECTED"}

=============================================================================
