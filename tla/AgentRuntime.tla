----------------------------- MODULE AgentRuntime -----------------------------
(***************************************************************************)
(* One agent investigation: a loop that asks a reasoner for intents,       *)
(* applies them, charges every call to a budget and stops for one of eight *)
(* reasons.  The program runs on an event loop, so the code between two    *)
(* awaits is one or a few steps nothing interleaves with, and an operator  *)
(* acts only while the loop awaits the reasoner, a tool or a backoff, or   *)
(* while no run is active.                                                 *)
(*                                                                         *)
(* Request, response and payload sizes are chosen from small sets; a       *)
(* response has a size in bytes, which the host sees, and in tokens, which *)
(* the provider bills; its intents are chosen when they are applied.       *)
(***************************************************************************)
EXTENDS AgentProtocol

CONSTANTS None,         \* no outcome, reason, call or checkpoint
          Candidates,   \* candidate ids
          Policy,       \* the budget ceilings
          MaxTurns,     \* turns of one instance
          MaxIntents,   \* intents of one response
          MaxLives,     \* bound: runs and restores in a behaviour
          Requests,     \* sizes of a rendered request
          Responses,    \* sizes of a reasoner's response, in bytes and tokens
          Payloads,     \* sizes of a tool result
          Elapsed,      \* wall time one await may take
          Metered,      \* a spend ceiling is declared
          MaxSpend,     \* the ceiling
          OutputBound,  \* tokens a call may generate
          TokensPerByte, \* the most tokens a byte may stand for
          InputPrice,   \* of a token
          OutputPrice,
          Commands,     \* what the operator may do
          CallOutcomes, \* how a reasoner call may end
          Intents,      \* the intents a reasoner may answer with
          Verdicts,     \* the reasons it may terminate with
          ToolOutcomes  \* how a tool call may end

ASSUME SizesAssumption ==
    /\ Policy \in [Dims -> Nat]
    /\ MaxTurns \in Nat /\ MaxIntents \in Nat /\ MaxLives \in Nat
    /\ Requests \subseteq Nat /\ Payloads \subseteq Nat /\ Elapsed \subseteq Nat
    /\ Responses \subseteq [bytes : Nat, tokens : Nat]
    /\ Metered \in BOOLEAN /\ MaxSpend \in Nat /\ OutputBound \in Nat
    /\ TokensPerByte \in Nat /\ InputPrice \in Nat /\ OutputPrice \in Nat
    /\ Intents \subseteq Calls \cup IntentKinds /\ Verdicts \subseteq Reasons

Phases == <<"PLAN", "OBSERVE", "ANALYZE", "HYPOTHESIZE", "VERIFY", "TRIAGE", "REPLAN">>

VARIABLES
    pc,               \* the await, or the step of the loop, the run is at
    status,           \* READY, RUNNING, PAUSED or TERMINATED
    terminationReason,
    phase,            \* index of the current phase
    usage, ledger,    \* the charged budget, and the components explaining it
    actionLog, candidateIds,
    turnBase,         \* turns completed before this instance
    turnsThisRun,     \* turns completed by this instance
    wallBase, elapsed, \* wall time before this run, and of this run
    pausedRequested, cancelled,
    runAbort,         \* the abort signal: none, armed, aborted, or dead for a
                      \*   call that was dispatched with it already aborted
    outcome,          \* what the current turn decided, if it ends the run
    intentsLeft, replanned, toolCall,
    pending,          \* tool results that wait for the next request
    checkpoint,       \* the last checkpoint document produced
    \* history: runs and restores so far, and on the line of checkpoints that
    \* leads to this instance, what happened, and what had at the checkpoint
    lives,
    moved,            \* bytes sent, received and returned
    billed,           \* the provider's bill
    failed,           \* executions of a call that failed
    keptLine

control  == <<pc, status, terminationReason, outcome, runAbort>>
charged  == <<usage, ledger>>
turn     == <<intentsLeft, replanned, toolCall, pending>>
progress == <<phase, actionLog, candidateIds, turnBase, turnsThisRun>>
operator == <<pausedRequested, cancelled>>
line     == <<moved, billed, failed>>
history  == <<lives, line, keptLine>>
vars == <<control, charged, turn, progress, operator, history,
          wallBase, elapsed, checkpoint>>

Ledger == [{"rendered", "response", "toolResult"} -> Nat]

Documents == [turns : Nat, phase : 1..Len(Phases), actionLog : Seq(Record),
              candidateIds : SUBSET Candidates, usage : Usage, ledger : Ledger]

ASSUME NoneAssumption == None \notin Documents

\* History: what happened on the line so far.
Lines == [moved : Ledger, billed : Nat,
          failed : [Calls -> [{"TERMINAL", "TRANSIENT"} -> Nat]]]

SoFar == [moved |-> moved, billed |-> billed, failed |-> failed]

PendingCap == 8  \* PENDING_UNTRUSTED_CAP

Stop(reason, kept) == [reason |-> reason, kept |-> kept]
Outcomes == [reason : Reasons, kept : BOOLEAN]

Awaits == {"calling", "backoff", "tool"}
Places == Awaits \cup {"idle", "top", "applying", "boundary"}

\* Nothing but the event loop's own code runs at the other places.
Interruptible == pc \in Awaits \cup {"idle"}

NoBytes == [rendered |-> 0, response |-> 0, toolResult |-> 0]

\* A checkpoint document for the given completed turns of this instance.
Document(turns, log, used) ==
    [turns |-> turnBase + turns, phase |-> phase, actionLog |-> log,
     candidateIds |-> candidateIds, usage |-> used, ledger |-> ledger]

Rec(action, result, evidence, disposition) ==
    [action |-> action, result |-> result, evidence |-> evidence,
     disposition |-> disposition]

Note(action, result) == Rec(action, result, FALSE, "NONE")

Logged(record) == actionLog' = Append(actionLog, record)

Init == /\ pc = "idle" /\ status = "READY" /\ terminationReason = None
        /\ outcome = None /\ runAbort = "none"
        /\ usage = NoUsage /\ ledger = NoBytes
        /\ intentsLeft = 0 /\ replanned = FALSE /\ toolCall = None
        /\ phase = 1 /\ actionLog = <<>> /\ candidateIds = {}
        /\ turnBase = 0 /\ turnsThisRun = 0
        /\ pausedRequested = FALSE /\ cancelled = FALSE
        /\ wallBase = 0 /\ elapsed = 0
        /\ pending = 0 /\ checkpoint = None
        /\ lives = 0 /\ moved = NoBytes /\ billed = 0
        /\ failed = [call \in Calls |-> [d \in {"TERMINAL", "TRANSIENT"} |-> 0]]
        /\ keptLine = SoFar

------------------------------------------------------------------------------
(* The loop around the turns *)

\* refreshWallTime.
Refreshed(used) == [used EXCEPT !.wall = wallBase + elapsed]

RestingStatus(reason) == IF reason = "PAUSED" THEN "PAUSED" ELSE "TERMINATED"

\* Mutant: the document is made before the wall clock is read.
FinalDocumentStale(turns, log) == Document(turns, log, usage)

\* The checkpoint a run ends with.
FinalDocument(turns, log) == Document(turns, log, Refreshed(usage))

\* finish: the run ends with the given completed turns and log.
Finish(stop, turns, log) ==
    /\ terminationReason' = stop.reason
    /\ status' = RestingStatus(stop.reason)
    /\ usage' = Refreshed(usage)
    /\ turnsThisRun' = turns
    /\ actionLog' = log
    /\ IF stop.kept THEN checkpoint' = FinalDocument(turns, log) /\ keptLine' = SoFar
                    ELSE UNCHANGED <<checkpoint, keptLine>>
    /\ pc' = "idle" /\ runAbort' = "none" /\ outcome' = None
    /\ UNCHANGED <<ledger, turn, phase, candidateIds, turnBase, operator, lives, line,
                   wallBase, elapsed>>

Halt(reason, kept) == Finish(Stop(reason, kept), turnsThisRun, actionLog)

\* run() of an instance that is not terminated.  An instance left RUNNING by
\* a tool that threw is run again like any other.
Run == /\ pc = "idle" /\ status # "TERMINATED" /\ ~cancelled
       /\ lives < MaxLives
       /\ lives' = lives + 1
       /\ status' = "RUNNING"
       /\ elapsed' = 0
       /\ runAbort' = "armed"
       /\ pc' = "top"
       /\ UNCHANGED <<terminationReason, outcome, charged, turn, progress, operator,
                      line, keptLine, wallBase, checkpoint>>

RunCancelled == /\ pc = "idle" /\ status # "TERMINATED" /\ cancelled
                /\ Halt("CANCELLED", FALSE)

StopCancelled == pc = "top" /\ cancelled /\ Halt("CANCELLED", FALSE)

StopPaused == pc = "top" /\ ~cancelled /\ pausedRequested /\ Halt("PAUSED", TRUE)

Spent(used) == BudgetExhausted(Policy, used)

StopExhausted == /\ pc = "top" /\ ~cancelled /\ ~pausedRequested
                 /\ Spent(Refreshed(usage))
                 /\ Halt("BUDGET_EXHAUSTED", TRUE)

TurnDue == /\ pc = "top" /\ ~cancelled /\ ~pausedRequested
           /\ ~Spent(Refreshed(usage))

StopTurnLimit == /\ TurnDue /\ turnsThisRun >= MaxTurns
                 /\ Halt("NO_PROGRESS", FALSE)

\* The end of a turn, with the turn counted: what it decided, then the
\* budget, then the no-progress window, then another turn.
Boundary == pc = "boundary"

FinishTurn == /\ Boundary /\ outcome # None
              /\ Finish(outcome, turnsThisRun + 1, actionLog)

FinishExhausted == /\ Boundary /\ outcome = None /\ Spent(Refreshed(usage))
                   /\ Finish(Stop("BUDGET_EXHAUSTED", TRUE), turnsThisRun + 1, actionLog)

GoesOn == Boundary /\ outcome = None /\ ~Spent(Refreshed(usage))

FinishNoProgress ==
    /\ GoesOn /\ NoProgress(actionLog)
    /\ Finish(Stop("NO_PROGRESS", FALSE), turnsThisRun + 1,
              Append(actionLog, Note("NO_PROGRESS", "FAILED")))

NextTurn == /\ GoesOn /\ ~NoProgress(actionLog)
            /\ turnsThisRun' = turnsThisRun + 1
            /\ usage' = Refreshed(usage)
            /\ pc' = "top"
            /\ UNCHANGED <<status, terminationReason, outcome, runAbort, ledger, turn,
                           phase, actionLog, candidateIds, turnBase, operator,
                           history, wallBase, elapsed, checkpoint>>

------------------------------------------------------------------------------
(* One turn: the request *)

\* A volume of bytes counts as the most tokens it may stand for.
Tokens(bytes) == bytes * TokensPerByte

\* committedSpendUsd, from the ledger.
Committed(charges) ==
    Tokens(charges.rendered) * InputPrice + Tokens(charges.response) * OutputPrice

\* worstCaseCallCostUsd: the request, and all the tokens the call may generate.
WorstCase(request) == Tokens(request) * InputPrice + OutputBound * OutputPrice

\* Mutant: each call is admitted on its own.
AdmittedAlone(request) == Metered => WorstCase(request) <= MaxSpend

\* admitProviderCall: what is committed and the worst case of this call.
Admitted(request) == Metered => Committed(ledger) + WorstCase(request) <= MaxSpend

\* The call was made with the abort signal already set.
SignalAtDispatch == IF runAbort = "aborted" THEN "dead" ELSE runAbort

\* The request is rendered with the pending tool results, admitted, charged as
\* input and dispatched.  Its tokens are billed at the most they may be.
Dispatch(request) ==
    /\ TurnDue /\ turnsThisRun < MaxTurns
    /\ Admitted(request)
    /\ ledger' = [ledger EXCEPT !.rendered = @ + request]
    /\ usage' = [Refreshed(usage) EXCEPT !.input = ledger'.rendered]
    /\ pending' = 0
    /\ moved' = [moved EXCEPT !.rendered = @ + request]
    /\ billed' = billed + Tokens(request) * InputPrice
    /\ runAbort' = SignalAtDispatch
    /\ pc' = "calling"
    /\ UNCHANGED <<status, terminationReason, outcome, intentsLeft, replanned, toolCall,
                   progress, operator, lives, failed, keptLine, wallBase, elapsed, checkpoint>>

\* A turn that ends the run: the rest of it is skipped.
Decide(stop) == outcome' = stop /\ pc' = "boundary"

\* The request was rendered, with the pending results, and is not dispatched.
RefuseSpend(request) ==
    /\ TurnDue /\ turnsThisRun < MaxTurns
    /\ ~Admitted(request)
    /\ Logged(Note("BLOCKED", "FAILED"))
    /\ usage' = Refreshed(usage)
    /\ pending' = 0
    /\ Decide(Stop("BUDGET_EXHAUSTED", TRUE))
    /\ UNCHANGED <<status, terminationReason, runAbort, ledger, intentsLeft, replanned,
                   toolCall, phase, candidateIds, turnBase, turnsThisRun, operator,
                   history, wallBase, elapsed, checkpoint>>

------------------------------------------------------------------------------
(* One turn: the call returns *)

Failed(used) == [used EXCEPT !.failures = @ + 1, !.consecutive = @ + 1]

ProviderFailed(used) == [Failed(used) EXCEPT !.provider = @ + 1]

\* An abort that was already set is answered by CANCELLED and nothing else;
\* one that arrives during the call may come too late to change its outcome.
Answers(how) == /\ pc = "calling"
                /\ how \in CallOutcomes
                /\ IF how = "CANCELLED" THEN runAbort \in {"aborted", "dead"}
                                        ELSE runAbort # "dead"

\* The bytes of the response are charged as output and the call counted.
Received(used, response) ==
    /\ ledger' = [ledger EXCEPT !.response = @ + response.bytes]
    /\ usage' = [used EXCEPT !.calls = @ + 1, !.output = ledger'.response]
    /\ moved' = [moved EXCEPT !.response = @ + response.bytes]
    /\ billed' = billed + response.tokens * OutputPrice

CallReturned == /\ \E d \in Elapsed : elapsed' = elapsed + d
                /\ UNCHANGED <<status, terminationReason, runAbort, phase, candidateIds,
                               turnBase, turnsThisRun, operator, lives, failed,
                               keptLine, wallBase, checkpoint, toolCall, pending>>

\* The driver rejected its promise after a cancel.
CallAbandoned ==
    /\ Answers("THROW") /\ cancelled
    /\ Decide(Stop("CANCELLED", FALSE))
    /\ CallReturned
    /\ UNCHANGED <<charged, moved, billed, intentsLeft, replanned, actionLog>>

\* It rejected its promise: neither a call nor an output byte is counted.
CallThrows ==
    /\ Answers("THROW") /\ ~cancelled
    /\ usage' = ProviderFailed(usage)
    /\ Logged(Note("REASONER_CALL", "FAILED"))
    /\ pc' = "backoff"
    /\ CallReturned
    /\ UNCHANGED <<ledger, moved, billed, outcome, intentsLeft, replanned>>

\* A failed call, whatever failed it: a provider, or the operator's abort.
CallFails(how, response) ==
    /\ how \in {"TRANSIENT", "PERMANENT", "CANCELLED"}
    /\ Answers(how)
    /\ how = "CANCELLED" /\ runAbort = "dead" => response.bytes = 0
    /\ Received(ProviderFailed(usage), response)
    /\ Logged(Note("REASONER_CALL", "FAILED"))
    /\ IF how = "PERMANENT" THEN Decide(Stop("REASONER_FAILURE", TRUE))
                            ELSE pc' = "backoff" /\ UNCHANGED outcome
    /\ CallReturned
    /\ UNCHANGED <<intentsLeft, replanned>>

\* The response asks for something unsafe, unknown or not authorized.
CallUnsafe(response) ==
    /\ Answers("UNSAFE")
    /\ Received(usage, response)
    /\ Logged(Note("BLOCKED", "FAILED"))
    /\ Decide(Stop("SAFETY_BLOCKED", FALSE))
    /\ CallReturned
    /\ UNCHANGED <<intentsLeft, replanned>>

\* The response is malformed: a failure, but not the provider's.
CallMalformed(response) ==
    /\ Answers("MALFORMED")
    /\ Received(Failed(usage), response)
    /\ Logged(Note("REASONER_RESPONSE", "FAILED"))
    /\ Decide(Stop("REASONER_FAILURE", TRUE))
    /\ CallReturned
    /\ UNCHANGED <<intentsLeft, replanned>>

\* A valid response: the failure streak ends and its intents are applied.
CallAccepted(response) ==
    /\ Answers("ACCEPTED")
    /\ Received([usage EXCEPT !.consecutive = 0], response)
    /\ intentsLeft' \in 1..MaxIntents
    /\ replanned' = FALSE
    /\ pc' = "applying"
    /\ CallReturned
    /\ UNCHANGED <<outcome, actionLog>>

\* Mutant: a backoff ends only when no pause is pending.
BackoffEndsUnpaused ==
    /\ pc = "backoff" /\ ~pausedRequested
    /\ \E d \in Elapsed : elapsed' = elapsed + d
    /\ pc' = "boundary"
    /\ UNCHANGED <<status, terminationReason, outcome, runAbort, charged, turn,
                   progress, operator, history, wallBase, checkpoint>>

\* The backoff is not interrupted by an abort; the failed turn then ends.
BackoffEnds ==
    /\ pc = "backoff"
    /\ \E d \in Elapsed : elapsed' = elapsed + d
    /\ pc' = "boundary"
    /\ UNCHANGED <<status, terminationReason, outcome, runAbort, charged, turn,
                   progress, operator, history, wallBase, checkpoint>>

------------------------------------------------------------------------------
(* One turn: the intents *)

Applying == pc = "applying" /\ intentsLeft > 0

\* Mutant: the budget is looked at between turns only.
AfterIntentUnchecked(used) == pc' = "applying" /\ outcome' = outcome

\* Between two intents the budget decides, with the wall clock not refreshed;
\* the intents that are left are dropped when it ran out.
AfterIntent(used) ==
    IF Spent(used) THEN Decide(Stop("BUDGET_EXHAUSTED", TRUE))
                   ELSE pc' = "applying" /\ UNCHANGED outcome

IntentApplied == /\ intentsLeft' = intentsLeft - 1
                 /\ UNCHANGED <<status, terminationReason, runAbort, phase, turnBase,
                                turnsThisRun, operator, history, wallBase, checkpoint,
                                pending>>

Filtered(call) == Repeated(actionLog, call) \/ Exhausted(actionLog, call)

DiscardTool(call) ==
    /\ Applying /\ call \in Intents /\ Filtered(call)
    /\ Logged(Note(call, "DEDUPED_REPEAT"))
    /\ AfterIntent(usage)
    /\ IntentApplied
    /\ UNCHANGED <<charged, replanned, toolCall, candidateIds, elapsed>>

ExecuteTool(call) ==
    /\ Applying /\ call \in Intents /\ ~Filtered(call)
    /\ toolCall' = call
    /\ pc' = "tool"
    /\ IntentApplied
    /\ UNCHANGED <<charged, outcome, replanned, actionLog, candidateIds, elapsed>>

Succeeded(how) == how \in {"OK", "EVIDENCE"}

\* Mutant: the totals are computed anew after a success only.
ToolChargedOnSuccess(how, charges) ==
    IF Succeeded(how) THEN [usage EXCEPT !.tools = @ + 1, !.output = charges.response,
                                         !.payload = charges.toolResult]
                      ELSE [Failed(usage) EXCEPT !.tools = @ + 1]

\* The call is counted, and the totals are computed anew from the ledger.
ToolCharged(how, charges) ==
    [(IF Succeeded(how) THEN usage ELSE Failed(usage))
        EXCEPT !.tools = @ + 1, !.output = charges.response, !.payload = charges.toolResult]

ToolRecord(how) ==
    CASE how = "OK"        -> Rec(toolCall, "TOOL_OK", FALSE, "NONE")
      [] how = "EVIDENCE"  -> Rec(toolCall, "TOOL_OK", TRUE, "NONE")
      [] how = "TRANSIENT" -> Rec(toolCall, "TOOL_ERROR", FALSE, "TRANSIENT")
      [] how = "TERMINAL"  -> Rec(toolCall, "TOOL_ERROR", FALSE, "TERMINAL")

\* A result waits, with what it says, for the next request; of many the oldest
\* are dropped.
ToolReturns(how, payload) ==
    /\ pc = "tool"
    /\ how \in {"OK", "EVIDENCE", "TRANSIENT", "TERMINAL"}
    /\ \E d \in Elapsed : elapsed' = elapsed + d
    /\ ledger' = [ledger EXCEPT !.toolResult = @ + payload]
    /\ usage' = ToolCharged(how, ledger')
    /\ pending' = IF pending < PendingCap THEN pending + 1 ELSE pending
    /\ Logged(ToolRecord(how))
    /\ moved' = [moved EXCEPT !.toolResult = @ + payload]
    /\ failed' = IF Succeeded(how) THEN failed
                                   ELSE [failed EXCEPT ![toolCall][how] = @ + 1]
    /\ toolCall' = None
    /\ AfterIntent(usage')
    /\ UNCHANGED <<status, terminationReason, runAbort, intentsLeft, replanned, phase,
                   candidateIds, turnBase, turnsThisRun, operator, lives, billed,
                   keptLine, wallBase, checkpoint>>

\* The executor rejected: run() rejects, and the instance stays RUNNING with
\* its turn not counted.
ToolThrows ==
    /\ pc = "tool"
    /\ toolCall' = None
    /\ pc' = "idle" /\ runAbort' = "none"
    /\ intentsLeft' = 0
    /\ \E d \in Elapsed : elapsed' = elapsed + d
    /\ UNCHANGED <<status, terminationReason, outcome, charged, replanned, pending,
                   progress, operator, history, wallBase, checkpoint>>

\* A hypothesis is formed, with or without evidence, or is a duplicate.
FormHypothesis ==
    /\ Applying /\ "FORM_HYPOTHESIS" \in Intents
    /\ \E evidence \in BOOLEAN : Logged(Rec("FORM_HYPOTHESIS", "RECORDED", evidence, "NONE"))
    /\ AfterIntent(usage)
    /\ IntentApplied
    /\ UNCHANGED <<charged, replanned, toolCall, candidateIds, elapsed>>

\* Every proposal counts against the cap, a known candidate's too.  One without
\* evidence never gets here: its whole response is malformed (validate.ts:141).
ProposeCandidate(candidate) ==
    /\ Applying /\ "PROPOSE_CANDIDATE" \in Intents
    /\ candidateIds' = candidateIds \cup {candidate}
    /\ usage' = [usage EXCEPT !.candidates = @ + 1]
    /\ Logged(Rec("PROPOSE_CANDIDATE", "CANDIDATE_PROPOSED", TRUE, "NONE"))
    /\ AfterIntent(usage')
    /\ IntentApplied
    /\ UNCHANGED <<ledger, replanned, toolCall, elapsed>>

\* A rejection frees the id, never the count.
RejectCandidate(candidate) ==
    /\ Applying /\ "REJECT_CANDIDATE" \in Intents
    /\ candidateIds' = candidateIds \ {candidate}
    /\ Logged(Note("REJECT_CANDIDATE", "CANDIDATE_REJECTED"))
    /\ AfterIntent(usage)
    /\ IntentApplied
    /\ UNCHANGED <<charged, replanned, toolCall, elapsed>>

\* The one intent after which the budget is not looked at.
Replan ==
    /\ Applying /\ "REPLAN" \in Intents
    /\ replanned' = TRUE
    /\ Logged(Note("REPLAN", "RECORDED"))
    /\ IntentApplied
    /\ UNCHANGED <<pc, outcome, charged, toolCall, candidateIds, elapsed>>

\* The reasoner ends the run: it pauses, cancels, or terminates for a reason.
Steers(intent, stop) ==
    /\ Applying /\ intent \in Intents
    /\ Logged(Note(intent, "RECORDED"))
    /\ Decide(stop)
    /\ IntentApplied
    /\ UNCHANGED <<charged, replanned, toolCall, candidateIds, elapsed>>

PauseIntent == Steers("PAUSE", Stop("PAUSED", TRUE))

CancelIntent == Steers("CANCEL", Stop("CANCELLED", FALSE))

\* Mutant: only an exhausted budget leaves a checkpoint.
TerminateIntentUnkept(reason) ==
    Steers("TERMINATE", Stop(reason, reason = "BUDGET_EXHAUSTED"))

TerminateIntent(reason) ==
    Steers("TERMINATE", Stop(reason, reason \in {"BUDGET_EXHAUSTED", "PAUSED"}))

IntentsDone ==
    /\ pc = "applying" /\ intentsLeft = 0
    /\ phase' = IF replanned THEN 1 ELSE (phase % Len(Phases)) + 1
    /\ pc' = "boundary"
    /\ UNCHANGED <<status, terminationReason, outcome, runAbort, charged, turn,
                   actionLog, candidateIds, turnBase, turnsThisRun, operator, history,
                   wallBase, elapsed, checkpoint>>

------------------------------------------------------------------------------
(* The operator, and the process around the instance *)

Pause == /\ "PAUSE" \in Commands /\ Interruptible
         /\ pausedRequested' = TRUE
         /\ runAbort' = IF runAbort = "armed" THEN "aborted" ELSE runAbort
         /\ UNCHANGED <<pc, status, terminationReason, outcome, charged, turn, progress,
                        cancelled, history, wallBase, elapsed, checkpoint>>

Resumable == status = "PAUSED"

Resume == /\ "RESUME" \in Commands /\ Interruptible
          /\ pausedRequested' = FALSE
          /\ IF Resumable THEN status' = "READY" /\ terminationReason' = None
                          ELSE UNCHANGED <<status, terminationReason>>
          /\ UNCHANGED <<pc, outcome, runAbort, charged, turn, progress, cancelled,
                         history, wallBase, elapsed, checkpoint>>

Cancel == /\ "CANCEL" \in Commands /\ Interruptible
          /\ cancelled' = TRUE
          /\ runAbort' = IF runAbort = "armed" THEN "aborted" ELSE runAbort
          /\ UNCHANGED <<pc, status, terminationReason, outcome, charged, turn, progress,
                         pausedRequested, history, wallBase, elapsed, checkpoint>>

\* checkpoint(): a document at any await; the wall clock is not refreshed.
TakeCheckpoint ==
    /\ "CHECKPOINT" \in Commands /\ Interruptible
    /\ checkpoint' = Document(turnsThisRun, actionLog, usage) /\ keptLine' = SoFar
    /\ UNCHANGED <<control, charged, turn, progress, operator, lives, line, wallBase, elapsed>>

\* The ledger explains the totals.
Reconciles(used, charges) == /\ used.input = charges.rendered
                             /\ used.output = charges.response
                             /\ used.payload = charges.toolResult

\* Mutant: the log of the new instance is empty.
RestoredLogEmpty(document) == <<>>

RestoredLog(document) == document.actionLog

\* The instance is gone, by a crash or because it ended, and a new one is
\* made from the last checkpoint, if parseCheckpoint accepts it.  The tool
\* results that waited for a request are gone with the instance, and the wall
\* clock goes on from the checkpoint's.
Restore ==
    /\ "RESTORE" \in Commands /\ Interruptible
    /\ checkpoint # None /\ lives < MaxLives
    /\ Reconciles(checkpoint.usage, checkpoint.ledger)
    /\ lives' = lives + 1
    /\ pc' = "idle" /\ status' = "READY" /\ terminationReason' = None
    /\ outcome' = None /\ runAbort' = "none"
    /\ intentsLeft' = 0 /\ replanned' = FALSE /\ toolCall' = None /\ pending' = 0
    /\ pausedRequested' = FALSE /\ cancelled' = FALSE
    /\ phase' = checkpoint.phase
    /\ actionLog' = RestoredLog(checkpoint)
    /\ candidateIds' = checkpoint.candidateIds
    /\ usage' = checkpoint.usage
    /\ ledger' = checkpoint.ledger
    /\ turnBase' = checkpoint.turns /\ turnsThisRun' = 0
    /\ wallBase' = checkpoint.usage.wall /\ elapsed' = 0
    /\ moved' = keptLine.moved /\ billed' = keptLine.billed
    /\ failed' = keptLine.failed
    /\ UNCHANGED <<checkpoint, keptLine>>

------------------------------------------------------------------------------
Loop == \/ StopCancelled \/ StopPaused \/ StopExhausted \/ StopTurnLimit
        \/ FinishTurn \/ FinishExhausted \/ FinishNoProgress \/ NextTurn

Ask == \E request \in Requests : Dispatch(request) \/ RefuseSpend(request)

Answer == \/ CallAbandoned \/ CallThrows
          \/ \E response \in Responses :
                \/ \E how \in CallOutcomes : CallFails(how, response)
                \/ CallUnsafe(response)
                \/ CallMalformed(response)
                \/ CallAccepted(response)

UseTool == \/ \E call \in Calls : DiscardTool(call) \/ ExecuteTool(call)
           \/ \E how \in ToolOutcomes, payload \in Payloads : ToolReturns(how, payload)
           \/ "THROW" \in ToolOutcomes /\ ToolThrows

Apply == \/ FormHypothesis
         \/ \E candidate \in Candidates : ProposeCandidate(candidate) \/ RejectCandidate(candidate)
         \/ Replan \/ PauseIntent \/ CancelIntent
         \/ \E reason \in Verdicts : TerminateIntent(reason)
         \/ IntentsDone

\* Everything the loop itself does, the answers it awaits included.
Step == Loop \/ Ask \/ Answer \/ BackoffEnds \/ UseTool \/ Apply

Operate == Pause \/ Resume \/ Cancel \/ TakeCheckpoint

Next == Run \/ RunCancelled \/ Step \/ Operate \/ Restore

Spec == Init /\ [][Next]_vars

\* A reasoner call ends at its timeout, a backoff at its timer, and the
\* executor answers every call.
FairSpec == Spec /\ WF_vars(Step)

------------------------------------------------------------------------------
(* Properties *)

StateOK ==
    /\ pc \in Places
    /\ status \in {"READY", "RUNNING", "PAUSED", "TERMINATED"}
    /\ terminationReason \in Reasons \cup {None}
    /\ outcome \in Outcomes \cup {None}
    /\ runAbort \in {"none", "armed", "aborted", "dead"}
    /\ usage \in Usage
    /\ ledger \in Ledger
    /\ checkpoint \in Documents \cup {None}
    /\ phase \in 1..Len(Phases)
    /\ actionLog \in Seq(Record)
    /\ candidateIds \subseteq Candidates
    /\ turnBase \in Nat /\ turnsThisRun \in Nat /\ wallBase \in Nat /\ elapsed \in Nat
    /\ intentsLeft \in Nat /\ lives \in Nat
    /\ replanned \in BOOLEAN /\ pausedRequested \in BOOLEAN /\ cancelled \in BOOLEAN
    /\ toolCall \in Calls \cup {None}
    /\ pending \in Nat

HistoryOK == SoFar \in Lines /\ keptLine \in Lines

\* Every variable keeps its type.  About the state of the AgentRuntime class,
\* its checkpoints and its actionLog, and about the history.
TypeOK == StateOK /\ HistoryOK

\* What was sent, received and returned is charged, each byte once and in its
\* own dimension, and the ledger explains the totals, which is what
\* parseCheckpoint demands; of this instance, and of the one its last
\* checkpoint would be restored to.
BytesChargedOnce ==
    /\ Reconciles(usage, ledger) /\ ledger = moved
    /\ checkpoint # None => /\ Reconciles(checkpoint.usage, checkpoint.ledger)
                            /\ checkpoint.ledger = keptLine.moved

\* No counted dimension ever passes its ceiling, over every run, pause and
\* restore: the checks between intents and between turns leave no gap.
CountsWithinCeiling == \A d \in Counted : usage[d] <= Policy[d]

\* If no response has more tokens than the bound, nor more than its bytes may
\* stand for, the provider's bill stays within the declared spend, on every
\* line of checkpoints.  Admission looks at bytes only.
BilledWithinCeiling == Metered => billed <= MaxSpend

\* A call being executed has not failed for good on the line that leads to this
\* instance, whatever lies between, a restore included, and has transient
\* failures left.
FailedCallsNotRepeated ==
    pc = "tool" => /\ failed[toolCall]["TERMINAL"] = 0
                   /\ failed[toolCall]["TRANSIENT"] < TransientBudget

\* A pause always leaves a checkpoint, and a process restored from it has the
\* phase, log, candidates, totals, turns and wall clock of the instance that is
\* paused, and the same bytes, bill and failures behind it.  What it loses are
\* the tool results that wait for a request and what the operator asked for.
PausedIsKept ==
    /\ [](status = "PAUSED" => checkpoint # None)
    /\ [][status = "PAUSED" /\ Restore =>
              /\ UNCHANGED <<phase, actionLog, candidateIds, charged, line>>
              /\ turnBase' + turnsThisRun' = turnBase + turnsThisRun
              /\ wallBase' = usage.wall /\ pending' = 0]_vars

\* An instance that ended for good reports the same end for ever, whatever
\* the operator asks of it; only a new instance goes on.
TerminatedIsFinal ==
    [][status = "TERMINATED" =>
           \/ UNCHANGED <<status, terminationReason, usage, actionLog>>
           \/ Restore]_vars

Contract == INSTANCE AgentRun WITH reason <- terminationReason,
                                   stored <- checkpoint # None

\* The runtime keeps the contract the campaign relies on: the reasons that
\* leave a checkpoint, and the ends that are final.
KeepsContract == Contract!Spec

\* A run that began ends, if its reasoner and its tools answer.
RunEnds == (pc # "idle") ~> (pc = "idle")

=============================================================================
