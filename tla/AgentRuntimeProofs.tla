-------------------------- MODULE AgentRuntimeProofs --------------------------
(***************************************************************************)
(* Theorems about one agent investigation, for every budget policy, spend  *)
(* ceiling, size of a request, response or payload and number of restores. *)
(*                                                                         *)
(* The argument is one inductive invariant in named parts.  Typed adds to  *)
(* the type invariant the tool being called; Running ties the place the    *)
(* loop is at to the status; Headroom says how far from its ceilings the   *)
(* usage is at each await, which is what makes one more charge safe; and a *)
(* checkpoint carries what the invariant says of the state it was taken of.*)
(* A second one, LineInv, is about what happened on the line of            *)
(* checkpoints; on both rest SpendRoom, the room a dispatched call has     *)
(* under the ceiling, and LogInv, which counts failures in the log.        *)
(***************************************************************************)
EXTENDS AgentRuntime, FiniteSetTheorems, TLAPS

\* The types, with that of the tool being called.
Typed == /\ StateOK
         /\ pc = "tool" => toolCall \in Calls

\* A run is active exactly where the loop is not idle, and then RUNNING.
Running == pc # "idle" => status = "RUNNING"

\* What a turn decided agrees with the reasons that keep a checkpoint.
OutcomeKeeps ==
    outcome # None => /\ outcome.reason \in {"PAUSED", "BUDGET_EXHAUSTED"} => outcome.kept
                      /\ outcome.kept => outcome.reason \in
                             {"PAUSED", "BUDGET_EXHAUSTED", "REASONER_FAILURE"}

Within(used) == \A d \in Counted : used[d] <= Policy[d]

\* A call may be counted, or one intent more be charged.
Headroom ==
    /\ Within(usage)
    /\ pc = "calling" => \A d \in Counted : usage[d] < Policy[d]
    /\ pc \in {"applying", "tool"} => \A d \in Counted \ {"calls"} : usage[d] < Policy[d]
    /\ checkpoint # None => Within(checkpoint.usage)

\* The ledger explains the totals, of the instance and of its checkpoint.
Explained ==
    /\ Reconciles(usage, ledger)
    /\ checkpoint # None => Reconciles(checkpoint.usage, checkpoint.ledger)

\* A paused instance is its checkpoint.
PauseInv ==
    status = "PAUSED" => /\ checkpoint # None
                         /\ checkpoint = Document(turnsThisRun, actionLog, usage)
                         /\ keptLine = SoFar

RuntimeInv == Typed /\ Running /\ OutcomeKeeps /\ Headroom /\ Explained /\ PauseInv

------------------------------------------------------------------------------
(* What the helpers of the runtime do to a usage *)

LEMMA PhaseCount == Len(Phases) = 7
  BY DEF Phases

\* A usage is a function on the ten dimensions.
LEMMA DimsAre ==
    Dims = {"wall", "input", "output", "payload", "calls", "tools", "candidates",
            "failures", "consecutive", "provider"}
  BY DEF Dims, Bytes, Counted

\* refreshWallTime changes the wall time alone.
LEMMA RefreshedUsage ==
    ASSUME Typed, NEW used \in Usage
    PROVE  /\ Refreshed(used) \in Usage
           /\ \A d \in Dims \ {"wall"} : Refreshed(used)[d] = used[d]
<1>1. wallBase + elapsed \in Nat BY DEF Typed, StateOK
<1>2. QED BY <1>1, DimsAre DEF Refreshed, Usage

\* A failure is counted in both failure dimensions, a provider's in a third.
LEMMA FailedUsage ==
    ASSUME NEW used \in Usage
    PROVE  /\ Failed(used) \in Usage /\ ProviderFailed(used) \in Usage
           /\ \A d \in Dims : Failed(used)[d] =
                  IF d \in {"failures", "consecutive"} THEN used[d] + 1 ELSE used[d]
           /\ \A d \in Dims : ProviderFailed(used)[d] =
                  IF d \in {"failures", "consecutive", "provider"} THEN used[d] + 1 ELSE used[d]
<1>1. {"failures", "consecutive", "provider"} \subseteq Dims /\ \A d \in Dims : used[d] \in Nat
  BY DimsAre DEF Usage
<1>2. \A d \in Dims : Failed(used)[d] =
          IF d \in {"failures", "consecutive"} THEN used[d] + 1 ELSE used[d]
  BY <1>1 DEF Failed, Usage
<1>3. Failed(used) \in Usage
  <2>1. used.failures + 1 \in Nat /\ used.consecutive + 1 \in Nat BY <1>1
  <2>2. QED BY <1>1, <2>1 DEF Failed, Usage
<1>4. \A d \in Dims : ProviderFailed(used)[d] =
          IF d = "provider" THEN Failed(used)[d] + 1 ELSE Failed(used)[d]
  BY <1>1, <1>3 DEF ProviderFailed, Usage
<1>5. ProviderFailed(used) \in Usage BY <1>1, <1>3 DEF ProviderFailed, Usage
<1>6. QED BY <1>1, <1>2, <1>3, <1>4, <1>5

\* A charge to a component of the ledger.
LEMMA LedgerCharge ==
    ASSUME NEW charges \in Ledger, NEW bytes \in Nat
    PROVE  /\ [charges EXCEPT !.rendered = @ + bytes] \in Ledger
           /\ [charges EXCEPT !.response = @ + bytes] \in Ledger
           /\ [charges EXCEPT !.toolResult = @ + bytes] \in Ledger
<1>1. /\ charges.rendered + bytes \in Nat /\ charges.response + bytes \in Nat
      /\ charges.toolResult + bytes \in Nat
  BY DEF Ledger
<1>2. QED BY <1>1 DEF Ledger

\* A tool call is counted, and the totals are the ledger's.
LEMMA ToolUsage ==
    ASSUME NEW used \in Usage, NEW charges \in Ledger
    PROVE  /\ [used EXCEPT !.tools = @ + 1, !.output = charges.response,
                            !.payload = charges.toolResult] \in Usage
           /\ [used EXCEPT !.tools = @ + 1, !.output = charges.response,
                            !.payload = charges.toolResult]["output"] = charges.response
           /\ [used EXCEPT !.tools = @ + 1, !.output = charges.response,
                            !.payload = charges.toolResult]["payload"] = charges.toolResult
           /\ [used EXCEPT !.tools = @ + 1, !.output = charges.response,
                            !.payload = charges.toolResult]["tools"] = used["tools"] + 1
           /\ \A d \in Dims \ {"tools", "output", "payload"} :
                 [used EXCEPT !.tools = @ + 1, !.output = charges.response,
                              !.payload = charges.toolResult][d] = used[d]
<1>1. /\ used["tools"] + 1 \in Nat /\ \A d \in Dims : used[d] \in Nat
      /\ charges.response \in Nat /\ charges.toolResult \in Nat
      /\ {"tools", "output", "payload"} \subseteq Dims
  BY DimsAre DEF Usage, Ledger
<1>2. QED BY <1>1 DEF Usage

\* A candidate is counted.
LEMMA CandidateUsage ==
    ASSUME NEW used \in Usage
    PROVE  /\ [used EXCEPT !.candidates = @ + 1] \in Usage
           /\ \A d \in Dims : [used EXCEPT !.candidates = @ + 1][d] =
                                IF d = "candidates" THEN used[d] + 1 ELSE used[d]
<1>1. used["candidates"] + 1 \in Nat /\ \A d \in Dims : used[d] \in Nat
  BY DimsAre DEF Usage
<1>2. QED BY <1>1 DEF Usage

\* A record of an action, a result and a disposition is a record of the log.
LEMMA LoggedType ==
    ASSUME Typed, NEW record \in Record, Logged(record)
    PROVE  actionLog' \in Seq(Record)
  BY DEF Typed, StateOK, Logged

LEMMA NoteType ==
    ASSUME NEW action \in Actions, NEW result \in Results
    PROVE  Note(action, result) \in Record
  BY DEF Note, Rec, Record, Dispositions

\* The document of a state that has its types.
LEMMA DocumentType ==
    ASSUME Typed, NEW turns \in Nat, NEW log \in Seq(Record), NEW used \in Usage
    PROVE  Document(turns, log, used) \in Documents
<1>1. turnBase + turns \in Nat /\ phase \in 1..Len(Phases) /\ ledger \in Ledger
      /\ candidateIds \in SUBSET Candidates
  BY DEF Typed, StateOK
<1>2. QED BY <1>1 DEF Document, Documents

------------------------------------------------------------------------------
(* Every step preserves the invariant *)

\* finish: what it writes is consistent for every outcome a turn may decide.
LEMMA FinishPreserves ==
    ASSUME RuntimeInv, NEW stop \in Outcomes, NEW turns \in Nat,
           NEW log \in Seq(Record), Finish(stop, turns, log),
           stop.reason = "PAUSED" => stop.kept
    PROVE  RuntimeInv'
<1> USE DEF RuntimeInv, Finish
<1> DEFINE final == Refreshed(usage)
<1>1. /\ final \in Usage
      /\ \A d \in Counted : final[d] = usage[d]
      /\ final["input"] = usage["input"] /\ final["output"] = usage["output"]
      /\ final["payload"] = usage["payload"]
  BY RefreshedUsage, DimsAre DEF Typed, StateOK, Counted
<1>2. Document(turns, log, final) \in Documents BY <1>1, DocumentType
<1>3. ledger \in Ledger /\ usage \in Usage BY DEF Typed, StateOK
<1>4. Reconciles(final, ledger)
  BY <1>1, <1>3 DEF Reconciles, Explained
<1> HIDE DEF final
<1>5. usage' = final /\ checkpoint' \in {checkpoint, Document(turns, log, final)}
  BY DEF final, FinalDocument
<1>6. Typed'
  <2>1. /\ status' \in {"READY", "RUNNING", "PAUSED", "TERMINATED"}
        /\ terminationReason' \in Reasons
    BY DEF RestingStatus, Outcomes
  <2>2. pc' \in Places /\ pc' # "tool" BY DEF Places
  <2>3. QED BY <1>1, <1>2, <1>5, <2>1, <2>2 DEF Typed, StateOK, turn, operator, history
<1>7. Running' /\ OutcomeKeeps' BY DEF Running, OutcomeKeeps
<1>8. Headroom'
  <2>1. Within(final) BY <1>1 DEF Headroom, Within
  <2>2. Document(turns, log, final).usage = final BY DEF Document
  <2>3. QED BY <1>5, <2>1, <2>2 DEF Headroom, Within
<1>9. Explained'
  <2>1. /\ Document(turns, log, final).usage = final
        /\ Document(turns, log, final).ledger = ledger
    BY DEF Document
  <2>2. QED BY <1>4, <1>5, <2>1 DEF Explained
<1>10. PauseInv'
  <2> SUFFICES ASSUME status' = "PAUSED"
               PROVE  /\ checkpoint' # None
                      /\ checkpoint' = Document(turnsThisRun, actionLog, usage)'
                      /\ keptLine' = SoFar'
    BY DEF PauseInv
  <2>1. stop.kept BY DEF RestingStatus
  <2>2. checkpoint' = Document(turns, log, final) BY <2>1 DEF final, FinalDocument
  <2>3. checkpoint' = Document(turnsThisRun, actionLog, usage)'
    BY <1>5, <2>2 DEF Document
  <2>4. Document(turns, log, final) # None
    BY <1>2, NoneAssumption
  <2>5. keptLine' = SoFar' BY <2>1 DEF SoFar, line
  <2>6. QED BY <2>2, <2>3, <2>4, <2>5
<1>11. QED BY <1>6, <1>7, <1>8, <1>9, <1>10

\* The loop around the turns.
LEMMA LoopPreserves ==
    ASSUME RuntimeInv, Loop
    PROVE  RuntimeInv'
<1> USE DEF RuntimeInv
<1>1. /\ turnsThisRun \in Nat /\ turnsThisRun + 1 \in Nat
      /\ actionLog \in Seq(Record)
      /\ Append(actionLog, Note("NO_PROGRESS", "FAILED")) \in Seq(Record)
  BY NoteType DEF Typed, StateOK, Actions, Results
<1>2. \A reason \in Reasons, kept \in BOOLEAN :
          /\ Stop(reason, kept) \in Outcomes
          /\ Stop(reason, kept).reason = reason /\ Stop(reason, kept).kept = kept
  BY DEF Stop, Outcomes
<1>3. CASE StopCancelled \/ StopTurnLimit
  <2>1. PICK reason \in {"CANCELLED", "NO_PROGRESS"} : Halt(reason, FALSE)
    BY <1>3 DEF StopCancelled, StopTurnLimit
  <2>2. reason \in Reasons /\ reason # "PAUSED" BY DEF Reasons
  <2>3. QED BY <1>1, <1>2, <2>1, <2>2, FinishPreserves DEF Halt
<1>4. CASE StopPaused \/ StopExhausted
  <2>1. PICK reason \in {"PAUSED", "BUDGET_EXHAUSTED"} : Halt(reason, TRUE)
    BY <1>4 DEF StopPaused, StopExhausted
  <2>2. reason \in Reasons BY DEF Reasons
  <2>3. QED BY <1>1, <1>2, <2>1, <2>2, FinishPreserves DEF Halt
<1>5. CASE FinishTurn
  <2>1. outcome \in Outcomes /\ (outcome.reason = "PAUSED" => outcome.kept)
    BY <1>5 DEF FinishTurn, Typed, StateOK, OutcomeKeeps
  <2>2. Finish(outcome, turnsThisRun + 1, actionLog) BY <1>5 DEF FinishTurn
  <2>3. QED BY <1>1, <2>1, <2>2, FinishPreserves
<1>6. CASE FinishExhausted
  <2>1. "BUDGET_EXHAUSTED" \in Reasons BY DEF Reasons
  <2>2. QED BY <1>1, <1>2, <1>6, <2>1, FinishPreserves DEF FinishExhausted
<1>7. CASE FinishNoProgress
  <2>1. "NO_PROGRESS" \in Reasons BY DEF Reasons
  <2>2. Finish(Stop("NO_PROGRESS", FALSE), turnsThisRun + 1,
               Append(actionLog, Note("NO_PROGRESS", "FAILED")))
    BY <1>7 DEF FinishNoProgress
  <2>3. QED BY <1>1, <1>2, <2>1, <2>2, FinishPreserves
<1>8. CASE NextTurn
  <2> USE <1>8 DEF NextTurn, turn, operator, history
  <2>1. Refreshed(usage) \in Usage /\ \A d \in Dims \ {"wall"} : Refreshed(usage)[d] = usage[d]
    BY RefreshedUsage DEF Typed, StateOK
  <2>2. usage' = Refreshed(usage) OBVIOUS
  <2>3. Typed' BY <1>1, <2>1, <2>2 DEF Typed, StateOK, Places
  <2>4. Running' /\ OutcomeKeeps'
    BY DEF Running, OutcomeKeeps, GoesOn, Boundary
  <2>5. Headroom' BY <2>1, <2>2, DimsAre DEF Headroom, Within, Counted
  <2>6. Explained'
    <3>1. Reconciles(usage', ledger)
      BY <2>1, <2>2, DimsAre DEF Reconciles, Explained, Typed, StateOK
    <3>2. QED BY <3>1 DEF Explained
  <2>7. PauseInv' BY DEF PauseInv, Running, GoesOn, Boundary
  <2>8. QED BY <2>3, <2>4, <2>5, <2>6, <2>7
<1>9. QED BY <1>3, <1>4, <1>5, <1>6, <1>7, <1>8 DEF Loop

\* Rendering a request, charging it and dispatching it, or refusing it.
LEMMA AskPreserves ==
    ASSUME RuntimeInv, Ask
    PROVE  RuntimeInv'
<1> USE DEF RuntimeInv
<1> PICK request \in Requests : Dispatch(request) \/ RefuseSpend(request) BY DEF Ask
<1>1. /\ Refreshed(usage) \in Usage
      /\ \A d \in Dims \ {"wall"} : Refreshed(usage)[d] = usage[d]
  BY RefreshedUsage DEF Typed, StateOK
<1>2. CASE Dispatch(request)
  <2> USE <1>2 DEF Dispatch
  <2>1. request \in Nat /\ Policy \in [Dims -> Nat] BY SizesAssumption
  <2>2. ledger' \in Ledger BY <2>1, LedgerCharge DEF Typed, StateOK
  <2>3. usage' = [Refreshed(usage) EXCEPT !.input = ledger'.rendered] OBVIOUS
  <2>4. /\ ledger'.rendered \in Nat /\ ledger'.response = ledger.response
        /\ ledger'.toolResult = ledger.toolResult
    BY <2>2 DEF Ledger, Typed, StateOK
  <2>5. /\ usage' \in Usage /\ \A d \in Counted : usage'[d] = usage[d]
        /\ usage'["input"] = ledger'.rendered
        /\ usage'["output"] = usage["output"] /\ usage'["payload"] = usage["payload"]
    BY <1>1, <2>3, <2>4, DimsAre DEF Counted, Usage
  <2>6. Typed'
    BY <2>2, <2>5
    DEF Typed, StateOK, Places, Awaits, SignalAtDispatch, progress, operator
  <2>7. Running' /\ OutcomeKeeps' /\ PauseInv'
    BY DEF Running, OutcomeKeeps, PauseInv, TurnDue, progress
  <2>8. Headroom'
    <3>1. \A d \in Counted : Refreshed(usage)[d] < Policy[d]
      BY <1>1, <2>1, DimsAre DEF TurnDue, Spent, BudgetExhausted, Usage, Counted
    <3>2. \A d \in Counted : usage'[d] < Policy[d]
      BY <1>1, <2>5, <3>1, DimsAre DEF Counted
    <3>3. \A d \in Counted : usage'[d] <= Policy[d]
      BY <2>1, <2>5, <3>2, DimsAre DEF Usage, Counted
    <3>4. QED BY <3>2, <3>3 DEF Headroom, Within
  <2>9. Explained'
    <3>1. Reconciles(usage', ledger')
      BY <2>4, <2>5 DEF Reconciles, Explained
    <3>2. QED BY <3>1 DEF Explained
  <2>10. QED BY <2>6, <2>7, <2>8, <2>9
<1>3. CASE RefuseSpend(request)
  <2> USE <1>3 DEF RefuseSpend, Decide
  <2>1. Note("BLOCKED", "FAILED") \in Record BY NoteType DEF Actions, Results
  <2>2. actionLog' \in Seq(Record) BY <2>1, LoggedType
  <2>3. Stop("BUDGET_EXHAUSTED", TRUE) \in Outcomes /\ Stop("BUDGET_EXHAUSTED", TRUE).kept
    BY DEF Stop, Outcomes, Reasons
  <2>4. Typed'
    BY <1>1, <2>2, <2>3 DEF Typed, StateOK, Places, turn, operator, history
  <2>5. Running' /\ OutcomeKeeps' /\ PauseInv'
    BY <2>3 DEF Running, OutcomeKeeps, PauseInv, TurnDue, Stop
  <2>6. Headroom' BY <1>1, DimsAre DEF Headroom, Within, Counted
  <2>7. Explained'
    <3>1. Reconciles(usage', ledger)
      BY <1>1, DimsAre DEF Reconciles, Explained, Typed, StateOK
    <3>2. QED BY <3>1 DEF Explained
  <2>8. QED BY <2>4, <2>5, <2>6, <2>7
<1>4. QED BY <1>2, <1>3

\* A step of an active run that leaves the checkpoint alone preserves the
\* invariant if it keeps the types, the ledger and the distance to the
\* ceilings.
LEMMA ActiveStep ==
    ASSUME RuntimeInv, pc # "idle", status' = status, checkpoint' = checkpoint,
           Typed', OutcomeKeeps', Reconciles(usage', ledger'), Within(usage'),
           pc' = "calling" => \A d \in Counted : usage'[d] < Policy[d],
           pc' \in {"applying", "tool"} =>
               \A d \in Counted \ {"calls"} : usage'[d] < Policy[d]
    PROVE  RuntimeInv'
<1> USE DEF RuntimeInv
<1>1. status' = "RUNNING" BY DEF Running
<1>2. Running' /\ PauseInv' BY <1>1 DEF Running, PauseInv
<1>3. Headroom' BY DEF Headroom, Within
<1>4. Explained' BY DEF Explained
<1>5. QED BY <1>2, <1>3, <1>4

\* A call that returned is counted and its response charged.
LEMMA ReceivedUsage ==
    ASSUME Typed, NEW used \in Usage, NEW response \in Responses,
           used["input"] = ledger.rendered, used["payload"] = ledger.toolResult,
           Received(used, response)
    PROVE  /\ usage' \in Usage /\ ledger' \in Ledger
           /\ Reconciles(usage', ledger')
           /\ \A d \in Counted : usage'[d] = IF d = "calls" THEN used[d] + 1 ELSE used[d]
<1>1. used["calls"] + 1 \in Nat /\ {"calls", "output"} \subseteq Dims BY DimsAre DEF Usage
<1>2. response.bytes \in Nat BY SizesAssumption
<1>3. /\ ledger' = [ledger EXCEPT !.response = @ + response.bytes] /\ ledger \in Ledger
      /\ usage' = [used EXCEPT !.calls = @ + 1, !.output = ledger'.response]
  BY DEF Typed, StateOK, Received
<1>4. ledger' \in Ledger BY <1>2, <1>3, LedgerCharge
<1>5. /\ ledger'.response \in Nat /\ ledger'.rendered = ledger.rendered
      /\ ledger'.toolResult = ledger.toolResult
  BY <1>3, <1>4 DEF Ledger
<1>6. /\ usage' \in Usage /\ usage'["output"] = ledger'.response
      /\ usage'["calls"] = used["calls"] + 1
      /\ \A d \in Dims \ {"calls", "output"} : usage'[d] = used[d]
  BY <1>1, <1>3, <1>5 DEF Usage
<1>7. Reconciles(usage', ledger') BY <1>5, <1>6, DimsAre DEF Reconciles
<1>8. QED BY <1>4, <1>6, <1>7, DimsAre DEF Counted

\* The reasoner's call returns.
LEMMA AnswerPreserves ==
    ASSUME RuntimeInv, Answer
    PROVE  RuntimeInv'
<1> USE DEF RuntimeInv
<1>1. pc = "calling"
  BY DEF Answer, Answers, CallAbandoned, CallThrows, CallFails, CallUnsafe,
         CallMalformed, CallAccepted
<1>2. /\ usage \in Usage /\ usage \in [Dims -> Nat] /\ Policy \in [Dims -> Nat]
      /\ ledger \in Ledger /\ Counted \subseteq Dims
      /\ \A d \in Counted : usage[d] < Policy[d]
      /\ \A d \in Counted : usage[d] \in Nat /\ Policy[d] \in Nat
  BY <1>1, SizesAssumption, DimsAre DEF Typed, StateOK, Headroom, Usage, Counted
<1>3. /\ Failed(usage) \in Usage /\ ProviderFailed(usage) \in Usage
      /\ \A d \in Counted : /\ Failed(usage)[d] <= usage[d] + 1
                            /\ ProviderFailed(usage)[d] <= usage[d] + 1
                            /\ Failed(usage)[d] <= Policy[d]
                            /\ ProviderFailed(usage)[d] <= Policy[d]
      /\ Failed(usage)["calls"] = usage["calls"]
      /\ ProviderFailed(usage)["calls"] = usage["calls"]
  BY <1>2, FailedUsage, DimsAre DEF Counted
<1>6. \A used \in {usage, Failed(usage), ProviderFailed(usage)} :
          used["input"] = ledger.rendered /\ used["payload"] = ledger.toolResult
  BY <1>2, FailedUsage, DimsAre DEF Explained, Reconciles
<1>4. /\ Note("REASONER_CALL", "FAILED") \in Record
      /\ Note("BLOCKED", "FAILED") \in Record
      /\ Note("REASONER_RESPONSE", "FAILED") \in Record
  BY NoteType DEF Actions, Results
<1>5. \A d \in Elapsed : elapsed + d \in Nat BY SizesAssumption DEF Typed, StateOK
<1>7. \A reason \in Reasons, kept \in BOOLEAN :
          /\ Stop(reason, kept) \in Outcomes
          /\ Stop(reason, kept).reason = reason /\ Stop(reason, kept).kept = kept
  BY DEF Stop, Outcomes
<1>8. {"CANCELLED", "REASONER_FAILURE", "SAFETY_BLOCKED"} \subseteq Reasons BY DEF Reasons
<1>9. CASE CallAbandoned
  <2> USE <1>9 DEF CallAbandoned, Decide, CallReturned
  <2>0. outcome' \in Outcomes BY <1>7, <1>8
  <2>1. Typed' BY <1>5, <2>0 DEF Typed, StateOK, Places, charged, operator
  <2>2. OutcomeKeeps' BY <1>7, <1>8 DEF OutcomeKeeps
  <2>3. Reconciles(usage', ledger') /\ Within(usage')
    BY DEF charged, Explained, Headroom, Within
  <2>4. QED BY <1>1, <2>1, <2>2, <2>3, ActiveStep
<1>10. CASE CallThrows
  <2> USE <1>10 DEF CallThrows, CallReturned
  <2>1. actionLog' \in Seq(Record) BY <1>4, LoggedType
  <2>2. usage' \in Usage /\ Within(usage') BY <1>3 DEF Within
  <2>3. Typed' BY <1>5, <2>1, <2>2 DEF Typed, StateOK, Places, Awaits, operator
  <2>4. OutcomeKeeps' BY DEF OutcomeKeeps
  <2>5. Reconciles(usage', ledger')
    <3>1. \A d \in {"input", "output", "payload"} : usage'[d] = usage[d]
      BY <1>2, FailedUsage, DimsAre
    <3>2. QED BY <1>2, <2>2, <3>1 DEF Reconciles, Explained
  <2>6. QED BY <1>1, <2>2, <2>3, <2>4, <2>5, ActiveStep
<1>11. ASSUME NEW response \in Responses, NEW how \in CallOutcomes, CallFails(how, response)
       PROVE  RuntimeInv'
  <2> USE <1>11 DEF CallFails, CallReturned
  <2>2. actionLog' \in Seq(Record) BY <1>4, LoggedType
  <2>3. /\ usage' \in Usage /\ ledger' \in Ledger /\ Reconciles(usage', ledger')
        /\ \A d \in Counted : usage'[d] = IF d = "calls" THEN ProviderFailed(usage)[d] + 1
                                          ELSE ProviderFailed(usage)[d]
    BY <1>3, <1>6, ReceivedUsage
  <2>4. Within(usage') BY <1>2, <1>3, <2>3 DEF Within, Counted
  <2>5. /\ pc' \in {"boundary", "backoff"}
        /\ outcome' \in {outcome, Stop("REASONER_FAILURE", TRUE)}
        /\ outcome' \in Outcomes \cup {None}
    BY <1>7, <1>8 DEF Decide, Typed, StateOK
  <2>6. Typed'
    BY <1>5, <2>2, <2>3, <2>5 DEF Typed, StateOK, Places, Awaits, operator
  <2>7. OutcomeKeeps' BY <1>7, <1>8, <2>5 DEF OutcomeKeeps
  <2>8. QED BY <1>1, <2>3, <2>4, <2>5, <2>6, <2>7, ActiveStep
<1>12. ASSUME NEW response \in Responses, CallUnsafe(response) \/ CallMalformed(response)
       PROVE  RuntimeInv'
  <2> USE <1>12 DEF CallUnsafe, CallMalformed, CallReturned, Decide
  <2>2. actionLog' \in Seq(Record) BY <1>4, LoggedType
  <2>3. PICK used \in {usage, Failed(usage)} : Received(used, response) OBVIOUS
  <2>4. /\ usage' \in Usage /\ ledger' \in Ledger /\ Reconciles(usage', ledger')
        /\ \A d \in Counted : usage'[d] = IF d = "calls" THEN used[d] + 1 ELSE used[d]
    BY <1>2, <1>3, <1>6, <2>3, ReceivedUsage
  <2>5. Within(usage') BY <1>2, <1>3, <2>3, <2>4 DEF Within, Counted
  <2>6. /\ pc' = "boundary"
        /\ outcome' \in {Stop("SAFETY_BLOCKED", FALSE), Stop("REASONER_FAILURE", TRUE)}
        /\ outcome' \in Outcomes
    BY <1>7, <1>8
  <2>7. Typed'
    BY <1>5, <2>2, <2>4, <2>6 DEF Typed, StateOK, Places, operator
  <2>8. OutcomeKeeps' BY <1>7, <1>8, <2>6 DEF OutcomeKeeps
  <2>9. QED BY <1>1, <2>4, <2>5, <2>6, <2>7, <2>8, ActiveStep
<1>13. ASSUME NEW response \in Responses, CallAccepted(response)
       PROVE  RuntimeInv'
  <2> USE <1>13 DEF CallAccepted, CallReturned
  <2> DEFINE calm == [usage EXCEPT !.consecutive = 0]
  <2>2. /\ calm \in Usage /\ \A d \in Counted : calm[d] < Policy[d]
        /\ calm["input"] = ledger.rendered /\ calm["payload"] = ledger.toolResult
    BY <1>2, <1>6, DimsAre DEF Usage, Counted
  <2>3. Received(calm, response) OBVIOUS
  <2> HIDE DEF calm
  <2>4. /\ usage' \in Usage /\ ledger' \in Ledger /\ Reconciles(usage', ledger')
        /\ \A d \in Counted : usage'[d] = IF d = "calls" THEN calm[d] + 1 ELSE calm[d]
    BY <2>2, <2>3, ReceivedUsage
  <2>5. /\ \A d \in Counted : calm[d] \in Nat
        /\ Within(usage') /\ \A d \in Counted \ {"calls"} : usage'[d] < Policy[d]
    BY <1>2, <2>2, <2>4 DEF Within, Usage
  <2>6. intentsLeft' \in Nat BY SizesAssumption
  <2>7. Typed' BY <1>5, <2>4, <2>6 DEF Typed, StateOK, Places, operator
  <2>8. OutcomeKeeps' BY DEF OutcomeKeeps
  <2>9. QED BY <1>1, <2>4, <2>5, <2>7, <2>8, ActiveStep
<1>14. QED BY <1>9, <1>10, <1>11, <1>12, <1>13 DEF Answer

\* The backoff after a failed call ends.
LEMMA BackoffPreserves ==
    ASSUME RuntimeInv, BackoffEnds
    PROVE  RuntimeInv'
<1> USE DEF RuntimeInv, BackoffEnds
<1>1. elapsed' \in Nat BY SizesAssumption DEF Typed, StateOK
<1>2. Typed' BY <1>1 DEF Typed, StateOK, Places, charged, turn, progress, operator, history
<1>3. OutcomeKeeps' BY DEF OutcomeKeeps
<1>4. Reconciles(usage', ledger') /\ Within(usage')
  BY DEF charged, Explained, Headroom, Within
<1>5. QED BY <1>2, <1>3, <1>4, ActiveStep

\* Between two intents the budget is looked at: the next is applied only with
\* every dimension below its ceiling.
LEMMA AfterIntentChecks ==
    ASSUME RuntimeInv, NEW used \in Usage, AfterIntent(used)
    PROVE  /\ pc' \in {"applying", "boundary"}
           /\ outcome' \in Outcomes \cup {None} /\ OutcomeKeeps'
           /\ pc' = "applying" => \A d \in Counted : used[d] < Policy[d]
<1> USE DEF RuntimeInv
<1>1. /\ Stop("BUDGET_EXHAUSTED", TRUE) \in Outcomes
      /\ Stop("BUDGET_EXHAUSTED", TRUE).reason = "BUDGET_EXHAUSTED"
      /\ Stop("BUDGET_EXHAUSTED", TRUE).kept
  BY DEF Stop, Outcomes, Reasons
<1>2. CASE Spent(used) BY <1>1, <1>2 DEF AfterIntent, Decide, OutcomeKeeps
<1>3. CASE ~Spent(used)
  <2>1. pc' = "applying" /\ outcome' = outcome BY <1>3 DEF AfterIntent
  <2>2. \A d \in Counted : used[d] < Policy[d]
    BY <1>3, SizesAssumption, DimsAre DEF Spent, BudgetExhausted, Usage, Counted
  <2>3. QED BY <2>1, <2>2 DEF Typed, StateOK, OutcomeKeeps
<1>4. QED BY <1>2, <1>3

\* The part the intents have in common.
LEMMA IntentStep ==
    ASSUME RuntimeInv, Applying, IntentApplied,
           NEW record \in Record, Logged(record),
           elapsed' = elapsed, toolCall' = toolCall, ledger' = ledger,
           replanned' \in BOOLEAN, candidateIds' \in SUBSET Candidates,
           usage' \in Usage, Reconciles(usage', ledger'), Within(usage'),
           pc' \in {"applying", "boundary"},
           outcome' \in Outcomes \cup {None}, OutcomeKeeps',
           pc' = "applying" => \A d \in Counted \ {"calls"} : usage'[d] < Policy[d]
    PROVE  RuntimeInv'
<1> USE DEF RuntimeInv, Applying, IntentApplied
<1>1. actionLog' \in Seq(Record) BY LoggedType
<1>2. intentsLeft' \in Nat BY DEF Typed, StateOK
<1>3. Typed' BY <1>1, <1>2 DEF Typed, StateOK, Places, operator, history
<1>4. QED BY <1>3, ActiveStep

\* An intent that charges nothing, after which the budget is looked at.
LEMMA QuietIntent ==
    ASSUME RuntimeInv, Applying, IntentApplied,
           NEW record \in Record, Logged(record),
           UNCHANGED <<charged, replanned, toolCall, elapsed>>,
           candidateIds' \in SUBSET Candidates, AfterIntent(usage)
    PROVE  RuntimeInv'
<1> USE DEF RuntimeInv
<1>1. usage \in Usage /\ usage' = usage /\ ledger' = ledger /\ replanned' \in BOOLEAN
  BY DEF charged, Typed, StateOK
<1>2. /\ pc' \in {"applying", "boundary"}
      /\ outcome' \in Outcomes \cup {None} /\ OutcomeKeeps'
      /\ pc' = "applying" => \A d \in Counted : usage[d] < Policy[d]
  BY <1>1, AfterIntentChecks
<1>3. Reconciles(usage', ledger') /\ Within(usage')
  BY <1>1 DEF Explained, Headroom, Within
<1>4. QED BY <1>1, <1>2, <1>3, IntentStep

\* A tool is filtered, called, answers or throws.
LEMMA UseToolPreserves ==
    ASSUME RuntimeInv, UseTool
    PROVE  RuntimeInv'
<1> USE DEF RuntimeInv
<1>1. ASSUME NEW call \in Calls, DiscardTool(call)
      PROVE  RuntimeInv'
  <2> USE <1>1 DEF DiscardTool
  <2>1. Note(call, "DEDUPED_REPEAT") \in Record BY NoteType DEF Actions, Results
  <2>2. candidateIds' \in SUBSET Candidates BY DEF Typed, StateOK
  <2>3. QED BY <2>1, <2>2, QuietIntent
<1>2. ASSUME NEW call \in Calls, ExecuteTool(call)
      PROVE  RuntimeInv'
  <2> USE <1>2 DEF ExecuteTool, Applying, IntentApplied
  <2>1. intentsLeft' \in Nat BY DEF Typed, StateOK
  <2>2. Typed' BY <2>1 DEF Typed, StateOK, Places, Awaits, charged, operator, history
  <2>3. OutcomeKeeps' BY DEF OutcomeKeeps
  <2>4. /\ Reconciles(usage', ledger') /\ Within(usage')
        /\ \A d \in Counted \ {"calls"} : usage'[d] < Policy[d]
    BY DEF charged, Explained, Headroom, Within
  <2>5. QED BY <2>2, <2>3, <2>4, ActiveStep
<1>3. ASSUME NEW how \in ToolOutcomes, NEW payload \in Payloads, ToolReturns(how, payload)
      PROVE  RuntimeInv'
  <2> DEFINE used == IF Succeeded(how) THEN usage ELSE Failed(usage)
  <2>1. payload \in Nat /\ \A d \in Elapsed : elapsed + d \in Nat
    BY SizesAssumption DEF Typed, StateOK
  <2>2. /\ usage \in Usage /\ \A d \in Counted \ {"calls"} : usage[d] < Policy[d]
        /\ \A d \in Dims : usage[d] \in Nat /\ Policy[d] \in Nat
        /\ usage["calls"] <= Policy["calls"] /\ Counted \subseteq Dims
    BY <1>3, SizesAssumption, DimsAre
    DEF ToolReturns, Typed, StateOK, Headroom, Within, Usage, Counted
  <2>3. /\ used \in Usage /\ used["tools"] = usage["tools"] /\ used["input"] = usage["input"]
        /\ \A d \in Counted : used[d] <= Policy[d]
    BY <2>2, FailedUsage, DimsAre DEF Counted
  <2>4. usage' = [used EXCEPT !.tools = @ + 1, !.output = ledger'.response,
                              !.payload = ledger'.toolResult]
    BY <1>3 DEF ToolReturns, ToolCharged
  <2> HIDE DEF used
  <2>5. ledger \in Ledger /\ ledger' = [ledger EXCEPT !.toolResult = @ + payload]
    BY <1>3 DEF ToolReturns, Typed, StateOK
  <2>6. ledger' \in Ledger BY <2>1, <2>5, LedgerCharge
  <2>7. /\ usage' \in Usage
        /\ usage'["output"] = ledger'.response /\ usage'["payload"] = ledger'.toolResult
        /\ usage'["tools"] = used["tools"] + 1
        /\ \A d \in Dims \ {"tools", "output", "payload"} : usage'[d] = used[d]
    <3> DEFINE total == [used EXCEPT !.tools = @ + 1, !.output = ledger'.response,
                                     !.payload = ledger'.toolResult]
    <3>1. usage' = total BY <2>4
    <3>2. /\ total \in Usage
          /\ total["output"] = ledger'.response /\ total["payload"] = ledger'.toolResult
          /\ total["tools"] = used["tools"] + 1
          /\ \A d \in Dims \ {"tools", "output", "payload"} : total[d] = used[d]
      BY <2>3, <2>6, ToolUsage
    <3> HIDE DEF total
    <3>3. QED BY <3>1, <3>2
  <2>8. /\ usage'["input"] = usage["input"] /\ usage'["tools"] = usage["tools"] + 1
        /\ \A d \in Counted \ {"tools"} : usage'[d] = used[d]
    BY <2>3, <2>7, DimsAre DEF Counted
  <2>9. Within(usage')
    <3>1. usage'["tools"] <= Policy["tools"] BY <2>2, <2>8, DimsAre DEF Counted
    <3>2. QED BY <2>3, <2>8, <3>1 DEF Within
  <2>10. Reconciles(usage', ledger')
    <3>1. ledger'.rendered = ledger.rendered BY <2>5 DEF Ledger
    <3>2. QED BY <2>7, <2>8, <3>1 DEF Reconciles, Explained
  <2> USE <1>3 DEF ToolReturns
  <2>11. ToolRecord(how) \in Record
    BY DEF ToolRecord, Rec, Record, Actions, Results, Dispositions, Typed, StateOK
  <2>12. actionLog' \in Seq(Record) BY <2>11, LoggedType
  <2>13. /\ pc' \in {"applying", "boundary"}
         /\ outcome' \in Outcomes \cup {None} /\ OutcomeKeeps'
         /\ pc' = "applying" => \A d \in Counted : usage'[d] < Policy[d]
    BY <2>7, AfterIntentChecks
  <2>14. pending' \in Nat BY DEF PendingCap, Typed, StateOK
  <2>15. Typed'
    BY <2>1, <2>6, <2>7, <2>12, <2>13, <2>14 DEF Typed, StateOK, Places, operator
  <2>16. QED BY <2>9, <2>10, <2>13, <2>15, ActiveStep
<1>4. CASE ToolThrows
  <2> USE <1>4 DEF ToolThrows
  <2>1. elapsed' \in Nat BY SizesAssumption DEF Typed, StateOK
  <2>2. Typed' BY <2>1 DEF Typed, StateOK, Places, charged, progress, operator, history
  <2>3. OutcomeKeeps' BY DEF OutcomeKeeps
  <2>4. Reconciles(usage', ledger') /\ Within(usage')
    BY DEF charged, Explained, Headroom, Within
  <2>5. QED BY <2>2, <2>3, <2>4, ActiveStep
<1>5. QED BY <1>1, <1>2, <1>3, <1>4 DEF UseTool

\* The intents other than tools.
LEMMA ApplyPreserves ==
    ASSUME RuntimeInv, Apply
    PROVE  RuntimeInv'
<1> USE DEF RuntimeInv
<1>1. \A reason \in Reasons, kept \in BOOLEAN :
          /\ Stop(reason, kept) \in Outcomes
          /\ Stop(reason, kept).reason = reason /\ Stop(reason, kept).kept = kept
  BY DEF Stop, Outcomes
<1>2. candidateIds \in SUBSET Candidates /\ replanned \in BOOLEAN /\ usage \in Usage
  BY DEF Typed, StateOK
<1>3. Reconciles(usage, ledger) /\ Within(usage) BY DEF Explained, Headroom
<1>4. CASE FormHypothesis
  <2> USE <1>4 DEF FormHypothesis
  <2>1. PICK evidence \in BOOLEAN :
            Logged(Rec("FORM_HYPOTHESIS", "RECORDED", evidence, "NONE"))
    OBVIOUS
  <2>2. Rec("FORM_HYPOTHESIS", "RECORDED", evidence, "NONE") \in Record
    BY DEF Rec, Record, Actions, IntentKinds, Results, Dispositions
  <2>3. QED BY <1>2, <2>1, <2>2, QuietIntent
<1>5. ASSUME NEW candidate \in Candidates, ProposeCandidate(candidate)
      PROVE  RuntimeInv'
  <2> USE <1>5 DEF ProposeCandidate
  <2>1. Rec("PROPOSE_CANDIDATE", "CANDIDATE_PROPOSED", TRUE, "NONE") \in Record
    BY DEF Rec, Record, Actions, IntentKinds, Results, Dispositions
  <2>2. /\ usage["candidates"] < Policy["candidates"]
        /\ \A d \in Dims : usage[d] \in Nat /\ Policy[d] \in Nat
    BY <1>2, SizesAssumption, DimsAre DEF Applying, Headroom, Usage, Counted
  <2>3. usage' \in Usage /\ \A d \in Dims \ {"candidates"} : usage'[d] = usage[d]
        /\ usage'["candidates"] = usage["candidates"] + 1
    BY <1>2, CandidateUsage, DimsAre
  <2>4. Within(usage')
    <3>1. usage'["candidates"] <= Policy["candidates"] BY <2>2, <2>3, DimsAre
    <3>2. \A d \in Counted \ {"candidates"} : usage'[d] <= Policy[d]
      BY <1>3, <2>3 DEF Within, Dims
    <3>3. QED BY <3>1, <3>2 DEF Within
  <2>5. Reconciles(usage', ledger')
    BY <1>2, <1>3, <2>3, DimsAre DEF Reconciles, Typed, StateOK
  <2>6. /\ pc' \in {"applying", "boundary"}
        /\ outcome' \in Outcomes \cup {None} /\ OutcomeKeeps'
        /\ pc' = "applying" => \A d \in Counted : usage'[d] < Policy[d]
    BY <2>3, AfterIntentChecks
  <2>7. candidateIds' \in SUBSET Candidates BY <1>2
  <2>8. QED BY <1>2, <2>1, <2>3, <2>4, <2>5, <2>6, <2>7, IntentStep
<1>6. ASSUME NEW candidate \in Candidates, RejectCandidate(candidate)
      PROVE  RuntimeInv'
  <2> USE <1>6 DEF RejectCandidate
  <2>1. Note("REJECT_CANDIDATE", "CANDIDATE_REJECTED") \in Record
    BY NoteType DEF Actions, IntentKinds, Results
  <2>2. candidateIds' \in SUBSET Candidates BY <1>2
  <2>3. QED BY <2>1, <2>2, QuietIntent
<1>7. CASE Replan
  <2> USE <1>7 DEF Replan, Applying
  <2>1. Note("REPLAN", "RECORDED") \in Record
    BY NoteType DEF Actions, IntentKinds, Results
  <2>2. usage' = usage /\ ledger' = ledger BY DEF charged
  <2>3. /\ outcome' \in Outcomes \cup {None} /\ OutcomeKeeps'
        /\ \A d \in Counted \ {"calls"} : usage'[d] < Policy[d]
    BY <2>2 DEF Typed, StateOK, OutcomeKeeps, Headroom
  <2>4. QED BY <1>2, <1>3, <2>1, <2>2, <2>3, IntentStep
<1>8. ASSUME NEW intent \in IntentKinds, NEW reason \in Reasons, NEW kept \in BOOLEAN,
             Steers(intent, Stop(reason, kept)),
             reason \in {"PAUSED", "BUDGET_EXHAUSTED"} <=> kept
      PROVE  RuntimeInv'
  <2> USE <1>8 DEF Steers, Decide
  <2>1. Note(intent, "RECORDED") \in Record BY NoteType DEF Actions, Results
  <2>2. usage' = usage /\ ledger' = ledger BY DEF charged
  <2>3. pc' = "boundary" /\ outcome' \in Outcomes /\ OutcomeKeeps'
    BY <1>1 DEF OutcomeKeeps
  <2>4. QED BY <1>2, <1>3, <2>1, <2>2, <2>3, IntentStep
<1>9. CASE PauseIntent
  <2>1. "PAUSE" \in IntentKinds /\ "PAUSED" \in Reasons BY DEF IntentKinds, Reasons
  <2>2. QED BY <1>8, <1>9, <2>1 DEF PauseIntent
<1>10. CASE CancelIntent
  <2>1. "CANCEL" \in IntentKinds /\ "CANCELLED" \in Reasons BY DEF IntentKinds, Reasons
  <2>2. QED BY <1>8, <1>10, <2>1 DEF CancelIntent
<1>11. ASSUME NEW reason \in Verdicts, TerminateIntent(reason)
       PROVE  RuntimeInv'
  <2>1. "TERMINATE" \in IntentKinds /\ reason \in Reasons
    BY SizesAssumption DEF IntentKinds
  <2>2. (reason \in {"BUDGET_EXHAUSTED", "PAUSED"}) \in BOOLEAN OBVIOUS
  <2>3. QED BY <1>8, <1>11, <2>1, <2>2 DEF TerminateIntent
<1>12. CASE IntentsDone
  <2> USE <1>12 DEF IntentsDone
  <2>1. phase' \in 1..Len(Phases) BY PhaseCount DEF Typed, StateOK
  <2>2. Typed' BY <2>1 DEF Typed, StateOK, Places, charged, turn, operator, history
  <2>3. OutcomeKeeps' /\ Reconciles(usage', ledger') /\ Within(usage')
    BY <1>3 DEF OutcomeKeeps, charged, Within
  <2>4. QED BY <2>2, <2>3, ActiveStep
<1>13. QED BY <1>4, <1>5, <1>6, <1>7, <1>9, <1>10, <1>11, <1>12 DEF Apply

\* The operator's commands, the start of a run, and a restore.
LEMMA OutsidePreserves ==
    ASSUME RuntimeInv, Run \/ RunCancelled \/ Operate \/ Restore
    PROVE  RuntimeInv'
<1> USE DEF RuntimeInv
<1>1. CASE Run
  <2> USE <1>1 DEF Run, charged, turn, progress, operator
  <2>1. Typed' BY DEF Typed, StateOK, Places
  <2>2. Running' /\ OutcomeKeeps' /\ PauseInv'
    BY DEF Running, OutcomeKeeps, PauseInv
  <2>3. Headroom' /\ Explained'
    BY DEF Headroom, Within, Explained
  <2>4. QED BY <2>1, <2>2, <2>3
<1>2. CASE RunCancelled
  <2>1. /\ Stop("CANCELLED", FALSE) \in Outcomes
        /\ Stop("CANCELLED", FALSE).reason # "PAUSED"
    BY DEF Stop, Outcomes, Reasons
  <2>2. turnsThisRun \in Nat /\ actionLog \in Seq(Record) BY DEF Typed, StateOK
  <2>3. QED BY <1>2, <2>1, <2>2, FinishPreserves DEF RunCancelled, Halt
<1>3. CASE Pause \/ Cancel \/ Resume
  <2> USE <1>3 DEF Pause, Cancel, Resume, Resumable, charged, turn, progress, history
  <2>1. Typed' BY DEF Typed, StateOK
  <2>2. Running' BY DEF Running
  <2>3. OutcomeKeeps' BY DEF OutcomeKeeps
  <2>4. PauseInv' BY DEF PauseInv, Document, SoFar, line
  <2>5. Headroom' /\ Explained'
    BY DEF Headroom, Within, Explained
  <2>6. QED BY <2>1, <2>2, <2>3, <2>4, <2>5
<1>4. CASE TakeCheckpoint
  <2> USE <1>4 DEF TakeCheckpoint, control, charged, turn, progress, operator, history
  <2> DEFINE document == Document(turnsThisRun, actionLog, usage)
  <2>1. document \in Documents BY DocumentType DEF Typed, StateOK
  <2>2. document # None /\ document.usage = usage /\ document.ledger = ledger
    BY <2>1, NoneAssumption DEF Document
  <2>3. checkpoint' = document /\ Document(turnsThisRun, actionLog, usage)' = document
    BY DEF Document
  <2> HIDE DEF document
  <2>4. Typed' BY <2>1, <2>3 DEF Typed, StateOK
  <2>5. Running' /\ OutcomeKeeps' BY DEF Running, OutcomeKeeps
  <2>6. PauseInv' BY <2>2, <2>3 DEF PauseInv, SoFar, line
  <2>7. Headroom' BY <2>2, <2>3 DEF Headroom, Within
  <2>8. Explained' BY <2>2, <2>3 DEF Explained
  <2>9. QED BY <2>4, <2>5, <2>6, <2>7, <2>8
<1>5. CASE Restore
  <2> USE <1>5 DEF Restore
  <2>1. /\ checkpoint.turns \in Nat /\ checkpoint.phase \in 1..Len(Phases)
        /\ checkpoint.actionLog \in Seq(Record)
        /\ checkpoint.candidateIds \in SUBSET Candidates
        /\ checkpoint.usage \in Usage /\ checkpoint.ledger \in Ledger
        /\ checkpoint.usage.wall \in Nat
    BY DimsAre DEF Typed, StateOK, Documents, Usage
  <2>2. Typed'
    <3>1. /\ pc' \in Places /\ pc' # "tool" /\ status' = "READY"
          /\ terminationReason' = None /\ outcome' = None /\ runAbort' = "none"
          /\ toolCall' = None /\ checkpoint' = checkpoint
      BY DEF Places
    <3>2. /\ usage' \in Usage /\ ledger' \in Ledger /\ phase' \in 1..Len(Phases)
          /\ actionLog' \in Seq(Record) /\ candidateIds' \in SUBSET Candidates
      BY <2>1 DEF RestoredLog
    <3>3. /\ turnBase' \in Nat /\ turnsThisRun' \in Nat /\ wallBase' \in Nat
          /\ elapsed' \in Nat /\ intentsLeft' \in Nat /\ lives' \in Nat /\ pending' \in Nat
      BY <2>1 DEF Typed, StateOK
    <3>4. replanned' = FALSE /\ pausedRequested' = FALSE /\ cancelled' = FALSE OBVIOUS
    <3>5. checkpoint \in Documents \cup {None} BY DEF Typed, StateOK
    <3>6. QED BY <3>1, <3>2, <3>3, <3>4, <3>5 DEF Typed, StateOK
  <2>3. Running' /\ OutcomeKeeps' /\ PauseInv'
    BY DEF Running, OutcomeKeeps, PauseInv
  <2>4. Headroom' BY DEF Headroom, Within
  <2>5. Explained' BY DEF Explained
  <2>6. QED BY <2>2, <2>3, <2>4, <2>5
<1>6. QED BY <1>1, <1>2, <1>3, <1>4, <1>5 DEF Operate

\* A new instance satisfies it.
LEMMA InitInvariant == Init => RuntimeInv
<1> SUFFICES ASSUME Init PROVE RuntimeInv OBVIOUS
<1> USE DEF Init
<1>1. NoUsage \in Usage /\ \A d \in Dims : NoUsage[d] = 0 BY DEF NoUsage, Usage
<1>2. NoBytes \in Ledger BY DEF NoBytes, Ledger
<1>3. \A d \in Counted : NoUsage[d] <= Policy[d]
  <2>1. \A d \in Dims : Policy[d] \in Nat BY SizesAssumption
  <2>2. \A d \in Counted : Policy[d] \in Nat /\ NoUsage[d] = 0 BY <1>1, <2>1 DEF Dims
  <2>3. QED BY <2>2
<1>4. Typed
  <2>1. phase \in 1..Len(Phases) BY PhaseCount
  <2>2. actionLog \in Seq(Record) OBVIOUS
  <2>3. usage \in Usage /\ ledger \in Ledger BY <1>1, <1>2
  <2>4. pc \in Places BY DEF Places
  <2>5. QED BY <2>1, <2>2, <2>3, <2>4 DEF Typed, StateOK
<1>5. Reconciles(usage, ledger)
  BY <1>1, <1>2, DimsAre DEF Reconciles, NoBytes, Ledger
<1>6. Running /\ OutcomeKeeps /\ Headroom /\ PauseInv
  BY <1>3 DEF Running, OutcomeKeeps, Headroom, Within, PauseInv
<1>7. QED BY <1>4, <1>5, <1>6 DEF RuntimeInv, Explained

\* Every step of the specification preserves the invariant.
LEMMA StepPreserves ==
    ASSUME RuntimeInv, [Next]_vars
    PROVE  RuntimeInv'
<1>1. CASE Step
  BY <1>1, LoopPreserves, AskPreserves, AnswerPreserves, BackoffPreserves,
     UseToolPreserves, ApplyPreserves DEF Step
<1>2. CASE Run \/ RunCancelled \/ Operate \/ Restore BY <1>2, OutsidePreserves
<1>3. CASE UNCHANGED vars
  <2> USE <1>3 DEF vars, control, charged, turn, progress, operator, history
  <2>1. Typed' BY DEF RuntimeInv, Typed, StateOK
  <2>2. Running' /\ OutcomeKeeps' BY DEF RuntimeInv, Running, OutcomeKeeps
  <2>3. Headroom' /\ Explained'
    BY DEF RuntimeInv, Headroom, Within, Explained
  <2>4. PauseInv' BY DEF RuntimeInv, PauseInv, Document, SoFar, line
  <2>5. QED BY <2>1, <2>2, <2>3, <2>4 DEF RuntimeInv
<1>4. QED BY <1>1, <1>2, <1>3 DEF Next

\* The inductive invariant holds of the runtime's loop in every state.
THEOREM Invariant == Spec => []RuntimeInv
<1>1. RuntimeInv /\ [Next]_vars => RuntimeInv' BY StepPreserves
<1>2. QED BY InitInvariant, <1>1, PTL DEF Spec

------------------------------------------------------------------------------
(* What happened on the line of checkpoints *)

LEMMA ProductNat ==
    ASSUME NEW a \in Nat, NEW b \in Nat
    PROVE  a * b \in Nat
  OBVIOUS

\* The ledger is what was moved, here and at the checkpoint.
Traced == /\ ledger = moved
          /\ checkpoint # None => checkpoint.ledger = keptLine.moved

LineInv == HistoryOK /\ Traced

\* The ways a step may treat the line: most leave it alone; a checkpoint keeps
\* it; a restore goes back to what was kept; and three things happen on it.
LineRests == UNCHANGED <<ledger, moved, billed, failed, checkpoint, keptLine>>

LineKept == /\ UNCHANGED <<ledger, moved, billed, failed>>
            /\ checkpoint' # None => checkpoint'.ledger = ledger
            /\ keptLine' = SoFar

LineSent == \E request \in Requests : Dispatch(request)

LineAnswered ==
    \E response \in Responses :
        /\ pc = "calling"
        /\ ledger' = [ledger EXCEPT !.response = @ + response.bytes]
        /\ moved' = [moved EXCEPT !.response = @ + response.bytes]
        /\ billed' = billed + response.tokens * OutputPrice
        /\ UNCHANGED <<failed, checkpoint, keptLine>>

LineTool == \E how \in ToolOutcomes, payload \in Payloads : ToolReturns(how, payload)

\* A step is one of them, and only a dispatch leads to a call.
LEMMA LineSteps ==
    ASSUME [Next]_vars
    PROVE  /\ LineRests \/ LineKept \/ Restore \/ LineSent \/ LineAnswered \/ LineTool
           /\ pc' = "calling" => (pc = "calling" /\ (LineRests \/ LineKept)) \/ LineSent
<1>1. ASSUME NEW stop, NEW turns, NEW log, Finish(stop, turns, log)
      PROVE  (LineRests \/ LineKept) /\ pc' # "calling"
  BY <1>1 DEF Finish, FinalDocument, Document, LineRests, LineKept, line
<1>2. CASE Loop \/ RunCancelled
  <2>1. CASE NextTurn BY <2>1 DEF NextTurn, LineRests, history, line
  <2>2. CASE ~NextTurn
    <3>1. \E stop, turns, log : Finish(stop, turns, log)
      BY <1>2, <2>2
      DEF Loop, RunCancelled, StopCancelled, StopPaused, StopExhausted, StopTurnLimit,
          FinishTurn, FinishExhausted, FinishNoProgress, Halt
    <3>2. QED BY <1>1, <3>1
  <2>3. QED BY <2>1, <2>2
<1>3. CASE Ask
  BY <1>3 DEF Ask, LineSent, RefuseSpend, Decide, LineRests, history, line
<1>4. CASE Answer
  <2>1. pc = "calling" /\ pc' # "calling" /\ UNCHANGED <<failed, checkpoint, keptLine>>
    BY <1>4
    DEF Answer, Answers, CallAbandoned, CallThrows, CallFails, CallUnsafe,
        CallMalformed, CallAccepted, CallReturned, Decide
  <2>2. CASE CallAbandoned \/ CallThrows
    BY <2>1, <2>2 DEF CallAbandoned, CallThrows, charged, LineRests
  <2>3. CASE \E response \in Responses : \E used : Received(used, response)
    BY <2>1, <2>3 DEF Received, LineAnswered
  <2>4. QED
    BY <1>4, <2>1, <2>2, <2>3 DEF Answer, CallFails, CallUnsafe, CallMalformed, CallAccepted
<1>5. CASE BackoffEnds BY <1>5 DEF BackoffEnds, charged, history, line, LineRests
<1>6. CASE UseTool
  <2>1. CASE LineTool BY <2>1 DEF LineTool, ToolReturns, AfterIntent, Decide
  <2>2. CASE ~LineTool
    BY <1>6, <2>2
    DEF UseTool, LineTool, DiscardTool, ExecuteTool, ToolThrows, IntentApplied, AfterIntent,
        Decide, charged, history, line, LineRests
  <2>3. QED BY <2>1, <2>2
<1>7. CASE Apply
  <2>1. UNCHANGED <<ledger, moved, billed, failed, checkpoint, keptLine>>
    BY <1>7
    DEF Apply, FormHypothesis, ProposeCandidate, RejectCandidate, Replan, PauseIntent,
        CancelIntent, TerminateIntent, Steers, IntentsDone, IntentApplied, charged, history, line
  <2>2. pc' # "calling"
    BY <1>7
    DEF Apply, FormHypothesis, ProposeCandidate, RejectCandidate, Replan, PauseIntent,
        CancelIntent, TerminateIntent, Steers, IntentsDone, Applying, AfterIntent, Decide
  <2>3. QED BY <2>1, <2>2 DEF LineRests
<1>8. CASE Run \/ Pause \/ Resume \/ Cancel \/ UNCHANGED vars
  BY <1>8 DEF Run, Pause, Resume, Cancel, vars, control, charged, history, line, LineRests
<1>9. CASE TakeCheckpoint
  BY <1>9 DEF TakeCheckpoint, Document, control, charged, line, LineKept
<1>10. CASE Restore BY <1>10 DEF Restore
<1>11. QED
  BY <1>2, <1>3, <1>4, <1>5, <1>6, <1>7, <1>8, <1>9, <1>10 DEF Next, Step, Operate

\* Whatever way, the ledger goes with what was moved.
LEMMA LinePreserved ==
    ASSUME RuntimeInv, LineInv, [Next]_vars
    PROVE  LineInv'
<1> USE DEF LineInv
<1>1. /\ moved \in Ledger /\ billed \in Nat /\ ledger = moved
      /\ failed \in [Calls -> [{"TERMINAL", "TRANSIENT"} -> Nat]]
      /\ keptLine.moved \in Ledger /\ keptLine.billed \in Nat
      /\ keptLine.failed \in [Calls -> [{"TERMINAL", "TRANSIENT"} -> Nat]]
  BY DEF HistoryOK, SoFar, Lines, Traced
<1>2. ASSUME moved' \in Ledger, billed' \in Nat, keptLine' \in {keptLine, SoFar},
             failed' \in [Calls -> [{"TERMINAL", "TRANSIENT"} -> Nat]]
      PROVE  HistoryOK'
  <2>1. SoFar' \in Lines BY <1>2 DEF SoFar, Lines
  <2>2. keptLine' \in Lines BY <1>2 DEF HistoryOK
  <2>3. QED BY <2>1, <2>2 DEF HistoryOK
<1>3. CASE LineRests
  BY <1>1, <1>2, <1>3 DEF LineRests, Traced
<1>4. CASE LineKept
  <2>1. keptLine'.moved = moved BY <1>4 DEF LineKept, SoFar
  <2>2. QED BY <1>1, <1>2, <1>4, <2>1 DEF LineKept, Traced
<1>5. CASE Restore
  <2>1. moved' = ledger' BY <1>5 DEF Restore, Traced
  <2>2. QED BY <1>1, <1>2, <1>5, <2>1 DEF Restore, Traced
<1>6. CASE LineSent
  <2>1. PICK request \in Requests : Dispatch(request) BY <1>6 DEF LineSent
  <2>2. request \in Nat /\ TokensPerByte \in Nat /\ InputPrice \in Nat BY SizesAssumption
  <2>3. Tokens(request) \in Nat BY <2>2, ProductNat DEF Tokens
  <2>4. billed' \in Nat BY <1>1, <2>1, <2>2, <2>3, ProductNat DEF Dispatch
  <2>5. moved' \in Ledger /\ ledger' = moved'
    BY <1>1, <2>1, <2>2, LedgerCharge DEF Dispatch
  <2>6. UNCHANGED <<failed, keptLine, checkpoint>> BY <2>1 DEF Dispatch
  <2>7. QED BY <1>1, <1>2, <2>4, <2>5, <2>6 DEF Traced
<1>7. CASE LineAnswered
  <2>1. PICK response \in Responses :
            /\ ledger' = [ledger EXCEPT !.response = @ + response.bytes]
            /\ moved' = [moved EXCEPT !.response = @ + response.bytes]
            /\ billed' = billed + response.tokens * OutputPrice
            /\ UNCHANGED <<failed, checkpoint, keptLine>>
    BY <1>7 DEF LineAnswered
  <2>2. response.bytes \in Nat /\ response.tokens \in Nat /\ OutputPrice \in Nat
    BY SizesAssumption
  <2>3. billed' \in Nat BY <1>1, <2>1, <2>2, ProductNat
  <2>4. moved' \in Ledger /\ ledger' = moved' BY <1>1, <2>1, <2>2, LedgerCharge
  <2>5. QED BY <1>1, <1>2, <2>1, <2>3, <2>4 DEF Traced
<1>8. CASE LineTool
  <2>1. PICK how \in ToolOutcomes, payload \in Payloads : ToolReturns(how, payload)
    BY <1>8 DEF LineTool
  <2>2. payload \in Nat BY SizesAssumption
  <2>3. moved' \in Ledger /\ ledger' = moved'
    BY <1>1, <2>1, <2>2, LedgerCharge DEF ToolReturns
  <2>4. toolCall \in Calls BY <2>1 DEF RuntimeInv, Typed, ToolReturns
  <2>5. failed' \in [Calls -> [{"TERMINAL", "TRANSIENT"} -> Nat]]
    <3>1. CASE Succeeded(how) BY <1>1, <2>1, <3>1 DEF ToolReturns
    <3>2. CASE ~Succeeded(how)
      <4>1. how \in {"TERMINAL", "TRANSIENT"} BY <2>1, <3>2 DEF ToolReturns, Succeeded
      <4>2. failed' = [failed EXCEPT ![toolCall] = [failed[toolCall] EXCEPT ![how] = failed[toolCall][how] + 1]]
        BY <1>1, <2>1, <2>4, <3>2 DEF ToolReturns
      <4>3. /\ failed[toolCall] \in [{"TERMINAL", "TRANSIENT"} -> Nat]
            /\ failed[toolCall][how] + 1 \in Nat
        BY <1>1, <2>4, <4>1
      <4>4. [failed[toolCall] EXCEPT ![how] = failed[toolCall][how] + 1]
                \in [{"TERMINAL", "TRANSIENT"} -> Nat]
        BY <4>3
      <4>5. QED BY <1>1, <2>4, <4>2, <4>4
    <3>3. QED BY <3>1, <3>2
  <2>6. UNCHANGED <<billed, keptLine, checkpoint>> BY <2>1 DEF ToolReturns
  <2>7. QED BY <1>1, <1>2, <2>3, <2>5, <2>6 DEF Traced
<1>9. QED BY <1>3, <1>4, <1>5, <1>6, <1>7, <1>8, LineSteps

LEMMA InitLine == Init => LineInv
<1> SUFFICES ASSUME Init PROVE LineInv OBVIOUS
<1>1. NoBytes \in Ledger BY DEF NoBytes, Ledger
<1>2. SoFar \in Lines BY <1>1 DEF Init, SoFar, Lines
<1>3. QED BY <1>2 DEF Init, LineInv, HistoryOK, Traced

LEMMA LineInvariant == Spec => []LineInv
<1>1. RuntimeInv /\ LineInv /\ [Next]_vars => LineInv' BY LinePreserved
<1>2. QED BY Invariant, InitLine, <1>1, PTL DEF Spec

------------------------------------------------------------------------------
(* The properties of the two invariants *)

\* Every variable keeps its type, a checkpoint and the history included.
THEOREM TypeCorrect == Spec => []TypeOK
<1>1. RuntimeInv /\ LineInv => TypeOK BY DEF RuntimeInv, Typed, LineInv, TypeOK
<1>2. QED BY Invariant, LineInvariant, <1>1, PTL

\* What was sent, received and returned is charged once, and a document the
\* runtime hands out is one that parseCheckpoint accepts.
THEOREM BytesAreChargedOnce == Spec => []BytesChargedOnce
<1>1. RuntimeInv /\ LineInv => BytesChargedOnce
  BY DEF RuntimeInv, Explained, LineInv, Traced, BytesChargedOnce
<1>2. QED BY Invariant, LineInvariant, <1>1, PTL

\* Whatever the policy, no counted dimension passes its ceiling.
THEOREM CountsStayWithinCeiling == Spec => []CountsWithinCeiling
<1>1. RuntimeInv => CountsWithinCeiling
  BY DEF RuntimeInv, Headroom, Within, CountsWithinCeiling
<1>2. QED BY Invariant, <1>1, PTL

\* A pause leaves a checkpoint, and who restores a paused instance from it
\* finds all it was but the results that wait for a request.
THEOREM PauseIsKept == Spec => PausedIsKept
<1>1. RuntimeInv => (status = "PAUSED" => checkpoint # None) BY DEF RuntimeInv, PauseInv
<1>2. ASSUME RuntimeInv, [Next]_vars
      PROVE  [status = "PAUSED" /\ Restore =>
                  /\ UNCHANGED <<phase, actionLog, candidateIds, charged, line>>
                  /\ turnBase' + turnsThisRun' = turnBase + turnsThisRun
                  /\ wallBase' = usage.wall /\ pending' = 0]_vars
  <2> SUFFICES ASSUME status = "PAUSED", Restore
               PROVE  /\ UNCHANGED <<phase, actionLog, candidateIds, charged, line>>
                      /\ turnBase' + turnsThisRun' = turnBase + turnsThisRun
                      /\ wallBase' = usage.wall /\ pending' = 0
    OBVIOUS
  <2>1. /\ checkpoint = Document(turnsThisRun, actionLog, usage) /\ keptLine = SoFar
    BY <1>2 DEF RuntimeInv, PauseInv
  <2>2. /\ checkpoint.turns = turnBase + turnsThisRun /\ checkpoint.phase = phase
        /\ checkpoint.actionLog = actionLog /\ checkpoint.candidateIds = candidateIds
        /\ checkpoint.usage = usage /\ checkpoint.ledger = ledger
    BY <2>1 DEF Document
  <2>3. keptLine.moved = moved /\ keptLine.billed = billed /\ keptLine.failed = failed
    BY <2>1 DEF SoFar
  <2>4. turnBase + turnsThisRun \in Nat BY <1>2 DEF RuntimeInv, Typed, StateOK
  <2>5. turnBase' + turnsThisRun' = turnBase + turnsThisRun BY <2>2, <2>4 DEF Restore
  <2>6. QED BY <2>2, <2>3, <2>5 DEF Restore, RestoredLog, charged, line
<1>3. QED BY Invariant, <1>1, <1>2, PTL DEF Spec, PausedIsKept

------------------------------------------------------------------------------
(* The declared spend *)

\* What a bill is known to be beside the charges of the same line.
Room(bill, charges) == bill <= Committed(charges) /\ bill <= MaxSpend

\* The bill is less than what is committed, and a call that was dispatched may
\* still be billed all the tokens it may generate.
SpendRoom ==
    Metered => /\ Room(billed, ledger)
               /\ pc = "calling" => billed + OutputBound * OutputPrice <= MaxSpend
               /\ checkpoint # None => Room(keptLine.billed, checkpoint.ledger)

\* The arithmetic of a response: its tokens are fewer than its bytes stand for.
LEMMA TokensOfBytes ==
    ASSUME NEW tokens \in Nat, NEW bytes \in Nat, NEW price \in Nat, NEW bound \in Nat,
           NEW rate \in Nat, tokens <= bound, tokens <= bytes * rate
    PROVE  tokens * price <= bound * price /\ tokens * price <= (bytes * rate) * price
<1>1. \A m, n \in Nat : m <= n => m * price <= n * price OBVIOUS
<1>2. bytes * rate \in Nat BY ProductNat
<1>3. QED BY <1>1, <1>2

\* A ledger that grows by a request or a response commits what that stands for.
LEMMA CommittedCharge ==
    ASSUME NEW charges \in Ledger, NEW bytes \in Nat
    PROVE  /\ Committed(charges) \in Nat
           /\ Committed([charges EXCEPT !.rendered = @ + bytes])
                  = Committed(charges) + Tokens(bytes) * InputPrice
           /\ Committed([charges EXCEPT !.response = @ + bytes])
                  = Committed(charges) + Tokens(bytes) * OutputPrice
           /\ Committed([charges EXCEPT !.toolResult = @ + bytes]) = Committed(charges)
<1>1. /\ charges.rendered \in Nat /\ charges.response \in Nat /\ TokensPerByte \in Nat
      /\ InputPrice \in Nat /\ OutputPrice \in Nat
  BY SizesAssumption DEF Ledger
<1>2. \A m, n, rate, price \in Nat :
          ((m + n) * rate) * price = (m * rate) * price + (n * rate) * price
  OBVIOUS
<1>3. \A n, rate, price \in Nat : (n * rate) * price \in Nat BY ProductNat
<1>4. /\ Tokens(charges.rendered) * InputPrice \in Nat
      /\ Tokens(charges.response) * OutputPrice \in Nat
      /\ Tokens(bytes) * InputPrice \in Nat /\ Tokens(bytes) * OutputPrice \in Nat
  BY <1>1, <1>3 DEF Tokens
<1>5. /\ Tokens(charges.rendered + bytes) * InputPrice
             = Tokens(charges.rendered) * InputPrice + Tokens(bytes) * InputPrice
      /\ Tokens(charges.response + bytes) * OutputPrice
             = Tokens(charges.response) * OutputPrice + Tokens(bytes) * OutputPrice
  BY <1>1, <1>2 DEF Tokens
<1>6. /\ [charges EXCEPT !.rendered = @ + bytes].rendered = charges.rendered + bytes
      /\ [charges EXCEPT !.rendered = @ + bytes].response = charges.response
      /\ [charges EXCEPT !.response = @ + bytes].rendered = charges.rendered
      /\ [charges EXCEPT !.response = @ + bytes].response = charges.response + bytes
      /\ [charges EXCEPT !.toolResult = @ + bytes].rendered = charges.rendered
      /\ [charges EXCEPT !.toolResult = @ + bytes].response = charges.response
  BY DEF Ledger
<1> HIDE DEF Tokens
<1>7. QED BY <1>4, <1>5, <1>6 DEF Committed

\* Every step keeps the room the next response needs.
LEMMA SpendRoomPreserved ==
    ASSUME \A response \in Responses : /\ response.tokens <= OutputBound
                                       /\ response.tokens <= response.bytes * TokensPerByte,
           RuntimeInv, LineInv, SpendRoom, [Next]_vars
    PROVE  SpendRoom'
<1> SUFFICES ASSUME Metered
             PROVE  /\ Room(billed', ledger')
                    /\ pc' = "calling" => billed' + OutputBound * OutputPrice <= MaxSpend
                    /\ checkpoint' # None => Room(keptLine'.billed, checkpoint'.ledger)
  BY DEF SpendRoom, Room, Committed, Tokens
<1>1. /\ ledger \in Ledger /\ billed \in Nat /\ Committed(ledger) \in Nat /\ MaxSpend \in Nat
      /\ OutputBound \in Nat /\ OutputPrice \in Nat /\ OutputBound * OutputPrice \in Nat
      /\ InputPrice \in Nat /\ TokensPerByte \in Nat
  BY SizesAssumption, CommittedCharge, ProductNat
  DEF RuntimeInv, Typed, StateOK, LineInv, HistoryOK, SoFar, Lines
<1>2. /\ billed <= Committed(ledger) /\ billed <= MaxSpend
      /\ pc = "calling" => billed + OutputBound * OutputPrice <= MaxSpend
      /\ checkpoint # None => Room(keptLine.billed, checkpoint.ledger)
  BY DEF SpendRoom, Room
<1>3. CASE LineRests
  <2>1. pc' = "calling" => pc = "calling" \/ LineSent BY LineSteps
  <2>2. CASE ~LineSent BY <1>2, <1>3, <2>1, <2>2 DEF LineRests, Room
  <2>3. CASE LineSent
    <3>1. PICK request \in Requests : Dispatch(request) BY <2>3 DEF LineSent
    <3>2. Committed(ledger) + WorstCase(request) <= MaxSpend BY <3>1 DEF Dispatch, Admitted
    <3>3. request \in Nat /\ Tokens(request) * InputPrice \in Nat
      BY <1>1, SizesAssumption, ProductNat DEF Tokens
    <3>4. billed' + OutputBound * OutputPrice <= MaxSpend
      BY <1>1, <1>2, <1>3, <3>2, <3>3 DEF WorstCase, LineRests
    <3>5. QED BY <1>2, <1>3, <3>4 DEF LineRests, Room
  <2>4. QED BY <2>2, <2>3
<1>4. CASE LineKept /\ ~LineSent
  <2>1. keptLine'.billed = billed BY <1>4 DEF LineKept, SoFar
  <2>2. pc' = "calling" => pc = "calling" BY <1>4, LineSteps
  <2>3. QED BY <1>2, <1>4, <2>1, <2>2 DEF LineKept, Room
<1>5. CASE Restore
  BY <1>2, <1>5 DEF Restore, Room
<1>6. CASE LineSent
  <2>1. PICK request \in Requests : Dispatch(request) BY <1>6 DEF LineSent
  <2>2. request \in Nat BY SizesAssumption
  <2>3. Tokens(request) * InputPrice \in Nat BY <1>1, <2>2, ProductNat DEF Tokens
  <2>4. Committed(ledger') = Committed(ledger) + Tokens(request) * InputPrice
    BY <1>1, <2>1, <2>2, CommittedCharge DEF Dispatch
  <2>5. /\ billed' = billed + Tokens(request) * InputPrice
        /\ UNCHANGED <<checkpoint, keptLine>>
    BY <2>1 DEF Dispatch
  <2>6. Committed(ledger) + (Tokens(request) * InputPrice + OutputBound * OutputPrice) <= MaxSpend
    BY <2>1 DEF Dispatch, Admitted, WorstCase
  <2>7. /\ billed' + OutputBound * OutputPrice <= MaxSpend
        /\ billed' <= Committed(ledger') /\ billed' <= MaxSpend
    BY <1>1, <1>2, <2>3, <2>4, <2>5, <2>6
  <2>8. QED BY <1>2, <2>5, <2>7 DEF Room
<1>7. CASE LineAnswered
  <2>1. PICK response \in Responses :
            /\ pc = "calling"
            /\ ledger' = [ledger EXCEPT !.response = @ + response.bytes]
            /\ billed' = billed + response.tokens * OutputPrice
            /\ UNCHANGED <<checkpoint, keptLine>>
    BY <1>7 DEF LineAnswered
  <2>2. response.bytes \in Nat /\ response.tokens \in Nat BY SizesAssumption
  <2>3. /\ response.tokens * OutputPrice <= OutputBound * OutputPrice
        /\ response.tokens * OutputPrice <= Tokens(response.bytes) * OutputPrice
    BY <1>1, <2>2, TokensOfBytes DEF Tokens
  <2>4. Committed(ledger') = Committed(ledger) + Tokens(response.bytes) * OutputPrice
    BY <1>1, <2>1, <2>2, CommittedCharge
  <2>5. response.tokens * OutputPrice \in Nat /\ Tokens(response.bytes) * OutputPrice \in Nat
    BY <1>1, <2>2, ProductNat DEF Tokens
  <2>6. billed' <= Committed(ledger') /\ billed' <= MaxSpend
    BY <1>1, <1>2, <2>1, <2>3, <2>4, <2>5
  <2>7. CASE pc' # "calling" BY <1>2, <2>1, <2>6, <2>7 DEF Room
  <2>8. CASE pc' = "calling"
    <3>1. CASE LineSent BY <1>6, <3>1
    <3>2. CASE ~LineSent /\ LineRests BY <1>3, <3>2
    <3>3. CASE ~LineSent /\ LineKept BY <1>4, <3>3
    <3>4. QED BY <2>8, <3>1, <3>2, <3>3, LineSteps
  <2>9. QED BY <2>7, <2>8
<1>8. CASE LineTool
  <2>1. PICK how \in ToolOutcomes, payload \in Payloads : ToolReturns(how, payload)
    BY <1>8 DEF LineTool
  <2>2. payload \in Nat BY SizesAssumption
  <2>3. Committed(ledger') = Committed(ledger)
    BY <1>1, <2>1, <2>2, CommittedCharge DEF ToolReturns
  <2>4. UNCHANGED <<billed, checkpoint, keptLine>> /\ pc' # "calling"
    BY <2>1 DEF ToolReturns, AfterIntent, Decide
  <2>5. QED BY <1>2, <2>3, <2>4 DEF Room
<1>9. QED BY <1>3, <1>4, <1>5, <1>6, <1>7, <1>8, LineSteps

\* The provider's bill never passes the declared ceiling, over any number of
\* pauses and restores, if a response keeps to its bound and its bytes.
THEOREM BilledStaysWithinCeiling ==
    ASSUME \A response \in Responses : /\ response.tokens <= OutputBound
                                       /\ response.tokens <= response.bytes * TokensPerByte
    PROVE  Spec => []BilledWithinCeiling
<1>1. Init => SpendRoom
  <2>1. MaxSpend \in Nat /\ InputPrice \in Nat /\ OutputPrice \in Nat /\ TokensPerByte \in Nat
    BY SizesAssumption
  <2>2. Committed(NoBytes) = 0
    BY <2>1 DEF Committed, Tokens, NoBytes
  <2>3. QED BY <2>1, <2>2 DEF Init, SpendRoom, Room
<1>2. RuntimeInv /\ LineInv /\ SpendRoom /\ [Next]_vars => SpendRoom'
  BY SpendRoomPreserved
<1>3. SpendRoom => BilledWithinCeiling BY DEF SpendRoom, Room, BilledWithinCeiling
<1>4. QED BY Invariant, LineInvariant, <1>1, <1>2, <1>3, PTL DEF Spec

------------------------------------------------------------------------------
(* An end is final, and the contract with the campaign *)

\* A terminated instance is idle, and what is left to happen there changes
\* neither its status nor what it reports, unless a new instance takes over.
THEOREM TerminationIsFinal == Spec => TerminatedIsFinal
<1>1. ASSUME RuntimeInv, [Next]_vars
      PROVE  [status = "TERMINATED" =>
                  \/ UNCHANGED <<status, terminationReason, usage, actionLog>>
                  \/ Restore]_vars
  <2> SUFFICES ASSUME status = "TERMINATED"
               PROVE  \/ UNCHANGED <<status, terminationReason, usage, actionLog>>
                      \/ Restore
    OBVIOUS
  <2>1. pc = "idle" BY <1>1 DEF RuntimeInv, Running
  <2>2. ~Step
    <3>1. ~Loop
      BY <2>1 DEF Loop, StopCancelled, StopPaused, StopExhausted, StopTurnLimit, TurnDue,
             FinishTurn, FinishExhausted, FinishNoProgress, NextTurn, GoesOn, Boundary
    <3>2. ~Ask BY <2>1 DEF Ask, Dispatch, RefuseSpend, TurnDue
    <3>3. ~Answer
      BY <2>1 DEF Answer, Answers, CallAbandoned, CallThrows, CallFails, CallUnsafe,
             CallMalformed, CallAccepted
    <3>4. ~UseTool
      BY <2>1 DEF UseTool, DiscardTool, ExecuteTool, ToolReturns, ToolThrows, Applying
    <3>5. ~Apply
      BY <2>1 DEF Apply, FormHypothesis, ProposeCandidate, RejectCandidate, Replan,
             PauseIntent, CancelIntent, TerminateIntent, Steers, IntentsDone, Applying
    <3>6. ~BackoffEnds BY <2>1 DEF BackoffEnds
    <3>7. QED BY <3>1, <3>2, <3>3, <3>4, <3>5, <3>6 DEF Step
  <2>3. ~Run /\ ~RunCancelled BY DEF Run, RunCancelled
  <2>4. ASSUME Operate PROVE UNCHANGED <<status, terminationReason, usage, actionLog>>
    BY <2>4 DEF Operate, Pause, Resume, Cancel, TakeCheckpoint, Resumable, charged,
           progress, control
  <2>5. ASSUME UNCHANGED vars
        PROVE  UNCHANGED <<status, terminationReason, usage, actionLog>>
    BY <2>5 DEF vars, control, charged, progress
  <2>6. QED BY <1>1, <2>2, <2>3, <2>4, <2>5 DEF Next
<1>2. QED BY <1>1, Invariant, PTL DEF Spec, TerminatedIsFinal

\* finish is the End of the contract: a pause and an exhausted budget leave a
\* checkpoint, and only they and a reasoner's failure make one.
LEMMA FinishIsEnd ==
    ASSUME RuntimeInv, status # "TERMINATED", NEW stop \in Outcomes,
           NEW turns \in Nat, NEW log \in Seq(Record), Finish(stop, turns, log),
           stop.reason \in {"PAUSED", "BUDGET_EXHAUSTED"} => stop.kept,
           stop.kept => stop.reason \in {"PAUSED", "BUDGET_EXHAUSTED", "REASONER_FAILURE"}
    PROVE  Contract!Next
<1>1. /\ terminationReason' = stop.reason
      /\ status' = IF stop.reason = "PAUSED" THEN "PAUSED" ELSE "TERMINATED"
      /\ stop.reason \in Reasons
  BY DEF Finish, RestingStatus, Outcomes
<1>2. CASE stop.kept
  <2>1. checkpoint' = Document(turns, log, Refreshed(usage))
    BY <1>2 DEF Finish, FinalDocument
  <2>2. Refreshed(usage) \in Usage BY RefreshedUsage DEF RuntimeInv, Typed, StateOK
  <2>3. checkpoint' # None
    BY <2>1, <2>2, DocumentType, NoneAssumption DEF RuntimeInv
  <2>4. Contract!End(stop.reason)
    BY <1>1, <1>2, <2>3 DEF Contract!End, Contract!Resumable, Contract!Maybe
  <2>5. QED BY <1>1, <2>4 DEF Contract!Next
<1>3. CASE ~stop.kept
  <2>1. checkpoint' = checkpoint BY <1>3 DEF Finish
  <2>2. Contract!End(stop.reason)
    BY <1>1, <1>3, <2>1 DEF Contract!End, Contract!Resumable, Contract!Maybe
  <2>3. QED BY <1>1, <2>2 DEF Contract!Next
<1>4. QED BY <1>2, <1>3

\* The steps of a run that are not its end stutter in the contract.
LEMMA WorkStutters ==
    ASSUME NextTurn \/ Ask \/ Answer \/ BackoffEnds \/ UseTool \/ Apply
    PROVE  UNCHANGED <<status, terminationReason, checkpoint>>
<1>1. CASE NextTurn BY <1>1 DEF NextTurn
<1>2. CASE Ask BY <1>2 DEF Ask, Dispatch, RefuseSpend
<1>3. CASE Answer
  BY <1>3 DEF Answer, CallAbandoned, CallThrows, CallFails, CallUnsafe, CallMalformed,
         CallAccepted, CallReturned
<1>4. CASE BackoffEnds BY <1>4 DEF BackoffEnds
<1>5. CASE UseTool
  BY <1>5 DEF UseTool, DiscardTool, ExecuteTool, ToolReturns, ToolThrows, IntentApplied
<1>6. CASE Apply
  BY <1>6 DEF Apply, FormHypothesis, ProposeCandidate, RejectCandidate, Replan,
         PauseIntent, CancelIntent, TerminateIntent, Steers, IntentsDone, IntentApplied
<1>7. QED BY <1>1, <1>2, <1>3, <1>4, <1>5, <1>6

\* The runtime implements the contract the campaign relies on.
THEOREM Refinement == Spec => KeepsContract
<1>1. Init => Contract!Init
  BY DEF Init, Contract!Init
<1>2. ASSUME RuntimeInv, [Next]_vars
      PROVE  [Contract!Next]_Contract!vars
  <2> USE <1>2
  <2>1. ASSUME UNCHANGED <<status, terminationReason, checkpoint>>
        PROVE  UNCHANGED Contract!vars
    BY <2>1 DEF Contract!vars
  <2>2. \A reason \in Reasons, kept \in BOOLEAN :
            /\ Stop(reason, kept) \in Outcomes
            /\ Stop(reason, kept).reason = reason /\ Stop(reason, kept).kept = kept
    BY DEF Stop, Outcomes
  <2>3. /\ turnsThisRun \in Nat /\ turnsThisRun + 1 \in Nat /\ actionLog \in Seq(Record)
        /\ Append(actionLog, Note("NO_PROGRESS", "FAILED")) \in Seq(Record)
    BY NoteType DEF RuntimeInv, Typed, StateOK, Actions, Results
  <2>4. ASSUME NEW reason \in Reasons, NEW kept \in BOOLEAN, NEW turns \in Nat,
               NEW log \in Seq(Record), Finish(Stop(reason, kept), turns, log),
               status # "TERMINATED",
               reason \in {"PAUSED", "BUDGET_EXHAUSTED"} <=> kept
        PROVE  Contract!Next
    BY <2>2, <2>4, FinishIsEnd
  <2>5. CASE RunCancelled
    <3>1. "CANCELLED" \in Reasons /\ status # "TERMINATED"
      BY <2>5 DEF RunCancelled, Reasons
    <3>2. QED BY <2>3, <2>4, <2>5, <3>1 DEF RunCancelled, Halt
  <2>6. CASE Loop /\ ~NextTurn
    <3>1. status # "TERMINATED"
      <4>1. pc # "idle"
        BY <2>6
        DEF Loop, StopCancelled, StopPaused, StopExhausted, StopTurnLimit, TurnDue,
            FinishTurn, FinishExhausted, FinishNoProgress, GoesOn, Boundary
      <4>2. QED BY <4>1 DEF RuntimeInv, Running
    <3>2. CASE FinishTurn
      <4>1. /\ outcome \in Outcomes
            /\ outcome.reason \in {"PAUSED", "BUDGET_EXHAUSTED"} => outcome.kept
            /\ outcome.kept => outcome.reason \in
                   {"PAUSED", "BUDGET_EXHAUSTED", "REASONER_FAILURE"}
            /\ Finish(outcome, turnsThisRun + 1, actionLog)
        BY <3>2 DEF FinishTurn, RuntimeInv, Typed, StateOK, OutcomeKeeps
      <4>2. QED BY <2>3, <3>1, <4>1, FinishIsEnd
    <3>3. CASE ~FinishTurn
      <4>1. \E reason \in {"CANCELLED", "PAUSED", "BUDGET_EXHAUSTED", "NO_PROGRESS"},
               kept \in BOOLEAN, turns \in Nat, log \in Seq(Record) :
                   /\ reason \in {"PAUSED", "BUDGET_EXHAUSTED"} <=> kept
                   /\ Finish(Stop(reason, kept), turns, log)
        BY <2>3, <2>6, <3>3
        DEF Loop, StopCancelled, StopPaused, StopExhausted, StopTurnLimit,
            FinishExhausted, FinishNoProgress, Halt
      <4>2. {"CANCELLED", "PAUSED", "BUDGET_EXHAUSTED", "NO_PROGRESS"} \subseteq Reasons
        BY DEF Reasons
      <4>3. QED BY <2>4, <3>1, <4>1, <4>2
    <3>4. QED BY <3>2, <3>3
  <2>7. CASE NextTurn \/ Ask \/ Answer \/ BackoffEnds \/ UseTool \/ Apply
    BY <2>1, <2>7, WorkStutters
  <2>8. CASE Run
    <3>1. Contract!Begin BY <2>8 DEF Run, Contract!Begin
    <3>2. QED BY <3>1 DEF Contract!Next
  <2>9. CASE Pause \/ Cancel BY <2>1, <2>9 DEF Pause, Cancel
  <2>10. CASE Resume
    <3>1. CASE Resumable
      <4>1. Contract!Continue BY <2>10, <3>1 DEF Resume, Resumable, Contract!Continue
      <4>2. QED BY <4>1 DEF Contract!Next
    <3>2. CASE ~Resumable BY <2>1, <2>10, <3>2 DEF Resume
    <3>3. QED BY <3>1, <3>2
  <2>11. CASE TakeCheckpoint
    <3>1. checkpoint' \in Documents
      BY <2>11, DocumentType DEF TakeCheckpoint, RuntimeInv, Typed, StateOK
    <3>2. Contract!Keep
      BY <2>11, <3>1, NoneAssumption DEF TakeCheckpoint, control, Contract!Keep
    <3>3. QED BY <3>2 DEF Contract!Next
  <2>12. CASE Restore
    <3>1. Contract!Renew BY <2>12 DEF Restore, Contract!Renew
    <3>2. QED BY <3>1 DEF Contract!Next
  <2>13. CASE UNCHANGED vars BY <2>1, <2>13 DEF vars, control
  <2>14. QED
    BY <2>5, <2>6, <2>7, <2>8, <2>9, <2>10, <2>11, <2>12, <2>13
    DEF Next, Step, Operate
<1>3. QED BY <1>1, <1>2, Invariant, PTL DEF Spec, KeepsContract, Contract!Spec

------------------------------------------------------------------------------
(* What failed is not repeated *)

\* The log tells how often each call failed, and how.
Tells(log, counts) ==
    \A call \in Calls, d \in {"TERMINAL", "TRANSIENT"} :
        counts[call][d] = Cardinality(Failures(log, call, d))

\* The log tells it, so does the one a restore goes on from, and a call being
\* executed has not exhausted itself: its log stands still meanwhile.
LogInv ==
    /\ Tells(actionLog, failed)
    /\ checkpoint # None => Tells(checkpoint.actionLog, keptLine.failed)
    /\ pc = "tool" => ~Exhausted(actionLog, toolCall)

\* One record more adds at most itself to the failures of an action.
LEMMA FailuresOfAppend ==
    ASSUME NEW log \in Seq(Record), NEW record \in Record, NEW action, NEW disposition
    PROVE  Failures(Append(log, record), action, disposition) =
               IF /\ record.action = action /\ record.result = "TOOL_ERROR"
                  /\ record.disposition = disposition
               THEN Failures(log, action, disposition) \cup {Len(log) + 1}
               ELSE Failures(log, action, disposition)
<1>1. /\ DOMAIN Append(log, record) = DOMAIN log \cup {Len(log) + 1}
      /\ \A i \in DOMAIN log : Append(log, record)[i] = log[i]
      /\ Append(log, record)[Len(log) + 1] = record
  OBVIOUS
<1>2. QED BY <1>1 DEF Failures

\* There are finitely many of them, all of them records of the log.
LEMMA FailuresFinite ==
    ASSUME NEW log \in Seq(Record), NEW action, NEW disposition
    PROVE  /\ IsFiniteSet(Failures(log, action, disposition))
           /\ Len(log) + 1 \notin Failures(log, action, disposition)
<1>1. IsFiniteSet(1..Len(log))
  BY FS_Interval
<1>2. Failures(log, action, disposition) \subseteq 1..Len(log)
  BY DEF Failures
<1>3. QED BY <1>1, <1>2, FS_Subset

\* A record that is no failed execution changes nothing of it.
LEMMA NotedTells ==
    ASSUME NEW log \in Seq(Record), NEW counts, Tells(log, counts), NEW record \in Record,
           record.result # "TOOL_ERROR"
    PROVE  Tells(Append(log, record), counts)
<1>1. ASSUME NEW call, NEW d
      PROVE  Failures(Append(log, record), call, d) = Failures(log, call, d)
  BY FailuresOfAppend
<1>2. QED BY <1>1 DEF Tells

\* A failed execution adds one to its own count.
LEMMA FailureCounts ==
    ASSUME NEW log \in Seq(Record), NEW record \in Record, record.result = "TOOL_ERROR",
           NEW call, NEW d
    PROVE  Cardinality(Failures(Append(log, record), call, d)) =
               IF call = record.action /\ d = record.disposition
               THEN Cardinality(Failures(log, call, d)) + 1
               ELSE Cardinality(Failures(log, call, d))
<1>1. CASE call = record.action /\ d = record.disposition
  <2>1. Failures(Append(log, record), call, d) = Failures(log, call, d) \cup {Len(log) + 1}
    BY <1>1, FailuresOfAppend
  <2>2. Cardinality(Failures(log, call, d) \cup {Len(log) + 1})
            = Cardinality(Failures(log, call, d)) + 1
    BY FailuresFinite, FS_AddElement
  <2>3. QED BY <1>1, <2>1, <2>2
<1>2. CASE ~(call = record.action /\ d = record.disposition)
  <2>1. Failures(Append(log, record), call, d) = Failures(log, call, d)
    BY <1>2, FailuresOfAppend
  <2>2. QED BY <1>2, <2>1
<1>3. QED BY <1>1, <1>2

\* The loop and the operator log nothing, or a note; a call is executed only
\* when its filter let it through.
LEMMA LogPreserved ==
    ASSUME RuntimeInv, LineInv, LogInv, [Next]_vars
    PROVE  LogInv'
<1>1. /\ actionLog \in Seq(Record) /\ Tells(actionLog, failed)
      /\ checkpoint # None => Tells(checkpoint.actionLog, keptLine.failed)
  BY DEF RuntimeInv, Typed, StateOK, LogInv
<1>2. ASSUME NEW record \in Record, record.result # "TOOL_ERROR", Logged(record)
      PROVE  Tells(actionLog', failed)
  BY <1>1, <1>2, NotedTells DEF Logged
<1>3. ASSUME Tells(actionLog', failed'), UNCHANGED <<checkpoint, keptLine>>, pc' # "tool"
      PROVE  LogInv'
  BY <1>1, <1>3 DEF LogInv
<1>4. \A action \in Actions, result \in Results :
          Note(action, result) \in Record /\ Note(action, result).result = result
  BY NoteType DEF Note, Rec
<1>5. ASSUME NEW stop, NEW turns, NEW log, Finish(stop, turns, log), Tells(log, failed)
      PROVE  LogInv'
  <2>1. FinalDocument(turns, log).actionLog = log
    BY DEF FinalDocument, Document
  <2>2. SoFar.failed = failed BY DEF SoFar
  <2>3. QED BY <1>1, <1>5, <2>1, <2>2 DEF Finish, LogInv, line
<1>6. CASE RunCancelled \/ Loop
  <2>1. CASE NextTurn
    BY <1>1, <1>3, <2>1 DEF NextTurn, history, line
  <2>2. CASE FinishNoProgress
    <3>1. Tells(Append(actionLog, Note("NO_PROGRESS", "FAILED")), failed)
      BY <1>1, <1>4, NotedTells DEF Actions, Results
    <3>2. QED BY <1>5, <2>2, <3>1 DEF FinishNoProgress
  <2>3. CASE RunCancelled \/ StopCancelled \/ StopPaused \/ StopExhausted \/ StopTurnLimit
             \/ FinishTurn \/ FinishExhausted
    BY <1>1, <1>5, <2>3
    DEF RunCancelled, StopCancelled, StopPaused, StopExhausted, StopTurnLimit, FinishTurn,
        FinishExhausted, Halt
  <2>4. QED BY <1>6, <2>1, <2>2, <2>3 DEF Loop
<1>7. CASE Ask
  <2>1. PICK request \in Requests : Dispatch(request) \/ RefuseSpend(request)
    BY <1>7 DEF Ask
  <2>2. CASE Dispatch(request)
    BY <1>1, <1>3, <2>2 DEF Dispatch, progress
  <2>3. CASE RefuseSpend(request)
    <3>1. Tells(actionLog', failed)
      BY <1>2, <1>4, <2>3 DEF RefuseSpend, Actions, Results
    <3>2. QED BY <1>3, <2>3, <3>1 DEF RefuseSpend, Decide, history, line
  <2>4. QED BY <2>1, <2>2, <2>3
<1>8. CASE Answer
  <2>1. \/ actionLog' = actionLog
        \/ \E action \in {"REASONER_CALL", "BLOCKED", "REASONER_RESPONSE"} : Logged(Note(action, "FAILED"))
    BY <1>8
    DEF Answer, CallAbandoned, CallThrows, CallFails, CallUnsafe, CallMalformed, CallAccepted
  <2>2. Tells(actionLog', failed)
    BY <1>1, <1>2, <1>4, <2>1 DEF Actions, Results
  <2>3. UNCHANGED <<checkpoint, keptLine, failed>> /\ pc' # "tool"
    BY <1>8
    DEF Answer, CallAbandoned, CallThrows, CallFails, CallUnsafe, CallMalformed,
        CallAccepted, CallReturned, Decide
  <2>4. QED BY <1>3, <2>2, <2>3
<1>9. CASE BackoffEnds
  BY <1>1, <1>3, <1>9 DEF BackoffEnds, progress, history, line
<1>10. CASE UseTool
  <2>1. ASSUME NEW call \in Calls, DiscardTool(call)
        PROVE  LogInv'
    <3>1. Tells(actionLog', failed)
      BY <1>2, <1>4, <2>1 DEF DiscardTool, Actions, Results
    <3>2. QED
      BY <1>3, <2>1, <3>1
      DEF DiscardTool, IntentApplied, AfterIntent, Decide, history, line
  <2>2. ASSUME NEW call \in Calls, ExecuteTool(call)
        PROVE  LogInv'
    BY <1>1, <2>2 DEF ExecuteTool, Filtered, IntentApplied, LogInv, history, line
  <2>3. ASSUME NEW how \in ToolOutcomes, NEW payload \in Payloads, ToolReturns(how, payload)
        PROVE  LogInv'
    <3>1. pc = "tool" /\ toolCall \in Calls
      BY <2>3 DEF ToolReturns, RuntimeInv, Typed, LogInv
    <3>2. ToolRecord(how) \in Record /\ ToolRecord(how).action = toolCall
      BY <2>3, <3>1 DEF ToolReturns, ToolRecord, Rec, Record, Actions, Results, Dispositions
    <3>3. Tells(actionLog', failed')
      <4>1. CASE Succeeded(how)
        <5>1. ToolRecord(how).result # "TOOL_ERROR"
          BY <4>1 DEF Succeeded, ToolRecord, Rec
        <5>2. Tells(actionLog', failed) BY <1>2, <2>3, <3>2, <5>1 DEF ToolReturns
        <5>3. failed' = failed BY <2>3, <4>1 DEF ToolReturns
        <5>4. QED BY <5>2, <5>3
      <4>2. CASE ~Succeeded(how)
        <5>1. how \in {"TERMINAL", "TRANSIENT"} BY <2>3, <4>2 DEF ToolReturns, Succeeded
        <5>2. ToolRecord(how).result = "TOOL_ERROR" /\ ToolRecord(how).disposition = how
          BY <5>1 DEF ToolRecord, Rec
        <5>3. /\ failed \in [Calls -> [{"TERMINAL", "TRANSIENT"} -> Nat]]
              /\ failed' \in [Calls -> [{"TERMINAL", "TRANSIENT"} -> Nat]]
          BY LinePreserved DEF LineInv, HistoryOK, SoFar, Lines
        <5>4. failed' = [failed EXCEPT ![toolCall][how] = @ + 1]
          BY <2>3, <4>2 DEF ToolReturns
        <5>5. \A call \in Calls, d \in {"TERMINAL", "TRANSIENT"} :
                  failed'[call][d] = IF call = toolCall /\ d = how THEN failed[call][d] + 1
                                                                   ELSE failed[call][d]
          BY <3>1, <5>1, <5>3, <5>4
        <5>6. actionLog' = Append(actionLog, ToolRecord(how))
          BY <2>3 DEF ToolReturns, Logged
        <5>7. PICK record \in Record : record = ToolRecord(how) BY <3>2
        <5>8. \A call \in Calls, d \in {"TERMINAL", "TRANSIENT"} :
                  failed'[call][d] = IF call = record.action /\ d = record.disposition
                                     THEN failed[call][d] + 1 ELSE failed[call][d]
          BY <3>2, <5>2, <5>5, <5>7
        <5>9. record.result = "TOOL_ERROR" BY <5>2, <5>7
        <5>10. ASSUME NEW call \in Calls, NEW d \in {"TERMINAL", "TRANSIENT"}
               PROVE  failed'[call][d] = Cardinality(Failures(actionLog', call, d))
          <6>1. failed[call][d] = Cardinality(Failures(actionLog, call, d))
            BY <1>1 DEF Tells
          <6>2. QED BY <1>1, <5>6, <5>7, <5>8, <5>9, <6>1, FailureCounts
        <5>11. QED BY <5>10 DEF Tells
      <4>3. QED BY <4>1, <4>2
    <3>4. QED BY <1>3, <2>3, <3>3 DEF ToolReturns, AfterIntent, Decide
  <2>4. CASE ToolThrows
    BY <1>1, <1>3, <2>4 DEF ToolThrows, progress, history, line
  <2>5. QED BY <1>10, <2>1, <2>2, <2>3, <2>4 DEF UseTool
<1>11. CASE Apply
  <2>1. \/ actionLog' = actionLog
        \/ \E record \in Record : record.result # "TOOL_ERROR" /\ Logged(record)
    <3>1. \A evidence \in BOOLEAN :
              Rec("FORM_HYPOTHESIS", "RECORDED", evidence, "NONE") \in
                  {record \in Record : record.result # "TOOL_ERROR"}
      BY DEF Rec, Record, Actions, IntentKinds, Results, Dispositions
    <3>2. Rec("PROPOSE_CANDIDATE", "CANDIDATE_PROPOSED", TRUE, "NONE") \in
              {record \in Record : record.result # "TOOL_ERROR"}
      BY DEF Rec, Record, Actions, IntentKinds, Results, Dispositions
    <3>3. \A action \in IntentKinds, result \in {"CANDIDATE_REJECTED", "RECORDED"} :
              Note(action, result) \in
                  {record \in Record : record.result # "TOOL_ERROR"}
      BY <1>4 DEF Actions, Results
    <3>4. CASE FormHypothesis
      BY <3>1, <3>4 DEF FormHypothesis
    <3>5. CASE \E candidate \in Candidates : ProposeCandidate(candidate)
      BY <3>2, <3>5 DEF ProposeCandidate
    <3>6. CASE \E action \in IntentKinds, result \in {"CANDIDATE_REJECTED", "RECORDED"} :
                   Logged(Note(action, result))
      BY <3>3, <3>6
    <3>7. CASE IntentsDone
      BY <3>7 DEF IntentsDone
    <3>8. QED
      BY <1>11, <3>4, <3>5, <3>6, <3>7
      DEF Apply, RejectCandidate, Replan, PauseIntent, CancelIntent, TerminateIntent, Steers,
          IntentKinds
  <2>2. Tells(actionLog', failed)
    BY <1>1, <1>2, <2>1
  <2>3. UNCHANGED <<checkpoint, keptLine, failed>> /\ pc' # "tool"
    BY <1>11
    DEF Apply, FormHypothesis, ProposeCandidate, RejectCandidate, Replan, PauseIntent,
        CancelIntent, TerminateIntent, Steers, IntentsDone, IntentApplied, Applying,
        AfterIntent, Decide, history, line
  <2>4. QED BY <1>3, <2>2, <2>3
<1>12. CASE Run \/ Pause \/ Resume \/ Cancel \/ UNCHANGED vars
  <2>1. /\ UNCHANGED <<actionLog, checkpoint, toolCall, failed, keptLine>>
        /\ pc' = pc \/ pc' = "top"
    BY <1>12 DEF Run, Pause, Resume, Cancel, vars, control, turn, progress, history, line
  <2>2. QED BY <2>1 DEF LogInv
<1>13. CASE TakeCheckpoint
  <2>1. Document(turnsThisRun, actionLog, usage).actionLog = actionLog
    BY DEF Document
  <2>2. SoFar.failed = failed BY DEF SoFar
  <2>3. QED BY <1>13, <2>1, <2>2 DEF TakeCheckpoint, LogInv, control, turn, progress, line
<1>14. CASE Restore
  BY <1>1, <1>14 DEF Restore, RestoredLog, LogInv
<1>15. QED
  BY <1>6, <1>7, <1>8, <1>9, <1>10, <1>11, <1>12, <1>13, <1>14 DEF Next, Step, Operate

\* A call that failed for good is not executed again, and a transient failure
\* is repeated within its budget, whatever lies between.
THEOREM FailuresAreRespected == Spec => []FailedCallsNotRepeated
<1>1. Init => LogInv
  <2> SUFFICES ASSUME Init PROVE LogInv
    OBVIOUS
  <2>1. /\ actionLog = <<>> /\ DOMAIN <<>> = {} /\ checkpoint = None /\ pc = "idle"
        /\ failed = [call \in Calls |-> [d \in {"TERMINAL", "TRANSIENT"} |-> 0]]
    BY DEF Init
  <2>2. \A call \in Calls, d \in {"TERMINAL", "TRANSIENT"} : Failures(<<>>, call, d) = {}
    BY <2>1 DEF Failures
  <2>3. Cardinality({}) = 0
    BY FS_EmptySet
  <2>4. QED BY <2>1, <2>2, <2>3 DEF LogInv, Tells
<1>2. RuntimeInv /\ LineInv /\ LogInv /\ [Next]_vars => LogInv'
  BY LogPreserved
<1>3. RuntimeInv /\ LogInv => FailedCallsNotRepeated
  <2> SUFFICES ASSUME RuntimeInv, LogInv, pc = "tool"
               PROVE  /\ failed[toolCall]["TERMINAL"] = 0
                      /\ failed[toolCall]["TRANSIENT"] < TransientBudget
    BY DEF FailedCallsNotRepeated
  <2>1. toolCall \in Calls /\ actionLog \in Seq(Record) BY DEF RuntimeInv, Typed, StateOK
  <2>2. /\ Failures(actionLog, toolCall, "TERMINAL") = {}
        /\ ~(Cardinality(Failures(actionLog, toolCall, "TRANSIENT")) >= TransientBudget)
    BY DEF LogInv, Exhausted
  <2>3. Cardinality(Failures(actionLog, toolCall, "TRANSIENT")) \in Nat
    BY <2>1, FailuresFinite, FS_CardinalityType
  <2>4. \A d \in {"TERMINAL", "TRANSIENT"} :
            failed[toolCall][d] = Cardinality(Failures(actionLog, toolCall, d))
    BY <2>1 DEF LogInv, Tells
  <2>5. failed[toolCall]["TERMINAL"] = 0 BY <2>2, <2>4, FS_EmptySet
  <2>6. QED BY <2>2, <2>3, <2>4, <2>5 DEF TransientBudget
<1>4. QED BY Invariant, LineInvariant, <1>1, <1>2, <1>3, PTL DEF Spec

=============================================================================
