------------------------- MODULE CampaignOrchestrator -------------------------
(***************************************************************************)
(* A campaign of the orchestrator (src/core/campaign/orchestrator.ts): the *)
(* work items of its manifest are executed in order, the anomaly clusters  *)
(* they admit are replayed, and the campaign is given a result class.  All *)
(* it knows is in one checkpoint document, written at the places the code  *)
(* calls checkpoint(); the process may die anywhere and be resumed from it *)
(* any number of times.                                                    *)
(*                                                                         *)
(* An action is what the process does between two writes of the document,  *)
(* or between the last write before a call of the executor, that call and  *)
(* its return, so that the document is the only state shared by two        *)
(* processes and a death loses exactly phase and stop.                     *)
(***************************************************************************)
EXTENDS Naturals, FiniteSets

CONSTANTS
  Items,            \* work items of the manifest, numbered in their order
  Clusters,         \* clusters worth a replay, numbered by their priority
  MaxAttempts,      \* CAMPAIGN_WORK_ITEM_MAX_ATTEMPTS
  MaxReplays,       \* budgetPolicy.maxReplays
  MaxContexts,      \* budgetPolicy.maxTotalBrowserContexts
  CollectContexts,  \* what of them is left for work items
  MaxPromoted       \* budgetPolicy.maxPromotedClusters

ASSUME OrchestratorAssumption ==
  /\ Items \subseteq Nat /\ IsFiniteSet(Items)
  /\ Clusters \subseteq Nat /\ IsFiniteSet(Clusters)
  /\ MaxAttempts \in Nat \ {0} /\ MaxReplays \in Nat \ {0}
  /\ MaxContexts \in Nat \ {0} /\ CollectContexts \in 0..MaxContexts
  /\ MaxPromoted \in Nat

VARIABLES
  doc,       \* the checkpoint on disk
  phase,     \* where the process is; "idle": there is none
  stop,      \* the verdict the process has reached, in memory only
  runs,      \* history: how often the executor was entered for an item
  happened   \* history: what became of the safety events returned so far

orchestratorVars == <<doc, phase, stop, runs, happened>>

\* A process may look at a safety event that was returned to it, or die before
\* it does; the minimizer keeps those of its own replays to itself.
Fates == {"seen", "lost", "minimized"}

\* Where an outcome is in the process: one that counts a safety event or not.
Alarmed == phase \in {"item alarmed", "replay alarmed"}

ItemOpen == {"PENDING", "RUNNING", "REPLAY_REQUIRED"}
ItemDone == {"COMPLETED", "BLOCKED", "SKIPPED"}
QueueOpen == ItemOpen
QueueDone == {"COMPLETED", "BLOCKED"}

\* Result classes.  PARTIAL_BUDGET_EXHAUSTED is two verdicts, since only one of
\* its stop reasons has to be backed by an exhausted budget.
Refusals == {"PARTIAL_AUTH_BLOCKED", "PARTIAL_SAFETY_BLOCKED",
             "PARTIAL_RUNTIME_INFRA_FAILURE", "ABORTED_OWNER_POLICY"}
Terminal == Refusals \cup {"BUDGET_EXHAUSTED", "RUNTIME_TIMEOUT",
                           "COMPLETE_CLEAN", "COMPLETE_WITH_FINDINGS"}
Resumable == {"IN_PROGRESS", "INCOMPLETE_PROCESS_INTERRUPTION"}

CheckpointDocument ==
  [status : Terminal \cup Resumable,
   items : [Items -> [state : ItemOpen \cup ItemDone, attempts : 0..MaxAttempts]],
   found : SUBSET Clusters,
   queue : [Clusters -> QueueOpen \cup QueueDone \cup {"none"}],
   reservation : [Clusters -> {"none", "RESERVED", "CONSUMED"}],
   ready : SUBSET Clusters,
   replays : 0..MaxReplays, contexts : 0..MaxContexts, actionsSpent : BOOLEAN,
   safety : BOOLEAN, replayEvents : 0..2,
   unresolved : SUBSET {"PROCESS_INTERRUPTION", "REASON"}]

\* initialCheckpoint: nothing executed, nothing found, nothing spent.
InitialCheckpoint ==
  [status |-> "IN_PROGRESS",
   items |-> [i \in Items |-> [state |-> "PENDING", attempts |-> 0]],
   found |-> {}, queue |-> [c \in Clusters |-> "none"],
   reservation |-> [c \in Clusters |-> "none"], ready |-> {},
   replays |-> 0, contexts |-> 0, actionsSpent |-> FALSE,
   safety |-> FALSE, replayEvents |-> 0, unresolved |-> {}]

BudgetSpent(d) ==
  d.replays = MaxReplays \/ d.contexts = MaxContexts \/ d.actionsSpent

\* validateReplayReservations.
ReservationsValid(d) ==
  \A c \in Clusters :
    LET r == d.reservation[c]
        q == d.queue[c]
    IN /\ c \in d.ready => r = "CONSUMED"
       /\ r # "none" /\ q = "none" => c \in d.ready
       /\ r = "RESERVED" /\ q # "none" => q = "RUNNING"
       /\ r = "CONSUMED" => q # "PENDING"

\* validateCampaignCheckpoint, the checks a document of this program can fail:
\* the others are of shapes this model does not have.
Valid(d) ==
  /\ ReservationsValid(d)
  /\ d.replayEvents <= 1
  /\ d.status = "COMPLETE_CLEAN" =>
       /\ d.unresolved = {}
       /\ \A i \in Items : d.items[i].state \notin ItemOpen
       /\ \A c \in Clusters : d.queue[c] \notin QueueOpen
  /\ d.status = "COMPLETE_WITH_FINDINGS" => d.ready # {}
  /\ d.status = "BUDGET_EXHAUSTED" => BudgetSpent(d)

\* checkpoint(): the document is validated, then written; a refusal is an
\* exception that leaves run() and the document as they were.
Checkpoint(d, next) ==
  \/ Valid(d) /\ doc' = d /\ phase' = next
  \/ ~Valid(d) /\ doc' = doc /\ phase' = "idle"

\* updateRecord.
RecordItem(d, i, s, a) == [d EXCEPT !.items[i] = [state |-> s, attempts |-> a]]
Because(d, reason) == [d EXCEPT !.unresolved = @ \cup {reason}]

\* markPendingSkipped.
SkipPending(d) ==
  Because([d EXCEPT !.items = [i \in Items |->
             IF @[i].state \in {"PENDING", "RUNNING"}
             THEN [@[i] EXCEPT !.state = "SKIPPED"] ELSE @[i]]], "REASON")

\* finalize: the campaign gets its result class, and the process ends.
CloseCampaign(d, verdict) ==
  LET kept == IF verdict = "COMPLETE_CLEAN"
              THEN d.unresolved \ {"PROCESS_INTERRUPTION"} ELSE d.unresolved
  IN /\ Checkpoint([d EXCEPT !.status = verdict, !.unresolved = kept], "idle")
     /\ UNCHANGED <<stop, runs, happened>>

-----------------------------------------------------------------------------
(* Starting and ending a process. *)

\* resumeCampaign and the head of run(): a campaign with a result class is only
\* given it again.
Resume ==
  /\ phase = "idle"
  /\ phase' = IF doc.status \in Resumable THEN "preflight" ELSE "finalize"
  /\ stop' = IF doc.status \in Resumable THEN "none" ELSE doc.status
  /\ UNCHANGED <<doc, runs, happened>>

\* run(): the version check and the preflight of the campaign as a whole.
PreflightPasses ==
  /\ phase = "preflight"
  /\ Checkpoint(doc, "items")
  /\ UNCHANGED <<stop, runs, happened>>

PreflightRefuses ==
  /\ phase = "preflight"
  /\ \E verdict \in Refusals : CloseCampaign(Because(doc, "REASON"), verdict)

Finalize ==
  /\ phase = "finalize"
  /\ CloseCampaign(doc, stop)

\* The process dies.
Die ==
  /\ phase # "idle"
  /\ phase' = "idle" /\ stop' = "none"
  /\ happened' = IF Alarmed THEN happened \cup {"lost"} ELSE happened
  /\ UNCHANGED <<doc, runs>>

-----------------------------------------------------------------------------
(* Work items: executeWorkItem. *)

IsNext(i) ==
  /\ doc.items[i].state \in ItemOpen
  /\ \A j \in Items : j < i => doc.items[j].state \in ItemDone

\* The item is closed and the campaign stops: the rest of the manifest is
\* skipped, and the verdict is kept in memory for finalize.
StopAt(d, verdict) ==
  /\ Checkpoint(SkipPending(d), "finalize")
  /\ stop' = verdict

\* What an item that failed or threw is turned into.
ItemVerdicts == Refusals \cup {"RUNTIME_TIMEOUT"}

\* The preflight of the item fails, its time is over or the versions drifted.
ItemRefused(i) ==
  /\ phase = "items" /\ IsNext(i)
  /\ \E verdict \in ItemVerdicts :
       StopAt(RecordItem(doc, i, "BLOCKED", doc.items[i].attempts), verdict)
  /\ UNCHANGED <<runs, happened>>

\* grantWorkItemAttempt refuses.
AttemptsExhausted(i) ==
  /\ phase = "items" /\ IsNext(i)
  /\ doc.items[i].attempts >= MaxAttempts
  /\ StopAt(RecordItem(doc, i, "BLOCKED", doc.items[i].attempts),
            "PARTIAL_RUNTIME_INFRA_FAILURE")
  /\ UNCHANGED <<runs, happened>>

\* An attempt after the first is a replay and is charged as one.
IsReplay(i) == doc.items[i].attempts > 0
Affordable(i) ==
  /\ doc.contexts < CollectContexts
  /\ IsReplay(i) => doc.replays < MaxReplays

\* reserveWork throws after the attempt was granted.
ItemBudgetExhausted(i) ==
  /\ phase = "items" /\ IsNext(i)
  /\ doc.items[i].attempts < MaxAttempts
  /\ ~Affordable(i)
  /\ StopAt(RecordItem(doc, i, "BLOCKED", doc.items[i].attempts + 1), "BUDGET_EXHAUSTED")
  /\ UNCHANGED <<runs, happened>>

Reserved(i) ==
  [RecordItem(doc, i, "RUNNING", doc.items[i].attempts + 1) EXCEPT
     !.contexts = @ + 1, !.replays = @ + (IF IsReplay(i) THEN 1 ELSE 0)]

\* Mutant: the marker and the reservation are written with the outcome only.
EnterUnreserved(i) ==
  /\ phase = "items" /\ IsNext(i)
  /\ doc.items[i].attempts < MaxAttempts /\ Affordable(i)
  /\ phase' = "executing"
  /\ runs' = [runs EXCEPT ![i] = @ + 1]
  /\ UNCHANGED <<doc, stop, happened>>

\* The marker, the attempt and its budget are written, then the executor is
\* entered.
EnterItem(i) ==
  /\ phase = "items" /\ IsNext(i)
  /\ doc.items[i].attempts < MaxAttempts /\ Affordable(i)
  /\ Checkpoint(Reserved(i), "executing")
  /\ runs' = [runs EXCEPT ![i] = @ + 1]
  /\ UNCHANGED <<stop, happened>>

Executing(i) == phase = "executing" /\ IsNext(i)

\* The executor returns.
ItemReturns(i) ==
  /\ Executing(i)
  /\ phase' \in {"item returned", "item alarmed"}
  /\ UNCHANGED <<doc, stop, runs, happened>>

Returned(i) == phase = "item returned" /\ IsNext(i)
ItemAlarmed(i) == phase = "item alarmed" /\ IsNext(i)

\* What the outcome of an item brings besides its result.
Outcomes(i, s) ==
  UNION {{[RecordItem(doc, i, s, doc.items[i].attempts) EXCEPT
             !.found = @ \cup new, !.actionsSpent = spent] : new \in SUBSET Clusters}
         : spent \in {doc.actionsSpent, TRUE}}

ItemCompletes(i) ==
  /\ Returned(i)
  /\ \E d \in Outcomes(i, "COMPLETED") : Checkpoint(d, "items")
  /\ UNCHANGED <<stop, runs, happened>>

\* Mutant: the safety vector of the outcome is added, and nobody looks at it.
SafetyUnlooked(i) ==
  /\ ItemAlarmed(i)
  /\ \E s \in {"COMPLETED", "BLOCKED"} : \E d \in Outcomes(i, s) :
       Checkpoint([d EXCEPT !.safety = TRUE], "items")
  /\ happened' = happened \cup {"seen"}
  /\ UNCHANGED <<stop, runs>>

\* The outcome counts a safety event.
ItemSafetyEvent(i) ==
  /\ ItemAlarmed(i)
  /\ \E s \in {"COMPLETED", "BLOCKED"} : \E d \in Outcomes(i, s) :
       StopAt([d EXCEPT !.safety = TRUE], "PARTIAL_SAFETY_BLOCKED")
  /\ happened' = happened \cup {"seen"}
  /\ UNCHANGED runs

\* The outcome is private or part of a failure storm, whatever its result; or
\* the result is a failure, or the outcome is not accepted.
ItemStopsCampaign(i) ==
  /\ Returned(i)
  /\ \/ \E verdict \in {"PARTIAL_SAFETY_BLOCKED", "PARTIAL_RUNTIME_INFRA_FAILURE"} :
          \E d \in Outcomes(i, "COMPLETED") : StopAt(d, verdict)
     \/ \E verdict \in ItemVerdicts :
          \E d \in Outcomes(i, "BLOCKED") : StopAt(d, verdict)
  /\ UNCHANGED <<runs, happened>>

\* The executor throws.
ItemThrows(i) ==
  /\ Executing(i)
  /\ \E verdict \in ItemVerdicts :
       StopAt(RecordItem(doc, i, "BLOCKED", doc.items[i].attempts), verdict)
  /\ UNCHANGED <<runs, happened>>

\* The safety vector of the outcome is added, and its observations are refused.
ItemEventRefused(i) ==
  /\ ItemAlarmed(i)
  /\ \E verdict \in ItemVerdicts, spent \in {doc.actionsSpent, TRUE} :
       StopAt([RecordItem(doc, i, "BLOCKED", doc.items[i].attempts) EXCEPT
                 !.safety = TRUE, !.actionsSpent = spent], verdict)
  /\ happened' = happened \cup {"seen"}
  /\ UNCHANGED runs

\* The result is SAFETY_BLOCKED and the vector is zero: nothing is skipped and
\* nothing is unresolved.
ItemSafetyBlocked(i) ==
  /\ Returned(i)
  /\ \E d \in Outcomes(i, "BLOCKED") : Checkpoint(d, "finalize")
  /\ stop' = "PARTIAL_SAFETY_BLOCKED"
  /\ UNCHANGED <<runs, happened>>

\* addActions throws before anything of the outcome is taken over, a safety
\* event of it included.
ItemOverspends(i) ==
  /\ Returned(i) \/ ItemAlarmed(i)
  /\ StopAt(RecordItem(doc, i, "BLOCKED", doc.items[i].attempts), "BUDGET_EXHAUSTED")
  /\ happened' = IF Alarmed THEN happened \cup {"seen"} ELSE happened
  /\ UNCHANGED runs

\* CampaignProcessInterruptionError: the only exception that is not a verdict.
ItemInterrupted(i) ==
  /\ Executing(i)
  /\ Checkpoint([Because(RecordItem(doc, i, "REPLAY_REQUIRED", doc.items[i].attempts),
                         "PROCESS_INTERRUPTION")
                   EXCEPT !.status = "INCOMPLETE_PROCESS_INTERRUPTION"], "finalize")
  /\ stop' = "INCOMPLETE_PROCESS_INTERRUPTION"
  /\ UNCHANGED <<runs, happened>>

\* run() was told to stop after this item.
StopAfterItem ==
  /\ phase = "items"
  /\ \E i \in Items : doc.items[i].state \in ItemDone
  /\ CloseCampaign(Because(doc, "PROCESS_INTERRUPTION"), "INCOMPLETE_PROCESS_INTERRUPTION")

-----------------------------------------------------------------------------
(* Replays: promoteFindings. *)

\* The first of them by priority.
Promoted(eligible) ==
  {c \in eligible : Cardinality({e \in eligible : e < c}) < MaxPromoted}

\* A cluster keeps the record it has; one that has a dossier leaves the queue.
\* (Rejected candidates are not among the clusters of this module: nothing of
\* the campaign but their own record depends on them.)
PlanQueue ==
  /\ phase = "items"
  /\ \A i \in Items : doc.items[i].state \in ItemDone
  /\ LET promoted == Promoted(doc.found \ doc.ready)
     IN Checkpoint([doc EXCEPT !.queue = [c \in Clusters |->
                      IF c \notin promoted THEN "none"
                      ELSE IF @[c] = "none" THEN "PENDING" ELSE @[c]]], "queue")
  /\ UNCHANGED <<stop, runs, happened>>

IsNextReplay(c) ==
  /\ doc.queue[c] \in QueueOpen
  /\ \A e \in Clusters : e < c => doc.queue[e] \notin QueueOpen

\* The record is blocked and the promotion stops.
BlockReplay(d, c, verdict) ==
  /\ Checkpoint(Because([d EXCEPT !.queue[c] = "BLOCKED"], "REASON"), "finalize")
  /\ stop' = verdict

\* closeInterruptedReplay: a replay that was entered is not entered again.
CloseInterruptedReplay(c) ==
  /\ phase = "queue" /\ IsNextReplay(c)
  /\ doc.queue[c] = "REPLAY_REQUIRED" \/ doc.reservation[c] = "CONSUMED"
  /\ BlockReplay(doc, c, "PARTIAL_RUNTIME_INFRA_FAILURE")
  /\ UNCHANGED <<runs, happened>>

ReplayBudgetExhausted(c) ==
  /\ phase = "queue" /\ IsNextReplay(c)
  /\ doc.queue[c] # "REPLAY_REQUIRED" /\ doc.reservation[c] = "none"
  /\ doc.replays = MaxReplays \/ doc.contexts = MaxContexts
  /\ BlockReplay(doc, c, "BUDGET_EXHAUSTED")
  /\ UNCHANGED <<runs, happened>>

\* There is no adapter, or the owner policy refuses: before the reservation is
\* made, or over one a dead process has left.
ReplayRefused(c) ==
  /\ phase = "queue" /\ IsNextReplay(c)
  /\ doc.queue[c] # "REPLAY_REQUIRED"
  /\ BlockReplay(doc, c, "PARTIAL_RUNTIME_INFRA_FAILURE")
  /\ UNCHANGED <<runs, happened>>

\* Mutant: the reservation of a replay that was entered is used again.
ReuseConsumedReplay(c) ==
  /\ phase = "queue" /\ IsNextReplay(c)
  /\ doc.queue[c] # "REPLAY_REQUIRED"
  /\ IF doc.reservation[c] = "none"
     THEN /\ doc.replays < MaxReplays /\ doc.contexts < MaxContexts
          /\ Checkpoint([doc EXCEPT !.reservation[c] = "RESERVED", !.queue[c] = "RUNNING",
                                    !.replays = @ + 1, !.contexts = @ + 1], "replaying")
     ELSE Checkpoint([doc EXCEPT !.queue[c] = "RUNNING"], "replaying")
  /\ UNCHANGED <<stop, runs, happened>>

\* reserveReproductionBudget, or the reservation of a process that died, then the
\* checkpoint and the entry of reproduce.
EnterReplay(c) ==
  /\ phase = "queue" /\ IsNextReplay(c)
  /\ doc.queue[c] # "REPLAY_REQUIRED"
  /\ \/ /\ doc.reservation[c] = "none"
        /\ doc.replays < MaxReplays /\ doc.contexts < MaxContexts
        /\ Checkpoint([doc EXCEPT !.reservation[c] = "RESERVED", !.queue[c] = "RUNNING",
                                  !.replays = @ + 1, !.contexts = @ + 1], "replaying")
     \/ /\ doc.reservation[c] = "RESERVED"
        /\ Checkpoint([doc EXCEPT !.queue[c] = "RUNNING"], "replaying")
  /\ UNCHANGED <<stop, runs, happened>>

Replaying(c) == phase = "replaying" /\ IsNextReplay(c)

\* reproduce returns.
ReplayReturns(c) ==
  /\ Replaying(c)
  /\ phase' \in {"replay returned", "replay alarmed"}
  /\ UNCHANGED <<doc, stop, runs, happened>>

Replayed(c) == phase = "replay returned" /\ IsNextReplay(c)

\* markReplayReservationConsumed.
Consumed(c) == [doc EXCEPT !.reservation[c] = "CONSUMED"]

ReplaySafetyEvent(c) ==
  /\ phase = "replay alarmed" /\ IsNextReplay(c)
  /\ Checkpoint(SkipPending([Consumed(c) EXCEPT !.safety = TRUE, !.replayEvents = @ + 1]),
                "finalize")
  /\ stop' = "PARTIAL_RUNTIME_INFRA_FAILURE"
  /\ happened' = happened \cup {"seen"}
  /\ UNCHANGED runs

ReplayPrivacyBlocked(c) ==
  /\ Replayed(c)
  /\ StopAt(Consumed(c), "PARTIAL_SAFETY_BLOCKED")
  /\ UNCHANGED <<runs, happened>>

\* The outcome is not the anomaly, or cannot be minimised for want of a closure.
NotReproduced(c) ==
  /\ Replayed(c)
  /\ Checkpoint([Consumed(c) EXCEPT !.queue[c] = "COMPLETED"], "queue")
  /\ UNCHANGED <<stop, runs, happened>>

MinimizationUnavailable(c) ==
  /\ Replayed(c)
  /\ doc.replays = MaxReplays
  /\ BlockReplay(Consumed(c), c, "BUDGET_EXHAUSTED")
  /\ UNCHANGED <<runs, happened>>

\* minimizeFailure replays the failure with what is left of the replays.  One
\* that counts a safety event is no reproduction of it, and nothing else of its
\* safety vector leaves the minimizer: no gate and no document sees the event.
MinimizationReplays == happened' \in {happened, happened \cup {"minimized"}}

\* The failure is minimised, and a dossier is written; it is READY or, a
\* semantic one, possibly not.
Dossier(c) ==
  /\ Replayed(c)
  /\ doc.replays < MaxReplays
  /\ \E n \in 0..(MaxReplays - doc.replays), ready \in BOOLEAN :
       Checkpoint([Consumed(c) EXCEPT !.queue[c] = "COMPLETED", !.replays = @ + n,
                     !.ready = IF ready THEN @ \cup {c} ELSE @], "queue")
  /\ MinimizationReplays
  /\ UNCHANGED <<stop, runs>>

\* What an exception after the entry of a replay is turned into; a refusal of the
\* owner policy is a failure storm.
ReplayVerdicts == Refusals \ {"ABORTED_OWNER_POLICY"}

\* Triage throws after the replay has returned.
TriageFails(c) ==
  /\ Replayed(c)
  /\ doc.replays < MaxReplays
  /\ \E verdict \in ReplayVerdicts : BlockReplay(Consumed(c), c, verdict)
  /\ MinimizationReplays
  /\ UNCHANGED runs

\* reproduce throws: the record is blocked, but the reservation is not consumed.
ReplayFails(c) ==
  /\ Replaying(c)
  /\ \E verdict \in ReplayVerdicts : BlockReplay(doc, c, verdict)
  /\ UNCHANGED <<runs, happened>>

\* CampaignProcessInterruptionError, before reproduce was entered or in it.
ReplayInterrupted(c) ==
  /\ Replaying(c)
  /\ \E d \in {doc, [Consumed(c) EXCEPT !.queue[c] = "REPLAY_REQUIRED"]} :
       Checkpoint([Because(d, "PROCESS_INTERRUPTION")
                     EXCEPT !.status = "INCOMPLETE_PROCESS_INTERRUPTION"], "finalize")
  /\ stop' = "INCOMPLETE_PROCESS_INTERRUPTION"
  /\ UNCHANGED <<runs, happened>>

\* Nothing is left to do: hasAdmittedFindings decides.
Complete ==
  /\ phase = "queue"
  /\ \A c \in Clusters : doc.queue[c] \notin QueueOpen
  /\ CloseCampaign(doc, IF doc.ready # {} THEN "COMPLETE_WITH_FINDINGS" ELSE "COMPLETE_CLEAN")

-----------------------------------------------------------------------------
OrchestratorInit ==
  /\ doc = InitialCheckpoint
  /\ phase = "idle" /\ stop = "none"
  /\ runs = [i \in Items |-> 0]
  /\ happened = {}

ItemStep(i) ==
  \/ ItemRefused(i) \/ AttemptsExhausted(i) \/ ItemBudgetExhausted(i) \/ EnterItem(i)
  \/ ItemReturns(i) \/ ItemCompletes(i) \/ ItemSafetyEvent(i) \/ ItemEventRefused(i)
  \/ ItemStopsCampaign(i) \/ ItemThrows(i) \/ ItemSafetyBlocked(i) \/ ItemOverspends(i)
  \/ ItemInterrupted(i)

ReplayStep(c) ==
  \/ CloseInterruptedReplay(c) \/ ReplayBudgetExhausted(c) \/ ReplayRefused(c)
  \/ EnterReplay(c) \/ ReplayReturns(c) \/ ReplaySafetyEvent(c) \/ ReplayPrivacyBlocked(c)
  \/ NotReproduced(c) \/ MinimizationUnavailable(c) \/ Dossier(c)
  \/ TriageFails(c) \/ ReplayFails(c) \/ ReplayInterrupted(c)

OrchestratorNext ==
  \/ Resume \/ PreflightPasses \/ PreflightRefuses \/ Finalize \/ Die
  \/ \E i \in Items : ItemStep(i)
  \/ StopAfterItem \/ PlanQueue
  \/ \E c \in Clusters : ReplayStep(c)
  \/ Complete

OrchestratorSpec == OrchestratorInit /\ [][OrchestratorNext]_orchestratorVars

-----------------------------------------------------------------------------
(* Properties. *)

\* The document has the shape validateCampaignCheckpoint asks for, and every
\* counter of it is within its limit.
OrchestratorTypeOK ==
  /\ doc \in CheckpointDocument
  /\ phase \in {"idle", "preflight", "items", "executing", "item returned", "item alarmed",
                "queue", "replaying", "replay returned", "replay alarmed", "finalize"}
  /\ stop \in Terminal \cup Resumable \cup {"none"}
  /\ runs \in [Items -> Nat] /\ happened \subseteq Fates

\* The entries of the executor after the first of their item, each by its number.
Reentries == {e \in Items \X (2..MaxAttempts) : e[2] <= runs[e[1]]}
ReservedClusters == {c \in Clusters : doc.reservation[c] # "none"}

\* However often the process dies, the executor was never entered for an item
\* more often than the document has attempts of it, an item is not tried more
\* than the frozen number of times, and every entry after the first and every
\* replay of a cluster has its own unit of the replay budget in the document.
EntriesAreReserved ==
  /\ \A i \in Items : runs[i] <= doc.items[i].attempts /\ doc.items[i].attempts <= MaxAttempts
  /\ Cardinality(Reentries) + Cardinality(ReservedClusters) <= doc.replays
  /\ doc.replays <= MaxReplays

\* What the document says is done is not done again, in this process or a later
\* one: the record of a closed item stays as it is and the item is not executed,
\* a replay whose reservation is consumed is not entered, and a campaign with a
\* result class does no more work and keeps the class.
RecordedWorkIsNotRepeated ==
  [][/\ \A i \in Items : doc.items[i].state \in ItemDone =>
          doc'.items[i] = doc.items[i] /\ runs'[i] = runs[i]
     /\ \A c \in Clusters : doc.reservation[c] = "CONSUMED" =>
          ~(phase = "queue" /\ phase' = "replaying" /\ IsNextReplay(c))
     /\ doc.status \in Terminal =>
          doc'.status = doc.status /\ runs' = runs /\ phase' \in {"idle", "finalize"}]_orchestratorVars

\* A campaign that is COMPLETE_CLEAN never had a safety event returned to a
\* process that lived to look at it, other than by a replay of the minimizer,
\* has left no work open, and has no blocked replay; in particular dying between
\* the gate that saw the event and the result class does not lose the event.
CleanIsClean ==
  doc.status = "COMPLETE_CLEAN" =>
    /\ "seen" \notin happened /\ ~doc.safety
    /\ \A i \in Items : doc.items[i].state \in {"COMPLETED", "BLOCKED"}
    /\ \A c \in Clusters : doc.queue[c] \in {"none", "COMPLETED"}
=============================================================================
