---------------------------- MODULE LocalCampaign ----------------------------
(***************************************************************************)
(* A campaign: investigations one after another against one budget, with a *)
(* checkpoint file after each, until a plan is completed or something else *)
(* ends it.  One process at a time runs it; the process can be killed, and *)
(* a later one resumes from the file.                                      *)
(*                                                                         *)
(* Between two effects on the file system a killed process leaves nothing, *)
(* so the steps are cut at those effects.  An investigation is one step:   *)
(* a process killed in the middle of it has done nothing durable.  What an *)
(* investigation may return is what AgentRuntime guarantees.  A write that *)
(* throws ends the process as a kill just before it does.                  *)
(***************************************************************************)
EXTENDS Integers, Sequences, FiniteSets

CONSTANTS None,       \* no document, outcome, ...
          Candidates, \* candidate ids
          Policy,     \* the campaign's budget ceilings
          Plans,      \* declared numbers of investigations, 0 for no plan
          Costs,      \* what one run of an investigation may add to the usage
          Endings,    \* the reasons an investigation may end for
          Delays,     \* wall time between two investigations
          StagnationLimit, \* CAMPAIGN_STAGNATION_LIMIT, 3 in the code
          MaxStarts   \* bound: processes started in a behaviour

INSTANCE AgentProtocol WITH Calls <- {}

\* The accumulators, a paused investigation, and the checkpoint document.
Accumulators == [next : Nat, started : Nat, completed : Nat, stagnant : Nat,
                 counts : [Reasons -> Nat], suspended : BOOLEAN, used : Usage,
                 candidates : SUBSET Candidates]

Suspension == [used : Usage, candidates : SUBSET Candidates]

Doc == [status : {"PAUSED", "TERMINATED"}, reason : Reasons, next : Nat, completed : Nat,
        stagnant : Nat, counts : [Reasons -> Nat], used : Usage,
        candidates : SUBSET Candidates, wall : Nat, paused : Suspension \cup {None}]

ASSUME CampaignAssumption ==
    /\ Policy \in [Dims -> Nat] /\ Costs \subseteq Usage
    /\ Plans \subseteq Nat \ {1} /\ Endings \subseteq Reasons
    /\ Delays \subseteq Nat /\ MaxStarts \in Nat /\ StagnationLimit \in Nat
    /\ IsFiniteSet(Candidates) /\ None \notin Doc

MinInvestigations == 2 \* MIN_CAMPAIGN_INVESTIGATIONS

VARIABLES
    pc,         \* what the process does next; "down" when there is none
    plan,       \* the declared number of investigations
    acc,        \* the campaign's accumulators
    wall,       \* wall time the campaign has used
    pending,    \* the paused investigation the next slot resumes, if any
    receipts,   \* candidates proved in an investigation of this process
    pauseAsked, \* the process's pause signal
    last,       \* the investigation just absorbed
    closing,    \* why the loop ended, while the process still cleans up
    stored,     \* the checkpoint file
    findings,   \* the durable findings
    outcome,    \* the reason reported to the caller
    starts,     \* processes started so far
    slots       \* history: the absorbed investigations, one per slot

memory == <<acc, wall, pending, receipts, pauseAsked>>
vars == <<pc, plan, memory, last, closing, stored, findings, outcome, starts, slots>>

Completing == {"COMPLETE_WITH_FINDING", "COMPLETE_NO_FINDING"}

Fresh == [next |-> 0, started |-> 0, completed |-> 0, stagnant |-> 0,
          counts |-> [r \in Reasons |-> 0], suspended |-> FALSE,
          used |-> NoUsage, candidates |-> {}]

\* campaignUsageOf.
CampaignUsage == [acc.used EXCEPT !.wall = wall,
                                  !.candidates = Cardinality(acc.candidates)]

Least(m, n) == IF m < n THEN m ELSE n

Most(m, n) == IF m > n THEN m ELSE n

\* attributeProviderFailures.
ProviderClass(used) ==
    LET failed == Least(used.provider, used.calls) IN
    IF failed = 0 THEN "VALID"
    ELSE IF used.tools = 0 /\ used.calls = failed THEN "BLOCKED" ELSE "DEGRADED"

\* A budget exhausted by a provider that never answered is a provider failure.
Attributed(reason, used) ==
    IF reason = "BUDGET_EXHAUSTED" /\ ProviderClass(used) = "BLOCKED"
    THEN "REASONER_FAILURE" ELSE reason

\* The checkpoint document.  It keeps neither the started count nor the
\* memory of a provider failure before a pause.
Document(a, time, status, reason, paused) ==
    [status |-> status, reason |-> reason, next |-> a.next,
     completed |-> a.completed, stagnant |-> a.stagnant, counts |-> a.counts,
     used |-> a.used, candidates |-> a.candidates, wall |-> time, paused |-> paused]

Publish(a, time, status, reason, paused) ==
    stored' = Document(a, time, status, reason, paused)

Init == /\ pc = "down" /\ plan = 0 /\ acc = Fresh /\ wall = 0
        /\ pending = None /\ receipts = {} /\ pauseAsked = FALSE
        /\ last = None /\ closing = None
        /\ stored = None /\ findings = {} /\ outcome = None
        /\ starts = 0 /\ slots = <<>>

------------------------------------------------------------------------------
(* Processes come and go *)

Process == /\ pc = "down" /\ starts < MaxStarts
           /\ starts' = starts + 1
           /\ UNCHANGED <<receipts, pauseAsked, last, closing, findings>>

\* The process is gone with its memory: what the file says remains.
Gone == /\ pc' = "down"
        /\ acc' = Fresh /\ wall' = 0 /\ pending' = None
        /\ receipts' = {} /\ pauseAsked' = FALSE
        /\ last' = None /\ closing' = None
        /\ slots' = IF stored' = None THEN <<>> ELSE SubSeq(slots, 1, stored'.next)
        /\ UNCHANGED <<plan, starts>>

\* runLocalCliCampaign: an earlier checkpoint of the campaign is moved aside.
FreshRun == /\ Process
            /\ plan' \in Plans
            /\ stored' = None
            /\ acc' = Fresh /\ wall' = 0 /\ pending' = None
            /\ pc' = "top" /\ outcome' = None
            /\ slots' = <<>>

\* Mutant: the counts of earlier processes are not restored.
SeedForgetful(doc) ==
    [next |-> doc.next, started |-> IF doc.status = "PAUSED" THEN doc.next + 1 ELSE doc.next,
     completed |-> doc.completed, stagnant |-> doc.stagnant,
     counts |-> [r \in Reasons |-> 0], suspended |-> FALSE,
     used |-> doc.used, candidates |-> doc.candidates]

\* seedFromCheckpointState.
Seed(doc) ==
    [next |-> doc.next, started |-> IF doc.status = "PAUSED" THEN doc.next + 1 ELSE doc.next,
     completed |-> doc.completed, stagnant |-> doc.stagnant,
     counts |-> doc.counts, suspended |-> FALSE,
     used |-> doc.used, candidates |-> doc.candidates]

\* resumeLocalCliCampaign of a campaign that goes on.  A refused resume (an
\* unreadable file, another scope, reasoner or spend ceiling) changes nothing.
ResumeRun == /\ Process
             /\ stored # None /\ stored.status = "PAUSED"
             /\ acc' = Seed(stored) /\ wall' = stored.wall
             /\ pending' = stored.paused
             /\ pc' = "top" /\ outcome' = None
             /\ UNCHANGED <<plan, stored, slots>>

ResumedReason(doc) == Attributed(doc.reason, doc.used)

\* resumeLocalCliCampaign of a campaign that ended: its outcome is reported.
ResumeFinished == /\ Process
                  /\ stored # None /\ stored.status = "TERMINATED"
                  /\ outcome' = ResumedReason(stored)
                  /\ UNCHANGED <<pc, plan, acc, wall, pending, stored, slots>>

Kill == pc # "down" /\ UNCHANGED <<stored, findings, outcome>> /\ Gone

------------------------------------------------------------------------------
(* One investigation *)

\* Mutant: every investigation is allowed what the whole campaign is.
AllowanceWhole == Policy

\* remainingPolicyFor.
Allowance == LET used == CampaignUsage IN [d \in Dims |-> Most(0, Policy[d] - used[d])]

Base == IF pending = None THEN NoUsage ELSE pending.used

\* The usage of the investigation after a run that added cost: an answered
\* call may have ended the streak of failures the run began with.  AgentRuntime
\* stops a counter at its ceiling; bytes and time may pass theirs.
Charged(cost) ==
    LET sum  == [d \in Dims |-> Base[d] + cost[d]]
        left == Allowance
    IN  {used \in {sum, [sum EXCEPT !.consecutive = cost.consecutive]} :
             /\ cost.calls = 0 => used = sum
             /\ \A d \in Counted : used[d] <= left[d]}

\* A run is named by what it returns: its reason, the usage, evidence and
\* candidates of its state, and the candidates its receipts prove.
Runs(cost, reason) ==
    {ran \in [reason : {reason}, used : Charged(cost), evidence : BOOLEAN,
              candidates : SUBSET Candidates, proved : SUBSET Candidates] :
         /\ ran.proved \subseteq ran.candidates
         /\ Cardinality(ran.candidates) <= ran.used.candidates
         /\ cost.tools = 0 => ran.proved = {}
         /\ cost.calls = 0 =>
                /\ ~ran.evidence
                /\ ran.candidates = IF pending = None THEN {} ELSE pending.candidates}

\* Mutant: a signal given before the investigation is bound to it never fires.
SignalledLate == FALSE

\* bindPauseSignal: an investigation started after the pause was asked is
\* paused before it runs.
Signalled == pauseAsked

\* The reasons a run that added cost may end for.  The first look at the pause
\* and at the budget comes before the first call; only an answered call lets
\* the reasoner name a reason, which may be any.
ReasonsAfter(cost) ==
    IF Signalled THEN {"PAUSED"}
    ELSE IF BudgetExhausted(Allowance, Base) THEN {"PAUSED", "BUDGET_EXHAUSTED"}
    ELSE IF cost.calls > 0 THEN Endings
    ELSE {"PAUSED"} \cup
         (IF \E used \in Charged(cost) : BudgetExhausted(Allowance, used)
          THEN {"BUDGET_EXHAUSTED"} ELSE {}) \cup
         (IF cost.provider > 0 THEN {"NO_PROGRESS"} ELSE {})

\* A run that is stopped at that first look costs nothing.
Possible(cost) == Signalled \/ BudgetExhausted(Allowance, Base) => cost = NoUsage

StreakAfter(streak, ran) ==
    IF ran.reason = "REASONER_FAILURE" THEN streak + Most(1, ran.used.consecutive)
    ELSE IF ran.used.consecutive > 0 THEN streak + ran.used.consecutive ELSE 0

\* The finished reason is counted; the pause of a resumed slot is retired.
CountsAfter(counts, ran) ==
    LET counted == [counts EXCEPT ![Attributed(ran.reason, ran.used)] = @ + 1]
    IN  IF pending # None /\ counted["PAUSED"] > 0
        THEN [counted EXCEPT !["PAUSED"] = @ - 1] ELSE counted

\* Usage adds up, but for the streak and for what campaignUsageOf derives.
Added(used, ran) ==
    [d \in Dims |-> CASE d = "consecutive"            -> StreakAfter(used[d], ran)
                      [] d \in {"wall", "candidates"} -> 0
                      [] OTHER                        -> used[d] + ran.used[d]]

\* absorbInvestigation.  A resumed slot was counted as started when it paused.
Absorbed(ran) ==
    [acc EXCEPT !.counts = CountsAfter(@, ran),
                !.used = Added(@, ran),
                !.candidates = @ \cup ran.candidates,
                !.started = IF pending = None THEN @ + 1 ELSE @,
                !.completed = @ + 1,
                !.next = @ + 1]

Absorb(ran) == /\ acc' = Absorbed(ran)
               /\ pending' = None
               /\ slots' = Append(slots, [reason |-> ran.reason, used |-> ran.used,
                                        proved |-> ran.proved])

\* Mutant: the usage of a paused investigation is merged when it pauses.
SuspendedMerged(ran) ==
    [acc EXCEPT !.counts["PAUSED"] = @ + 1, !.started = @ + 1, !.used = Added(@, ran),
                !.suspended = @ \/ ran.used.provider > 0]

\* absorbPausedInvestigationPrefix.
Suspended(ran) ==
    [acc EXCEPT !.counts["PAUSED"] = @ + 1, !.started = @ + 1,
                !.suspended = @ \/ ran.used.provider > 0]

\* What is left is the effects after the loop: they need the receipts.
Close(reason, cleanup) == /\ closing' = [reason |-> reason, cleanup |-> cleanup]
                          /\ pc' = "recording"

\* The file of a cancelled campaign is removed, once its findings are durable.
Cancelled(ran) == /\ ran.reason = "CANCELLED"
                  /\ Close("CANCELLED", TRUE)
                  /\ Absorb(ran)
                  /\ UNCHANGED <<last, stored>>

Paused(ran) == /\ ran.reason = "PAUSED"
               /\ Close("PAUSED", FALSE)
               /\ acc' = Suspended(ran)
               /\ pending' = [used |-> ran.used, candidates |-> ran.candidates]
               /\ Publish(acc', wall', "PAUSED", "PAUSED", pending')
               /\ UNCHANGED <<last, slots>>

\* assertBudgetConservation.
Conserved(a) == /\ \A d \in Dims \ {"wall"} : a.used[d] <= Policy[d]
                /\ Cardinality(a.candidates) <= Policy["candidates"]

Ends(ran) == ran.reason \notin {"CANCELLED", "PAUSED"}

News(ran) == ran.evidence \/ ~(ran.candidates \subseteq acc.candidates)

\* Mutant: only an investigation that brought something new is recorded.
ProgressWhenNews(ran) ==
    IF News(ran) THEN Publish(acc', wall', "PAUSED", "PAUSED", None) ELSE UNCHANGED stored

\* Durable progress after every absorbed investigation.
Progress(ran) == Publish(acc', wall', "PAUSED", "PAUSED", None)

Ended(ran) == /\ Ends(ran)
              /\ pc' = "settled"
              /\ last' = [reason |-> ran.reason, news |-> News(ran)]
              /\ Conserved(Absorbed(ran))
              /\ Absorb(ran)
              /\ Progress(ran)
              /\ UNCHANGED closing

\* Mutant: no investigation starts once a pause is asked.
ReadyUnlessPaused == pc = "top" /\ ~BudgetExhausted(Policy, CampaignUsage) /\ ~pauseAsked

Ready == pc = "top" /\ ~BudgetExhausted(Policy, CampaignUsage)

\* runOneInvestigation: the next slot is run, or resumed, until it ends.
Investigate(cost) ==
    /\ Ready /\ Possible(cost)
    /\ wall' = wall + cost.wall
    /\ pauseAsked' \in {pauseAsked, TRUE}
    /\ \E reason \in ReasonsAfter(cost) : \E ran \in Runs(cost, reason) :
           /\ receipts' = receipts \cup ran.proved
           /\ Cancelled(ran) \/ Paused(ran) \/ Ended(ran)
    /\ UNCHANGED <<plan, starts, findings, outcome>>

\* The byte ceilings are looked at after a turn, and a turn may pass one: the
\* campaign throws before the investigation is recorded anywhere.
Overspend(cost) ==
    /\ Ready /\ Possible(cost)
    /\ UNCHANGED <<stored, findings, outcome>> /\ Gone
    /\ \E reason \in ReasonsAfter(cost) : \E ran \in Runs(cost, reason) :
           Ends(ran) /\ ~Conserved(Absorbed(ran))

------------------------------------------------------------------------------
(* The decision after an investigation *)

Terminate(reason) == /\ Publish(acc, wall, "TERMINATED", reason, None)
                     /\ Close(reason, FALSE)

Decision == /\ UNCHANGED <<plan, receipts, pauseAsked, pending, findings, outcome,
                           starts, slots>>
            /\ last' = None

\* The budget is exhausted before an investigation: no finding is recorded.
StopExhausted == /\ pc = "top" /\ BudgetExhausted(Policy, CampaignUsage)
                 /\ Publish(acc, wall, "TERMINATED", "BUDGET_EXHAUSTED", None)
                 /\ outcome' = Attributed("BUDGET_EXHAUSTED", acc.used)
                 /\ UNCHANGED findings
                 /\ Gone

StopUnsafe == /\ pc = "settled" /\ last.reason = "SAFETY_BLOCKED"
              /\ Close("SAFETY_BLOCKED", TRUE)
              /\ Decision /\ UNCHANGED <<acc, wall, stored>>

Safe == pc = "settled" /\ last.reason # "SAFETY_BLOCKED"

StopSpent == /\ Safe /\ BudgetExhausted(Policy, CampaignUsage)
             /\ wall' = wall
             /\ Terminate("BUDGET_EXHAUSTED")
             /\ Decision /\ UNCHANGED acc

Stagnant == IF last.news THEN 0 ELSE acc.stagnant + 1

Funded == /\ Safe /\ ~BudgetExhausted(Policy, CampaignUsage)
          /\ acc' = [acc EXCEPT !.stagnant = Stagnant]
          /\ Decision

StopStagnant == /\ Funded /\ Stagnant >= StagnationLimit
                /\ Close("NO_PROGRESS", TRUE)
                /\ UNCHANGED <<wall, stored>>

PlanRan == plan # 0 /\ acc.next >= plan

\* evaluateCampaignCompletion.
Qualifies(a) ==
    /\ plan >= MinInvestigations /\ a.started >= MinInvestigations
    /\ a.completed >= MinInvestigations /\ a.started >= plan /\ a.completed >= a.started
    /\ \E r \in Completing : a.counts[r] > 0
    /\ \A r \in Reasons \ Completing : a.counts[r] = 0
    /\ ProviderClass(a.used) = "VALID" /\ ~a.suspended /\ a.used.tools > 0

Verdict(a) == IF ~Qualifies(a) THEN "NO_PROGRESS"
              ELSE IF a.counts["COMPLETE_WITH_FINDING"] > 0 THEN "COMPLETE_WITH_FINDING"
              ELSE "COMPLETE_NO_FINDING"

StopPlan == /\ Funded /\ Stagnant < StagnationLimit /\ PlanRan
            /\ wall' = wall
            /\ Publish(acc', wall', "TERMINATED", Verdict(acc), None)
            /\ Close(Verdict(acc), FALSE)

GoOn == /\ Funded /\ Stagnant < StagnationLimit /\ ~PlanRan
        /\ \E d \in Delays : wall' = wall + d
        /\ pc' = "top"
        /\ UNCHANGED <<closing, stored>>

------------------------------------------------------------------------------
(* The effects after the loop *)

\* A candidate is admitted on receipts of this process.
Admitted == acc.candidates \cap receipts

\* Mutant: the file goes even if a finding could not be written.
CleanupAnyway(kept) == closing.cleanup

\* The file is removed only if every admitted finding is durable.
CleanupDue(kept) == closing.cleanup /\ kept = Admitted

\* persistAdmissions: each finding is written, or its write fails.
PersistAdmissions(kept) ==
    /\ pc = "recording" /\ kept \subseteq Admitted
    /\ findings' = findings \cup kept
    /\ UNCHANGED stored
    /\ IF CleanupDue(kept) THEN pc' = "cleanup" /\ UNCHANGED <<outcome, closing>>
            /\ UNCHANGED <<plan, memory, last, starts, slots>>
       ELSE outcome' = Attributed(closing.reason, acc.used) /\ Gone

\* deleteStoredCheckpoint, which may fail in silence.
Cleanup == /\ pc = "cleanup"
           /\ stored' \in {None, stored}
           /\ outcome' = Attributed(closing.reason, acc.used)
           /\ UNCHANGED findings
           /\ Gone

Loop == \/ \E cost \in Costs : Investigate(cost) \/ Overspend(cost)
        \/ StopExhausted \/ StopUnsafe \/ StopSpent \/ StopStagnant \/ StopPlan \/ GoOn
        \/ \E kept \in SUBSET Candidates : PersistAdmissions(kept)
        \/ Cleanup

Next == FreshRun \/ ResumeRun \/ ResumeFinished \/ Kill \/ Loop

Spec == Init /\ [][Next]_vars

\* An investigation ends (RunEnds of AgentRuntime) and writes return.
FairSpec == Spec /\ WF_vars(Loop)

------------------------------------------------------------------------------
(* Properties *)

Finished == stored # None /\ stored.status = "TERMINATED"

\* Every variable keeps its type.  About the accumulators and the document of
\* a campaign.
TypeOK ==
    /\ pc \in {"down", "top", "settled", "recording", "cleanup"}
    /\ plan \in Plans \cup {0}
    /\ acc \in Accumulators
    /\ wall \in Nat /\ starts \in 0..MaxStarts
    /\ pending \in Suspension \cup {None}
    /\ receipts \subseteq Candidates /\ findings \subseteq Candidates
    /\ pauseAsked \in BOOLEAN
    /\ last \in [reason : Reasons, news : BOOLEAN] \cup {None}
    /\ closing \in [reason : Reasons, cleanup : BOOLEAN] \cup {None}
    /\ stored \in Doc \cup {None}
    /\ outcome \in Reasons \cup {None}

\* The dimensions that add up.
Summed == Dims \ {"consecutive", "wall", "candidates"}

\* What the first i investigations of a history used, for every i.
Totals(history, d) ==
    LET sum[i \in 0..Len(history)] == IF i = 0 THEN 0 ELSE sum[i - 1] + history[i].used[d]
    IN  sum

\* Whatever pauses, kills and resumes lie between, the campaign's usage is the
\* usage of its investigations, each counted once: a paused one when it ends,
\* one that a kill took back not at all.
UsageCountedOnce ==
    pc # "down" => \A d \in Summed : acc.used[d] = Totals(slots, d)[Len(slots)]

\* No counted dimension passes the campaign's ceiling, in memory or on disk:
\* what every investigation is allowed is what the others left over.
CountsWithinPolicy ==
    /\ \A d \in Counted : CampaignUsage[d] <= Policy[d]
    /\ stored # None => /\ \A d \in Counted : stored.used[d] <= Policy[d]
                       /\ Cardinality(stored.candidates) <= Policy["candidates"]

\* A process killed between investigations loses none that was absorbed.
ProgressIsDurable ==
    pc \in {"top", "settled"} /\ acc.next > 0 =>
        /\ stored # None /\ stored.status = "PAUSED"
        /\ stored.next = acc.next /\ stored.counts = acc.counts
        /\ stored.used = acc.used /\ stored.candidates = acc.candidates

Clean == /\ Len(slots) >= plan /\ plan >= MinInvestigations
         /\ \A i \in DOMAIN slots : /\ slots[i].reason \in Completing
                                    /\ slots[i].used.provider = 0
         /\ \E i \in DOMAIN slots : slots[i].used.tools > 0

\* A campaign is complete only if every slot of its plan ran to a completion
\* of its own, with no provider failure before or after any pause, in
\* whichever process the slot ran.
CompletionIsEarned ==
    Finished /\ stored.reason \in Completing =>
        /\ Clean
        /\ stored.reason = "COMPLETE_WITH_FINDING" <=>
               \E i \in DOMAIN slots : slots[i].reason = "COMPLETE_WITH_FINDING"

\* A campaign's file is removed only when every finding that the process
\* could still admit is durable.
CleanupKeepsFindings ==
    [][stored # None /\ stored' = None => FreshRun \/ Admitted \subseteq findings]_vars

\* A pause asked while the last turn of an investigation runs comes too late
\* for it, and still stops the campaign: the next slot is suspended as it was,
\* and nothing more is absorbed or spent.
PauseStopsCampaign ==
    [][pauseAsked /\ pauseAsked' =>
           /\ acc'.used = acc.used /\ UNCHANGED slots
           /\ pending' # pending => pending'.used = Base]_vars

\* A campaign that goes on ends, planned or not: by its plan, by stagnation, by
\* a pause or because what the investigations use adds up to the budget.
CampaignEnds == pc # "down" ~> pc = "down"

=============================================================================
