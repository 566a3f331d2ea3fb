# A TLA+ verification of Nightwatch

Nightwatch drives a browser and a language-model reasoner against an
application under test and collects candidate findings. This directory holds
TLA+ modules of the parts of it that keep state across failures, the TLC
configurations that check them on small instances, and TLAPS proofs of their
main properties for every instance. `runtime.ts` without a directory is
`src/src/core/agentRuntime/runtime.ts`, and `core/` is `src/src/core/`.

To repeat the checks, in this directory:

    tlc -config MCCheckpointStore_Safety.cfg MCCheckpointStore
    tlapm SharedFileProofs.tla

`PROJECT.json` lists every run and every theorem, maps each definition to the
lines it models, and gives for each property of a passing run a mutation of the
model that breaks it.

## 1. The system

### Components that are modelled

**Checkpoint store** (`core/agentRuntime/checkpointStore.ts`).
State: one document file per campaign id, one superseded document, temporaries.
Operations: publish (read the generation, stage a temporary, read it again,
rename), load, supersede, delete, list temporaries. It is shared by operating
system processes without a lock. Hard: another process between any two steps;
death of the process; a damaged predecessor. Correct if a reader sees only
complete documents, a refusal has no effect, and a rename advances the
generation it was compared with.

**Agent protocol decisions** (`core/agentProtocol/runtime.ts`). No state: the
decisions over the usage and the action log. Budget exhaustion, a repeated call,
an exhausted call, the no-progress window. Hard: the decisions look at the whole
history, across restores. Correct if what failed for good is not executed again.

**Agent runtime** (`runtime.ts`, `spendCeiling.ts`). State: status, phase,
usage and the ledger that explains it, action log, candidates, two operator
flags, an abort signal, the wall clock. Operations: run, pause, resume, cancel,
checkpoint, restore, and the turns of the loop: render, admit, call, validate,
apply each intent. It calls the reasoner (`core/reasoner/cliReasoner.ts`) and the
tools (`core/agentTools/runtime.ts`) and is called by the campaign. Hard: the
operator acts at every await; a counter reaches its ceiling in the middle of a
turn; a checkpoint is taken at any await and another instance goes on from it.
Correct if no counter passes its ceiling, every byte is charged once, the provider's bill
stays within the declared spend, what failed for good is not executed again, a pause loses
nothing but the tool results that wait for a request, an end is final and a run ends.

**Local campaign** (`localCampaign.ts`, `campaignCompletion.ts`,
`providerAttribution.ts`). State: accumulators of all investigations, the wall
clock, the paused investigation, the receipts of this process, and the
checkpoint file and the durable findings, which outlive it. Operations: fresh
run, resume of each kind of document, one investigation, the exits, admission of
findings, clean-up. Hard: a kill between any two writes; budget carried over
several processes and pauses; a completion verdict over slots that ran in
different processes. Correct if usage is counted once, what was absorbed is
durable, a completion is earned, no clean-up loses a finding, and a pause that comes too
late for one investigation stops the campaign at the next.

**Authenticated capability bundle** (`src/src/auth/capabilityLifecycle.ts`,
`directRunner.ts`). State: the storage-state artefact, the lifecycle record beside
it, a journal, staged files. Operations: a capture's publication, adoption of an
existing artefact, recovery, the gate of the authenticated lanes, the report.
Hard: two renames cannot be atomic; every read and write of a reader, an adopter,
a recovery and several captures interleaves. Correct if a VALID verdict is about
one artefact and an unpaired bundle is announced by the journal.

**Reasoner child** (`core/reasoner/cliReasoner.ts`). State: the flags of one call's
outcome and its timers. Operations: spawn, the caller's abort, deadline, kill grace,
grace for the pipes, hard ceiling, the child's events. Hard: timeout, abort and an
oversized answer race; a variable that holds a timer forgets the timer it held; a
grandchild keeps the pipes; a child cannot be killed. Correct if the call is
answered once and always, leaves nothing alive, and signals nobody after its answer.

**Campaign orchestrator** (`core/campaign/orchestrator.ts`, `checkpoint.ts`, `budget.ts`).
State: one checkpoint document; in memory only the place of the process and its verdict.
Operations: preflight, the work items with every outcome, the replays of anomaly clusters,
finalize, resume. Hard: death between any two writes, repeated; a budget charged before the
work; a validator that may refuse the document; a safety event that is known to a process and
not yet to the document. Correct if entries are charged, what is done is not repeated, and clean
means that no safety event the campaign recorded, and nothing it skipped or blocked, is behind
it.

**Causal admission** (`src/src/browser/observers/networkObserver.ts`, `core/safety/`,
`src/src/proxy/server.ts`). State: causal generations, the settlement timer, bootstrap
units, one-shot tickets, requests in flight. Operations: begin and end of a journey
action, navigation, load, close, the timer, admission, forwarding, answers. Hard:
browser events come in any order; tickets run out; the proxy sees a URL and not the request
that got the ticket. Correct if authority ends with its cause, and what was ticketed is
forwarded unless another request took the ticket.

**Proxy port lease** (`src/src/proxy/portLease.ts`). State: one lease file per port, shared by
all clones; an environment that hands a lease to children. Operations: reserve,
reclaim a dead owner's lease, probe, inherit, adopt, serve, release. Hard: reads and
unlinks of several processes, death anywhere. Correct if two lines of processes do
not count on one port.

**Canonical promotion** (`core/selfDevPromotion/`). State: promotions, approvals, claims,
receipts and verifications in stores clones share; each clone's git. Operations:
prepare, approve, apply (look, claim twice, write, look twice, record), verify. Hard: several
appliers, death after a claim, people using git between the look and the write.
Correct if an approval is written at most once, a checkout of a commit at most once, and a
dirty catalogue is approved.

**Evidence retention** (`core/evidenceRetention/`, `src/bin/`). State: run directories, and the
files among them, references, a journal, receipts. Operations: dry run, plan, confirm, record,
remove, publish, receipt. Hard: the plan is computed from looks at different moments; a removal
is seen halfway; applies overlap, fail and die. Correct if no removal is unrecorded, what is
called deleted is gone and was removed by some apply, and the newest runs are kept.

**Session ownership** (`src/bin/nightwatch-session.mjs`, `lib/session-authority.mjs`).
State: an ownership record and a lock file beside each session worktree; git's
branches, worktrees and the remote. Operations: start with its rollback, claim, release,
retarget, reconcile, integrate, remove, recover. Hard: admission is decided before the
lock is held; an invocation dies with the lock; recovery races with the holder and with
another recovery; people commit and push between the look and the push or the removal.
Correct if a live session that was told it owns the worktree is the one recorded, a record
is replaced only by one that was admitted with it, no unmerged work is lost that was not
abandoned on purpose, and INTEGRATED is said of what the operator named.

### How they interact

    LocalCampaign --starts, pauses, restores--> AgentRuntime --decides by--> AgentProtocol
         |                                          |-- calls --> CliChild (promise ReasonerCall), tools
         |-- publishes, loads, deletes --> CheckpointStore
         |-- writes --> agent findings (durable files)
    authenticated lanes --gate--> AuthBundle <--publish-- captures, adoption, recovery
    CampaignOrchestrator --executor--> browser contexts, journeys
                                          |-- requests --> CausalAdmission --tickets--> proxy
                                                                 the proxy's port: PortLease
    self-development --cases--> Promotion --catalogue--> CampaignOrchestrator's manifests
    run directories of all of them --> Retention
    the worktree all of them are developed in: SessionOwnership

A component's model does not contain another's. An investigation is one step of
`LocalCampaign`, whose possible results are those `AgentRuntime` is shown to return (the
contract `AgentRun`, the ceilings of `CountsWithinCeiling`, the end promised by
`RunEnds`). That a reasoner call ends, which `RunEnds` assumes, is what
`CliChild` shows (`KeepsPromise`). One process at a time runs a
campaign in `LocalCampaign`, and what several of them do to one file is
`CheckpointStore`'s question. The separations are the code's own: the campaign
reads of a run only its result, and of the store only the document and refusals; the
orchestrator sees of a replay only its outcome; the proxy sees of an admission
only the ticket.

### Components that are not modelled, though they keep state

| Component | State and operations | Why not |
|---|---|---|
| Production gate (`core/prodObserve/`) | reservations, breakers, kill switch, grants | no caller outside its tests; the order in which its steps interleave is not in the repository |
| Finding review, review store, agent finding store | immutable records, one per binding | one write that replaces nothing; `Promotion` and `Retention` have the same primitive with more around it |
| Evidence minimizer (`core/triage/minimizer.ts`) | a pure algorithm | a sequential reduction; `CampaignOrchestrator` has the budget it runs under |
| Redirect follow-ups, CONNECT tunnels and WebSockets of admission | maps keyed by URL; a count per host | see `CausalAdmission` below and section 5 |
| Owner-local reproduction (`core/ownerLocalReproduction/`) | a sandboxed child and its one-shot files | one fixed order of synchronous steps; the child's life is `CliChild`'s pattern |

### Components that are left out

Policy tables and text without state: outbound policy and redaction, oracles,
production privacy, AI review, source intelligence, product adapters. Sequences
with one fixed order: journeys, exploration, evidence recorder, semantic coverage
and portfolio, self-development sandbox, phase programs and certification. Programs
whose order is that of a dependency which is not in this repository: the browser
context (the admission its observers decide is in `CausalAdmission`) and the
sockets of the loopback proxy. A read-only view: the control center. Hypotheses,
targets and tool contents: they are what the reasoner is told, and no decision of the
loop reads them. Launchers, tests and documents. `PROJECT.json` gives the reason for
each. The map covers a small share of the repository's lines, because most of them are
of these kinds; what it covers are the parts whose state outlives a call.


## 2. The modules

| Module | Stands for | Kind |
|---|---|---|
| `CheckpointSlot` | what the store promises of its one document | abstract |
| `CheckpointStore`, `SharedFileProofs` | the store | detailed, implements `CheckpointSlot` |
| `AgentProtocol` | the decisions, as operators | used by `AgentRuntime` |
| `AgentRun` | what one run of an investigation promises | abstract |
| `AgentRuntime`, `AgentRuntimeProofs` | the investigation's loop | detailed, implements `AgentRun` |
| `ReasonerCall` | what a reasoner call promises its caller | abstract |
| `CliChild`, `CliChildProofs` | the child process of a call | detailed, implements `ReasonerCall` |
| `LocalCampaign`, `CampaignProofs` | the campaign of investigations | detailed |
| `AuthBundle`, `AuthorityProofs` | the capability bundle | detailed |
| `CampaignOrchestrator`, `CampaignProofs` | the campaign of work items and replays | detailed |
| `CausalAdmission`, `AuthorityProofs` | generations, exemptions and tickets | detailed |
| `PortLease`, `SharedFileProofs` | the leases of the proxy's ports | detailed |
| `Promotion`, `PromotionProofs` | the canonical promotion | detailed |
| `Retention`, `RetentionProofs` | evidence retention | detailed |
| `SessionOwnership`, `SessionOwnershipProofs` | the ownership of a session worktree | detailed |
| `MC...` | instances and symmetry for TLC | |

A history variable (said so where it is declared) is read by properties only. A module
of proofs may be about two components that do not interact: the second of them then
carries its name in `Init`, `Next`, `Spec`, `TypeOK` and the like (`LeaseSpec`,
`AdmissionSpec`, `OrchestratorSpec`).

### CheckpointStore

Every process has a session (`StartFresh`, `StartFreshUnmoved`, `StartResume`,
`EndKeep`, `EndDelete`) and, in it, publications: `Open` is the first look at the
generation and the creation of the temporary, `Stage` the completed write,
`Compare` the second look, `Rename` the visible step, `Return` the closing fsync and
lstat. `Conflict` and `StageFails` are the refusals, both with the `finally` that
unlinks the temporary; `Crash` may come anywhere and leaves an orphan. A document
is its generation and an identity; the identity is what lets a property say *which*
document became visible. A file that cannot be read back, whatever the reason
(corrupt, oversized, a symbolic link, wrong permissions), is `Damaged`. fsync is
left out: the model assumes that a rename the process saw complete stays.
`read`, `raced` and `refused` are history and no guard reads them.

### AgentProtocol and AgentRuntime

The program runs on one event loop, so the code between two awaits is not
interleaved with anything. `pc` is therefore an await (`calling`, `backoff`, `tool`),
`idle` (no run is active), or a place between two steps of the loop's own code, where
the operator cannot act (`Interruptible`). The steps of the loop, in order:
`StopCancelled`, `StopPaused`, `StopExhausted`, `StopTurnLimit` at the top; `Dispatch` or
`RefuseSpend`; one of the answers of the call (`CallThrows`, `CallAbandoned`,
`CallFails`, `CallUnsafe`, `CallMalformed`, `CallAccepted`) with its charges in the order of
the code; the intents one by one, each followed by the look at the budget the code
takes after it (`AfterIntent`; after `Replan` there is none, as in the code); and
the turn's end (`FinishTurn`, `FinishExhausted`, `FinishNoProgress`, `NextTurn`).
`Finish` is the code's `finish`: it refreshes the wall clock, keeps a checkpoint if
the reason has one, and rests at the status of the reason. `Restore` is a new
instance made from the last document, after the process ended or was killed.

A request and a tool result are their bytes; a response is its bytes and the tokens the
provider counts in it. `Admitted` is the arithmetic of `spendCeiling.ts`: what was moved is
committed at the most tokens its bytes can be (`Tokens`) and at the price of its direction,
and a call adds its request and the tokens it may generate (`OutputBound`). The totals that
the checkpoint keeps are computed from the ledger, as in the code; `moved`, `billed`
and `failed` are history, of the line of checkpoints that leads to the instance: what was
sent, received and returned, what the provider bills, and how often each call failed.
`Restore` goes back to the history of its checkpoint (`keptLine`). `pending` are the tool
results that wait for the next request: they are in no checkpoint, are lost by a
restore, and by a request that is refused or fails. `wallBase` is the part of the wall clock
that a restore takes from the checkpoint. A response's intents are chosen one at a time when
they are applied, which gives the same behaviours as choosing them all when it arrives, with
fewer states. A validation is the class of its refusal. A candidate without evidence is a
malformed response (`core/agentProtocol/validate.ts:141`), so the branch of `runtime.ts:593`
that would reject it is not reached and is left out.

Left out: hypotheses, targets and the content of requests; the phase is kept.

### LocalCampaign

Killing a process between two effects on the file system leaves what the file
says, so the steps are cut at those effects, and an investigation, with the write
that records it, is one step (`Investigate`). `Cancelled`, `Paused` and `Ended` are the
three ways the campaign absorbs a result. `Overspend` is the exception thrown by
`assertBudgetConservation`, before anything of the investigation is recorded. The
decision after an investigation, in the order of the code: `StopUnsafe`,
`StopSpent`, `StopStagnant`, `StopPlan`, `GoOn`; `StopExhausted` is the look at the budget
before an investigation. `PersistAdmissions` and `Cleanup` are the effects after the
loop. `Kill` may come at every step; `ResumeRun` and `ResumeFinished` are what a
resume does with the two kinds of document. A write that throws ends the process
as a kill just before it does.

`Runs(cost, reason)` and `ReasonsAfter(cost)` say which results an investigation may
have: the counters stay within the allowance, its reason agrees with what it did.
They are written from what `AgentRuntime` is shown to guarantee. `Signalled` is
`bindPauseSignal`: an investigation that starts after the operator asked for a pause is
paused before its first call.

Left out: the legacy checkpoint of a single investigation, a predecessor that cannot be
moved aside (`CheckpointStore` has it), refused resumes, which change nothing.

### AuthBundle

A file's bytes are named by the capture that wrote them, so equal names are equal
digests; a record holds the digest of one artefact and the earliest cookie expiry of
one, which an adoption can take from two. Each file operation is a step:
`Capture` (the browser wrote the pending artefact), `StageRecord`, `WriteJournal`, the
three steps of `Commit`; `AdoptRead`, `AdoptDigest`, `AdoptWrite`; `RecoverLook` and the
steps of `RecoverCommit`; the reader's `GateBegins` or `ReportBegins`, `ReadRecord`,
`ReadArtefact`, `ReadDigest`. Each of the writers can fail at every step, with what its error path
removes, or die, with nothing removed. Left out: the browser session, a journal
or record that does not parse, and the lifetimes, which can only refuse more.


### CliChild

The handlers of `complete()` (`Call`, `Abort`, `Oversize`, `Deadline`, `KillGrace`,
`StdioGrace`, `HardCeiling`) and the events of the child (`ChildError`, `ChildExit`,
`ChildClose`) come in any order the event loop allows. `outcome` holds the flags from
which the code reads the class of the answer (`Classify`, in the code's order).
A variable of the code that holds a timer forgets the one it held before: timers are
numbered by kind, `Latest` is the one `clearTimeout` can still reach, and an
overwritten one fires. A response that could be read is `Read`, whatever is in it.

### CampaignOrchestrator

Everything a campaign knows is its checkpoint document, so an action reaches from one
write to the next, or from the last write before the executor is called to that
call; `Die` then loses exactly `phase` and `stop`. `Checkpoint` is the code's `checkpoint()`
with its validator: a document that is refused is not written and the process ends.
An outcome of the executor is an action of its own (`ItemCompletes`,
`ItemSafetyEvent`, `ItemStopsCampaign`, `ItemSafetyBlocked`, `ItemOverspends`,
`ItemInterrupted`, and the same for replays). An executor that returns with a safety event
(`ItemReturns`), or throws one (`ItemThrows`), is a step before the gate's document, so a
process can die in between, and so is the return of a replay (`ReplayReturns`).
`happened` is history: a safety event that reached a gate's document was `seen`, one that
died with its process is `lost`, and one that a replay of the minimizer reported is
`minimized`: the code does not carry it into the cluster's record (section 5). Clusters are
numbered by priority.
Left out: the mode that only reproduces, clustering and lifecycle records, the brief,
the bytes of evidence, a resume that is refused, a cluster whose priority changes
between two runs, items without a representative, and the other dimensions of the
budget, which are counted alike.

### CausalAdmission

One event loop, so each browser event is a step and all orders are allowed: `BeginIntent` and
`EndIntent` of a journey action, `Navigate`, `Load`, `ClosePage`, `TimerFires`, and of a request
`Issue` (observation and interception, which the code decides together), `Forward` (the proxy),
`Answered`. `IssueUngated` is a request of the product's host that is no fetch: a document or an
image passes no gate and gets no ticket, and the proxy treats it as any other. A replaced timer
does not fire; `which` tells a timer from its successor. A URL stands for the requests of one
rule, and `Covers` says whose tickets the pattern of a rule also fits. `Forward` takes any
ticket that fits (`Fitting`), whoever it was minted for: an ungated request, one the ledger
refused a ticket, or one of an overlapping rule leaves its owner without. `overdrawn` is the set
of URLs at which that happened. Left out: redirects, CONNECT tunnels and WebSockets, the path
for routes without a registry, the eviction of the map by URL, and the refusals of hosts and
mutations, which touch nothing of this state.

### PortLease

One file operation is one step: `ReadLease`, `Judge`, `Reclaim` (the unlink), `Create`
(exclusive), `Write`, `Probe`, `Drop`; then `Inherit`, `Adopt`, `Serve`, `Close`,
`ReleaseRead`, `ReleaseUnlink`. A process reserves once, so it names its lease's token.
`Inherit` is a child that gets the environment: it holds its parent's token. `stolen`
remembers that an unlink hit another file than the one it was decided for. A probe
may fail at will, which stands for foreign programs and its time limit.

### Promotion

`Begin`, `Inspect`, `ReadTarget`, `ClaimTransaction`, `ClaimApproval`, `Write`, `ReadBack`
(the bytes that are there after the write), `Decide` (git's status, which the receipt's
outcome rests on as well) and
`WriteReceipt` are the stages of `applyPromotion` between which another process can
act; `Prepare`, `Approve` and `Verify` are the owner's commands. `Commit`, `Checkout` and
`EditOther` are what people do in a clone. A catalogue is its set of cases. A
promotion is a candidate and the commit it was prepared against; a candidate stands for
what its identity digests besides (session, plan, evaluation, sandbox), so several of them may
bring one case (`CaseOf`). The stores are shared, the working trees are not. The looks
inside `Inspect`, and those inside `Verify`, are one step each. Left out:
how a case is rendered and validated, and bytes that do not parse.

### Retention

`Review` is the dry run, whose token the operator passes on. `List` and `Plan` are an
apply's two looks (the entries; the references and the token again), `Preserve` an
apply without candidates, `Prepare` the journal's PREPARED record. A removal is `Look` (the
`lstat`, which finds the directory or not), any number of `Tear` (the recursive removal takes
away a part), and `Finish` or `Fail`: between them another apply may take the directory, and
the removal then succeeds on nothing. `Publish` and `Reread` are the terminal record,
`WriteReceipt` the receipt. `order` is the order of modification times of all entries: runs,
and `strays` (files, links and unsafe names), which are never candidates but take places
among the recent ones (`Recent`) and may be written anew (`Touch`). A directory that was
emptied in part is `hollow`, and perhaps just modified. It is assumed that a run is not
modified after it has appeared; the entries, and the references, are each read in one step;
an entry whose size cannot be read is refused as a referenced one is.

### SessionOwnership

A command is admitted with the record it reads (`Look`), then takes the lock by an exclusive
creation (`Acquire`), looks again (`Recheck`) and does its work: `Create` or `Publish` of the
record; `Fetch`, `Merge`, `Compare`, `Push`, `Verify` of git; `RemoveWorktree` and `DropBranch`.
`start` works without the lock (`AddWorktree`, `WriteRecord`, `VerifyStart`, and the three steps
of its rollback), as does `recover` (`LookLock`, `MatchRecord`, `Confirm`, `Unlink`). Commits
are told apart by what they contain, how many of this session and how many of others, `base` is
the one the canonical checkout is at, which `git branch -d` compares the session's branch with
(`DropBranch`): it is what that checkout last pulled, not what the remote holds. Nobody is
assumed to merge a session's branch into the canonical checkout by hand, or to give it an
upstream. A session is named by the invocation that drew its identity; `dead` are the sessions
whose holder has ended. `disturbed` remembers the two events after which two commands can hold
the lock or a record can be lost (section 5); three of the four properties are about everything
before. Left out: the admission tables over task documents and the bound on the number of
worktrees (refusals without effect), the reuse of a process number, half-written files, a dirty
tree (git's refusals are `Fail`), other worktrees.

## 3. What the runs check

| Run | Instance | Shows |
|---|---|---|
| `store_safety` | 2 processes, 3 staged documents; 169,324 states | a refused document is never visible (`RefusedNeverVisible`), the slot is implemented (`AtomicSlot`), a rename that nobody raced advances the generation (`UnracedRenameAdvances`) |
| `runtime_control` | 2 turns of 1 intent, 3 runs or restores, every command; 279,407 states | a paused instance is what a restore of it gives, but for pending tool results (`PausedIsKept`), the contract is implemented (`KeepsContract`), a run ends (`RunEnds`) |
| `runtime_budget` | 3 turns of 2 intents, 3 runs or restores, tight ceilings, metered; 2,583,503 states | `CountsWithinCeiling`, each byte is charged once on the line that leads to the instance (`BytesChargedOnce`), the provider's bill stays within the spend (`BilledWithinCeiling`), what failed for good on that line is not executed (`FailedCallsNotRepeated`) |
| `campaign_safety` | no plan, or a plan of 2, 2 processes, six endings; 203,255 states | `UsageCountedOnce`, `CountsWithinPolicy`, `ProgressIsDurable`, `CompletionIsEarned`, `CleanupKeepsFindings`, a late pause stops the next slot (`PauseStopsCampaign`), `CampaignEnds` |
| `auth_safety` | 2 captures, an adopter, recovery, a reader; 837,364 states | `VerdictOfOnePair`, `PairOrPending`, `RecoveredPairIsWhole` |
| `cli_child` | one call; 847 states | nothing is left alive (`NothingLeftAlive`), nobody is signalled after the answer (`AnsweredIsQuiet`), the promise to the runtime (`KeepsPromise`) |
| `orchestrator_safety` | 2 items, 2 clusters, 3 attempts, 3 replays, 5 contexts (4 while collecting), 1 promoted cluster; 781,258 states | work is charged before it is entered (`EntriesAreReserved`), done work is not repeated (`RecordedWorkIsNotRepeated`), clean means clean (`CleanIsClean`) |
| `causal_safety` | 1 page, 2 requests, 1 proven and 1 exempt URL, the rule of the first fits both, 3 generations, 1 rearm, 1 unit, 1 ticket; 1,478,751 states | authority ends with its cause (`NoLeakedAuthority`), what is ticketed is forwarded, at every URL none of whose tickets another request took (`TicketedAreForwarded`), a window ends (`WindowEnds`) |
| `port_lease` | 3 processes and a dead one, 2 candidates; 915,877 states | two lines do not count on one port (`NoSharedPort`), and where that begins to fail (`TheftStartsAtReclaim`) |
| `promotion_safety` | 3 candidates that bring 2 cases, 2 clones, 2 appliers, 2 commits; 3,039,559 states | an approval, and a checkout of a commit, is written at most once (`OneWrite`), `DirtIsApproved` |
| `retention_safety` | 2 applies, 4 entries of which one may be a file, 2 to keep; 2,307,261 states | `NewestAreKept`, `RemovalsAreRecorded`, `ReceiptsAreTrue` |
| `session_ownership` | 2 invocations at a time, 4 in all, 2 tasks, 2 own and 1 foreign commit; 2,469,078 states | `OwnerIsRecorded`, `ComparedBeforeReplaced`, `LostWorkWasAbandoned`, `IntegratedIsIntended` |

All of them pass. The type invariants are no properties of the runs; all of them are proved (the
orchestrator's as a part of `OrchestratorInvariant`). Captures, processes, candidates of one
case, clones, appliers, applies and tasks are interchangeable where a run declares symmetry, and
no liveness property is checked there.

**Bounds, and why they are enough.** Two processes and three documents contain every pair of
publications with a third between the two looks of the first, which the comparison is about; the
proof covers any number. The runtime's two runs divide the work: `runtime_control` gives the
operator everything at every await, in turns short enough to pause, resume, cancel and restore
more than once; `runtime_budget` sets each ceiling low enough that it is reached in the middle
of a turn, at its end and across a restore (calls 4, tools 3, candidates 2, failures 3,
consecutive failures 3, provider failures 2, wall time 6, spend 10), and allows the repeats that
exhaust a call. Three lives let an instance fail a call, be restored, and be restored once more
from a checkpoint made after the first restore; a response of two bytes and one token makes
bytes and tokens differ, and the two prices differ. In the campaign, the plan of two is the
smallest that can complete, two processes give one pause or kill in the middle and one resume;
without a plan the campaign ends by stagnation, its budget or a pause. The ceilings let a good
investigation exhaust bytes, an outage exhaust calls, and both leave room. `StagnationLimit` is
2 there, 3 in the code, so that stagnation is reached within the run; it is a constant of the
module for that reason. Two captures are the fewest that overlap. The child's run has no bound:
the module is finite, since a timer is set at most twice. In the orchestrator an item may be
entered three times, a process may die without a bound, and every limit of the budget is
reached. Three generations are an action inside a navigation's window and one that is refused at
the limit; with one ticket and two requests the ledger is full while a second ticket is asked
for, evicts a consumed one, and refuses one over a fresh one. (`MaxOpen` is the code's 16: that
it is not reached follows from `NoLeakedAuthority`.) Three processes are a dead lease's two
reclaimers and an heir. Promotion starts from any growing history of at most two commits and any
checkouts: from an empty one, two appliers could never meet after two commits. In retention four
entries give a file, the newest run (which alone the two places then protect), and two
candidates that both applies may take; without a file, two newest runs. Only the first entry is
ever referenced (`Referable`), which tells a candidate that becomes referenced from one that
does not. Four invocations give a start, a claim, and two commands that meet.

`CHECK_DEADLOCK FALSE` is set where the system really ends: a campaign of
investigations is over, a call is answered and its timers have fired, every process of
the port lease has died.

**Fairness.** `RunEnds` assumes
that the loop goes on: a reasoner call ends, a backoff ends at its timer,
and a tool answers; the operator is not assumed to do anything. That a call
ends is `KeepsPromise`, which assumes that `complete()` goes on after its spawn and that
timers fire; the child may never exit. `CampaignEnds` assumes that an investigation
ends, which is `RunEnds`, and that a write returns. `WindowEnds` assumes that a
settlement timer which is not replaced fires; it holds if requests do not go on being
answered for ever and no page is closed (section 5 says why each is needed). No fairness is
assumed elsewhere, and nothing is claimed to happen eventually there: a dead
process' claim, lock or journal waits for a person.

## 4. What is proved

All theorems are for every value of the constants, under the assumptions the
modules name (`SlotValuesAssumption`, `MaxDocsAssumption`, `SizesAssumption`,
`NoneAssumption`, `NamesAssumption`, `PromotionAssumption`, `RetentionAssumption`,
`CampaignAssumption`, `OrchestratorAssumption`, `OwnershipAssumption`,
`PortLeaseAssumption`, `AdmissionAssumption`). They say that the markers differ from the
values they stand beside, that sizes and bounds are numbers, and that the sets that are
counted (candidates, work items, clusters, requests in flight) are finite; of a
plan, that it has at least two investigations if there is one.

**The store** (`SharedFileProofs`). `StoreInvariant` proves `StoreInv` inductive.
That a refused document is never visible is not inductive alone: it needs that a
document in flight is new (`InFlightIsNew`: unseen, unrefused and held by one
process), which needs that identities grow. `GenerationAdvances` needs that what
`Compare` saw stays true until another process moves the slot (`SecondLookHolds`),
and that a document is staged under the generation after the one observed
(`StagedUnderNext`). `StoreImplementsSlot` maps every step to a step of
`CheckpointSlot` or to a stutter; `NoDamageWhilePublishing` is what lets `Rename` be
`Install`, since no step makes a readable slot damaged.

**The runtime** (`AgentRuntimeProofs`). `Invariant` proves `RuntimeInv`:
`Typed`, `Running` (a run is active exactly while the status is RUNNING),
`OutcomeKeeps` (what a turn decided agrees with the reasons that keep a
checkpoint), `Headroom`, `Explained` and `PauseInv` (a paused instance is its checkpoint, and
its history the checkpoint's; `PauseIsKept` follows). `Headroom` is the
heart of `CountsStayWithinCeiling`: while a call is awaited every counter is *below* its
ceiling, while intents are applied every counter but the calls is, and one charge
adds at most one to a counter; it also holds of the checkpoint, so a restore keeps
it. `LineInv` says that the ledger is what was moved on the line of checkpoints, here and at
the checkpoint (`Traced`), which with `Explained` is `BytesAreChargedOnce`: a byte that is
charged twice, or restored to another total, breaks it. `BilledStaysWithinCeiling` adds
`SpendRoom`: the bill is at most what is committed, and while a call is awaited there is room
for all the tokens it may generate. It assumes of every response that its tokens stay within
the bound its call was admitted with and are no more than its bytes can stand for; the code
checks neither (section 5). What is committed may pass the ceiling, since bytes are committed
at the worst rate; the bill may not.
`Refinement` shows `KeepsContract` with the reason and the existence of a checkpoint
mapped to `AgentRun`'s variables, from `Running` and `OutcomeKeeps`. That an end is
final (`TerminationIsFinal`) is proved and checked by no run. `FailuresAreRespected` has an
invariant of its own, `LogInv`: the log tells as many failures of each call as happened on the
line (`Tells`), the log in the checkpoint those of its line, so a restore that forgot the log
would break it; and the call being executed has not exhausted itself, since the log
stands still while a tool runs. One lemma says what a record more does to the
failures of a call; no induction over the log is needed.

**The campaign** (`CampaignProofs`). `CampaignInv` rests on `History`: the history of absorbed
investigations explains the accumulators, a prefix of it explains the file, and while no process
runs, or once the campaign has ended, the file is all there is of it. `Accounts` says what
*explains* means: each investigation is counted under its reason, no reason is counted without
one, and what they used adds up. From it `CompletionStaysEarned` (a complete campaign has no
count against it, hence no such investigation) and `ProgressStaysDurable`. `Bounded` holds the
file as well as the memory within the policy, which is what a resume needs for
`CountsStayWithinPolicy`. The sum over a history is a recursive function, and what it computes
cannot be derived by induction here; `AddsUpTo` therefore says that the function exists and
where it ends, and the steps maintain that. `FindingsOutliveTheFile` needs only `File`.
`PauseStops` needs that an investigation that was signalled can only end PAUSED with nothing
used (`AskedIsPaused`).

**The orchestrator** (`CampaignProofs`), for any manifest, clusters, budgets and number of
deaths. Each action writes one document, so the proofs are about documents: what
each way to change one keeps (`Advances` for items, `Turns` for replays), and one lemma
for a write that may be refused (`Written`). `EntriesHaveTheirUnit` counts
the entries of an item after its first as pairs of the item and a number (`Again`): an
entry adds at most one pair, and none if it is the first. It needs that what is
replayed holds a reservation (`InReplay`). `CleanCampaignsAreClean` follows from `Marked`:
a safety event that was seen, and an item or a cluster that was skipped or blocked, has left
an unresolved reason, which
nothing takes away and the validator does not accept in a clean document. That a second event
may reach no document, because the validator refuses it, is
a case of its own: the reason of the first is on disk. The theorem does not speak of events that
were lost or minimized, and could not: with either, the run's state graph contains
COMPLETE_CLEAN (`Unseen` is what the minimizer's replays keep). `DoneIsDone` adds that of two
clusters one is next, and that a verdict on disk is only given again (`Verdicts`).

**The bundle** (`AuthorityProofs`), for any number of captures. `VerdictIsOfOnePair`
assumes nothing about who runs when. It needs that bytes named by the artefact, a
record, an adopter or a reader are settled, that is, no longer staged, so nothing
renames them again (`NamesSettled`); hence an artefact that once differed from the
record a reader holds always will (`LooksAgree`). `PairIsKept` is about writers that
did not overlap: `Quiet` says that then one writer runs, that a running
capture or recovery owns its journal and its staged files, and that an adoption holds
the artefact that is there. `RecoveryIsWhole` follows from it.

**The child** (`CliChildProofs`). `CallInv` joins what was set before the answer
(`Begun`), that each kind of timer but the kill grace is set once and that one twice
(`OneShot`, `KillTwice`), why a signal was sent and what stands behind a running
timer (`Causes`), and the results that need them: `BoundedWait`, some timer always
leads on to an answer; `NothingLeftAlive`, which needs that a hard ceiling is set only
after SIGKILL; `ReadUndisturbed`, which needs that nobody signals a call that was not
stopped. `PromiseIsKept` is the safety of
`KeepsPromise`; its liveness is left to TLC.

**Retention** (`RetentionProofs`), for any number of applies, entries and places. `JournalInv`
relates each apply's memory to its record (`JournalAgrees`) and says that what an apply counts as
deleted is gone, and that what is gone was removed by some apply (`GoneIsRemoved`), which is
also what a removal that found nothing needs; `RemovalsRecorded`,
`ReceiptsTrue` and `ReviewedOnly` (nothing is removed that the confirmed dry run did not
list) follow. `NewestKept` needs a second invariant, `NewestInv`: what comes later in the order
of modification appeared later, or is a stray or hollow (`Ordered`); so before an entry that a
listing without hollow runs did not find recent, at least as many entries as are kept can rank
(`NewestAreRecent`, by an injection), and what was old when it was planned stays old, since
entries are only added. That the property says *can rank*, and excepts plans made while a run
lay emptied in part, is the code's doing (section 5).

**Promotion** (`PromotionProofs`), for any number of cases, candidates, clones, appliers and
commits. `PromotionInv` says what the stages an applier has passed leave behind (`Past`), that
what it has claimed stays its own (`Holding`), that a write was made by the owner of both
claims, whose only write it is (`Owned`), and that a receipt has a write behind it (`Founded`).
`WrittenOnce` follows from it; `DirtIsApproved` is inductive together with it, since every way
to change a clone's files or its HEAD either writes, or leaves the clone clean.

**Causal admission** (`AuthorityProofs`), for any pages, requests and bounds. `Causes` is the
heart: the open generations are exactly the action's and the navigation's, and these
differ. `TicketsAreThere` counts: at every URL at which no other request took a ticket
(`overdrawn`) there are as many unconsumed tickets as requests that hold one and wait for the
proxy. The exception is needed: an ungated request, one the full ledger refused, or one
of an overlapping rule takes what was minted for another, and all three are in the run.

**The leases** (`SharedFileProofs`), for any number of processes and ports. `Lives` keeps
what was judged stale stale, since the dead do not return; `Lines` ties an
inherited token to the process that reserved it; `Standing` says that the lease a line
counts on is the file at its path unless the line has released it, and holds until an
unlink hits a file it was not meant for. `PortsAreNotShared` follows, since two whole
leases cannot be one file.

**The session** (`SessionOwnershipProofs`), for any number of invocations. `BaseInv` holds
whatever happens: identities are fresh and never shared (`Numbered`), a command is only
at places of its own (`Suits`), and what was fetched, and what the canonical checkout is at, is on
the remote branch (`Line`).
`NoLostWork` follows: `git branch -d` compares with the canonical checkout (`base`), what that
contains the remote has, and an abandonment was asked for. `Exclusive` holds until
a recovery or a rollback takes a lock or a record not its own: who is past the lock
holds it, and who has compared the record still has it before him. Hence
`OwnerIsAlwaysRecorded`, `NoBlindReplacement` and `OnlyTheIntended`.

**Only model-checked.** Liveness (`RunEnds`, `CampaignEnds`, `WindowEnds` and that of
`KeepsPromise`): the prover has no fairness rules and no ENABLED. Every other property
of a run is stated by a theorem. What `Held` counts in `CausalAdmission`, a sum over the
URLs, stays within the ledger's limit by the guard of `Mint`; no theorem says so, since a
fold over a set is a recursive definition. No operator here is RECURSIVE.

## 5. Where the code and its documentation disagree

What was met while modelling. The models contain all of this behaviour; no run ends in a
counterexample, and where a property of a run would be refuted by one of these it carries
the condition that excepts it.

*Store.* The two looks of a publication compare generations only. Superseding or deleting
restarts the numbers, so a document replaced between the looks can carry the same
one, and the stale writer renames over it (`checkpointStore.ts:259`); the comment at :29
promises a refusal. Processes with one id that publish in turn replace each other's
progress without a refusal: the comparison is with the generation this publication saw
first.

*Runtime.* After three successful identical calls the fourth is discarded, and a discard
exhausts the call for good (`core/agentProtocol/runtime.ts:515`); the comment at :503 says that
successes never exhaust. A call that fails gives back the output reserved for it, though the
provider may bill it (`runtime.ts:409`); `spendCeiling.ts:9` says the authorized amount cannot
be exceeded by admitted calls. A call the operator aborted counts as a provider failure
(`runtime.ts:443`). The cancel flag is read at the top of the loop only, so the rest of a turn's
intents is applied (`runtime.ts:522`). `resume()` inside a run does not renew the abort signal,
so later calls of that run come back cancelled. The wall clock of an instance that is run again
starts from the base of its first run. A response may be larger than the output reserved for it
(`spendCeiling.ts:125`): bytes are committed at the worst rate, while only
`maxOutputTokensPerCall` tokens were reserved, so what is committed can pass the ceiling by one
call, and the comment at :126, "charged less afterwards, never more", does not hold. Calls that
reject, and calls between the last checkpoint and a crash, are billed by the provider and in no
ledger; `billed` is the bill of the line that goes on. Tool output that waits for the next
request is in no checkpoint, and is dropped when that request is refused or fails; the comment
at `runtime.ts:732` says it becomes a part of a later request. The backoff after a malformed
response (`runtime.ts:508`) is never reached: every class of malformed response is permanent.

*Campaign.* Findings are written after the loop, from receipts that only this process
has, so a kill between investigations loses those of all investigations that were
recorded (`localCampaign.ts:1366`); the comment at :1664 says it loses at most the one in
flight. A progress document seeds the started count one too high, so such a campaign
never completes its plan (:1747 against :1141). The wall time of a paused investigation
is in the campaign's clock and in its own, and subtracted twice (:1546 against :1538).
The exit before an investigation whose budget is exhausted writes no
finding. A turn that passes a byte ceiling makes `assertBudgetConservation` throw
before anything is saved, and a resume pays for the investigation again. A campaign
blocked for safety is resumable if it is killed before its file is removed, or if
the removal fails. The stagnation count is raised after the document is written. The
memory of a provider failure before a pause is not in the document. A slot that pauses
twice leaves one pause counted for ever, so the plan cannot complete. A pause loses the
receipts of the paused investigation. A campaign all of whose calls threw is
attributed as having a valid provider, because a call that throws is not counted as one. A
crash can run one investigation more than planned.

*Bundle.* A capture that dies between its two renames leaves an artefact placed and a
record staged. Recovery refuses it (`src/src/auth/capabilityLifecycle.ts:461`), while the
comment at :403 says that it completes the commit. A publication that fails before its
first rename leaves the journal and the staged record, which the comment at :402 says are
removed. Recovery is called by tests only. Captures that overlap share the journal's name,
and can leave an unpaired bundle without a journal. An adoption during a capture can put
the expiry of one artefact and the digest of another into its record.

*Child.* `.agent/tasks/nightwatch-cli-reasoner-gateway-v1/STATE.md:17` says that HUNG_CHILD
means SIGTERM was ignored past the kill grace; it is also reported when the child
obeyed and a grandchild keeps the pipes.

*Orchestrator.* When the adapter of a replay throws, the record is blocked while its reservation
stays RESERVED (`orchestrator.ts:1719`); the validator refuses the document, the old one still
says RUNNING, and every resume enters the replay again without a new charge. A hard kill inside
`reproduce` does the same, since the reservation is consumed only when it returns (:627). A
safety event during a reproduction ends in PARTIAL_RUNTIME_INFRA_FAILURE, which a test pins
(`phase15pCandidateLifecycleGates.test.ts:760`), while
`docs/design/PRODUCTION-OBSERVABILITY-MASTER-PLAN.md:465` asks for PARTIAL_SAFETY_BLOCKED. A
safety event that the executor returned (:1244) is only in memory until the gate's checkpoint
(:1279); a kill in between loses it, and the item is run again. The minimizer's replays report a
safety vector (`core/triage/minimizer.ts:160`, `:315`) that `orchestrator.ts:1516`-`1589` does
not carry into the cluster's record, so after either the campaign can end COMPLETE_CLEAN
(:2298). The verdict of a gate is only in memory between its checkpoint (:1279) and `finalize`
(:1175): after a kill there, a resume goes on to the replays and ends in another class. After a
SAFETY_BLOCKED item whose vector is zero it executes later items, and can be COMPLETE_CLEAN with
a blocked item. `addActions` throwing (:1245) loses the safety event of the outcome. The limit
on contexts while collecting (`budget.ts:258`) can end in BUDGET_EXHAUSTED with no counter at
its limit, and `finalize` then throws. A second safety event during reproduction is a duplicate
reason, and refused. Over kills and resumes more clusters than the maximum can be promoted.

*Causal admission.* The settlement window has no cap: an answer or a failed request replaces the
timer without counting a rearm (`networkObserver.ts:1138`, `:1483`), while the comment at :361
says "hard-capped". `WindowEnds` carries the condition. Closing any page clears the shared timer
and the generation stays open. A same-document navigation opens a generation that no load
settles. A request with a bootstrap exemption gets no ticket when a registry is bound, so the
plain-HTTP proxy refuses it; `admissionTickets.ts:4` says exactly one ticket per admitted
effect. A redirect is bound, by its URL, to the generation that last admitted it (:1153). When
the registry is full an action's requests fall back to implicit attribution, where :1720 says
they refuse. An exemption's unit is taken before a closed generation refuses. With a registry,
unknown requests of an action can take the exemption of a concurrent navigation, against :492. A
document or an image of the product's host gets no ticket (`networkObserver.ts:746`), and the
proxy consumes one for it if a rule fits (`src/src/proxy/server.ts:382`); so does a request of
one rule with the ticket of another whose pattern overlaps
(`core/safety/admissionTickets.ts:84`). The owner is then refused. HTTPS never consumes tickets,
so the ledger of 4096 fills and minting stops without a word; a request admitted then may be
forwarded on the ticket of another to the same URL. Tunnels are counted and never uncounted.

*Port lease.* The comment at `portLease.ts:128` says that cleanup never changes a lease one
does not own. It unlinks a path it has read before; after a reclaim that raced
(:144) the path may hold another process' lease. `TheftStartsAtReclaim` says where this can
begin. A process whose environment names another owner never releases the lease
it reserves until it dies (`bound`).

*Promotion.* Between the look at the target and the rename the catalogue may change, and the
write replaces what is there: an edit, or, when the checkout was moved meanwhile, the write of
another applier that looked later. A claim of an approval that fails because another clone was
first burns that clone's transaction. That failure is an untyped error, while `apply.ts:139`
says every precondition failure is typed. The bytes are read back (`apply.ts:218`) and git is
asked afterwards (:221), so a receipt can say APPLIED for a checkout that was moved in between
and holds another applier's promotion.

*Retention.* `hasIncompleteRetentionOperation` (`retentionJournal.ts:431`), which is to
block an apply while an operation is open (:427), has no caller outside tests. A removal
that fails halfway is recorded as PRESERVED though the directory is hollow, and its new
modification time can take a slot of the recent ones; so it does for a plan made while the
removal is under way. Every entry with a modification time is ranked before its kind and its
name are looked at (`index.ts:98`), so files, links and unsafe names push the newest runs out of
the recent ones. Two applies that overlap can both record one run as REMOVED: the second one's
`rmSync` (`evidence-retention.mjs:296`) finds nothing after its own look (:290) and succeeds. A
reference added after the scan does not stop a removal.

*Session ownership.* `recover` compares the lock and then unlinks its path
(`nightwatch-session.mjs:1306`-`1312`); another recovery and a new command can put a live lock
there in between, and two commands then hold it. `start`'s rollback (:670-701) proves path,
branch, HEAD and a clean tree, and neither the record nor the lock beside them: a claim that
comes at once makes `start`'s own check fail, and the rollback removes the claimed worktree.
These two are `disturbed`. A claim admitted with a record that has been removed since finds none
under the lock (:796) and writes one for a worktree that is gone;
`openspec/changes/archive/2026-10-09-nightwatch-session-mutation-authority-binding-v1/specs/concurrency-workspace-hardening/spec.md:49`
says it publishes only if the revision is still the same. The lock of an adopting claim that
died names the new session, and that of a first claim has no record beside it, so `recover`
refuses both for ever (:1302), as it does a lock that was half written; :63 of that
specification promises an explicit recovery. `push` sends HEAD and not the commit that was
compared (:1170), which the later look calls UNVERIFIED; so it does when others push in between,
and the command then needs a merge commit to succeed. A push whose answer was lost is reported
as rejected. A claim whose publication is uncertain leaves a record of a session nobody was
given. `--abandon-unmerged` deletes commits made after the look as well. `git branch -d` (:1249)
compares with the checkout it runs in, or with an upstream, and not with the remote's main
branch that the look used; a branch merged there by hand, or pushed with `-u`, is deleted though
the remote's main branch lacks its work. A record still says INTEGRATED after further commits.

## 6. What comes next

In this order:

1. The campaign over the runtime: `Runs` and `ReasonsAfter` of `LocalCampaign` derived from
   `AgentRun`, and the set of findings replaced by immutable publication (agent findings,
   reviews).
2. Redirects and tunnels in `CausalAdmission`; the mode of the orchestrator that only
   reproduces.
3. The minimizer as an algorithm against a reference definition.
