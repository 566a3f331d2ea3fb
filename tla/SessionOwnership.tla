-------------------------- MODULE SessionOwnership --------------------------
(***************************************************************************)
(* The ownership of one session worktree, as bin/nightwatch-session.mjs    *)
(* keeps it: a record beside the worktree says which session holds it, a   *)
(* lock file beside the record serialises its transitions, and git holds   *)
(* the work.  Several invocations run at once, in this worktree and in the *)
(* canonical checkout, people commit and push meanwhile, and an invocation *)
(* may be killed at any point.                                             *)
(*                                                                         *)
(* The line of commits is told apart by what it contains: how many commits *)
(* of this session, and how many of others.  A session is named by the     *)
(* invocation that drew its identity.  A refusal before the lock changes   *)
(* nothing and is not a step.                                              *)
(***************************************************************************)
EXTENDS Integers, FiniteSets

CONSTANTS Procs,        \* where an invocation runs: one at a time in each
          Tasks,
          MaxRuns,      \* bound: invocations that draw an identity
          MaxOwn,       \* bound: commits of the session
          MaxForeign,   \* bound: commits others push
          None          \* no record, no lock

VARIABLES worktree,     \* "none" before it is created, "present", "gone"
          branch,       \* whether the session's branch exists
          head,         \* the commit the branch is at
          main,         \* the canonical branch of the remote
          tracked,      \* what this machine last fetched of it
          base,         \* the commit the canonical checkout is at
          record,       \* the ownership record
          lock,         \* the transition lock
          runs,         \* how many identities have been drawn
          dead,         \* sessions whose holder is gone
          job,          \* what each invocation knows, and where it is
          owners,       \* history: sessions told that they own the worktree
          disturbed     \* history: see Unlink and RollbackRemove

git == <<worktree, branch, head, main, tracked, base>>
others == <<runs, dead, owners, disturbed>>
vars == <<git, record, lock, others, job>>

Sessions == 1..MaxRuns
Commits == [own : 0..MaxOwn, foreign : 0..MaxForeign]
Commands == {"none", "start", "claim", "release", "retarget", "reconcile",
             "integrate", "remove", "recover"}
Record == [session : Sessions, owned : BOOLEAN, integrated : BOOLEAN, task : Tasks]
Lock == [op : Sessions, session : Sessions, cmd : Commands]

\* Where an invocation is: start, the commands with the lock, recover.
Places == {"idle", "added", "recorded", "rollback", "proven", "unbranch",
           "looked", "locked", "create", "publish", "fetch", "merge", "compare", "push",
           "verify", "remove", "branch", "unlock", "stale", "matched", "confirmed"}
Jobs == [cmd : Commands, at : Places, op : Sessions \cup {0}, record : Record \cup {None},
         lock : Lock \cup {None}, head : Commits, merged : BOOLEAN]

ASSUME OwnershipAssumption ==
    /\ MaxRuns \in Nat /\ MaxOwn \in Nat /\ MaxForeign \in Nat
    /\ None \notin Record \cup Lock

Contains(b, a) == a.own <= b.own /\ a.foreign <= b.foreign
Held(file) == file # None
Live(r) == r.owned /\ r.session \notin dead

Idle == [cmd |-> "none", at |-> "idle", op |-> 0, record |-> None, lock |-> None,
         head |-> [own |-> 0, foreign |-> 0], merged |-> FALSE]

At(p, place) == job[p].at = place
Goto(p, place) == job' = [job EXCEPT ![p].at = place]
End(p) == job' = [job EXCEPT ![p] = Idle]

Init ==
    /\ worktree = "none" /\ branch = FALSE
    /\ head = Idle.head /\ main = Idle.head /\ tracked = Idle.head /\ base = Idle.head
    /\ record = None /\ lock = None
    /\ runs = 0 /\ dead = {}
    /\ job = [p \in Procs |-> Idle]
    /\ owners = {} /\ disturbed = FALSE

-----------------------------------------------------------------------------
\* An invocation that passed its admission: it knows the record it read, the
\* HEAD it read or was given, and, of a removal, whether the work is merged.
Begin(p, cmd, place, commit) ==
    /\ At(p, "idle") /\ runs < MaxRuns
    /\ runs' = runs + 1
    /\ job' = [job EXCEPT ![p] = [cmd |-> cmd, at |-> place, op |-> runs + 1,
                                  record |-> record, lock |-> None, head |-> commit,
                                  merged |-> Contains(tracked, head)]]
    /\ UNCHANGED <<dead, owners, disturbed>>

Look(p, cmd) == Begin(p, cmd, "looked", head) /\ UNCHANGED <<git, record, lock>>

\* start, in the canonical checkout and without a lock.
AddWorktree(p) ==
    /\ worktree = "none"
    /\ worktree' = "present" /\ branch' = TRUE /\ head' = tracked
    /\ Begin(p, "start", "added", tracked)
    /\ UNCHANGED <<main, tracked, base, record, lock>>

WriteRecord(p) ==
    /\ At(p, "added")
    /\ \/ /\ record = None
          /\ \E t \in Tasks :
                record' = [session |-> job[p].op, owned |-> FALSE, integrated |-> FALSE, task |-> t]
          /\ job' = [job EXCEPT ![p].at = "recorded", ![p].record = record']
       \/ /\ UNCHANGED record
          /\ Goto(p, "rollback")
    /\ UNCHANGED <<git, lock, others>>

\* The new worktree must be registered, with a record nobody holds; the
\* check of the capacity may refuse as well.
VerifyStart(p) ==
    /\ At(p, "recorded")
    /\ \/ /\ worktree = "present" /\ Held(record) /\ ~Live(record)
          /\ End(p)
       \/ Goto(p, "rollback")
    /\ UNCHANGED <<git, record, lock, others>>

\* The rollback proves the path, the branch, HEAD and a clean tree, and not
\* that the record and the lock beside them are still its own.
RollbackCheck(p) ==
    /\ At(p, "rollback")
    /\ IF worktree = "present" /\ head = job[p].head THEN Goto(p, "proven") ELSE End(p)
    /\ UNCHANGED <<git, record, lock, others>>

RollbackRemove(p) ==
    /\ At(p, "proven")
    /\ \/ /\ worktree = "present"
          /\ worktree' = "gone" /\ record' = None /\ lock' = None
          /\ disturbed' = (disturbed \/ Held(lock) \/ record \notin {None, job[p].record})
          /\ Goto(p, "unbranch")
       \/ /\ End(p)
          /\ UNCHANGED <<worktree, record, lock, disturbed>>
    /\ UNCHANGED <<branch, head, main, tracked, base, runs, dead, owners>>

RollbackBranch(p) ==
    /\ At(p, "unbranch")
    /\ branch' = (branch /\ head # job[p].head)
    /\ End(p)
    /\ UNCHANGED <<worktree, head, main, tracked, base, record, lock, others>>

-----------------------------------------------------------------------------
\* The commands that take the lock.  Each is admitted with the record it reads
\* before: a live holder refuses a claim and a removal, and is asked for by
\* the commands that work for it.
Claim(p) ==
    /\ worktree = "present" /\ (Held(record) => ~Live(record))
    /\ Look(p, "claim")

Release(p) ==
    /\ worktree = "present" /\ Held(record)
    /\ Look(p, "release")

Retarget(p) ==
    /\ worktree = "present" /\ Held(record) /\ Live(record)
    /\ Look(p, "retarget")

Reconcile(p) ==
    /\ worktree = "present" /\ Held(record) /\ Live(record)
    /\ Look(p, "reconcile")

Integrate(p) ==
    /\ worktree = "present" /\ Held(record) /\ Live(record)
    /\ Look(p, "integrate")

Remove(p) ==
    /\ worktree = "present" /\ Held(record) /\ ~Live(record)
    /\ Look(p, "remove")

Session(p) == IF job[p].cmd = "claim" THEN job[p].op ELSE job[p].record.session

\* Mutant: the lock is written over the one that is there.
AcquirePlain(p) ==
    /\ At(p, "looked")
    /\ lock' = [op |-> job[p].op, session |-> Session(p), cmd |-> job[p].cmd]
    /\ Goto(p, "locked")
    /\ UNCHANGED <<git, record, others>>

\* The exclusive creation; it makes the directory again if it is gone.
Acquire(p) ==
    /\ At(p, "looked")
    /\ IF Held(lock)
       THEN End(p) /\ UNCHANGED lock
       ELSE /\ lock' = [op |-> job[p].op, session |-> Session(p), cmd |-> job[p].cmd]
            /\ Goto(p, "locked")
    /\ UNCHANGED <<git, record, others>>

Unlock(p) ==
    /\ At(p, "unlock")
    /\ lock' = IF Held(lock) /\ lock.op = job[p].op THEN None ELSE lock
    /\ End(p)
    /\ UNCHANGED <<git, record, others>>

\* Mutant: a claim relies on the look it had before the lock.
AfterRecheckTrusting(p) ==
    CASE job[p].cmd = "claim" -> IF record = None THEN "create" ELSE "publish"
      [] job[p].cmd \in {"release", "retarget"} -> "publish"
      [] job[p].cmd \in {"reconcile", "integrate"} -> "fetch"
      [] job[p].cmd = "remove" -> "remove"

\* Under the lock the record must be the one that was admitted; a claim that
\* finds none creates one, whatever it was admitted with.
AfterRecheck(p) ==
    IF job[p].cmd = "claim" /\ record = None THEN "create"
    ELSE IF record # job[p].record THEN "unlock"
    ELSE CASE job[p].cmd = "claim" -> IF Live(record) THEN "unlock" ELSE "publish"
           [] job[p].cmd = "release" -> "publish"
           [] job[p].cmd = "retarget" -> IF head = job[p].head THEN "publish" ELSE "unlock"
           [] job[p].cmd \in {"reconcile", "integrate"} -> "fetch"
           [] job[p].cmd = "remove" -> "remove"

Recheck(p) ==
    /\ At(p, "locked")
    /\ Goto(p, AfterRecheck(p))
    /\ UNCHANGED <<git, record, lock, others>>

Claimed(p) == [session : {job[p].op}, owned : {TRUE}, integrated : {FALSE}, task : Tasks]

Create(p) ==
    /\ At(p, "create")
    /\ \/ /\ record = None
          /\ record' \in Claimed(p)
          /\ owners' = owners \cup {job[p].op}
       \/ /\ record # None
          /\ UNCHANGED <<record, owners>>
    /\ Goto(p, "unlock")
    /\ UNCHANGED <<git, lock, runs, dead, disturbed>>

\* What a transition publishes: the record it read under the lock, changed.
Published(p) ==
    CASE job[p].cmd = "claim" -> Claimed(p)
      [] job[p].cmd = "release" -> {[job[p].record EXCEPT !.owned = FALSE]}
      [] job[p].cmd = "integrate" -> {[job[p].record EXCEPT !.integrated = TRUE]}
      [] job[p].cmd = "retarget" ->
             {[job[p].record EXCEPT !.task = t] : t \in Tasks \ {job[p].record.task}}

\* The rename, which needs the directory.  A failure after it is reported as
\* uncertain: a claim that fails so has changed the record and owns nothing.
Publish(p) ==
    /\ At(p, "publish")
    /\ worktree = "present" \/ Held(record) \/ Held(lock)
    /\ record' \in Published(p)
    /\ owners' \in CASE job[p].cmd = "claim" -> {owners, owners \cup {job[p].op}}
                     [] job[p].cmd = "release" -> {owners \ {job[p].record.session}}
                     [] OTHER -> {owners}
    /\ Goto(p, "unlock")
    /\ UNCHANGED <<git, lock, runs, dead, disturbed>>

\* Any step under the lock may fail with nothing done; the lock is released.
Fail(p) ==
    /\ job[p].at \in {"create", "publish", "fetch", "merge", "compare", "push", "verify", "remove"}
    /\ Goto(p, "unlock")
    /\ UNCHANGED <<git, record, lock, others>>

-----------------------------------------------------------------------------
\* reconcile and integrate
Fetch(p) ==
    /\ At(p, "fetch")
    /\ tracked' \in {main, tracked}
    /\ Goto(p, IF job[p].cmd = "integrate" THEN "compare" ELSE "merge")
    /\ UNCHANGED <<worktree, branch, head, main, base, record, lock, others>>

Merge(p) ==
    /\ At(p, "merge") /\ worktree = "present"
    /\ IF Contains(head, tracked) THEN UNCHANGED head
       ELSE /\ head.own < MaxOwn
            /\ head' = [own |-> head.own + 1, foreign |-> tracked.foreign]
    /\ Goto(p, "unlock")
    /\ UNCHANGED <<worktree, branch, main, tracked, base, record, lock, others>>

Compare(p) ==
    /\ At(p, "compare")
    /\ Goto(p, IF head # job[p].head THEN "unlock"
               ELSE IF tracked = head THEN "publish"
               ELSE IF Contains(head, tracked) THEN "push" ELSE "unlock")
    /\ UNCHANGED <<git, record, lock, others>>

\* What is pushed is HEAD as it is now.  The answer may be lost.
Push(p) ==
    /\ At(p, "push") /\ worktree = "present"
    /\ Contains(head, main)
    /\ main' = head
    /\ \/ tracked' = head /\ Goto(p, "verify")
       \/ UNCHANGED tracked /\ Goto(p, "unlock")
    /\ UNCHANGED <<worktree, branch, head, base, record, lock, others>>

\* Mutant: the branch is verified against HEAD and not the named commit.
VerifyHead(p) ==
    /\ At(p, "verify")
    /\ tracked' = main
    /\ Goto(p, IF main = head THEN "publish" ELSE "unlock")
    /\ UNCHANGED <<worktree, branch, head, main, base, record, lock, others>>

Verify(p) ==
    /\ At(p, "verify")
    /\ tracked' = main
    /\ Goto(p, IF main = job[p].head THEN "publish" ELSE "unlock")
    /\ UNCHANGED <<worktree, branch, head, main, base, record, lock, others>>

\* remove, in the canonical checkout.  The record and the lock go with the
\* worktree.
RemoveWorktree(p) ==
    /\ At(p, "remove") /\ worktree = "present"
    /\ worktree' = "gone" /\ record' = None /\ lock' = None
    /\ Goto(p, "branch")
    /\ UNCHANGED <<branch, head, main, tracked, base, others>>

\* Mutant: the branch is always deleted by -D.
DropBranchForced(p) ==
    /\ At(p, "branch")
    /\ branch' = FALSE
    /\ Goto(p, "unlock")
    /\ UNCHANGED <<worktree, head, main, tracked, base, record, lock, others>>

\* git branch -d if the look before the lock found the work merged, and -D if
\* not.  A branch made from a commit has no upstream, so that -d compares it
\* with HEAD where it runs, the canonical checkout, and refuses otherwise.
DropBranch(p) ==
    /\ At(p, "branch")
    /\ \/ branch' = (branch /\ job[p].merged /\ ~Contains(base, head))
       \/ UNCHANGED branch
    /\ Goto(p, "unlock")
    /\ UNCHANGED <<worktree, head, main, tracked, base, record, lock, others>>

-----------------------------------------------------------------------------
\* recover: the lock of a process that is gone, of the session the record
\* names, and still the same when it is read again; then it is unlinked.
Running(op) == \E p \in Procs : ~At(p, "idle") /\ job[p].op = op

LookLock(p) ==
    /\ At(p, "idle") /\ worktree = "present"
    /\ Held(lock) /\ ~Running(lock.op)
    /\ job' = [job EXCEPT ![p] = [Idle EXCEPT !.cmd = "recover", !.at = "stale", !.lock = lock]]
    /\ UNCHANGED <<git, record, lock, others>>

MatchRecord(p) ==
    /\ At(p, "stale")
    /\ IF Held(record) /\ record.session = job[p].lock.session THEN Goto(p, "matched") ELSE End(p)
    /\ UNCHANGED <<git, record, lock, others>>

Confirm(p) ==
    /\ At(p, "matched")
    /\ IF lock = job[p].lock THEN Goto(p, "confirmed") ELSE End(p)
    /\ UNCHANGED <<git, record, lock, others>>

\* Between the last look and the unlink the path may hold another lock.
Unlink(p) ==
    /\ At(p, "confirmed")
    /\ lock' = None
    /\ disturbed' = (disturbed \/ lock \notin {None, job[p].lock})
    /\ End(p)
    /\ UNCHANGED <<git, record, runs, dead, owners>>

-----------------------------------------------------------------------------
\* The invocation is killed.
Die(p) ==
    /\ ~At(p, "idle")
    /\ End(p)
    /\ UNCHANGED <<git, record, lock, others>>

\* The process a claim is anchored to ends, or the machine restarts.
HolderDies ==
    /\ Held(record) /\ Live(record)
    /\ dead' = dead \cup {record.session}
    /\ owners' = owners \ {record.session}
    /\ UNCHANGED <<git, record, lock, runs, job, disturbed>>

\* External: commits in the worktree, pushes of others, their fetches here, and
\* pulls of the canonical checkout.  Nobody merges the session's branch there
\* by hand, or gives it an upstream: it is no place for work.
Work ==
    /\ \/ /\ worktree = "present" /\ head.own < MaxOwn
          /\ head' = [head EXCEPT !.own = @ + 1]
          /\ UNCHANGED <<main, tracked, base>>
       \/ /\ main.foreign < MaxForeign
          /\ main' = [main EXCEPT !.foreign = @ + 1]
          /\ UNCHANGED <<head, tracked, base>>
       \/ tracked' = main /\ UNCHANGED <<head, main, base>>
       \/ base' = tracked /\ UNCHANGED <<head, main, tracked>>
    /\ UNCHANGED <<worktree, branch, record, lock, others, job>>

Step(p) ==
    \/ AddWorktree(p) \/ WriteRecord(p) \/ VerifyStart(p)
    \/ RollbackCheck(p) \/ RollbackRemove(p) \/ RollbackBranch(p)
    \/ Claim(p) \/ Release(p) \/ Retarget(p) \/ Reconcile(p) \/ Integrate(p) \/ Remove(p)
    \/ Acquire(p) \/ Recheck(p) \/ Create(p) \/ Publish(p) \/ Fail(p) \/ Unlock(p)
    \/ Fetch(p) \/ Merge(p) \/ Compare(p) \/ Push(p) \/ Verify(p)
    \/ RemoveWorktree(p) \/ DropBranch(p)
    \/ LookLock(p) \/ MatchRecord(p) \/ Confirm(p) \/ Unlink(p)
    \/ Die(p)

Next == (\E p \in Procs : Step(p)) \/ HolderDies \/ Work

Spec == Init /\ [][Next]_vars

-----------------------------------------------------------------------------
TypeOK ==
    /\ worktree \in {"none", "present", "gone"} /\ branch \in BOOLEAN
    /\ head \in Commits /\ main \in Commits /\ tracked \in Commits /\ base \in Commits
    /\ record \in Record \cup {None} /\ lock \in Lock \cup {None}
    /\ job \in [Procs -> Jobs]
    /\ runs \in 0..MaxRuns /\ dead \subseteq Sessions /\ owners \subseteq Sessions
    /\ disturbed \in BOOLEAN

\* Every session that was told it owns the worktree, has not released it and
\* is alive is the one the record names: there is one writer, and a worktree
\* with a live owner is not removed (invariant of the file's header; claim,
\* release, remove).  Excepted: see the two hazards of disturbed.
OwnerIsRecorded ==
    ~disturbed => \A s \in owners : Held(record) /\ record.session = s /\ record.owned

\* A record is only replaced or taken away by an invocation that was admitted
\* with this very record (the compare-and-swap of the record's revision).
ComparedBeforeReplaced ==
    [][Held(record) /\ record' # record /\ ~disturbed'
         => \E p \in Procs : job'[p] # job[p] /\ job[p].record = record]_vars

\* A branch is deleted with commits the canonical branch of the remote lacks
\* only by a removal that looked, found work unmerged and was told to abandon
\* it.  Commits made after the look are safe with -d, which knows neither the
\* remote nor the look: the canonical checkout is never ahead of what was
\* fetched, nor that of the remote, which is never rewound.
LostWorkWasAbandoned ==
    [][branch /\ ~branch' /\ ~Contains(main, head)
         => \E p \in Procs : At(p, "branch") /\ ~job[p].merged]_vars

\* A session is recorded as integrated only when the canonical branch has
\* what the operator named with --expect-head and nothing else of its work.
IntegratedIsIntended ==
    [][Held(record) /\ Held(record') /\ record'.integrated /\ ~record.integrated /\ ~disturbed
         => \E p \in Procs : /\ At(p, "publish") /\ job[p].cmd = "integrate"
                             /\ main.own = job[p].head.own
                             /\ Contains(main, job[p].head)]_vars
=============================================================================
