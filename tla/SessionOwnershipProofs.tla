----------------------- MODULE SessionOwnershipProofs -----------------------
(***************************************************************************)
(* Proofs about the ownership of a session worktree, for any number of     *)
(* invocations, tasks and commits.                                         *)
(***************************************************************************)
EXTENDS SessionOwnership, TLAPS

\* The commands that take the lock, the places where it is held, and those
\* where the record has been compared under it.
LockCommands == {"claim", "release", "retarget", "reconcile", "integrate", "remove"}
LockedPlaces == {"locked", "create", "publish", "fetch", "merge", "compare", "push", "verify", "remove"}
ComparedPlaces == LockedPlaces \ {"locked", "create"}

\* A command is only at places of its own.
Suits(cmd, place) ==
    /\ place = "idle" => cmd = "none"
    /\ place \in {"added", "recorded", "rollback", "proven", "unbranch"} => cmd = "start"
    /\ place \in {"stale", "matched", "confirmed"} => cmd = "recover"
    /\ place \in {"looked", "locked", "unlock"} => cmd \in LockCommands
    /\ place = "create" => cmd = "claim"
    /\ place = "publish" => cmd \in {"claim", "release", "retarget", "integrate"}
    /\ place = "fetch" => cmd \in {"reconcile", "integrate"}
    /\ place = "merge" => cmd = "reconcile"
    /\ place \in {"compare", "push", "verify"} => cmd = "integrate"
    /\ place \in {"remove", "branch"} => cmd = "remove"

\* What an invocation was admitted with; a recovery holds the lock of an
\* operation that no invocation will ever run again.
Admitted(p) ==
    /\ Suits(job[p].cmd, job[p].at)
    /\ job[p].op <= runs /\ (job[p].op = 0 <=> job[p].cmd \in {"none", "recover"})
    /\ Held(job[p].record) => job[p].record.session <= runs
    /\ Held(job[p].lock) => job[p].lock.op <= runs
    /\ job[p].cmd \in {"claim", "remove"} /\ Held(job[p].record) => ~Live(job[p].record)
    /\ job[p].cmd \in LockCommands \ {"claim"} => Held(job[p].record)
    /\ job[p].cmd = "start" => /\ Held(job[p].record) => ~job[p].record.owned
                               /\ Contains(main, job[p].head)
    /\ job[p].cmd = "recover" => Held(job[p].lock) /\ \A q \in Procs : job[q].op # job[p].lock.op

\* Identities grow, and no two invocations share one.
Numbered ==
    /\ \A p, q \in Procs : p # q /\ job[p].op = job[q].op => job[p].op = 0
    /\ Held(record) => record.session <= runs
    /\ Held(lock) => lock.op <= runs
    /\ \A s \in dead : s <= runs

\* The line of commits: what the canonical checkout is at was fetched, what
\* was fetched is on the branch of the remote, and
\* the session's own commits there come from its HEAD.
Line == /\ Contains(main, tracked) /\ Contains(tracked, base) /\ main.own <= head.own
        /\ worktree = "none" => record = None /\ main.own = 0 /\ \A p \in Procs : At(p, "idle")

BaseInv == TypeOK /\ Numbered /\ Line /\ \A p \in Procs : Admitted(p)

\* While nothing disturbed it: who is past Acquire holds the lock; who has
\* compared the record still has it before him; a claim not yet published
\* has left no trace; an integration about to be recorded is on the branch.
Exclusive(p) ==
    /\ job[p].at \in LockedPlaces => Held(lock) /\ lock.op = job[p].op
    /\ job[p].at \in ComparedPlaces => Held(record) /\ record = job[p].record
    /\ job[p].cmd = "claim" /\ job[p].at \in {"looked", "locked", "create", "publish"} =>
          job[p].op \notin dead /\ (Held(record) => record.session # job[p].op)
    /\ job[p].cmd = "integrate" /\ job[p].at = "publish" =>
          main.own = job[p].head.own /\ Contains(main, job[p].head)

OwnInv == ~disturbed => /\ \A p \in Procs : Exclusive(p)
                        /\ owners \cap dead = {}
                        /\ OwnerIsRecorded

SessionInv == BaseInv /\ OwnInv

------------------------------------------------------------------------------
(* What a step does to the invocations. *)

Only(p) == job' \in [Procs -> Jobs] /\ \A q \in Procs \ {p} : job'[q] = job[q]

\* p goes on with what it was admitted with.
GoesOn(p) == /\ job'[p].cmd = job[p].cmd /\ job'[p].op = job[p].op
             /\ job'[p].lock = job[p].lock /\ job'[p].head = job[p].head
             /\ job'[p].merged = job[p].merged

LEMMA CommitsTyped ==
  /\ Idle.head \in Commits /\ Idle \in Jobs /\ 0 \notin Sessions
  /\ \A a \in Commits : Contains(a, a)
  /\ \A a, b, c \in Commits : Contains(a, b) /\ Contains(b, c) => Contains(a, c)
<1>1. Idle.head \in Commits
  BY OwnershipAssumption DEF Idle, Commits
<1>2. Idle \in Jobs
  BY <1>1 DEF Idle, Jobs, Commands, Places
<1>3. \A a \in Commits : a.own \in Int /\ a.foreign \in Int
  BY OwnershipAssumption DEF Commits
<1> QED
  BY <1>1, <1>2, <1>3, OwnershipAssumption DEF Contains, Sessions

LEMMA JobTyped ==
  ASSUME TypeOK, NEW p \in Procs
  PROVE  /\ job[p] \in Jobs /\ job[p].cmd \in Commands /\ job[p].at \in Places
         /\ job[p].op \in Sessions \cup {0} /\ job[p].record \in Record \cup {None}
         /\ job[p].lock \in Lock \cup {None} /\ job[p].head \in Commits /\ job[p].merged \in BOOLEAN
<1>1. job[p] \in Jobs
  BY DEF TypeOK
<1> QED
  BY <1>1 DEF Jobs

LEMMA GotoMoves ==
  ASSUME TypeOK, NEW p \in Procs, NEW place \in Places, Goto(p, place)
  PROVE  Only(p) /\ GoesOn(p) /\ job'[p].at = place /\ job'[p].record = job[p].record
<1>1. job \in [Procs -> Jobs] /\ job[p] \in Jobs
  BY JobTyped DEF TypeOK
<1>2. [job[p] EXCEPT !.at = place] \in Jobs
  BY <1>1 DEF Jobs
<1>3. job' = [job EXCEPT ![p] = [job[p] EXCEPT !.at = place]]
  BY DEF Goto
<1>4. job'[p] = [job[p] EXCEPT !.at = place] /\ \A q \in Procs \ {p} : job'[q] = job[q]
  BY <1>1, <1>3
<1>5. job' \in [Procs -> Jobs]
  BY <1>1, <1>2, <1>3
<1>6. \A f \in {"cmd", "op", "lock", "head", "merged", "record"} :
        [job[p] EXCEPT !.at = place][f] = job[p][f]
  BY <1>1 DEF Jobs
<1>7. [job[p] EXCEPT !.at = place].at = place
  BY <1>1 DEF Jobs
<1> QED
  BY <1>4, <1>5, <1>6, <1>7 DEF Only, GoesOn

LEMMA EndMoves ==
  ASSUME TypeOK, NEW p \in Procs, End(p)
  PROVE  Only(p) /\ job'[p] = Idle
BY CommitsTyped DEF Only, End, TypeOK

------------------------------------------------------------------------------
(* The base of the invariant: what does not depend on a disturbance. *)

LEMMA AdmittedKept ==
  ASSUME BaseInv, TypeOK', NEW q \in Procs, job'[q] = job[q],
         runs <= runs', dead \subseteq dead', Contains(main', main),
         \A r \in Procs : \/ job'[r].op \in {0, job[r].op}
                          \/ job'[r].op = runs + 1
  PROVE  Admitted(q)'
<1>1. TypeOK /\ Admitted(q)
  BY DEF BaseInv
<1>2. /\ job[q] \in Jobs /\ job[q].record \in Record \cup {None} /\ job[q].lock \in Lock \cup {None}
      /\ job[q].head \in Commits /\ job[q].op \in Sessions \cup {0}
  BY <1>1, JobTyped
<1>3. runs \in Int /\ runs' \in Int /\ main \in Commits /\ main' \in Commits
  BY <1>1 DEF TypeOK
<1>4. Suits(job[q].cmd, job[q].at)'
  BY <1>1 DEF Admitted
<1>5. job[q].op <= runs' /\ (job[q].op = 0 <=> job[q].cmd \in {"none", "recover"})
  <2>1. job[q].op \in Int
    BY <1>2 DEF Sessions
  <2> QED
    BY <2>1, <1>1, <1>3 DEF Admitted
<1>6. Held(job[q].record) => job[q].record.session <= runs'
  <2> SUFFICES ASSUME Held(job[q].record) PROVE job[q].record.session <= runs'
    OBVIOUS
  <2>1. job[q].record.session \in Int
    BY <1>2 DEF Held, Record, Sessions
  <2> QED
    BY <2>1, <1>1, <1>3 DEF Admitted
<1>7. Held(job[q].lock) => job[q].lock.op <= runs /\ job[q].lock.op <= runs' /\ job[q].lock.op \in Sessions
  <2> SUFFICES ASSUME Held(job[q].lock)
               PROVE  job[q].lock.op <= runs /\ job[q].lock.op <= runs' /\ job[q].lock.op \in Sessions
    OBVIOUS
  <2>1. job[q].lock.op \in Sessions /\ job[q].lock.op \in Int
    BY <1>2 DEF Held, Lock, Sessions
  <2> QED
    BY <2>1, <1>1, <1>3 DEF Admitted
<1>8. job[q].cmd \in {"claim", "remove"} /\ Held(job[q].record) => ~Live(job[q].record)'
  BY <1>1 DEF Admitted, Live
<1>9. job[q].cmd = "start" => /\ Held(job[q].record) => ~job[q].record.owned
                              /\ Contains(main', job[q].head)
  BY <1>1, <1>2, <1>3, CommitsTyped DEF Admitted
<1>10. job[q].cmd = "recover" => Held(job[q].lock) /\ \A r \in Procs : job'[r].op # job[q].lock.op
  <2> SUFFICES ASSUME job[q].cmd = "recover", NEW r \in Procs
               PROVE  Held(job[q].lock) /\ job'[r].op # job[q].lock.op
    OBVIOUS
  <2>1. Held(job[q].lock) /\ job[r].op # job[q].lock.op
    BY <1>1 DEF Admitted
  <2>2. job[q].lock.op \in Sessions /\ job[q].lock.op <= runs
    BY <2>1, <1>7
  <2>3. job[q].lock.op # 0 /\ job[q].lock.op # runs + 1
    BY <2>2, <1>3, CommitsTyped DEF Sessions
  <2> QED
    BY <2>1, <2>3
<1> HIDE DEF Suits, Held, Live, Contains
<1> QED
  BY <1>1, <1>4, <1>5, <1>6, <1>7, <1>8, <1>9, <1>10 DEF Admitted, Held, Live, Suits

LEMMA BaseStep ==
  ASSUME BaseInv, TypeOK', NEW p \in Procs, Only(p), Admitted(p)',
         runs <= runs', dead' = dead, worktree' # "none",
         Contains(main', main), Contains(main', tracked'), Contains(tracked', base'), main'.own <= head'.own,
         job'[p].op \in {0, job[p].op} \/ (job'[p].op = runs + 1 /\ runs' = runs + 1),
         Held(record') => record'.session <= runs', Held(lock') => lock'.op <= runs'
  PROVE  BaseInv'
<1>1. TypeOK /\ Numbered /\ \A q \in Procs : Admitted(q)
  BY DEF BaseInv
<1>2. /\ runs \in Int /\ runs' \in Int
      /\ \A q \in Procs : job[q].op \in Sessions \cup {0} /\ job[q].op \in Int /\ job[q].op <= runs
  <2>1. \A q \in Procs : job[q].op \in Sessions \cup {0} /\ job[q].op <= runs
    BY <1>1, JobTyped DEF Admitted
  <2> QED
    BY <2>1, <1>1 DEF TypeOK, Sessions
<1>3. \A q \in Procs \ {p} : Admitted(q)'
  <2> SUFFICES ASSUME NEW q \in Procs \ {p} PROVE Admitted(q)'
    OBVIOUS
  <2>1. job'[q] = job[q] /\ \A r \in Procs : job'[r].op \in {0, job[r].op} \/ job'[r].op = runs + 1
    BY DEF Only
  <2> QED
    BY <2>1, AdmittedKept
<1>4. \A q, r \in Procs : q # r /\ job'[q].op = job'[r].op => job'[q].op = 0
  <2>1. \A q \in Procs \ {p} : job'[q].op = job[q].op
    BY DEF Only
  <2>2. \A q, r \in Procs : q # r /\ job[q].op = job[r].op => job[q].op = 0
    BY <1>1 DEF Numbered
  <2>3. \A q \in Procs \ {p} : job'[q].op = job'[p].op => job'[p].op = 0
    BY <1>2, <2>1, <2>2
  <2> QED
    BY <2>1, <2>2, <2>3
<1>5. \A s \in dead : s \in Int /\ s <= runs
  BY <1>1 DEF Numbered, TypeOK, Sessions
<1>6. Numbered'
  BY <1>2, <1>4, <1>5 DEF Numbered, Held
<1>7. Line'
  BY DEF Line
<1> QED
  BY <1>3, <1>6, <1>7 DEF BaseInv

\* An invocation that goes on, or ends, stays admitted.
LEMMA GoesOnAdmitted ==
  ASSUME BaseInv, NEW p \in Procs, Only(p), GoesOn(p),
         Suits(job'[p].cmd, job'[p].at), job'[p].record = job[p].record,
         runs' = runs, dead' = dead, Contains(main', main), TypeOK'
  PROVE  Admitted(p)' /\ job'[p].op = job[p].op
<1>1. TypeOK /\ Admitted(p)
  BY DEF BaseInv
<1>2. job[p].head \in Commits /\ main \in Commits /\ main' \in Commits
  BY <1>1, JobTyped DEF TypeOK
<1>3. Contains(main, job[p].head) => Contains(main', job[p].head)
  BY <1>2, CommitsTyped
<1>4. \A q \in Procs : job'[q].op = job[q].op
  BY DEF Only, GoesOn
<1> QED
  BY <1>1, <1>3, <1>4 DEF Admitted, GoesOn, Live

LEMMA IdleAdmitted ==
  ASSUME BaseInv, NEW p \in Procs, job'[p] = Idle, runs' = runs
  PROVE  Admitted(p)' /\ job'[p].op = 0
<1>1. runs \in Nat
  BY DEF BaseInv, TypeOK
<1>2. ~Held(None)
  BY DEF Held
<1>3. /\ Idle.cmd = "none" /\ Idle.at = "idle" /\ Idle.op = 0
      /\ Idle.record = None /\ Idle.lock = None
  BY DEF Idle
<1> QED
  BY <1>1, <1>2, <1>3 DEF Admitted, Suits, LockCommands

\* p goes to a place its command has, or ends.
Going(p) ==
    \/ \E place \in Places : Goto(p, place) /\ Suits(job[p].cmd, place)
    \/ End(p)

LEMMA GoingStep ==
  ASSUME BaseInv, NEW p \in Procs, ~At(p, "idle"), Going(p), runs' = runs, dead' = dead,
         worktree' \in {worktree, "gone"}, branch' \in BOOLEAN,
         head' \in Commits, main' \in Commits, tracked' \in Commits, base' = base,
         Contains(main', main), Contains(main', tracked'), Contains(tracked', base), main'.own <= head'.own,
         record' \in Record \cup {None}, Held(record') => record'.session <= runs,
         lock' \in Lock \cup {None}, Held(lock') => lock'.op <= runs,
         owners' \subseteq Sessions, disturbed' \in BOOLEAN
  PROVE  BaseInv'
<1>1. TypeOK /\ Line
  BY DEF BaseInv
<1>2. \/ /\ Only(p) /\ GoesOn(p) /\ Suits(job'[p].cmd, job'[p].at)
         /\ job'[p].record = job[p].record
      \/ Only(p) /\ job'[p] = Idle
  <2>1. CASE End(p)
    BY <1>1, <2>1, EndMoves
  <2>2. CASE \E place \in Places : Goto(p, place) /\ Suits(job[p].cmd, place)
    <3>1. PICK place \in Places : Goto(p, place) /\ Suits(job[p].cmd, place)
      BY <2>2
    <3> QED
      BY <1>1, <3>1, GotoMoves DEF GoesOn
  <2> QED
    BY <2>1, <2>2 DEF Going
<1>3. TypeOK'
  <2>1. job' \in [Procs -> Jobs]
    BY <1>2 DEF Only
  <2>2. /\ worktree' \in {"none", "present", "gone"} /\ runs' \in 0..MaxRuns /\ dead' \subseteq Sessions
        /\ base' \in Commits
    BY <1>1 DEF TypeOK
  <2> QED
    BY <2>1, <2>2 DEF TypeOK
<1>4. worktree' # "none"
  BY <1>1 DEF Line
<1>5. Admitted(p)' /\ job'[p].op \in {0, job[p].op}
  <2>1. Admitted(p)' /\ (job'[p].op = 0 \/ job'[p].op = job[p].op)
    BY <1>2, <1>3, GoesOnAdmitted, IdleAdmitted
  <2> QED
    BY <2>1
<1>6. runs <= runs' /\ Only(p)
  BY <1>1, <1>2 DEF TypeOK
<1> QED
  BY <1>3, <1>4, <1>5, <1>6, BaseStep

\* What the state says of itself, for the parts a step leaves alone.
LEMMA Unmoved ==
  ASSUME BaseInv
  PROVE  /\ worktree \in {worktree, "gone"} /\ branch \in BOOLEAN
         /\ head \in Commits /\ main \in Commits /\ tracked \in Commits /\ base \in Commits
         /\ Contains(main, main) /\ Contains(main, tracked) /\ Contains(tracked, base) /\ Contains(main, base) /\ main.own <= head.own
         /\ record \in Record \cup {None} /\ (Held(record) => record.session <= runs)
         /\ lock \in Lock \cup {None} /\ (Held(lock) => lock.op <= runs)
         /\ owners \subseteq Sessions /\ disturbed \in BOOLEAN
         /\ Held(None) = FALSE
BY CommitsTyped DEF BaseInv, TypeOK, Line, Numbered, Held

LEMMA SilentStep ==
  ASSUME BaseInv, NEW p \in Procs, ~At(p, "idle"), Going(p),
         UNCHANGED <<git, record, lock, others>>
  PROVE  BaseInv'
<1>1. /\ worktree' = worktree /\ branch' = branch /\ head' = head /\ main' = main
      /\ base' = base /\ tracked' = tracked /\ record' = record /\ lock' = lock /\ runs' = runs
      /\ dead' = dead /\ owners' = owners /\ disturbed' = disturbed
  BY DEF git, others
<1> QED
  BY <1>1, Unmoved, GoingStep

SilentSteps(p) == \/ VerifyStart(p) \/ RollbackCheck(p) \/ Recheck(p) \/ Fail(p) \/ Compare(p)
                  \/ MatchRecord(p) \/ Confirm(p) \/ Die(p)

LEMMA SilentGo ==
  ASSUME BaseInv, NEW p \in Procs, SilentSteps(p)
  PROVE  ~At(p, "idle") /\ Going(p) /\ UNCHANGED <<git, record, lock, others>>
<1>1. Suits(job[p].cmd, job[p].at)
  BY DEF BaseInv, Admitted
<1>2. CASE VerifyStart(p)
  BY <1>1, <1>2 DEF VerifyStart, Going, Suits, Places, At
<1>3. CASE RollbackCheck(p)
  BY <1>1, <1>3 DEF RollbackCheck, Going, Suits, Places, At
<1>4. CASE Recheck(p)
  <2>1. job[p].cmd \in LockCommands
    BY <1>1, <1>4 DEF Recheck, Suits, At
  <2>2. AfterRecheck(p) \in Places /\ Suits(job[p].cmd, AfterRecheck(p))
    BY <2>1 DEF AfterRecheck, Suits, Places, LockCommands
  <2> QED
    BY <1>4, <2>2 DEF Recheck, Going, At
<1>5. CASE Fail(p)
  BY <1>1, <1>5 DEF Fail, Going, Suits, Places, At, LockCommands
<1>6. CASE Compare(p)
  <2> DEFINE place == IF head # job[p].head THEN "unlock"
                      ELSE IF tracked = head THEN "publish"
                      ELSE IF Contains(head, tracked) THEN "push" ELSE "unlock"
  <2>1. job[p].cmd = "integrate"
    BY <1>1, <1>6 DEF Compare, Suits, At
  <2>2. place \in Places /\ Suits(job[p].cmd, place)
    BY <2>1 DEF Suits, Places, LockCommands
  <2> QED
    BY <1>6, <2>2 DEF Compare, Going, At
<1>7. CASE MatchRecord(p)
  BY <1>1, <1>7 DEF MatchRecord, Going, Suits, Places, At
<1>8. CASE Confirm(p)
  BY <1>1, <1>8 DEF Confirm, Going, Suits, Places, At
<1>9. CASE Die(p)
  BY <1>9 DEF Die, Going
<1> QED
  BY <1>2, <1>3, <1>4, <1>5, <1>6, <1>7, <1>8, <1>9 DEF SilentSteps

\* What a command with the lock writes.
LEMMA LockTyped ==
  ASSUME BaseInv, NEW p \in Procs, At(p, "looked")
  PROVE  [op |-> job[p].op, session |-> Session(p), cmd |-> job[p].cmd] \in Lock
<1>1. /\ job[p].op \in Sessions \cup {0} /\ job[p].record \in Record \cup {None}
      /\ job[p].cmd \in LockCommands /\ (job[p].op = 0 <=> job[p].cmd \in {"none", "recover"})
      /\ job[p].cmd # "claim" => Held(job[p].record)
  BY JobTyped DEF BaseInv, Admitted, Suits, At
<1>2. job[p].op \in Sessions /\ job[p].cmd \in Commands
  BY <1>1 DEF LockCommands, Commands
<1>3. Session(p) \in Sessions
  BY <1>1, <1>2 DEF Session, Held, Record
<1> QED
  BY <1>2, <1>3 DEF Lock

LEMMA ClaimedTyped ==
  ASSUME BaseInv, NEW p \in Procs, job[p].cmd = "claim", NEW r \in Claimed(p)
  PROVE  r \in Record /\ r.session = job[p].op /\ r.owned /\ ~r.integrated /\ r.session <= runs
<1>1. job[p].op \in Sessions /\ job[p].op <= runs
  BY JobTyped DEF BaseInv, Admitted
<1> QED
  BY <1>1 DEF Claimed, Record

LEMMA PublishedTyped ==
  ASSUME BaseInv, NEW p \in Procs, At(p, "publish"), NEW r \in Published(p)
  PROVE  /\ r \in Record /\ r.session <= runs
         /\ job[p].cmd = "claim" => r.session = job[p].op /\ r.owned /\ ~r.integrated
         /\ job[p].cmd # "claim" => /\ Held(job[p].record) /\ job[p].record \in Record
                                    /\ r.session = job[p].record.session
         /\ job[p].cmd = "release" => ~r.owned
         /\ job[p].cmd \in {"integrate", "retarget"} => r.owned = job[p].record.owned
         /\ job[p].cmd \in {"release", "retarget"} => r.integrated = job[p].record.integrated
<1>1. job[p].cmd \in {"claim", "release", "retarget", "integrate"}
  BY DEF BaseInv, Admitted, Suits, At
<1>2. CASE job[p].cmd = "claim"
  BY <1>2, ClaimedTyped DEF Published
<1>3. CASE job[p].cmd # "claim"
  <2>1. Held(job[p].record) /\ job[p].record \in Record /\ job[p].record.session <= runs
    BY <1>1, <1>3, JobTyped DEF BaseInv, Admitted, Held, LockCommands
  <2>2. CASE job[p].cmd = "release"
    BY <2>1, <2>2 DEF Published, Record
  <2>3. CASE job[p].cmd = "integrate"
    BY <2>1, <2>3 DEF Published, Record
  <2>4. CASE job[p].cmd = "retarget"
    <3>1. PICK t \in Tasks : r = [job[p].record EXCEPT !.task = t]
      BY <2>4 DEF Published
    <3> QED
      BY <2>1, <2>4, <3>1 DEF Record
  <2> QED
    BY <1>1, <1>3, <2>2, <2>3, <2>4
<1> QED
  BY <1>2, <1>3

\* The steps that write, and where they lead.
LEMMA WriteGo ==
  ASSUME BaseInv, NEW p \in Procs
  PROVE  /\ RollbackRemove(p) \/ RollbackBranch(p) \/ Acquire(p) \/ Unlock(p) \/ Create(p)
              \/ Publish(p) \/ Fetch(p) \/ Merge(p) \/ Push(p) \/ Verify(p)
              \/ RemoveWorktree(p) \/ DropBranch(p) \/ Unlink(p)
            => ~At(p, "idle") /\ Going(p) /\ runs' = runs /\ dead' = dead
<1>1. Suits(job[p].cmd, job[p].at)
  BY DEF BaseInv, Admitted
<1>2. RollbackRemove(p) => ~At(p, "idle") /\ Going(p) /\ runs' = runs /\ dead' = dead
  BY <1>1 DEF RollbackRemove, Going, Suits, Places, At
<1>3. RollbackBranch(p) => ~At(p, "idle") /\ Going(p) /\ runs' = runs /\ dead' = dead
  BY DEF RollbackBranch, Going, At, others
<1>4. Acquire(p) => ~At(p, "idle") /\ Going(p) /\ runs' = runs /\ dead' = dead
  BY <1>1 DEF Acquire, Going, Suits, Places, At, others, LockCommands
<1>5. Unlock(p) => ~At(p, "idle") /\ Going(p) /\ runs' = runs /\ dead' = dead
  BY DEF Unlock, Going, At, others
<1>6. Create(p) => ~At(p, "idle") /\ Going(p) /\ runs' = runs /\ dead' = dead
  BY <1>1 DEF Create, Going, Suits, Places, At, others, LockCommands
<1>7. Publish(p) => ~At(p, "idle") /\ Going(p) /\ runs' = runs /\ dead' = dead
  BY <1>1 DEF Publish, Going, Suits, Places, At, others, LockCommands
<1>8. Fetch(p) => ~At(p, "idle") /\ Going(p) /\ runs' = runs /\ dead' = dead
  <2> SUFFICES ASSUME Fetch(p) PROVE ~At(p, "idle") /\ Going(p) /\ runs' = runs /\ dead' = dead
    OBVIOUS
  <2>1. CASE job[p].cmd = "integrate"
    BY <2>1, <1>1 DEF Fetch, Going, Suits, Places, At, others
  <2>2. CASE job[p].cmd # "integrate"
    <3>1. job[p].cmd = "reconcile" /\ Goto(p, "merge")
      BY <2>2, <1>1 DEF Fetch, Suits, At
    <3> QED
      BY <3>1 DEF Fetch, Going, Suits, Places, At, others
  <2> QED
    BY <2>1, <2>2
<1>9. Merge(p) => ~At(p, "idle") /\ Going(p) /\ runs' = runs /\ dead' = dead
  BY <1>1 DEF Merge, Going, Suits, Places, At, others, LockCommands
<1>10. Push(p) => ~At(p, "idle") /\ Going(p) /\ runs' = runs /\ dead' = dead
  <2> SUFFICES ASSUME Push(p) PROVE ~At(p, "idle") /\ Going(p) /\ runs' = runs /\ dead' = dead
    OBVIOUS
  <2>1. job[p].cmd = "integrate"
    BY <1>1 DEF Push, Suits, At
  <2>2. Suits(job[p].cmd, "verify") /\ Suits(job[p].cmd, "unlock") /\ "verify" \in Places /\ "unlock" \in Places
    BY <2>1 DEF Suits, LockCommands, Places
  <2>3. Going(p)
    BY <2>2 DEF Push, Going
  <2> QED
    BY <2>3 DEF Push, At, others
<1>11. Verify(p) => ~At(p, "idle") /\ Going(p) /\ runs' = runs /\ dead' = dead
  <2> SUFFICES ASSUME Verify(p) PROVE ~At(p, "idle") /\ Going(p) /\ runs' = runs /\ dead' = dead
    OBVIOUS
  <2>1. job[p].cmd = "integrate"
    BY <1>1 DEF Verify, Suits, At
  <2>2. Suits(job[p].cmd, "publish") /\ Suits(job[p].cmd, "unlock") /\ "publish" \in Places /\ "unlock" \in Places
    BY <2>1 DEF Suits, LockCommands, Places
  <2>3. Goto(p, "publish") \/ Goto(p, "unlock")
    BY DEF Verify
  <2>4. Going(p)
    BY <2>2, <2>3 DEF Going
  <2> QED
    BY <2>4 DEF Verify, At, others
<1>12. RemoveWorktree(p) => ~At(p, "idle") /\ Going(p) /\ runs' = runs /\ dead' = dead
  BY <1>1 DEF RemoveWorktree, Going, Suits, Places, At, others
<1>13. DropBranch(p) => ~At(p, "idle") /\ Going(p) /\ runs' = runs /\ dead' = dead
  BY <1>1 DEF DropBranch, Going, Suits, Places, At, others, LockCommands
<1>14. Unlink(p) => ~At(p, "idle") /\ Going(p) /\ runs' = runs /\ dead' = dead
  BY DEF Unlink, Going, At
<1> QED
  BY <1>2, <1>3, <1>4, <1>5, <1>6, <1>7, <1>8, <1>9, <1>10, <1>11, <1>12, <1>13, <1>14

LEMMA BaseStart ==
  ASSUME BaseInv, NEW p \in Procs,
         WriteRecord(p) \/ RollbackRemove(p) \/ RollbackBranch(p)
  PROVE  BaseInv'
<1>1. TypeOK /\ Line /\ Admitted(p)
  BY DEF BaseInv
<1> USE Unmoved
<1>2. CASE RollbackRemove(p)
  <2>1. /\ worktree' \in {worktree, "gone"} /\ branch' = branch /\ head' = head /\ main' = main
        /\ base' = base /\ tracked' = tracked /\ record' \in {record, None} /\ lock' \in {lock, None}
        /\ owners' = owners /\ disturbed' \in BOOLEAN
    BY <1>2 DEF RollbackRemove
  <2> QED
    BY <1>2, <2>1, WriteGo, GoingStep
<1>3. CASE RollbackBranch(p)
  <2>1. /\ worktree' = worktree /\ branch' \in BOOLEAN /\ head' = head /\ main' = main
        /\ base' = base /\ tracked' = tracked /\ record' = record /\ lock' = lock
        /\ owners' = owners /\ disturbed' = disturbed
    BY <1>3 DEF RollbackBranch, others
  <2> QED
    BY <1>3, <2>1, WriteGo, GoingStep
<1>4. CASE WriteRecord(p) /\ Goto(p, "rollback") /\ UNCHANGED record
  <2>1. Going(p) /\ ~At(p, "idle")
    <3>1. job[p].cmd = "start" /\ At(p, "added")
      BY <1>1, <1>4 DEF Admitted, Suits, WriteRecord, At
    <3>2. Suits(job[p].cmd, "rollback") /\ "rollback" \in Places
      BY <3>1 DEF Suits, Places
    <3> QED
      BY <1>4, <3>1, <3>2 DEF Going, At
  <2> QED
    BY <1>4, <2>1, SilentStep DEF WriteRecord
<1>5. CASE /\ WriteRecord(p) /\ record = None
           /\ \E t \in Tasks : record' = [session |-> job[p].op, owned |-> FALSE,
                                          integrated |-> FALSE, task |-> t]
           /\ job' = [job EXCEPT ![p].at = "recorded", ![p].record = record']
  <2>0. PICK t \in Tasks : record' = [session |-> job[p].op, owned |-> FALSE,
                                      integrated |-> FALSE, task |-> t]
    BY <1>5
  <2> DEFINE new == [session |-> job[p].op, owned |-> FALSE, integrated |-> FALSE, task |-> t]
  <2>1. job[p].cmd = "start" /\ job[p].op \in Sessions /\ job[p].op <= runs /\ ~At(p, "idle")
    BY <1>1, <1>5, JobTyped DEF Admitted, Suits, WriteRecord, At
  <2>2. new \in Record /\ new.session <= runs /\ ~new.owned
    BY <2>1 DEF Record
  <2>3. Held(new)
    BY <2>2, OwnershipAssumption DEF Held
  <2>4. job \in [Procs -> Jobs] /\ job[p] \in Jobs
    BY <1>1, JobTyped DEF TypeOK
  <2>5. [job[p] EXCEPT !.at = "recorded", !.record = new] \in Jobs
    BY <2>2, <2>4 DEF Jobs, Places
  <2>6. job' = [job EXCEPT ![p] = [job[p] EXCEPT !.at = "recorded", !.record = new]]
    BY <1>5, <2>0, <2>4
  <2>7. Only(p) /\ job'[p] = [job[p] EXCEPT !.at = "recorded", !.record = new]
    BY <2>4, <2>5, <2>6 DEF Only
  <2>8. /\ job'[p].cmd = job[p].cmd /\ job'[p].op = job[p].op /\ job'[p].lock = job[p].lock
        /\ job'[p].head = job[p].head /\ job'[p].at = "recorded" /\ job'[p].record = new
    BY <2>4, <2>7 DEF Jobs
  <2>9. UNCHANGED <<git, lock, others>> /\ record' = new
    BY <1>5, <2>0 DEF WriteRecord
  <2> HIDE DEF new
  <2>10. TypeOK'
    BY <1>1, <2>2, <2>7, <2>9 DEF TypeOK, git, others, Only
  <2>11. Admitted(p)'
    <3>1. Contains(main, job[p].head) /\ runs' = runs /\ main' = main /\ (job[p].op # 0)
      BY <1>1, <2>1, <2>9 DEF Admitted, git, others
    <3>2. Held(job[p].lock) => job[p].lock.op <= runs
      BY <1>1 DEF Admitted
    <3> QED
      BY <2>1, <2>2, <2>8, <3>1, <3>2 DEF Admitted, Suits, LockCommands, Held
  <2>12. /\ runs <= runs' /\ dead' = dead /\ worktree' # "none" /\ head' = head /\ main' = main
         /\ base' = base /\ tracked' = tracked /\ lock' = lock /\ runs' = runs
    BY <1>1, <2>1, <2>9 DEF git, others, Line, TypeOK
  <2>13. /\ Contains(main', main) /\ Contains(main', tracked') /\ Contains(tracked', base') /\ main'.own <= head'.own
         /\ (Held(lock') => lock'.op <= runs')
    BY <2>12
  <2>14. Held(record') => record'.session <= runs'
    BY <2>2, <2>9, <2>12
  <2>15. job'[p].op \in {0, job[p].op}
    BY <2>8
  <2> QED
    BY <2>7, <2>10, <2>11, <2>12, <2>13, <2>14, <2>15, BaseStep
<1> QED
  BY <1>2, <1>3, <1>4, <1>5 DEF WriteRecord

LEMMA BaseLocked ==
  ASSUME BaseInv, NEW p \in Procs,
         \/ Acquire(p) \/ Unlock(p) \/ Create(p) \/ Publish(p) \/ RemoveWorktree(p)
         \/ DropBranch(p) \/ Unlink(p)
  PROVE  BaseInv'
<1>1. TypeOK /\ Line /\ Admitted(p)
  BY DEF BaseInv
<1> USE Unmoved
<1>2. CASE Acquire(p)
  <2>1. /\ worktree' = worktree /\ branch' = branch /\ head' = head /\ main' = main
        /\ base' = base /\ tracked' = tracked /\ record' = record /\ owners' = owners /\ disturbed' = disturbed
    BY <1>2 DEF Acquire, git, others
  <2>2. lock' \in Lock \cup {None} /\ (Held(lock') => lock'.op <= runs)
    <3> DEFINE new == [op |-> job[p].op, session |-> Session(p), cmd |-> job[p].cmd]
    <3>1. new \in Lock /\ new.op <= runs
      BY <1>1, <1>2, LockTyped DEF Acquire, Admitted
    <3>2. lock' = lock \/ lock' = new
      BY <1>2 DEF Acquire
    <3> HIDE DEF new
    <3> QED
      BY <3>1, <3>2
  <2> QED
    BY <1>2, <2>1, <2>2, WriteGo, GoingStep
<1>3. CASE Unlock(p)
  <2>1. /\ worktree' = worktree /\ branch' = branch /\ head' = head /\ main' = main
        /\ base' = base /\ tracked' = tracked /\ record' = record /\ owners' = owners /\ disturbed' = disturbed
        /\ lock' \in {lock, None}
    BY <1>3 DEF Unlock, git, others
  <2> QED
    BY <1>3, <2>1, WriteGo, GoingStep
<1>4. CASE Create(p)
  <2>1. /\ worktree' = worktree /\ branch' = branch /\ head' = head /\ main' = main
        /\ base' = base /\ tracked' = tracked /\ lock' = lock /\ disturbed' = disturbed
    BY <1>4 DEF Create, git
  <2>2. job[p].cmd = "claim" /\ job[p].op \in Sessions
    BY <1>1, <1>4, JobTyped DEF Create, Admitted, Suits, At
  <2>3. record' = record \/ record' \in Claimed(p)
    BY <1>4 DEF Create
  <2>4. record' \in Record \cup {None} /\ (Held(record') => record'.session <= runs)
    BY <2>2, <2>3, ClaimedTyped
  <2>5. owners' \subseteq Sessions
    BY <1>4, <2>2 DEF Create
  <2> QED
    BY <1>4, <2>1, <2>4, <2>5, WriteGo, GoingStep
<1>5. CASE Publish(p)
  <2>1. /\ worktree' = worktree /\ branch' = branch /\ head' = head /\ main' = main
        /\ base' = base /\ tracked' = tracked /\ lock' = lock /\ disturbed' = disturbed
    BY <1>5 DEF Publish, git
  <2>2. At(p, "publish") /\ record' \in Published(p)
    BY <1>5 DEF Publish
  <2>3. record' \in Record /\ record'.session <= runs
    BY <2>2, PublishedTyped
  <2>4. owners' \subseteq Sessions
    <3>1. job[p].op \in Sessions \/ job[p].cmd # "claim"
      BY <1>1, JobTyped DEF Admitted
    <3> QED
      BY <1>5, <3>1 DEF Publish
  <2> QED
    BY <1>5, <2>1, <2>3, <2>4, WriteGo, GoingStep
<1>6. CASE RemoveWorktree(p)
  <2>1. /\ worktree' \in {worktree, "gone"} /\ branch' = branch /\ head' = head /\ main' = main
        /\ base' = base /\ tracked' = tracked /\ record' = None /\ lock' = None
        /\ owners' = owners /\ disturbed' = disturbed
    BY <1>6 DEF RemoveWorktree, others
  <2> QED
    BY <1>6, <2>1, WriteGo, GoingStep
<1>7. CASE DropBranch(p)
  <2>1. /\ worktree' = worktree /\ branch' \in BOOLEAN /\ head' = head /\ main' = main
        /\ base' = base /\ tracked' = tracked /\ record' = record /\ lock' = lock
        /\ owners' = owners /\ disturbed' = disturbed
    BY <1>1, <1>7 DEF DropBranch, others
  <2> QED
    BY <1>7, <2>1, WriteGo, GoingStep
<1>8. CASE Unlink(p)
  <2>1. /\ worktree' = worktree /\ branch' = branch /\ head' = head /\ main' = main
        /\ base' = base /\ tracked' = tracked /\ record' = record /\ lock' = None
        /\ owners' = owners /\ disturbed' \in BOOLEAN
    BY <1>8 DEF Unlink, git
  <2> QED
    BY <1>8, <2>1, WriteGo, GoingStep
<1> QED
  BY <1>2, <1>3, <1>4, <1>5, <1>6, <1>7, <1>8

LEMMA BaseGit ==
  ASSUME BaseInv, NEW p \in Procs, Fetch(p) \/ Merge(p) \/ Push(p) \/ Verify(p)
  PROVE  BaseInv'
<1>1. TypeOK /\ Line
  BY DEF BaseInv
<1> USE Unmoved
<1>2. CASE Fetch(p)
  <2>1. /\ worktree' = worktree /\ branch' = branch /\ head' = head /\ main' = main
        /\ base' = base /\ tracked' \in {main, tracked} /\ record' = record /\ lock' = lock
        /\ owners' = owners /\ disturbed' = disturbed
    BY <1>2 DEF Fetch, others
  <2> QED
    BY <1>2, <2>1, WriteGo, GoingStep
<1>3. CASE Merge(p)
  <2>1. /\ worktree' = worktree /\ branch' = branch /\ main' = main
        /\ base' = base /\ tracked' = tracked /\ record' = record /\ lock' = lock
        /\ owners' = owners /\ disturbed' = disturbed
    BY <1>3 DEF Merge, others
  <2>2. head' \in Commits /\ main.own <= head'.own
    <3>1. /\ head.own \in 0..MaxOwn /\ main.own \in 0..MaxOwn
          /\ tracked.foreign \in 0..MaxForeign /\ main.own <= head.own
      BY <1>1 DEF TypeOK, Line, Commits
    <3>2. head' = head \/ (head.own < MaxOwn /\ head' = [own |-> head.own + 1, foreign |-> tracked.foreign])
      BY <1>3 DEF Merge
    <3>3. CASE head' = head
      BY <3>3
    <3>4. CASE head.own < MaxOwn /\ head' = [own |-> head.own + 1, foreign |-> tracked.foreign]
      <4>1. head.own + 1 \in 0..MaxOwn /\ main.own <= head.own + 1
        BY <3>1, <3>4, OwnershipAssumption
      <4> QED
        BY <3>1, <3>4, <4>1 DEF Commits
    <3> QED
      BY <3>2, <3>3, <3>4
  <2> QED
    BY <1>3, <2>1, <2>2, WriteGo, GoingStep
<1>4. CASE Push(p)
  <2>1. /\ worktree' = worktree /\ branch' = branch /\ head' = head /\ main' = head
        /\ base' = base /\ tracked' \in {head, tracked} /\ record' = record /\ lock' = lock
        /\ owners' = owners /\ disturbed' = disturbed /\ Contains(head, main)
    BY <1>4 DEF Push, others
  <2>2. /\ Contains(head, head) /\ Contains(head, tracked) /\ Contains(head, base) /\ head.own <= head.own
    BY <1>1, <2>1, CommitsTyped DEF Line, TypeOK, Contains
  <2> QED
    BY <1>4, <2>1, <2>2, WriteGo, GoingStep
<1>5. CASE Verify(p)
  <2>1. /\ worktree' = worktree /\ branch' = branch /\ head' = head /\ main' = main
        /\ base' = base /\ tracked' = main /\ record' = record /\ lock' = lock
        /\ owners' = owners /\ disturbed' = disturbed
    BY <1>5 DEF Verify, others
  <2> QED
    BY <1>5, <2>1, WriteGo, GoingStep
<1> QED
  BY <1>2, <1>3, <1>4, <1>5

LEMMA BaseOutside ==
  ASSUME BaseInv, HolderDies \/ Work \/ UNCHANGED vars
  PROVE  BaseInv'
<1>1. TypeOK /\ Numbered /\ Line /\ \A q \in Procs : Admitted(q)
  BY DEF BaseInv
<1>2. runs \in Int /\ \A q \in Procs : job[q].op = job[q].op
  BY <1>1 DEF TypeOK
<1> USE Unmoved
<1>3. CASE HolderDies
  <2>1. UNCHANGED <<git, record, lock, runs, job, disturbed>>
    BY <1>3 DEF HolderDies
  <2>2. record \in Record /\ record.session \in Sessions /\ record.session <= runs
    BY <1>3 DEF HolderDies, Held, Record
  <2>3. dead' = dead \cup {record.session} /\ owners' \subseteq owners
    BY <1>3 DEF HolderDies
  <2>4. TypeOK'
    BY <1>1, <2>1, <2>2, <2>3 DEF TypeOK, git
  <2>5. Numbered'
    BY <1>1, <2>1, <2>2, <2>3 DEF Numbered
  <2>6. Line'
    BY <1>1, <2>1 DEF Line, git, At
  <2>7. \A q \in Procs : Admitted(q)'
    BY <1>2, <2>1, <2>3, <2>4, AdmittedKept DEF git
  <2> QED
    BY <2>4, <2>5, <2>6, <2>7 DEF BaseInv
<1>4. CASE Work
  <2>1. UNCHANGED <<worktree, branch, record, lock, runs, dead, owners, disturbed, job>>
    BY <1>4 DEF Work, others
  <2>2. /\ head.own \in 0..MaxOwn /\ main.own \in 0..MaxOwn /\ head.foreign \in 0..MaxForeign
        /\ main.foreign \in 0..MaxForeign /\ tracked.own \in 0..MaxOwn /\ tracked.foreign \in 0..MaxForeign
    BY <1>1 DEF TypeOK, Commits
  <2>3. /\ head' \in Commits /\ main' \in Commits /\ tracked' \in Commits /\ base' \in Commits
        /\ Contains(main', main) /\ Contains(main', tracked') /\ Contains(tracked', base')
        /\ main'.own <= head'.own /\ main'.own = main.own
    <3>1. CASE /\ worktree = "present" /\ head.own < MaxOwn
               /\ head' = [head EXCEPT !.own = @ + 1] /\ UNCHANGED <<main, tracked, base>>
      <4>1. head.own + 1 \in 0..MaxOwn /\ main.own <= head.own + 1
        BY <1>1, <2>2, <3>1, OwnershipAssumption DEF Line
      <4>2. head' \in Commits /\ head'.own = head.own + 1
        BY <4>1, <3>1 DEF Commits
      <4> QED
        BY <3>1, <4>1, <4>2
    <3>2. CASE /\ main.foreign < MaxForeign
               /\ main' = [main EXCEPT !.foreign = @ + 1] /\ UNCHANGED <<head, tracked, base>>
      <4>1. main.foreign + 1 \in 0..MaxForeign
        BY <2>2, <3>2, OwnershipAssumption
      <4>2. main' \in Commits /\ main'.own = main.own /\ main'.foreign = main.foreign + 1
        BY <4>1, <3>2 DEF Commits
      <4>3. Contains(main', main) /\ Contains(main', tracked)
        BY <2>2, <4>2, <1>1, OwnershipAssumption DEF Contains, Line
      <4> QED
        BY <3>2, <4>2, <4>3
    <3>3. CASE tracked' = main /\ UNCHANGED <<head, main, base>>
      BY <3>3
    <3>4. CASE base' = tracked /\ UNCHANGED <<head, main, tracked>>
      BY <1>1, <3>4, CommitsTyped DEF TypeOK
    <3> QED
      BY <1>4, <3>1, <3>2, <3>3, <3>4 DEF Work
  <2>4. TypeOK'
    BY <1>1, <2>1, <2>3 DEF TypeOK
  <2>5. Numbered'
    BY <1>1, <2>1 DEF Numbered
  <2>6. Line'
    BY <1>1, <2>1, <2>3 DEF Line, At
  <2>7. \A q \in Procs : Admitted(q)'
    BY <1>2, <2>1, <2>3, <2>4, AdmittedKept
  <2> QED
    BY <2>4, <2>5, <2>6, <2>7 DEF BaseInv
<1>5. CASE UNCHANGED vars
  <2>1. UNCHANGED <<worktree, branch, head, main, tracked, base, record, lock, runs, dead, owners, disturbed, job>>
    BY <1>5 DEF vars, git, others
  <2>2. TypeOK'
    BY <1>1, <2>1 DEF TypeOK
  <2>3. Numbered'
    BY <1>1, <2>1 DEF Numbered
  <2>4. Line'
    BY <1>1, <2>1 DEF Line, At
  <2>5. \A q \in Procs : Admitted(q)'
    BY <1>2, <2>1, <2>2, AdmittedKept
  <2> QED
    BY <2>2, <2>3, <2>4, <2>5 DEF BaseInv
<1> QED
  BY <1>3, <1>4, <1>5

\* What an invocation knows when it begins.
LEMMA BeginMoves ==
  ASSUME BaseInv, NEW p \in Procs, NEW cmd \in LockCommands \cup {"start"},
         NEW place \in {"looked", "added"}, NEW commit \in Commits, Begin(p, cmd, place, commit)
  PROVE  /\ Only(p) /\ job'[p].cmd = cmd /\ job'[p].at = place /\ job'[p].op = runs + 1
         /\ job'[p].record = record /\ job'[p].lock = None /\ job'[p].head = commit
         /\ runs' = runs + 1 /\ runs' \in 0..MaxRuns /\ dead' = dead /\ owners' = owners
         /\ disturbed' = disturbed
<1>1. TypeOK
  BY DEF BaseInv
<1> DEFINE new == [cmd |-> cmd, at |-> place, op |-> runs + 1, record |-> record, lock |-> None,
                   head |-> commit, merged |-> Contains(tracked, head)]
<1>2. runs + 1 \in Sessions /\ runs + 1 \in 0..MaxRuns
  BY <1>1, OwnershipAssumption DEF Begin, TypeOK, Sessions
<1>3. new \in Jobs
  <2>1. Contains(tracked, head) \in BOOLEAN
    BY DEF Contains
  <2>2. record \in Record \cup {None} /\ cmd \in Commands /\ place \in Places
    BY <1>1 DEF TypeOK, LockCommands, Commands, Places
  <2> QED
    BY <2>1, <2>2, <1>2 DEF Jobs
<1>4. job' = [job EXCEPT ![p] = new] /\ job \in [Procs -> Jobs]
  BY <1>1 DEF Begin, TypeOK
<1>5. job'[p] = new /\ Only(p)
  BY <1>3, <1>4 DEF Only
<1> QED
  BY <1>2, <1>5 DEF Begin

LEMMA BaseBegin ==
  ASSUME BaseInv, NEW p \in Procs, NEW cmd \in LockCommands \cup {"start"},
         NEW place \in {"looked", "added"}, NEW commit \in Commits, Begin(p, cmd, place, commit),
         cmd = "start" <=> place = "added", worktree' \in {"present", "gone"}, branch' \in BOOLEAN,
         head' \in Commits, main' = main, tracked' = tracked, base' = base, main.own <= head'.own,
         record' = record, lock' = lock, cmd # "start" => UNCHANGED git,
         cmd \in {"claim", "remove"} /\ Held(record) => ~Live(record),
         cmd \in LockCommands \ {"claim"} => Held(record),
         cmd = "start" => record = None /\ Contains(main, commit)
  PROVE  BaseInv'
<1>1. TypeOK /\ Numbered /\ Line
  BY DEF BaseInv
<1>2. /\ Only(p) /\ job'[p].cmd = cmd /\ job'[p].at = place /\ job'[p].op = runs + 1
      /\ job'[p].record = record /\ job'[p].lock = None /\ job'[p].head = commit
      /\ runs' = runs + 1 /\ runs' \in 0..MaxRuns /\ dead' = dead /\ owners' = owners
      /\ disturbed' = disturbed
  BY BeginMoves
<1>3. TypeOK'
  BY <1>1, <1>2 DEF TypeOK, Only
<1>4. runs \in Int /\ runs <= runs' /\ runs + 1 # 0
  BY <1>1, <1>2 DEF TypeOK
<1>5. Admitted(p)'
  <2>1. Suits(cmd, place)
    BY DEF Suits, LockCommands
  <2>2. Held(record) => record.session <= runs'
    <3> SUFFICES ASSUME Held(record) PROVE record.session <= runs'
      OBVIOUS
    <3>1. record.session \in Int
      BY <1>1 DEF TypeOK, Held, Record, Sessions
    <3> QED
      BY <3>1, <1>1, <1>2, <1>4 DEF Numbered
  <2>3. cmd \in {"claim", "remove"} /\ Held(record) => ~Live(record)'
    BY <1>2 DEF Live
  <2>4. ~Held(None) /\ runs + 1 <= runs'
    BY <1>2, <1>4 DEF Held
  <2>5. cmd \notin {"none", "recover"}
    BY DEF LockCommands
  <2>6. cmd = "start" => ~Held(record)
    BY DEF Held
  <2> HIDE DEF Suits, Held
  <2> QED
    BY <1>2, <1>4, <2>1, <2>2, <2>3, <2>4, <2>5, <2>6 DEF Admitted, Live
<1>6. Held(record') => record'.session <= runs'
  <2> SUFFICES ASSUME Held(record) PROVE record.session <= runs'
    OBVIOUS
  <2>1. record.session \in Int
    BY <1>1 DEF TypeOK, Held, Record, Sessions
  <2> QED
    BY <2>1, <1>1, <1>2, <1>4 DEF Numbered
<1>7. Held(lock') => lock'.op <= runs'
  <2> SUFFICES ASSUME Held(lock) PROVE lock.op <= runs'
    OBVIOUS
  <2>1. lock.op \in Int
    BY <1>1 DEF TypeOK, Held, Lock, Sessions
  <2> QED
    BY <2>1, <1>1, <1>2, <1>4 DEF Numbered
<1>8. Contains(main', main) /\ Contains(main', tracked') /\ Contains(tracked', base') /\ main'.own <= head'.own /\ worktree' # "none"
  BY Unmoved
<1> QED
  BY <1>2, <1>3, <1>4, <1>5, <1>6, <1>7, <1>8, BaseStep

\* An admission and its command; the seventh adds the worktree.
LEMMA BaseLook ==
  ASSUME BaseInv, NEW p \in Procs,
         AddWorktree(p) \/ Claim(p) \/ Release(p) \/ Retarget(p) \/ Reconcile(p)
           \/ Integrate(p) \/ Remove(p)
  PROVE  BaseInv'
<1>1. TypeOK /\ Line
  BY DEF BaseInv
<1> USE Unmoved
<1>2. CASE AddWorktree(p)
  <2>1. /\ worktree = "none" /\ worktree' = "present" /\ branch' = TRUE /\ head' = tracked
        /\ Begin(p, "start", "added", tracked) /\ UNCHANGED <<main, tracked, base, record, lock>>
    BY <1>2 DEF AddWorktree
  <2>2. record = None /\ main.own = 0
    BY <1>1, <2>1 DEF Line
  <2>3. main.own <= tracked.own
    BY <1>1, <2>2, OwnershipAssumption DEF TypeOK, Commits
  <2> QED
    BY <2>1, <2>2, <2>3, BaseBegin DEF LockCommands
<1>3. ASSUME NEW cmd \in LockCommands, Look(p, cmd), worktree = "present",
             cmd \in {"claim", "remove"} /\ Held(record) => ~Live(record),
             cmd \in LockCommands \ {"claim"} => Held(record)
      PROVE  BaseInv'
  <2>1. /\ Begin(p, cmd, "looked", head) /\ UNCHANGED <<git, record, lock>>
        /\ cmd \in LockCommands \cup {"start"} /\ cmd # "start"
    BY <1>3 DEF Look, LockCommands
  <2>2. UNCHANGED <<worktree, branch, head, main, tracked, base>>
    BY <2>1 DEF git
  <2> QED
    BY <1>3, <2>1, <2>2, BaseBegin
<1>4. CASE Claim(p)
  BY <1>4, <1>3 DEF Claim, LockCommands
<1>5. CASE Release(p)
  BY <1>5, <1>3 DEF Release, LockCommands
<1>6. CASE Retarget(p)
  BY <1>6, <1>3 DEF Retarget, LockCommands
<1>7. CASE Reconcile(p)
  BY <1>7, <1>3 DEF Reconcile, LockCommands
<1>8. CASE Integrate(p)
  BY <1>8, <1>3 DEF Integrate, LockCommands
<1>9. CASE Remove(p)
  BY <1>9, <1>3 DEF Remove, LockCommands
<1> QED
  BY <1>2, <1>4, <1>5, <1>6, <1>7, <1>8, <1>9

LEMMA BaseLookLock ==
  ASSUME BaseInv, NEW p \in Procs, LookLock(p)
  PROVE  BaseInv'
<1>1. TypeOK /\ Numbered /\ Line /\ \A q \in Procs : Admitted(q)
  BY DEF BaseInv
<1> USE Unmoved
<1> DEFINE new == [Idle EXCEPT !.cmd = "recover", !.at = "stale", !.lock = lock]
<1>2. /\ new.cmd = "recover" /\ new.at = "stale" /\ new.op = 0 /\ new.record = None /\ new.lock = lock
      /\ new.head = Idle.head
  BY DEF Idle
<1>3. new \in Jobs
  <2>1. lock \in Lock \cup {None}
    OBVIOUS
  <2> QED
    BY <2>1, CommitsTyped DEF Idle, Jobs, Commands, Places
<1>4. job' = [job EXCEPT ![p] = new] /\ UNCHANGED <<git, record, lock, others>> /\ worktree = "present"
  BY <1>3 DEF LookLock
<1>5. Only(p) /\ job'[p] = new
  BY <1>1, <1>3, <1>4 DEF Only, TypeOK
<1>6. UNCHANGED <<worktree, branch, head, main, tracked, base, runs, dead, owners, disturbed>>
  BY <1>4 DEF git, others
<1>7. TypeOK'
  BY <1>1, <1>4, <1>5, <1>6 DEF TypeOK, Only
<1>8. Held(lock) /\ lock.op \in Sessions /\ lock.op # 0 /\ lock.op <= runs
  BY <1>1, CommitsTyped DEF LookLock, Held, Lock, Numbered
<1>9. \A q \in Procs : job'[q].op # lock.op
  <2> SUFFICES ASSUME NEW q \in Procs PROVE job'[q].op # lock.op
    OBVIOUS
  <2>1. CASE q = p
    BY <2>1, <1>2, <1>5, <1>8
  <2>2. CASE q # p
    <3>1. job'[q].op = job[q].op /\ Suits(job[q].cmd, job[q].at)
      BY <2>2, <1>1, <1>5 DEF Only, Admitted
    <3>2. ~(~At(q, "idle") /\ job[q].op = lock.op)
      BY DEF LookLock, Running
    <3>3. At(q, "idle") => job[q].op = 0
      BY <1>1 DEF Admitted, Suits, At
    <3> QED
      BY <3>1, <3>2, <3>3, <1>8
  <2> QED
    BY <2>1, <2>2
<1> HIDE DEF new
<1>10. Admitted(p)'
  <2>1. runs' = runs /\ runs \in Nat /\ lock' = lock
    BY <1>1, <1>4, <1>6 DEF TypeOK
  <2>2. /\ job'[p].cmd = "recover" /\ job'[p].at = "stale" /\ job'[p].op = 0
        /\ job'[p].record = None /\ job'[p].lock = lock
    BY <1>2, <1>5
  <2> QED
    BY <1>8, <1>9, <2>1, <2>2 DEF Admitted, Suits, Held, LockCommands
<1>11. /\ runs <= runs' /\ dead' = dead /\ worktree' # "none" /\ job'[p].op \in {0, job[p].op}
       /\ Contains(main', main) /\ Contains(main', tracked') /\ Contains(tracked', base') /\ main'.own <= head'.own
       /\ (Held(record') => record'.session <= runs') /\ (Held(lock') => lock'.op <= runs')
  BY <1>1, <1>2, <1>4, <1>5, <1>6 DEF TypeOK
<1> QED
  BY <1>5, <1>7, <1>10, <1>11, BaseStep

LEMMA BaseInit == Init => BaseInv
<1> SUFFICES ASSUME Init PROVE BaseInv
  OBVIOUS
<1>1. TypeOK
  <2>1. job \in [Procs -> Jobs]
    BY CommitsTyped DEF Init
  <2>2. 0 \in 0..MaxRuns
    BY OwnershipAssumption
  <2> QED
    BY <2>1, <2>2, CommitsTyped DEF Init, TypeOK
<1>2. \A p \in Procs : job[p] = Idle
  BY DEF Init
<1>3. Numbered
  BY <1>2 DEF Init, Numbered, Idle, Held
<1>4. Line
  <2>1. Idle.head.own = 0 /\ Idle.at = "idle"
    BY DEF Idle
  <2> QED
    BY <1>2, <2>1, CommitsTyped DEF Init, Line, At
<1>5. \A p \in Procs : Admitted(p)
  <2>1. /\ Idle.cmd = "none" /\ Idle.at = "idle" /\ Idle.op = 0 /\ Idle.record = None
        /\ Idle.lock = None /\ ~Held(None) /\ runs = 0
    BY DEF Idle, Held, Init
  <2> QED
    BY <1>2, <2>1 DEF Admitted, Suits, LockCommands
<1> QED
  BY <1>1, <1>3, <1>4, <1>5 DEF BaseInv

\* The invocation a step is of.
LEMMA BaseOf ==
  ASSUME BaseInv, NEW p \in Procs, Step(p)
  PROVE  BaseInv'
<1>1. CASE SilentSteps(p)
  BY <1>1, SilentGo, SilentStep
<1>2. CASE WriteRecord(p) \/ RollbackRemove(p) \/ RollbackBranch(p)
  BY <1>2, BaseStart
<1>3. CASE Acquire(p) \/ Unlock(p) \/ Create(p) \/ Publish(p) \/ RemoveWorktree(p)
             \/ DropBranch(p) \/ Unlink(p)
  BY <1>3, BaseLocked
<1>4. CASE Fetch(p) \/ Merge(p) \/ Push(p) \/ Verify(p)
  BY <1>4, BaseGit
<1>5. CASE AddWorktree(p) \/ Claim(p) \/ Release(p) \/ Retarget(p) \/ Reconcile(p)
             \/ Integrate(p) \/ Remove(p)
  BY <1>5, BaseLook
<1>6. CASE LookLock(p)
  BY <1>6, BaseLookLock
<1> QED
  BY <1>1, <1>2, <1>3, <1>4, <1>5, <1>6 DEF Step, SilentSteps

LEMMA BaseNext == BaseInv /\ [Next]_vars => BaseInv'
BY BaseOf, BaseOutside DEF Next

------------------------------------------------------------------------------
(* Who is past Acquire is alone there. *)

LEMMA Operation ==
  ASSUME BaseInv, NEW p \in Procs, job[p].cmd \notin {"none", "recover"} \/ job[p].at \in LockedPlaces
  PROVE  job[p].op \in Sessions /\ job[p].op # 0 /\ job[p].op <= runs
<1>1. Admitted(p) /\ job[p].op \in Sessions \cup {0}
  BY JobTyped DEF BaseInv
<1>2. job[p].cmd \notin {"none", "recover"}
  BY <1>1 DEF Admitted, Suits, LockedPlaces, LockCommands
<1> QED
  BY <1>1, <1>2, CommitsTyped DEF Admitted

LEMMA OneHolder ==
  ASSUME BaseInv, NEW p \in Procs, NEW q \in Procs, p # q, Exclusive(p), Exclusive(q),
         job[p].at \in LockedPlaces
  PROVE  job[q].at \notin LockedPlaces
BY Operation DEF Exclusive, BaseInv, Numbered

\* What p may do beside the others: anything while it holds the lock, nothing
\* to what they share, or what no holder of the lock can notice.
Beside(p) ==
    \/ job[p].at \in LockedPlaces
    \/ lock' = lock /\ record' = record /\ main' = main
    \/ lock' = lock /\ main' = main /\ ~Held(record)
    \/ \A q \in Procs \ {p} : job[q].at \notin LockedPlaces

\* The session a record names after a step of p.
NamesKept(p) ==
    Held(record') => \/ Held(record) /\ record'.session = record.session
                     \/ record'.session = job[p].op /\ job[p].op # 0

LEMMA Others ==
  ASSUME BaseInv, \A q \in Procs : Exclusive(q), NEW p \in Procs, Only(p), dead' = dead,
         Beside(p), NamesKept(p)
  PROVE  \A q \in Procs \ {p} : Exclusive(q)'
<1> SUFFICES ASSUME NEW q \in Procs \ {p} PROVE Exclusive(q)'
  OBVIOUS
<1>1. job'[q] = job[q] /\ Exclusive(q) /\ Exclusive(p)
  BY DEF Only
<1>2. job[p].at \in LockedPlaces => job[q].at \notin LockedPlaces
  BY <1>1, OneHolder
<1>3. job[q].at \in LockedPlaces => lock' = lock /\ main' = main
  BY <1>2 DEF Beside
<1>4. job[q].at \in ComparedPlaces => record' = record /\ job[q].at \in LockedPlaces
  BY <1>1, <1>2 DEF Beside, Exclusive, ComparedPlaces
<1>5. "publish" \in LockedPlaces
  BY DEF LockedPlaces
<1>6. (job[q].cmd = "claim" /\ (Held(record) => record.session # job[q].op))
           => (Held(record') => record'.session # job[q].op)
  <2> SUFFICES ASSUME job[q].cmd = "claim", Held(record) => record.session # job[q].op, Held(record')
               PROVE  record'.session # job[q].op
    OBVIOUS
  <2>1. job[q].op # 0 /\ (job[p].op # 0 => job[p].op # job[q].op)
    BY Operation DEF BaseInv, Numbered
  <2> QED
    BY <2>1 DEF NamesKept
<1>7. job[q].at \in LockedPlaces => Held(lock') /\ lock'.op = job'[q].op
  BY <1>1, <1>3 DEF Exclusive
<1>8. job[q].at \in ComparedPlaces => Held(record') /\ record' = job'[q].record
  BY <1>1, <1>4 DEF Exclusive
<1>9. job[q].cmd = "claim" /\ job[q].at \in {"looked", "locked", "create", "publish"} =>
          job[q].op \notin dead' /\ (Held(record') => record'.session # job[q].op)
  BY <1>1, <1>6 DEF Exclusive
<1>10. job[q].cmd = "integrate" /\ job[q].at = "publish" =>
          main'.own = job[q].head.own /\ Contains(main', job[q].head)
  BY <1>1, <1>3, <1>5 DEF Exclusive
<1> HIDE DEF Held, Contains
<1> QED
  BY <1>1, <1>7, <1>8, <1>9, <1>10 DEF Exclusive, Held, Contains

------------------------------------------------------------------------------
(* The ownership. *)

\* An unheld record, or one whose owner let go or is gone, has no owner.
LEMMA NoOwner ==
  ASSUME OwnInv, ~disturbed, ~Held(record) \/ ~Live(record)
  PROVE  owners = {}
BY DEF OwnInv, OwnerIsRecorded, Live

LEMMA OwnStep ==
  ASSUME BaseInv, OwnInv, ~disturbed, NEW p \in Procs, Only(p), dead' = dead,
         Beside(p), NamesKept(p), Exclusive(p)', owners' \cap dead = {},
         \A s \in owners' : Held(record') /\ record'.session = s /\ record'.owned
  PROVE  OwnInv'
<1>1. \A q \in Procs : Exclusive(q)
  BY DEF OwnInv
<1>2. \A q \in Procs \ {p} : Exclusive(q)'
  BY <1>1, Others
<1>3. \A q \in Procs : Exclusive(q)'
  BY <1>2
<1>4. OwnerIsRecorded'
  BY DEF OwnerIsRecorded, Held
<1> QED
  BY <1>3, <1>4 DEF OwnInv

\* The same for a step that leaves the record, or that nobody owns before
\* and after.
LEMMA OwnSame ==
  ASSUME BaseInv, OwnInv, ~disturbed, NEW p \in Procs, Only(p), dead' = dead, Beside(p), NamesKept(p),
         Exclusive(p)', owners' = {} \/ (owners' = owners /\ record' = record)
  PROVE  OwnInv'
<1>1. owners \cap dead = {} /\ OwnerIsRecorded
  BY DEF OwnInv
<1>2. owners' \cap dead = {}
  BY <1>1
<1>3. \A s \in owners' : Held(record') /\ record'.session = s /\ record'.owned
  BY <1>1 DEF OwnerIsRecorded, Held
<1> QED
  BY <1>2, <1>3, OwnStep

\* Where nothing is asked of an invocation.
LEMMA FreeExclusive ==
  ASSUME NEW p \in Procs, job'[p].at \notin LockedPlaces \cup {"looked"}
  PROVE  Exclusive(p)'
BY DEF Exclusive, LockedPlaces, ComparedPlaces

LEMMA GoingOnly ==
  ASSUME BaseInv, NEW p \in Procs, Going(p)
  PROVE  Only(p)
<1>1. TypeOK
  BY DEF BaseInv
<1> QED
  BY <1>1, EndMoves, GotoMoves DEF Going

LEMMA OwnSilent ==
  ASSUME BaseInv, OwnInv, ~disturbed, NEW p \in Procs, SilentSteps(p)
  PROVE  OwnInv'
<1>1. TypeOK /\ Admitted(p) /\ Line
  BY DEF BaseInv
<1>2. Only(p) /\ UNCHANGED <<git, record, lock, others>>
  BY SilentGo, GoingOnly
<1>3. /\ worktree' = worktree /\ branch' = branch /\ head' = head /\ main' = main
      /\ base' = base /\ tracked' = tracked /\ record' = record /\ lock' = lock /\ runs' = runs
      /\ dead' = dead /\ owners' = owners /\ disturbed' = disturbed
  BY <1>2 DEF git, others
<1>4. Exclusive(p)
  BY DEF OwnInv
<1>5. End(p) => Exclusive(p)'
  <2>1. End(p) => job'[p].at = "idle"
    BY <1>1, EndMoves DEF Idle
  <2> QED
    BY <2>1, FreeExclusive DEF LockedPlaces
<1>6. \A place \in Places \ (LockedPlaces \cup {"looked"}) : Goto(p, place) => Exclusive(p)'
  BY <1>1, GotoMoves, FreeExclusive
<1>7. Exclusive(p)'
  <2>1. CASE VerifyStart(p) \/ RollbackCheck(p) \/ Fail(p) \/ MatchRecord(p) \/ Confirm(p) \/ Die(p)
    BY <2>1, <1>5, <1>6
       DEF VerifyStart, RollbackCheck, Fail, MatchRecord, Confirm, Die, Places, LockedPlaces
  <2>2. CASE Recheck(p)
    <3>1. At(p, "locked") /\ job[p].cmd \in LockCommands
      BY <1>1, <2>2 DEF Recheck, Admitted, Suits, At
    <3>2. AfterRecheck(p) \in {"unlock", "create", "publish", "fetch", "remove"}
      BY <3>1 DEF AfterRecheck, LockCommands
    <3>3. /\ job'[p].at = AfterRecheck(p) /\ job'[p].cmd = job[p].cmd /\ job'[p].op = job[p].op
          /\ job'[p].record = job[p].record
      BY <1>1, <2>2, <3>2, GotoMoves DEF Recheck, GoesOn, Places
    <3>4. Held(lock) /\ lock.op = job[p].op
      BY <1>4, <3>1 DEF Exclusive, At, LockedPlaces
    <3>5. AfterRecheck(p) \notin {"unlock", "create"} => Held(record) /\ record = job[p].record
      BY <1>1, <3>1 DEF AfterRecheck, LockCommands, Admitted, Held
    <3>6. job[p].cmd = "claim" => job[p].op \notin dead /\ (Held(record) => record.session # job[p].op)
      BY <1>4, <3>1 DEF Exclusive, At
    <3>7. ~(job[p].cmd = "integrate" /\ AfterRecheck(p) = "publish")
      BY DEF AfterRecheck
    <3>8. AfterRecheck(p) \in ComparedPlaces => AfterRecheck(p) \notin {"unlock", "create"}
      BY DEF ComparedPlaces, LockedPlaces
    <3> QED
      BY <1>3, <3>3, <3>4, <3>5, <3>6, <3>7, <3>8 DEF Exclusive, Held
  <2>3. CASE Compare(p)
    <3>1. job[p].cmd = "integrate" /\ At(p, "compare")
      BY <1>1, <2>3 DEF Compare, Admitted, Suits, At
    <3>2. /\ Held(lock) /\ lock.op = job[p].op /\ Held(record) /\ record = job[p].record
      BY <1>4, <3>1 DEF Exclusive, At, LockedPlaces, ComparedPlaces
    <3>3. PICK place \in {"unlock", "publish", "push"} :
             /\ Goto(p, place)
             /\ place = "publish" => head = job[p].head /\ tracked = head
      BY <2>3 DEF Compare
    <3>4. place \in Places
      BY DEF Places
    <3>5. /\ job'[p].at = place /\ job'[p].cmd = job[p].cmd /\ job'[p].op = job[p].op
          /\ job'[p].record = job[p].record /\ job'[p].head = job[p].head
      BY <1>1, <3>3, <3>4, GotoMoves DEF GoesOn
    <3>6. place = "publish" => main.own = job[p].head.own /\ Contains(main, job[p].head)
      <4>1. head.own \in Int /\ main.own \in Int
        BY <1>1, CommitsTyped, OwnershipAssumption DEF TypeOK, Commits
      <4> QED
        BY <1>1, <3>3, <4>1 DEF Line, Contains
    <3> QED
      BY <1>3, <3>1, <3>2, <3>5, <3>6 DEF Exclusive, Held, Contains
  <2> QED
    BY <2>1, <2>2, <2>3 DEF SilentSteps
<1>8. Beside(p) /\ NamesKept(p)
  BY <1>3 DEF Beside, NamesKept, Held
<1> QED
  BY <1>2, <1>3, <1>7, <1>8, OwnSame

\* start, its rollback and recover hold no lock.
LEMMA OwnOutside ==
  ASSUME BaseInv, OwnInv, ~disturbed', NEW p \in Procs,
         WriteRecord(p) \/ RollbackRemove(p) \/ RollbackBranch(p) \/ LookLock(p) \/ Unlink(p)
  PROVE  OwnInv'
<1>1. TypeOK /\ Admitted(p) /\ Line
  BY DEF BaseInv
<1>2. ~disturbed
  BY DEF WriteRecord, RollbackRemove, RollbackBranch, LookLock, Unlink, others
<1>3. CASE WriteRecord(p) /\ Goto(p, "rollback") /\ UNCHANGED record
  <2>1. "rollback" \in Places /\ "rollback" \notin LockedPlaces \cup {"looked"}
    BY DEF Places, LockedPlaces
  <2>2. Only(p) /\ Exclusive(p)'
    BY <1>1, <1>3, <2>1, GotoMoves, FreeExclusive
  <2>3. UNCHANGED <<main, lock, record, dead, owners>>
    BY <1>3 DEF WriteRecord, git, others
  <2>4. Beside(p) /\ NamesKept(p)
    BY <2>3 DEF Beside, NamesKept, Held
  <2> QED
    BY <1>2, <2>2, <2>3, <2>4, OwnSame
<1>4. CASE /\ WriteRecord(p) /\ record = None
           /\ \E t \in Tasks : record' = [session |-> job[p].op, owned |-> FALSE,
                                          integrated |-> FALSE, task |-> t]
           /\ job' = [job EXCEPT ![p].at = "recorded", ![p].record = record']
  <2>1. job[p].cmd = "start"
    BY <1>1, <1>4 DEF WriteRecord, Admitted, Suits, At
  <2>2. job[p].op # 0
    BY <2>1, Operation
  <2>3. Only(p) /\ job'[p].at = "recorded"
    <3>1. TypeOK'
      BY <1>4, BaseStart DEF BaseInv
    <3>2. job' \in [Procs -> Jobs] /\ job \in [Procs -> Jobs] /\ job[p] \in Jobs
      BY <1>1, <3>1, JobTyped DEF TypeOK
    <3>3. job' = [job EXCEPT ![p] = [job[p] EXCEPT !.at = "recorded", !.record = record']]
      BY <1>4, <3>2
    <3>4. /\ job'[p] = [job[p] EXCEPT !.at = "recorded", !.record = record']
          /\ \A q \in Procs \ {p} : job'[q] = job[q]
      BY <3>2, <3>3
    <3> QED
      BY <3>2, <3>4 DEF Only, Jobs
  <2>4. Exclusive(p)'
    BY <2>3, FreeExclusive DEF LockedPlaces
  <2>5. UNCHANGED <<main, lock, dead, owners>> /\ ~Held(record) /\ record'.session = job[p].op
    BY <1>4 DEF WriteRecord, git, others, Held
  <2>6. Beside(p) /\ NamesKept(p) /\ owners' = {}
    BY <1>2, <2>2, <2>5, NoOwner DEF Beside, NamesKept
  <2> QED
    BY <1>2, <2>3, <2>4, <2>5, <2>6, OwnSame
<1>5. CASE RollbackRemove(p) \/ RollbackBranch(p) \/ Unlink(p)
  <2>1. Only(p)
    BY <1>5, WriteGo, GoingOnly
  <2>2. Exclusive(p)'
    <3>1. End(p) \/ Goto(p, "unbranch")
      BY <1>5 DEF RollbackRemove, RollbackBranch, Unlink
    <3>2. job'[p].at \in {"idle", "unbranch"}
      <4>1. "unbranch" \in Places /\ Idle.at = "idle"
        BY DEF Places, Idle
      <4> QED
        BY <1>1, <3>1, <4>1, GotoMoves, EndMoves
    <3> QED
      BY <3>2, FreeExclusive DEF LockedPlaces
  <2>3. UNCHANGED <<main, dead, owners>>
    BY <1>5 DEF RollbackRemove, RollbackBranch, Unlink, git, others
  <2>4. CASE RollbackBranch(p) \/ (RollbackRemove(p) /\ UNCHANGED <<record, lock>>)
    <3>1. lock' = lock /\ record' = record
      BY <2>4 DEF RollbackBranch
    <3>2. Beside(p) /\ NamesKept(p)
      BY <2>3, <3>1 DEF Beside, NamesKept, Held
    <3> QED
      BY <1>2, <2>1, <2>2, <2>3, <3>1, <3>2, OwnSame
  <2>5. CASE RollbackRemove(p) /\ ~UNCHANGED <<record, lock>>
    <3>1. record' = None /\ ~Held(lock) /\ record \in {None, job[p].record} /\ At(p, "proven")
      BY <2>5 DEF RollbackRemove
    <3>2. \A q \in Procs : job[q].at \notin LockedPlaces
      BY <1>2, <3>1 DEF OwnInv, Exclusive
    <3>3. job[p].cmd = "start"
      BY <1>1, <3>1 DEF Admitted, Suits, At
    <3>4. Held(record) => ~record.owned
      BY <1>1, <3>1, <3>3 DEF Admitted, Held
    <3>5. owners' = {}
      BY <1>2, <2>3, <3>4, NoOwner DEF Live
    <3>6. Beside(p) /\ NamesKept(p)
      BY <3>1, <3>2 DEF Beside, NamesKept, Held
    <3> QED
      BY <1>2, <2>1, <2>2, <2>3, <3>5, <3>6, OwnSame
  <2>6. CASE Unlink(p)
    <3>1. lock \in {None, job[p].lock} /\ record' = record /\ At(p, "confirmed")
      BY <2>6 DEF Unlink
    <3>2. job[p].cmd = "recover"
      BY <1>1, <3>1 DEF Admitted, Suits, At
    <3>3. Held(lock) => \A q \in Procs : job[q].op # lock.op
      BY <1>1, <3>1, <3>2 DEF Admitted, Held
    <3>4. \A q \in Procs : job[q].at \notin LockedPlaces
      BY <1>2, <3>3 DEF OwnInv, Exclusive
    <3>5. Beside(p) /\ NamesKept(p)
      BY <3>1, <3>4 DEF Beside, NamesKept, Held
    <3> QED
      BY <1>2, <2>1, <2>2, <2>3, <3>1, <3>5, OwnSame
  <2> QED
    BY <1>5, <2>4, <2>5, <2>6
<1>6. CASE LookLock(p)
  <2>1. UNCHANGED <<main, lock, record, dead, owners>>
    BY <1>6 DEF LookLock, git, others
  <2>2. Only(p) /\ job'[p].at = "stale"
    <3>1. TypeOK'
      BY <1>6, BaseLookLock DEF BaseInv
    <3>2. job' \in [Procs -> Jobs] /\ job \in [Procs -> Jobs]
      BY <1>1, <3>1 DEF TypeOK
    <3>3. job' = [job EXCEPT ![p] = [Idle EXCEPT !.cmd = "recover", !.at = "stale", !.lock = lock]]
      BY <1>6 DEF LookLock
    <3>4. [Idle EXCEPT !.cmd = "recover", !.at = "stale", !.lock = lock].at = "stale"
      BY DEF Idle
    <3> QED
      BY <3>2, <3>3, <3>4 DEF Only
  <2>3. Exclusive(p)'
    BY <2>2, FreeExclusive DEF LockedPlaces
  <2>4. Beside(p) /\ NamesKept(p)
    BY <2>1 DEF Beside, NamesKept, Held
  <2> QED
    BY <1>2, <2>1, <2>2, <2>3, <2>4, OwnSame
<1> QED
  BY <1>3, <1>4, <1>5, <1>6 DEF WriteRecord

LEMMA OwnBegin ==
  ASSUME BaseInv, OwnInv, ~disturbed', NEW p \in Procs,
         AddWorktree(p) \/ Claim(p) \/ Release(p) \/ Retarget(p) \/ Reconcile(p)
           \/ Integrate(p) \/ Remove(p)
  PROVE  OwnInv'
<1>1. TypeOK /\ Numbered
  BY DEF BaseInv
<1>2. PICK cmd \in LockCommands \cup {"start"}, place \in {"looked", "added"}, commit \in Commits :
         Begin(p, cmd, place, commit) /\ main' = main /\ record' = record /\ lock' = lock
  <2>1. head \in Commits /\ tracked \in Commits
    BY <1>1 DEF TypeOK
  <2>2. AddWorktree(p) => /\ Begin(p, "start", "added", tracked)
                          /\ main' = main /\ record' = record /\ lock' = lock
    BY DEF AddWorktree
  <2>3. \A c \in LockCommands :
           Look(p, c) => /\ Begin(p, c, "looked", head)
                         /\ main' = main /\ record' = record /\ lock' = lock
    BY DEF Look, git
  <2>4. ~AddWorktree(p) => \E c \in LockCommands : Look(p, c)
    BY DEF Claim, Release, Retarget, Reconcile, Integrate, Remove, LockCommands
  <2> QED
    BY <2>1, <2>2, <2>3, <2>4
<1>3. /\ Only(p) /\ job'[p].cmd = cmd /\ job'[p].at = place /\ job'[p].op = runs + 1
      /\ dead' = dead /\ owners' = owners /\ disturbed' = disturbed
  BY <1>2, BeginMoves
<1>4. runs + 1 \notin dead /\ (Held(record) => record.session # runs + 1)
  BY <1>1 DEF Numbered, TypeOK
<1>5. Exclusive(p)'
  BY <1>2, <1>3, <1>4 DEF Exclusive, LockedPlaces, ComparedPlaces, Held
<1>6. Beside(p) /\ NamesKept(p)
  BY <1>2 DEF Beside, NamesKept, Held
<1> QED
  BY <1>2, <1>3, <1>5, <1>6, OwnSame

\* Where a step of p leads, with what it was admitted with.
LEMMA Leads ==
  ASSUME BaseInv, NEW p \in Procs, NEW place \in Places, Goto(p, place)
  PROVE  /\ job'[p].at = place /\ job'[p].cmd = job[p].cmd /\ job'[p].op = job[p].op
         /\ job'[p].record = job[p].record /\ job'[p].head = job[p].head /\ Only(p)
<1>1. TypeOK
  BY DEF BaseInv
<1> QED
  BY <1>1, GotoMoves DEF GoesOn

LEMMA OwnGit ==
  ASSUME BaseInv, OwnInv, ~disturbed', NEW p \in Procs,
         Fetch(p) \/ Merge(p) \/ Push(p) \/ Verify(p)
  PROVE  OwnInv'
<1>1. TypeOK /\ Admitted(p) /\ Line
  BY DEF BaseInv
<1>2. ~disturbed /\ UNCHANGED <<record, lock, dead, owners>>
  BY DEF Fetch, Merge, Push, Verify, others
<1>3. Exclusive(p)
  BY <1>2 DEF OwnInv
<1>4. job[p].at \in LockedPlaces /\ job[p].at \in ComparedPlaces /\ job[p].cmd # "claim"
  BY <1>1 DEF Fetch, Merge, Push, Verify, At, LockedPlaces, ComparedPlaces, Admitted, Suits
<1>5. PICK place \in {"merge", "compare", "verify", "publish", "unlock"} :
         /\ Goto(p, place)
         /\ place = "publish" => main' = job[p].head
  BY DEF Fetch, Merge, Push, Verify
<1>6. place \in Places
  BY DEF Places
<1>7. /\ job'[p].at = place /\ job'[p].cmd = job[p].cmd /\ job'[p].op = job[p].op
      /\ job'[p].record = job[p].record /\ job'[p].head = job[p].head /\ Only(p)
  BY <1>5, <1>6, Leads
<1>8. job[p].head \in Commits
  BY <1>1, JobTyped
<1>9. place = "publish" => main'.own = job[p].head.own /\ Contains(main', job[p].head)
  BY <1>5, <1>8, CommitsTyped
<1>10. Exclusive(p)'
  BY <1>2, <1>3, <1>4, <1>7, <1>9 DEF Exclusive, Held, Contains
<1>11. Beside(p) /\ NamesKept(p)
  BY <1>2, <1>4 DEF Beside, NamesKept, Held
<1> QED
  BY <1>2, <1>7, <1>10, <1>11, OwnSame

LEMMA OwnLock ==
  ASSUME BaseInv, OwnInv, ~disturbed', NEW p \in Procs,
         Acquire(p) \/ Unlock(p) \/ DropBranch(p) \/ RemoveWorktree(p)
  PROVE  OwnInv'
<1>1. TypeOK /\ Numbered /\ Admitted(p)
  BY DEF BaseInv
<1>2. ~disturbed /\ UNCHANGED <<main, dead, owners>>
  BY DEF Acquire, Unlock, DropBranch, RemoveWorktree, others, git
<1>3. \A q \in Procs : Exclusive(q)
  BY <1>2 DEF OwnInv
<1>4. Only(p)
  BY WriteGo, GoingOnly
<1>5. End(p) => Exclusive(p)'
  <2>1. End(p) => job'[p].at = "idle"
    BY <1>1, EndMoves DEF Idle
  <2> QED
    BY <2>1, FreeExclusive DEF LockedPlaces
<1>6. CASE Acquire(p) /\ UNCHANGED lock /\ End(p)
  <2>1. Beside(p) /\ NamesKept(p) /\ record' = record
    BY <1>2, <1>6 DEF Beside, NamesKept, Held, Acquire
  <2> QED
    BY <1>2, <1>4, <1>5, <1>6, <2>1, OwnSame
<1>7. CASE Acquire(p) /\ ~Held(lock)
  <2>1. /\ lock' = [op |-> job[p].op, session |-> Session(p), cmd |-> job[p].cmd]
        /\ Goto(p, "locked") /\ record' = record /\ At(p, "looked")
    BY <1>7 DEF Acquire
  <2>2. /\ job'[p].at = "locked" /\ job'[p].cmd = job[p].cmd /\ job'[p].op = job[p].op
    BY <2>1, Leads DEF Places
  <2>3. lock' \in Lock /\ lock'.op = job[p].op
    BY <2>1, LockTyped
  <2>4. Held(lock')
    BY <2>3, OwnershipAssumption DEF Held
  <2>5. Exclusive(p)'
    BY <1>2, <1>3, <2>1, <2>2, <2>3, <2>4 DEF Exclusive, At, LockedPlaces, ComparedPlaces, Held
  <2>6. \A q \in Procs : job[q].at \notin LockedPlaces
    BY <1>3, <1>7 DEF Exclusive
  <2>7. Beside(p) /\ NamesKept(p)
    BY <2>1, <2>6 DEF Beside, NamesKept, Held
  <2> QED
    BY <1>2, <1>4, <2>1, <2>5, <2>7, OwnSame
<1>8. CASE Unlock(p)
  <2>1. /\ record' = record /\ End(p) /\ At(p, "unlock")
        /\ lock' = lock \/ (Held(lock) /\ lock.op = job[p].op)
    BY <1>8 DEF Unlock
  <2>2. Beside(p)
    <3>1. CASE lock' = lock
      BY <1>2, <2>1, <3>1 DEF Beside
    <3>2. CASE Held(lock) /\ lock.op = job[p].op
      <4> SUFFICES ASSUME NEW q \in Procs \ {p}, job[q].at \in LockedPlaces PROVE FALSE
        BY DEF Beside
      <4>1. lock.op = job[q].op
        BY <1>3 DEF Exclusive
      <4>2. job[q].op # 0
        BY Operation
      <4> QED
        BY <1>1, <3>2, <4>1, <4>2 DEF Numbered
    <3> QED
      BY <2>1, <3>1, <3>2
  <2>3. NamesKept(p)
    BY <2>1 DEF NamesKept, Held
  <2> QED
    BY <1>2, <1>4, <1>5, <2>1, <2>2, <2>3, OwnSame
<1>9. CASE DropBranch(p)
  <2>1. record' = record /\ lock' = lock /\ Goto(p, "unlock")
    BY <1>9 DEF DropBranch
  <2>2. job'[p].at = "unlock"
    BY <2>1, Leads DEF Places
  <2>3. Exclusive(p)'
    BY <2>2, FreeExclusive DEF LockedPlaces
  <2>4. Beside(p) /\ NamesKept(p)
    BY <1>2, <2>1 DEF Beside, NamesKept, Held
  <2> QED
    BY <1>2, <1>4, <2>1, <2>3, <2>4, OwnSame
<1>10. CASE RemoveWorktree(p)
  <2>1. record' = None /\ Goto(p, "branch") /\ At(p, "remove")
    BY <1>10 DEF RemoveWorktree
  <2>2. job'[p].at = "branch"
    BY <2>1, Leads DEF Places
  <2>3. Exclusive(p)'
    BY <2>2, FreeExclusive DEF LockedPlaces
  <2>4. Beside(p) /\ NamesKept(p)
    BY <2>1 DEF Beside, NamesKept, Held, At, LockedPlaces
  <2>5. job[p].cmd = "remove" /\ Held(record) /\ record = job[p].record
    BY <1>1, <1>3, <2>1 DEF Admitted, Suits, At, Exclusive, ComparedPlaces, LockedPlaces
  <2>6. ~Live(record)
    BY <1>1, <2>5 DEF Admitted
  <2>7. owners' = {}
    BY <1>2, <2>6, NoOwner
  <2> QED
    BY <1>2, <1>4, <2>3, <2>4, <2>7, OwnSame
<1> QED
  BY <1>6, <1>7, <1>8, <1>9, <1>10 DEF Acquire

LEMMA OwnRecord ==
  ASSUME BaseInv, OwnInv, ~disturbed', NEW p \in Procs, Create(p) \/ Publish(p)
  PROVE  OwnInv'
<1>1. TypeOK /\ Admitted(p)
  BY DEF BaseInv
<1>2. ~disturbed /\ UNCHANGED <<main, lock, dead>> /\ Goto(p, "unlock")
  BY DEF Create, Publish, git
<1>3. Exclusive(p) /\ job[p].at \in LockedPlaces
  BY <1>2 DEF OwnInv, Create, Publish, At, LockedPlaces
<1>4. Only(p) /\ Exclusive(p)'
  <2>1. job'[p].at = "unlock" /\ Only(p)
    BY <1>2, Leads DEF Places
  <2> QED
    BY <2>1, FreeExclusive DEF LockedPlaces
<1>5. Beside(p)
  BY <1>3 DEF Beside
<1>6. CASE Create(p) /\ UNCHANGED <<record, owners>>
  <2>1. NamesKept(p)
    BY <1>6 DEF NamesKept, Held
  <2> QED
    BY <1>2, <1>4, <1>5, <1>6, <2>1, OwnSame
<1>7. CASE Create(p) /\ record = None /\ record' \in Claimed(p) /\ owners' = owners \cup {job[p].op}
  <2>1. job[p].cmd = "claim" /\ job[p].op \notin dead
    BY <1>1, <1>3, <1>7 DEF Create, Admitted, Suits, At, Exclusive
  <2>2. record' \in Record /\ record'.session = job[p].op /\ record'.owned
    BY <1>7, <2>1, ClaimedTyped
  <2>3. Held(record')
    BY <2>2, OwnershipAssumption DEF Held
  <2>4. owners = {} /\ owners' = {job[p].op}
    BY <1>2, <1>7, NoOwner DEF Held
  <2>5. job[p].op # 0
    BY <1>3, Operation
  <2>6. NamesKept(p)
    BY <2>2, <2>5 DEF NamesKept
  <2> QED
    BY <1>2, <1>4, <1>5, <2>1, <2>2, <2>3, <2>4, <2>6, OwnStep
<1>8. CASE Publish(p)
  <2>1. /\ At(p, "publish") /\ record' \in Published(p) /\ Held(record) /\ record = job[p].record
    BY <1>3, <1>8 DEF Publish, At, Exclusive, ComparedPlaces, LockedPlaces
  <2>2. /\ record' \in Record
        /\ job[p].cmd = "claim" => record'.session = job[p].op /\ record'.owned
        /\ job[p].cmd # "claim" => record'.session = record.session
        /\ job[p].cmd \in {"integrate", "retarget"} => record'.owned = record.owned
    BY <2>1, PublishedTyped
  <2>3. Held(record')
    BY <2>2, OwnershipAssumption DEF Held
  <2>4. job[p].op # 0
    BY <1>3, Operation
  <2>5. NamesKept(p)
    BY <2>1, <2>2, <2>4 DEF NamesKept
  <2>6. owners \cap dead = {} /\ \A s \in owners : record.session = s /\ record.owned
    BY <1>2 DEF OwnInv, OwnerIsRecorded
  <2>7. CASE job[p].cmd = "claim"
    <3>1. ~Live(record) /\ job[p].op \notin dead
      BY <1>1, <1>3, <2>1, <2>7 DEF Admitted, Exclusive, At
    <3>2. owners = {}
      BY <1>2, <3>1, NoOwner
    <3>3. owners' \subseteq {job[p].op}
      BY <1>8, <2>7, <3>2 DEF Publish
    <3> QED
      BY <1>2, <1>4, <1>5, <2>2, <2>3, <2>5, <2>7, <3>1, <3>3, OwnStep
  <2>8. CASE job[p].cmd = "release"
    <3>1. owners' = owners \ {record.session}
      BY <1>8, <2>1, <2>8 DEF Publish
    <3>2. owners' = {}
      BY <2>6, <3>1
    <3> QED
      BY <1>2, <1>4, <1>5, <2>5, <3>2, OwnSame
  <2>9. CASE job[p].cmd \notin {"claim", "release"}
    <3>1. owners' = owners
      BY <1>8, <2>9 DEF Publish
    <3>2. job[p].cmd \in {"integrate", "retarget"}
      BY <1>1, <2>1, <2>9 DEF Admitted, Suits, At
    <3>3. \A s \in owners' : Held(record') /\ record'.session = s /\ record'.owned
      BY <2>2, <2>3, <2>6, <3>1, <3>2
    <3>4. owners' \cap dead = {}
      BY <2>6, <3>1
    <3> QED
      BY <1>2, <1>4, <1>5, <2>5, <3>3, <3>4, OwnStep
  <2> QED
    BY <2>7, <2>8, <2>9
<1> QED
  BY <1>6, <1>7, <1>8 DEF Create

\* What happens around the invocations.
LEMMA OwnAround ==
  ASSUME BaseInv, OwnInv, ~disturbed', HolderDies \/ Work \/ UNCHANGED vars
  PROVE  OwnInv'
<1>1. TypeOK
  BY DEF BaseInv
<1>2. ~disturbed /\ job' = job /\ lock' = lock /\ record' = record
  BY DEF HolderDies, Work, vars, others
<1>3. (\A q \in Procs : Exclusive(q)) /\ owners \cap dead = {} /\ OwnerIsRecorded
  BY <1>2 DEF OwnInv
<1>4. CASE HolderDies
  <2>1. /\ Held(record) /\ dead' = dead \cup {record.session} /\ main' = main
        /\ owners' = owners \ {record.session}
    BY <1>4 DEF HolderDies, git
  <2>2. owners' = {}
    BY <1>2, <1>3, <2>1 DEF OwnerIsRecorded
  <2>3. \A q \in Procs : Exclusive(q)'
    BY <1>2, <1>3, <2>1 DEF Exclusive, Held
  <2> QED
    BY <2>2, <2>3 DEF OwnInv, OwnerIsRecorded
<1>5. CASE Work \/ UNCHANGED vars
  <2>1. dead' = dead /\ owners' = owners
    BY <1>5 DEF Work, vars, others
  <2>2. main' = main \/ (main.foreign < MaxForeign /\ main' = [main EXCEPT !.foreign = @ + 1])
    BY <1>5 DEF Work, vars, git
  <2>3. \A q \in Procs : Contains(main, job[q].head) => Contains(main', job[q].head)
    <3> SUFFICES ASSUME NEW q \in Procs, Contains(main, job[q].head)
                 PROVE  Contains(main', job[q].head)
      OBVIOUS
    <3>1. /\ job[q].head.own \in Int /\ job[q].head.foreign \in Int
          /\ main.own \in Int /\ main.foreign \in Int /\ main \in Commits
      BY <1>1, JobTyped, OwnershipAssumption DEF TypeOK, Commits
    <3>2. CASE main' = main
      BY <3>2
    <3>3. CASE main' = [main EXCEPT !.foreign = @ + 1]
      <4>1. main'.own = main.own /\ main'.foreign = main.foreign + 1
        BY <3>1, <3>3 DEF Commits
      <4> QED
        BY <3>1, <4>1 DEF Contains
    <3> QED
      BY <2>2, <3>2, <3>3
  <2>4. main'.own = main.own
    BY <1>1, <2>2 DEF TypeOK, Commits
  <2>5. \A q \in Procs : Exclusive(q)'
    BY <1>2, <1>3, <2>1, <2>3, <2>4 DEF Exclusive, Held
  <2>6. OwnerIsRecorded'
    BY <1>2, <1>3, <2>1 DEF OwnerIsRecorded, Held
  <2> QED
    BY <1>3, <2>1, <2>5, <2>6 DEF OwnInv
<1> QED
  BY <1>4, <1>5

LEMMA OwnNext ==
  ASSUME SessionInv, [Next]_vars
  PROVE  OwnInv'
<1> SUFFICES ASSUME ~disturbed' PROVE OwnInv'
  BY DEF OwnInv
<1>1. BaseInv /\ OwnInv
  BY DEF SessionInv
<1>2. CASE HolderDies \/ Work \/ UNCHANGED vars
  BY <1>1, <1>2, OwnAround
<1>3. ASSUME NEW p \in Procs, Step(p)
      PROVE  OwnInv'
  <2>1. CASE SilentSteps(p)
    <3>1. ~disturbed
      BY <1>1, <2>1, SilentGo DEF others
    <3> QED
      BY <1>1, <2>1, <3>1, OwnSilent
  <2>2. CASE WriteRecord(p) \/ RollbackRemove(p) \/ RollbackBranch(p) \/ LookLock(p) \/ Unlink(p)
    BY <1>1, <2>2, OwnOutside
  <2>3. CASE AddWorktree(p) \/ Claim(p) \/ Release(p) \/ Retarget(p) \/ Reconcile(p)
               \/ Integrate(p) \/ Remove(p)
    BY <1>1, <2>3, OwnBegin
  <2>4. CASE Fetch(p) \/ Merge(p) \/ Push(p) \/ Verify(p)
    BY <1>1, <2>4, OwnGit
  <2>5. CASE Acquire(p) \/ Unlock(p) \/ DropBranch(p) \/ RemoveWorktree(p)
    BY <1>1, <2>5, OwnLock
  <2>6. CASE Create(p) \/ Publish(p)
    BY <1>1, <2>6, OwnRecord
  <2> QED
    BY <1>3, <2>1, <2>2, <2>3, <2>4, <2>5, <2>6 DEF Step, SilentSteps
<1> QED
  BY <1>2, <1>3 DEF Next

------------------------------------------------------------------------------
(* The theorems. *)

\* The inductive invariant: identities are fresh and never shared, an
\* invocation is only where its command goes, the line of commits only grows
\* and, while nothing disturbed it, who is past Acquire is alone there, with
\* the record it compared still before it.
THEOREM SessionInvariant == Spec => []SessionInv
<1>1. Init => SessionInv
  <2> SUFFICES ASSUME Init PROVE SessionInv
    OBVIOUS
  <2>1. BaseInv
    BY BaseInit
  <2>2. \A p \in Procs : Exclusive(p)
    BY DEF Init, Idle, Exclusive, LockedPlaces, ComparedPlaces
  <2>3. owners = {}
    BY DEF Init
  <2> QED
    BY <2>1, <2>2, <2>3 DEF SessionInv, OwnInv, OwnerIsRecorded
<1>2. SessionInv /\ [Next]_vars => SessionInv'
  BY BaseNext, OwnNext DEF SessionInv
<1> QED
  BY <1>1, <1>2, PTL DEF Spec

\* Every variable keeps its type, for any number of invocations.
THEOREM TypeCorrect == Spec => []TypeOK
<1>1. SessionInv => TypeOK
  BY DEF SessionInv, BaseInv
<1> QED
  BY <1>1, SessionInvariant, PTL

\* One writer: while no recovery and no rollback took a lock or a record that
\* was not its own, a session that was told it owns the worktree, has not
\* released it and lives is the one the record names.
THEOREM OwnerIsAlwaysRecorded == Spec => []OwnerIsRecorded
<1>1. SessionInv => OwnerIsRecorded
  BY DEF SessionInv, OwnInv, OwnerIsRecorded
<1> QED
  BY <1>1, SessionInvariant, PTL

\* The compare-and-swap of the record: what replaces it or takes it away was
\* admitted with this very record.
THEOREM NoBlindReplacement == Spec => ComparedBeforeReplaced
<1>1. ASSUME SessionInv, [Next]_vars, Held(record), record' # record, ~disturbed'
      PROVE  \E p \in Procs : job'[p] # job[p] /\ job[p].record = record
  <2>1. BaseInv /\ OwnInv
    BY <1>1 DEF SessionInv
  <2>2. ~(HolderDies \/ Work \/ UNCHANGED vars)
    BY <1>1 DEF HolderDies, Work, vars
  <2>3. PICK p \in Procs : Step(p)
    BY <1>1, <2>2 DEF Next
  <2>4. CASE RollbackRemove(p)
    <3>1. Goto(p, "unbranch") /\ record = job[p].record /\ At(p, "proven")
      BY <1>1, <2>4 DEF RollbackRemove, Held
    <3>2. job'[p].at = "unbranch"
      BY <2>1, <3>1, Leads DEF Places
    <3> QED
      BY <3>1, <3>2 DEF At
  <2>5. CASE Publish(p) \/ RemoveWorktree(p)
    <3>1. ~disturbed /\ job[p].at \in {"publish", "remove"}
      BY <1>1, <2>5 DEF Publish, RemoveWorktree, others, At
    <3>2. record = job[p].record
      BY <2>1, <3>1 DEF OwnInv, Exclusive, ComparedPlaces, LockedPlaces
    <3>3. job'[p].at \in {"unlock", "branch"}
      BY <2>1, <2>5, Leads DEF Publish, RemoveWorktree, Places
    <3> QED
      BY <3>1, <3>2, <3>3
  <2>6. CASE ~(RollbackRemove(p) \/ Publish(p) \/ RemoveWorktree(p))
    <3>1. record' = record \/ record = None
      <4>1. CASE SilentSteps(p)
        BY <2>1, <4>1, SilentGo
      <4>2. CASE ~SilentSteps(p)
        BY <2>3, <2>6, <4>2
           DEF Step, SilentSteps, AddWorktree, WriteRecord, RollbackBranch, Claim, Release, Retarget,
               Reconcile, Integrate, Remove, Look, Acquire, Create, Unlock, Fetch, Merge,
               Push, Verify, DropBranch, LookLock, Unlink
      <4> QED
        BY <4>1, <4>2
    <3> QED
      BY <1>1, <3>1 DEF Held
  <2> QED
    BY <2>4, <2>5, <2>6
<1> QED
  BY <1>1, SessionInvariant, PTL DEF Spec, ComparedBeforeReplaced

\* A branch goes with commits the canonical branch lacks only by a removal
\* that found work unmerged and was told to abandon it: what -d compares with
\* is behind what was fetched, and that behind the remote; the rollback of a
\* start deletes what it created itself, which the canonical branch has.
THEOREM NoLostWork == Spec => LostWorkWasAbandoned
<1>1. ASSUME SessionInv, [Next]_vars, branch, ~branch', ~Contains(main, head)
      PROVE  \E p \in Procs : At(p, "branch") /\ ~job[p].merged
  <2>1. BaseInv
    BY <1>1 DEF SessionInv
  <2>2. ~(HolderDies \/ Work \/ UNCHANGED vars)
    BY <1>1 DEF HolderDies, Work, vars, git
  <2>3. PICK p \in Procs : Step(p)
    BY <1>1, <2>2 DEF Next
  <2>4. CASE RollbackBranch(p)
    <3>1. At(p, "unbranch") /\ head = job[p].head
      BY <1>1, <2>4 DEF RollbackBranch
    <3>2. Contains(main, job[p].head)
      BY <2>1, <3>1 DEF BaseInv, Admitted, Suits, At
    <3> QED
      BY <1>1, <3>1, <3>2
  <2>5. CASE DropBranch(p)
    <3>1. At(p, "branch") /\ ~(job[p].merged /\ ~Contains(base, head))
      BY <1>1, <2>5 DEF DropBranch
    <3>2. ~Contains(base, head)
      <4>1. Contains(main, base)
        BY <2>1, CommitsTyped DEF BaseInv, TypeOK, Line
      <4>2. Contains(base, head) => Contains(main, head)
        BY <2>1, <4>1, CommitsTyped DEF BaseInv, TypeOK
      <4> QED
        BY <1>1, <4>2
    <3> QED
      BY <3>1, <3>2
  <2>6. CASE ~(RollbackBranch(p) \/ DropBranch(p))
    <3>1. branch' = branch \/ branch' = TRUE
      <4>1. CASE SilentSteps(p)
        BY <2>1, <4>1, SilentGo DEF git
      <4>2. CASE ~SilentSteps(p)
        BY <2>3, <2>6, <4>2
           DEF Step, SilentSteps, AddWorktree, WriteRecord, RollbackRemove, Claim, Release, Retarget,
               Reconcile, Integrate, Remove, Look, Acquire, Create, Publish, Unlock, Fetch, Merge,
               Push, Verify, RemoveWorktree, LookLock, Unlink, git
      <4> QED
        BY <4>1, <4>2
    <3> QED
      BY <1>1, <3>1
  <2> QED
    BY <2>4, <2>5, <2>6
<1> QED
  BY <1>1, SessionInvariant, PTL DEF Spec, LostWorkWasAbandoned

\* A session is recorded as integrated only with what --expect-head named on
\* the canonical branch, and none of its later commits there.
THEOREM OnlyTheIntended == Spec => IntegratedIsIntended
<1>1. ASSUME SessionInv, [Next]_vars, Held(record), Held(record'), record'.integrated,
             ~record.integrated, ~disturbed
      PROVE  \E p \in Procs : /\ At(p, "publish") /\ job[p].cmd = "integrate"
                              /\ main.own = job[p].head.own /\ Contains(main, job[p].head)
  <2>1. BaseInv /\ OwnInv
    BY <1>1 DEF SessionInv
  <2>2. ~(HolderDies \/ Work \/ UNCHANGED vars)
    BY <1>1 DEF HolderDies, Work, vars
  <2>3. PICK p \in Procs : Step(p)
    BY <1>1, <2>2 DEF Next
  <2>4. CASE Publish(p)
    <3>1. At(p, "publish") /\ record' \in Published(p) /\ Exclusive(p) /\ Admitted(p)
      BY <1>1, <2>1, <2>4 DEF Publish, OwnInv, BaseInv
    <3>2. record = job[p].record
      BY <3>1 DEF Exclusive, At, ComparedPlaces, LockedPlaces
    <3>3. job[p].cmd = "integrate"
      <4>1. job[p].cmd \in {"claim", "release", "retarget", "integrate"}
        BY <3>1 DEF Admitted, Suits, At
      <4>2. job[p].cmd = "claim" => ~record'.integrated
        BY <2>1, <3>1, PublishedTyped
      <4>3. job[p].cmd \in {"release", "retarget"} => record'.integrated = record.integrated
        BY <2>1, <3>1, <3>2, PublishedTyped
      <4> QED
        BY <1>1, <4>1, <4>2, <4>3
    <3> QED
      BY <3>1, <3>3 DEF Exclusive, At
  <2>5. CASE ~Publish(p)
    <3>1. record' \in {record, None} \/ record = None
      <4>1. CASE SilentSteps(p)
        BY <2>1, <4>1, SilentGo
      <4>2. CASE ~SilentSteps(p)
        BY <2>3, <2>5, <4>2
           DEF Step, SilentSteps, AddWorktree, WriteRecord, RollbackRemove, RollbackBranch, Claim, Release,
               Retarget, Reconcile, Integrate, Remove, Look, Acquire, Create, Unlock, Fetch, Merge,
               Push, Verify, RemoveWorktree, DropBranch, LookLock, Unlink
      <4> QED
        BY <4>1, <4>2
    <3> QED
      BY <1>1, <3>1 DEF Held
  <2> QED
    BY <2>4, <2>5
<1>2. SessionInv /\ [Next]_vars
        => [Held(record) /\ Held(record') /\ record'.integrated /\ ~record.integrated /\ ~disturbed
              => \E p \in Procs : /\ At(p, "publish") /\ job[p].cmd = "integrate"
                                  /\ main.own = job[p].head.own
                                  /\ Contains(main, job[p].head)]_vars
  BY <1>1
<1> QED
  BY <1>2, SessionInvariant, PTL DEF Spec, IntegratedIsIntended
==============================================================================
