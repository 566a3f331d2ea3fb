--------------------------- MODULE PromotionProofs ---------------------------
(***************************************************************************)
(* Proofs about the canonical promotion, for any number of cases, clones,  *)
(* appliers and commits.                                                   *)
(***************************************************************************)
EXTENDS Promotion, SequenceTheorems, TLAPS

Past == {"written", "readback", "decided"}

\* What an applier claimed stays its own, and what it wrote is on record.
Holding(a) ==
    /\ job[a].at \in {"claimed", "consumed"} \cup Past => claimed[Transaction(Root(a), Of(a))] = a
    /\ job[a].at \in {"consumed"} \cup Past => consumed[Of(a)] = a
    /\ job[a].at \in Past => [root |-> Root(a), of |-> Of(a), by |-> a] \in wrote

\* A write was made by the owner of both claims, whose only one it is.
Owned(w) ==
    /\ claimed[Transaction(w.root, w.of)] = w.by
    /\ consumed[w.of] = w.by
    /\ job[w.by].at \in Past \cup {"ended"}
    /\ \A v \in wrote : v.by = w.by => v = w

Founded(p) == \E w \in wrote : w.of = p /\ consumed[w.of] = w.by

ClaimInv == /\ TypeOK
            /\ \A a \in Appliers : Holding(a)
            /\ \A w \in wrote : Owned(w)
            /\ \A r \in receipts : Founded(r.of)

PromotionInv == ClaimInv /\ DirtIsApproved

------------------------------------------------------------------------------
LEMMA RunningTyped ==
  ASSUME TypeOK, NEW a \in Appliers, job[a].at \in Working
  PROVE  /\ job[a] \in Running /\ Root(a) \in Roots /\ Of(a) \in Promotions /\ Of(a) \in approvals
         /\ Transaction(Root(a), Of(a)) \in Transactions
<1>1. job[a] \in Running \/ job[a] \in [at : {"idle", "ended"}]
  BY DEF TypeOK, Jobs
<1>2. job[a] \in Running
  BY <1>1 DEF Working
<1> QED
  BY <1>2 DEF Running, TypeOK, Root, Of, Transaction, Transactions, Promotions

LEMMA WriteTyped ==
  ASSUME TypeOK, NEW w \in wrote
  PROVE  /\ w.root \in Roots /\ w.of \in approvals /\ w.of \in Promotions /\ w.by \in Appliers
         /\ w.of.head \in 1..Len(commits) /\ Transaction(w.root, w.of) \in Transactions
<1>1. w.root \in Roots /\ w.of \in approvals /\ w.by \in Appliers
  BY DEF TypeOK
<1>2. w.of \in Promotions /\ w.of.head <= Len(commits)
  BY <1>1 DEF TypeOK
<1>3. w.of.head \in 1..MaxCommits
  BY <1>2 DEF Promotions
<1>4. Len(commits) \in Nat
  BY LenProperties DEF TypeOK
<1> QED
  BY <1>1, <1>2, <1>3, <1>4, PromotionAssumption DEF Transaction, Transactions

\* Only the job of a changes: it goes on with what it is about, or ends.
Moved(a) == /\ job' \in [Appliers -> Jobs]
            /\ \/ job'[a].at = "ended"
               \/ /\ job[a].at \in Working /\ job'[a].at \in Working
                  /\ job'[a].root = job[a].root /\ job'[a].of = job[a].of
            /\ \A b \in Appliers \ {a} : job'[b] = job[b]

LEMMA Records ==
  ASSUME NEW j \in Running, NEW place \in Working, NEW seen \in BOOLEAN
  PROVE  LET new == [j EXCEPT !.at = place, !.seen = seen] IN
         new \in Running /\ new.at = place /\ new.root = j.root /\ new.of = j.of
BY DEF Running

LEMMA Kept == ASSUME NEW j \in Running, NEW place
              PROVE  j.seen \in BOOLEAN /\ [j EXCEPT !.at = place] = [j EXCEPT !.at = place, !.seen = j.seen]
BY DEF Running

LEMMA SeenMoves ==
  ASSUME TypeOK, NEW a \in Appliers, job[a].at \in Working, NEW place \in Working, NEW seen \in BOOLEAN,
         job' = [job EXCEPT ![a] = [job[a] EXCEPT !.at = place, !.seen = seen]]
  PROVE  Moved(a) /\ job'[a].at = place
<1> DEFINE new == [job[a] EXCEPT !.at = place, !.seen = seen]
<1>1. job \in [Appliers -> Jobs] /\ job[a] \in Running
  BY RunningTyped DEF TypeOK
<1>2. new \in Running /\ new.at = place /\ new.root = job[a].root /\ new.of = job[a].of
  BY <1>1, Records
<1>3. job' = [job EXCEPT ![a] = new]
  OBVIOUS
<1> HIDE DEF new
<1>4. job'[a] = new /\ \A b \in Appliers \ {a} : job'[b] = job[b]
  BY <1>1, <1>3
<1>5. job' \in [Appliers -> Jobs]
  BY <1>1, <1>2, <1>3 DEF Jobs
<1> QED
  BY <1>2, <1>4, <1>5 DEF Moved

LEMMA GotoMoves ==
  ASSUME TypeOK, NEW a \in Appliers, job[a].at \in Working, NEW place \in Working, Goto(a, place)
  PROVE  Moved(a) /\ job'[a].at = place
<1>1. job[a] \in Running
  BY RunningTyped
<1>2. job' = [job EXCEPT ![a] = [job[a] EXCEPT !.at = place]]
  BY DEF Goto
<1>3. job' = [job EXCEPT ![a] = [job[a] EXCEPT !.at = place, !.seen = job[a].seen]]
  BY <1>1, <1>2, Kept
<1>4. job[a].seen \in BOOLEAN
  BY <1>1, Kept
<1> QED
  BY <1>3, <1>4, SeenMoves

LEMMA EndMoves ==
  ASSUME TypeOK, NEW a \in Appliers, End(a)
  PROVE  Moved(a) /\ job'[a].at = "ended"
<1> DEFINE new == [at |-> "ended"]
<1>1. new \in Jobs /\ new.at = "ended"
  BY DEF Jobs
<1>2. job' = [job EXCEPT ![a] = new] /\ job \in [Appliers -> Jobs]
  BY DEF End, TypeOK
<1> HIDE DEF new
<1> QED
  BY <1>1, <1>2 DEF Moved

LEMMA InitClaims == Init => PromotionInv
<1> SUFFICES ASSUME Init PROVE PromotionInv
  OBVIOUS
<1>1. PICK n \in 1..MaxCommits : commits \in [1..n -> SUBSET Cases]
  BY DEF Init
<1>2. n \in Nat /\ n >= 1
  BY <1>1, PromotionAssumption
<1>3. commits \in Seq(SUBSET Cases) /\ Len(commits) = n /\ DOMAIN commits = 1..n
  BY <1>1, <1>2, IsASeq
<1>4. /\ head \in [Roots -> 1..n] /\ tree = [r \in Roots |-> commits[head[r]]]
  BY <1>3 DEF Init
<1>5. tree \in [Roots -> SUBSET Cases]
  BY <1>1, <1>4
<1>6. job \in [Appliers -> Jobs] /\ \A a \in Appliers : job[a].at = "idle"
  <2> DEFINE idle == [at |-> "idle"]
  <2>1. idle \in Jobs /\ idle.at = "idle"
    BY DEF Jobs
  <2>2. job = [a \in Appliers |-> idle]
    BY DEF Init
  <2> HIDE DEF idle
  <2> QED
    BY <2>1, <2>2
<1>9. TypeOK
  <2>1. \A a \in Appliers : job[a].at \notin Working
    BY <1>6 DEF Working
  <2> QED
    BY <2>1, <1>1, <1>3, <1>4, <1>5, <1>6 DEF Init, TypeOK
<1>7. ClaimInv
  BY <1>6, <1>9 DEF Init, ClaimInv, Holding, Past
<1>8. DirtIsApproved
  BY <1>4 DEF Init, DirtIsApproved
<1> QED
  BY <1>7, <1>8 DEF PromotionInv

------------------------------------------------------------------------------
(* The owner and git: no claim, write or applier changes. *)

LEMMA NoApplierMoves ==
  ASSUME ClaimInv, UNCHANGED <<claimed, consumed, job, wrote>>
  PROVE  /\ \A a \in Appliers : Holding(a)'
         /\ \A w \in wrote : Owned(w)'
         /\ \A p : Founded(p) => Founded(p)'
BY DEF ClaimInv, Holding, Owned, Founded, Root, Of, Transaction

LEMMA OwnerStep ==
  ASSUME PromotionInv, NEW r \in Roots, NEW p, NEW c \in Candidates,
         Prepare(r, c) \/ (p \in promotions /\ (Approve(r, p) \/ Verify(r, p)))
  PROVE  PromotionInv'
<1>1. /\ TypeOK /\ ClaimInv /\ UNCHANGED <<claimed, consumed, job, wrote, git, receipts>>
      /\ promotions \subseteq promotions' /\ approvals \subseteq approvals'
  BY DEF PromotionInv, ClaimInv, Prepare, Approve, Verify
<1>2. UNCHANGED <<commits, head, tree, other>>
  BY <1>1 DEF git
<1>3. /\ promotions' \subseteq {q \in Promotions : q.head <= Len(commits)}
      /\ approvals' \subseteq promotions' /\ verified' \subseteq Roots \X approvals'
  <2>1. CASE Prepare(r, c)
    <3>1. head[r] \in 1..Len(commits) /\ Len(commits) \in 1..MaxCommits
      BY <1>1 DEF TypeOK
    <3>2. [candidate |-> c, head |-> head[r]] \in {q \in Promotions : q.head <= Len(commits)}
      BY <3>1, PromotionAssumption DEF Promotions
    <3> QED
      BY <3>2, <1>1, <2>1 DEF Prepare, TypeOK
  <2>2. CASE p \in promotions /\ Approve(r, p)
    BY <1>1, <2>2 DEF Approve, TypeOK
  <2>3. CASE p \in promotions /\ Verify(r, p)
    <3>1. p \in approvals
      BY <1>1, <2>3 DEF Verify, TypeOK
    <3> QED
      BY <3>1, <1>1, <2>3 DEF Verify, TypeOK
  <2> QED
    BY <2>1, <2>2, <2>3
<1>4. TypeOK'
  BY <1>1, <1>2, <1>3 DEF TypeOK
<1>5. ClaimInv'
  BY <1>1, <1>4, NoApplierMoves DEF ClaimInv
<1>6. verified' \subseteq verified \cup {<<r, p>>} /\ (verified' # verified => Founded(p))
  BY <1>1 DEF Prepare, Approve, Verify, ClaimInv
<1>7. DirtIsApproved'
  <2>1. \A v \in verified' : Founded(v[2])
    BY <1>6 DEF PromotionInv, DirtIsApproved, Founded
  <2> QED
    BY <1>1, <1>2, <2>1 DEF PromotionInv, DirtIsApproved, Founded, Post, Pre, Transaction
<1> QED
  BY <1>5, <1>7 DEF PromotionInv

\* Git moves a clone to a commit whose catalogue it then has.
LEMMA GitStep ==
  ASSUME PromotionInv, NEW r \in Roots, NEW h \in 1..Len(commits),
         Commit(r) \/ Checkout(r, h) \/ EditOther(r)
  PROVE  PromotionInv'
<1>1. TypeOK /\ ClaimInv /\ UNCHANGED <<stores, job, wrote>>
  BY DEF PromotionInv, ClaimInv, Commit, Checkout, EditOther
<1>2. UNCHANGED <<promotions, approvals, claimed, consumed, receipts, verified>>
  BY <1>1 DEF stores
<1>3. Len(commits) \in Nat /\ commits \in Seq(SUBSET Cases) /\ Len(commits) <= MaxCommits
  BY <1>1, PromotionAssumption DEF TypeOK
<1>4. /\ commits' \in Seq(SUBSET Cases) /\ Len(commits') \in 1..MaxCommits /\ Len(commits) <= Len(commits')
      /\ \A i \in 1..Len(commits) : commits'[i] = commits[i]
      /\ head' \in [Roots -> 1..Len(commits')] /\ tree' \in [Roots -> SUBSET Cases] /\ other' \subseteq Roots
      /\ \A q \in Roots : \/ tree'[q] = commits'[head'[q]]
                          \/ tree'[q] = tree[q] /\ head'[q] = head[q]
  <2>1. CASE Commit(r)
    <3>1. /\ commits' = Append(commits, tree[r]) /\ head' = [head EXCEPT ![r] = Len(commits) + 1]
          /\ tree' = tree /\ other' = other \ {r} /\ Len(commits) < MaxCommits /\ tree[r] \in SUBSET Cases
      BY <1>1, <2>1 DEF Commit, TypeOK
    <3>2. /\ commits' \in Seq(SUBSET Cases) /\ Len(commits') = Len(commits) + 1
          /\ commits'[Len(commits) + 1] = tree[r]
          /\ \A i \in 1..Len(commits) : commits'[i] = commits[i]
      BY <3>1, <1>3, AppendProperties
    <3>3. head' \in [Roots -> 1..Len(commits')]
      <4>1. 1..Len(commits) \subseteq 1..Len(commits') /\ Len(commits) + 1 \in 1..Len(commits')
        BY <1>3, <3>2
      <4> QED
        BY <4>1, <3>1, <1>1 DEF TypeOK
    <3>4. Len(commits') \in 1..MaxCommits /\ Len(commits) <= Len(commits')
      BY <3>1, <3>2, <1>3, PromotionAssumption
    <3>5. \A q \in Roots : tree'[q] = commits'[head'[q]] \/ (tree'[q] = tree[q] /\ head'[q] = head[q])
      BY <3>1, <3>2, <1>1 DEF TypeOK
    <3> QED
      BY <3>1, <3>2, <3>3, <3>4, <3>5, <1>1 DEF TypeOK
  <2>2. CASE Checkout(r, h)
    <3>1. commits[h] \in SUBSET Cases
      BY <1>3, ElementOfSeq
    <3> QED
      BY <3>1, <1>1, <1>3, <2>2 DEF Checkout, TypeOK
  <2>3. CASE EditOther(r)
    BY <1>1, <1>3, <2>3 DEF EditOther, TypeOK
  <2> QED
    BY <2>1, <2>2, <2>3
<1>5. TypeOK'
  <2>1. \A p \in Promotions : p.head <= Len(commits) => p.head <= Len(commits')
    BY <1>3, <1>4, PromotionAssumption DEF Promotions
  <2> QED
    BY <1>1, <1>2, <1>4, <2>1 DEF TypeOK
<1>6. ClaimInv'
  BY <1>1, <1>2, <1>5, NoApplierMoves DEF ClaimInv
<1>7. \A w \in wrote : Post(w.of)' = Post(w.of)
  BY <1>1, <1>4, WriteTyped DEF Post, Pre
<1>8. DirtIsApproved'
  <2>1. ASSUME NEW q \in Roots, tree'[q] # commits'[head'[q]]
        PROVE  \E w \in wrote' : /\ w.root = q /\ tree'[q] = Post(w.of)' /\ consumed'[w.of] = w.by
                                  /\ claimed'[Transaction(q, w.of)] = w.by
    <3>1. tree'[q] = tree[q] /\ head'[q] = head[q] /\ head[q] \in 1..Len(commits)
      BY <2>1, <1>1, <1>4 DEF TypeOK
    <3>2. tree[q] # commits[head[q]]
      BY <2>1, <3>1, <1>4
    <3>3. PICK w \in wrote : /\ w.root = q /\ tree[q] = Post(w.of) /\ consumed[w.of] = w.by
                             /\ claimed[Transaction(q, w.of)] = w.by
      BY <3>2 DEF PromotionInv, DirtIsApproved
    <3> QED
      BY <3>1, <3>3, <1>1, <1>2, <1>7
  <2> QED
    BY <2>1, <1>1, <1>2 DEF PromotionInv, DirtIsApproved, Transaction
<1> QED
  BY <1>6, <1>8 DEF PromotionInv

------------------------------------------------------------------------------
(* The appliers. *)

After == Past \cup {"ended"}

\* What a step of the applier a has to show: claims and writes are only
\* added, a's own conjuncts hold, and the catalogues are as they were.
LEMMA ApplierStep ==
  ASSUME PromotionInv, NEW a \in Appliers, Moved(a), TypeOK',
         UNCHANGED <<commits, head, tree, verified, wrote>>,
         \A w \in wrote : claimed'[Transaction(w.root, w.of)] = w.by /\ consumed'[w.of] = w.by,
         \A b \in Appliers \ {a} : Holding(b)',
         Holding(a)',
         job[a].at \in After => job'[a].at \in After,
         \A r \in receipts' : Founded(r.of)
  PROVE  PromotionInv'
<1>1. \A w \in wrote' : Owned(w)'
  <2> SUFFICES ASSUME NEW w \in wrote PROVE Owned(w)'
    OBVIOUS
  <2>1. Owned(w) /\ w.by \in Appliers
    BY WriteTyped DEF PromotionInv, ClaimInv
  <2>2. CASE w.by = a
    BY <2>1, <2>2 DEF Owned, After
  <2>3. CASE w.by # a
    BY <2>1, <2>3 DEF Owned, Moved
  <2> QED
    BY <2>2, <2>3
<1>2. \A p : Founded(p) => Founded(p)'
  BY DEF Founded
<1>3. DirtIsApproved'
  <2>1. ASSUME NEW r \in Roots, tree[r] # commits[head[r]]
        PROVE  \E w \in wrote : /\ w.root = r /\ tree[r] = Post(w.of) /\ consumed'[w.of] = w.by
                                 /\ claimed'[Transaction(r, w.of)] = w.by
    <3>1. PICK w \in wrote : w.root = r /\ tree[r] = Post(w.of)
      BY <2>1 DEF PromotionInv, DirtIsApproved
    <3> QED
      BY <3>1
  <2>2. \A v \in verified : Founded(v[2])'
    BY <1>2 DEF PromotionInv, DirtIsApproved, Founded
  <2> QED
    BY <2>1, <2>2 DEF DirtIsApproved, Founded, Post, Pre, Transaction
<1> QED
  BY <1>1, <1>2, <1>3 DEF PromotionInv, ClaimInv

\* The other appliers hold what they held, if the claims they have are kept.
LEMMA OthersHold ==
  ASSUME ClaimInv, NEW a \in Appliers, \A b \in Appliers \ {a} : job'[b] = job[b],
         \A t \in Transactions : claimed[t] # Nobody => claimed'[t] = claimed[t],
         \A p \in Promotions : consumed[p] # Nobody => consumed'[p] = consumed[p],
         wrote \subseteq wrote'
  PROVE  \A b \in Appliers \ {a} : Holding(b)'
<1> SUFFICES ASSUME NEW b \in Appliers \ {a} PROVE Holding(b)'
  OBVIOUS
<1>1. Holding(b) /\ job'[b] = job[b] /\ b # Nobody
  BY PromotionAssumption DEF ClaimInv
<1>2. job[b].at \in Working => Of(b) \in Promotions /\ Transaction(Root(b), Of(b)) \in Transactions
  BY RunningTyped DEF ClaimInv
<1> QED
  BY <1>1, <1>2 DEF Holding, Root, Of, Transaction, Working, Past

LEMMA WritesKept ==
  ASSUME ClaimInv,
         \A t \in Transactions : claimed[t] # Nobody => claimed'[t] = claimed[t],
         \A p \in Promotions : consumed[p] # Nobody => consumed'[p] = consumed[p]
  PROVE  \A w \in wrote : claimed'[Transaction(w.root, w.of)] = w.by /\ consumed'[w.of] = w.by
<1> SUFFICES ASSUME NEW w \in wrote
             PROVE  claimed'[Transaction(w.root, w.of)] = w.by /\ consumed'[w.of] = w.by
  OBVIOUS
<1>1. /\ claimed[Transaction(w.root, w.of)] = w.by /\ consumed[w.of] = w.by /\ w.by # Nobody
      /\ w.of \in Promotions /\ Transaction(w.root, w.of) \in Transactions
  BY WriteTyped, PromotionAssumption DEF ClaimInv, Owned
<1> QED
  BY <1>1

\* Steps that only move the applier on, short of its write.
LEMMA PlainStep ==
  ASSUME PromotionInv, NEW a \in Appliers,
         Inspect(a) \/ ReadTarget(a) \/ Die(a)
  PROVE  PromotionInv'
<1>1. ClaimInv /\ TypeOK /\ job[a].at \in Working
  BY DEF PromotionInv, ClaimInv, Inspect, ReadTarget, Die, At, Working
<1>2. \/ End(a)
      \/ job[a].at \in {"begun", "inspected"} /\ \E place \in {"inspected", "ready"} : Goto(a, place)
  BY DEF Inspect, ReadTarget, Die, At
<1>3. UNCHANGED <<git, stores, wrote>>
  BY DEF Inspect, ReadTarget, Die
<1>4. UNCHANGED <<commits, head, tree, other, promotions, approvals, claimed, consumed, receipts, verified, wrote>>
  BY <1>3 DEF git, stores
<1>6. /\ Moved(a) /\ job'[a].at \in {"inspected", "ready", "ended"}
      /\ job[a].at \in After => job'[a].at = "ended"
  <2>1. CASE End(a)
    BY <1>1, <2>1, EndMoves
  <2>2. CASE job[a].at \in {"begun", "inspected"} /\ \E place \in {"inspected", "ready"} : Goto(a, place)
    BY <1>1, <2>2, GotoMoves DEF Working, After, Past
  <2> QED
    BY <1>2, <2>1, <2>2
<1>7. TypeOK'
  BY <1>1, <1>4, <1>6 DEF TypeOK, Moved, Working
<1>8. Holding(a)'
  BY <1>6 DEF Holding, Past
<1>9. \A w \in wrote : claimed'[Transaction(w.root, w.of)] = w.by /\ consumed'[w.of] = w.by
  BY <1>1, <1>4, WritesKept
<1>10. \A b \in Appliers \ {a} : Holding(b)'
  BY <1>1, <1>4, <1>6, OthersHold DEF Moved
<1>11. job[a].at \in After => job'[a].at \in After
  BY <1>6 DEF After
<1>12. \A r \in receipts' : Founded(r.of)
  BY <1>1, <1>4 DEF ClaimInv
<1> QED
  BY <1>4, <1>6, <1>7, <1>8, <1>9, <1>10, <1>11, <1>12, ApplierStep

LEMMA BeginStep ==
  ASSUME PromotionInv, NEW a \in Appliers, NEW r \in Roots, NEW p \in promotions, Begin(a, r, p)
  PROVE  PromotionInv'
<1>1. ClaimInv /\ TypeOK /\ job[a].at = "idle" /\ p \in approvals /\ p \in Promotions
  BY DEF PromotionInv, ClaimInv, Begin, At, TypeOK
<1>2. UNCHANGED <<commits, head, tree, other, promotions, approvals, claimed, consumed, receipts, verified, wrote>>
  BY DEF Begin, git, stores
<1>3. PICK new \in Jobs : /\ job' = [job EXCEPT ![a] = new] /\ new.at \in {"begun", "ended"}
                          /\ new.at = "begun" => new.of = p
  <2> DEFINE begun == [at |-> "begun", root |-> r, of |-> p, seen |-> FALSE]
             ended == [at |-> "ended"]
  <2>1. begun \in Running /\ begun.at = "begun" /\ begun.of = p
    BY <1>1 DEF Running, Working
  <2>2. ended \in Jobs /\ ended.at = "ended"
    BY DEF Jobs
  <2>3. job' = [job EXCEPT ![a] = IF consumed[p] = Nobody THEN begun ELSE ended]
    BY DEF Begin
  <2> HIDE DEF begun, ended
  <2>4. begun \in Jobs
    BY <2>1 DEF Jobs
  <2> QED
    BY <2>1, <2>2, <2>3, <2>4
<1>4. /\ job' \in [Appliers -> Jobs] /\ job'[a] = new
      /\ \A b \in Appliers \ {a} : job'[b] = job[b]
  BY <1>1, <1>3 DEF TypeOK
<1>5. TypeOK'
  BY <1>1, <1>2, <1>3, <1>4 DEF TypeOK, Working
<1>6. \A b \in Appliers : Holding(b)'
  <2>1. Holding(a)'
    BY <1>3, <1>4 DEF Holding, Past
  <2> QED
    BY <2>1, <1>1, <1>2, <1>4, OthersHold
<1>7. \A w \in wrote' : Owned(w)'
  <2> SUFFICES ASSUME NEW w \in wrote PROVE Owned(w)'
    BY <1>2
  <2>1. Owned(w) /\ w.by \in Appliers
    BY <1>1, WriteTyped DEF ClaimInv
  <2>2. w.by # a
    BY <1>1, <2>1 DEF Owned, Past
  <2> QED
    BY <1>2, <1>4, <2>1, <2>2 DEF Owned, Transaction
<1>8. ClaimInv'
  BY <1>1, <1>2, <1>5, <1>6, <1>7 DEF ClaimInv, Founded
<1>9. DirtIsApproved'
  BY <1>2 DEF PromotionInv, DirtIsApproved, Post, Pre, Transaction
<1> QED
  BY <1>8, <1>9 DEF PromotionInv

LEMMA ClaimStep ==
  ASSUME PromotionInv, NEW a \in Appliers, ClaimTransaction(a) \/ ClaimApproval(a)
  PROVE  PromotionInv'
<1>1. ClaimInv /\ TypeOK /\ Holding(a) /\ job[a].at \in {"ready", "claimed"} /\ job[a].at \in Working
  BY DEF PromotionInv, ClaimInv, ClaimTransaction, ClaimApproval, At, Working
<1>2. UNCHANGED <<commits, head, tree, other, promotions, approvals, receipts, verified, wrote>>
  BY DEF ClaimTransaction, ClaimApproval, git
<1>3. /\ Of(a) \in Promotions /\ Transaction(Root(a), Of(a)) \in Transactions
  BY <1>1, RunningTyped
<1>4. /\ claimed' \in [Transactions -> Appliers \cup {Nobody}]
      /\ consumed' \in [Promotions -> Appliers \cup {Nobody}]
      /\ \A t \in Transactions : claimed[t] # Nobody => claimed'[t] = claimed[t]
      /\ \A p \in Promotions : consumed[p] # Nobody => consumed'[p] = consumed[p]
  BY <1>1, <1>3 DEF ClaimTransaction, ClaimApproval, TypeOK
<1>5. \/ End(a)
      \/ /\ Goto(a, "claimed") /\ job[a].at = "ready"
         /\ claimed' = [claimed EXCEPT ![Transaction(Root(a), Of(a))] = a]
      \/ /\ Goto(a, "consumed") /\ job[a].at = "claimed" /\ claimed' = claimed
         /\ consumed' = [consumed EXCEPT ![Of(a)] = a]
  BY DEF ClaimTransaction, ClaimApproval, At
<1>6. /\ Moved(a) /\ job'[a].at \in {"claimed", "consumed", "ended"}
      /\ job'[a].at = "claimed" => /\ claimed' = [claimed EXCEPT ![Transaction(Root(a), Of(a))] = a]
                                   /\ UNCHANGED <<Root(a), Of(a)>>
      /\ job'[a].at = "consumed" => /\ job[a].at = "claimed" /\ claimed' = claimed
                                    /\ consumed' = [consumed EXCEPT ![Of(a)] = a]
                                    /\ UNCHANGED <<Root(a), Of(a)>>
  <2>1. CASE End(a)
    BY <1>1, <2>1, EndMoves
  <2>2. ASSUME NEW place \in {"claimed", "consumed"}, Goto(a, place)
        PROVE  Moved(a) /\ job'[a].at = place /\ UNCHANGED <<Root(a), Of(a)>>
    BY <1>1, <2>2, GotoMoves DEF Working, Moved, Root, Of
  <2> QED
    BY <1>5, <2>1, <2>2
<1>7. TypeOK'
  <2>1. job'[a].at \in Working => job'[a].of \in approvals
    BY <1>1, <1>6, RunningTyped DEF Moved, Of, Working
  <2> QED
    BY <2>1, <1>1, <1>2, <1>4, <1>6 DEF TypeOK, Moved
<1>8. Holding(a)'
  <2>1. CASE job'[a].at = "claimed"
    BY <2>1, <1>1, <1>3, <1>6 DEF Holding, TypeOK, Transaction, Past
  <2>2. CASE job'[a].at = "consumed"
    BY <2>2, <1>1, <1>3, <1>6 DEF Holding, TypeOK, Transaction, Past
  <2>3. CASE job'[a].at = "ended"
    BY <2>3 DEF Holding, Past
  <2> QED
    BY <1>6, <2>1, <2>2, <2>3
<1>9. \A w \in wrote : claimed'[Transaction(w.root, w.of)] = w.by /\ consumed'[w.of] = w.by
  BY <1>1, <1>4, WritesKept
<1>10. \A b \in Appliers \ {a} : Holding(b)'
  BY <1>1, <1>2, <1>4, <1>6, OthersHold DEF Moved
<1>11. \A r \in receipts' : Founded(r.of)
  BY <1>1, <1>2 DEF ClaimInv
<1> QED
  BY <1>1, <1>2, <1>6, <1>7, <1>8, <1>9, <1>10, <1>11, ApplierStep DEF After, Past

\* The two looks at the result, and the receipt.
LEMMA RecordStep ==
  ASSUME PromotionInv, NEW a \in Appliers, ReadBack(a) \/ Decide(a) \/ WriteReceipt(a)
  PROVE  PromotionInv'
<1>1. ClaimInv /\ TypeOK /\ Holding(a) /\ job[a].at \in Past /\ job[a].at \in Working
  BY DEF PromotionInv, ClaimInv, ReadBack, Decide, WriteReceipt, At, Past, Working
<1>2. UNCHANGED <<commits, head, tree, other, promotions, approvals, claimed, consumed, verified, wrote>>
  BY DEF ReadBack, Decide, WriteReceipt, git, stores
<1>3. Of(a) \in approvals
  BY <1>1, RunningTyped
<1>4. Founded(Of(a))
  <2>1. [root |-> Root(a), of |-> Of(a), by |-> a] \in wrote /\ consumed[Of(a)] = a
    BY <1>1 DEF Holding
  <2> QED
    BY <2>1 DEF Founded
<1>5. /\ Moved(a) /\ job'[a].at \in After
      /\ receipts' \subseteq [of : approvals, outcome : {"APPLIED", "CHANGESET_INVALID"}]
      /\ \A r \in receipts' : Founded(r.of)
  <2>1. CASE ReadBack(a) \/ Decide(a)
    <3>1. PICK place \in {"readback", "decided"}, seen \in BOOLEAN :
             job' = [job EXCEPT ![a] = [job[a] EXCEPT !.at = place, !.seen = seen]]
      <4>1. CASE ReadBack(a)
        <5>1. PICK seen \in BOOLEAN : seen = (tree[Root(a)] = Post(Of(a)))
          OBVIOUS
        <5>2. job' = [job EXCEPT ![a] = [job[a] EXCEPT !.at = "readback", !.seen = seen]]
          BY <4>1, <5>1 DEF ReadBack
        <5> QED
          BY <5>2
      <4>2. CASE Decide(a)
        <5>1. PICK seen \in BOOLEAN : seen = (/\ job[a].seen /\ Root(a) \notin other
                                              /\ tree[Root(a)] # commits[head[Root(a)]])
          OBVIOUS
        <5>2. job' = [job EXCEPT ![a] = [job[a] EXCEPT !.at = "decided", !.seen = seen]]
          BY <4>2, <5>1 DEF Decide
        <5> QED
          BY <5>2
      <4> QED
        BY <2>1, <4>1, <4>2
    <3>2. Moved(a) /\ job'[a].at = place
      BY <1>1, <3>1, SeenMoves DEF Working
    <3>3. receipts' = receipts
      BY <2>1 DEF ReadBack, Decide, stores
    <3> QED
      BY <1>1, <3>2, <3>3 DEF After, Past, TypeOK, ClaimInv
  <2>2. CASE WriteReceipt(a)
    <3>1. End(a)
      BY <2>2 DEF WriteReceipt
    <3>2. Moved(a) /\ job'[a].at = "ended"
      BY <1>1, <3>1, EndMoves
    <3>3. Outcome(a) \in {"APPLIED", "CHANGESET_INVALID"}
      BY DEF Outcome
    <3>4. receipts' \subseteq receipts \cup {[of |-> Of(a), outcome |-> Outcome(a)]}
      BY <2>2 DEF WriteReceipt
    <3> QED
      BY <1>1, <1>3, <1>4, <3>2, <3>3, <3>4 DEF After, TypeOK, ClaimInv
  <2> QED
    BY <2>1, <2>2
<1>6. TypeOK'
  <2>1. job'[a].at \in Working => job'[a].of \in approvals
    BY <1>3, <1>5 DEF Moved, Of, Working
  <2> QED
    BY <2>1, <1>1, <1>2, <1>5 DEF TypeOK, Moved
<1>7. Holding(a)'
  BY <1>1, <1>2, <1>5 DEF Holding, Moved, Root, Of, After, Past, Transaction
<1>8. \A w \in wrote : claimed'[Transaction(w.root, w.of)] = w.by /\ consumed'[w.of] = w.by
  BY <1>1, <1>2, WritesKept
<1>9. \A b \in Appliers \ {a} : Holding(b)'
  BY <1>1, <1>2, <1>5, OthersHold DEF Moved
<1> QED
  BY <1>1, <1>2, <1>5, <1>6, <1>7, <1>8, <1>9, ApplierStep

\* The write itself: its clone then holds the approved postimage.
LEMMA WriteStep == ASSUME PromotionInv, NEW a \in Appliers, Write(a) PROVE PromotionInv'
<1> DEFINE new == [root |-> Root(a), of |-> Of(a), by |-> a]
<1>1. ClaimInv /\ TypeOK /\ Holding(a) /\ job[a].at = "consumed" /\ job[a].at \in Working
  BY DEF PromotionInv, ClaimInv, Write, At, Working
<1>2. UNCHANGED <<commits, head, other, promotions, approvals, claimed, consumed, receipts, verified>>
  BY DEF Write, stores
<1>3. Of(a) \in approvals /\ Root(a) \in Roots /\ Of(a) \in Promotions
  BY <1>1, RunningTyped
<1>4. claimed[Transaction(Root(a), Of(a))] = a /\ consumed[Of(a)] = a
  BY <1>1 DEF Holding
<1>5. CASE End(a) /\ UNCHANGED <<tree, wrote>>
  <2>1. Moved(a) /\ job'[a].at = "ended"
    BY <1>1, <1>5, EndMoves
  <2>2. TypeOK' /\ Holding(a)'
    BY <1>1, <1>2, <1>5, <2>1 DEF TypeOK, Moved, Holding, Past, Working
  <2>3. \A w \in wrote : claimed'[Transaction(w.root, w.of)] = w.by /\ consumed'[w.of] = w.by
    BY <1>1, <1>2, WritesKept
  <2>4. \A b \in Appliers \ {a} : Holding(b)'
    BY <1>1, <1>2, <1>5, <2>1, OthersHold DEF Moved
  <2> QED
    BY <1>1, <1>2, <1>5, <2>1, <2>2, <2>3, <2>4, ApplierStep DEF After, Past, ClaimInv
<1>6. CASE Goto(a, "written") /\ tree' = [tree EXCEPT ![Root(a)] = Post(Of(a))] /\ wrote' = wrote \cup {new}
  <2>1. Moved(a) /\ job'[a].at = "written" /\ Root(a)' = Root(a) /\ Of(a)' = Of(a)
    BY <1>1, <1>6, GotoMoves DEF Working, Moved, Root, Of
  <2>2. new \in wrote' /\ wrote \subseteq wrote' /\ new.root = Root(a) /\ new.of = Of(a) /\ new.by = a
    BY <1>6
  <2>3. Post(Of(a)) \in SUBSET Cases
    <3>1. Of(a).head \in 1..Len(commits) /\ CaseOf[Of(a).candidate] \in Cases
      <4>1. Of(a).head \in 1..MaxCommits /\ Of(a).head <= Len(commits) /\ Len(commits) \in Nat
        BY <1>1, <1>3, PromotionAssumption DEF Promotions, TypeOK
      <4> QED
        BY <4>1, <1>3, PromotionAssumption DEF Promotions
    <3>2. commits[Of(a).head] \in SUBSET Cases
      BY <3>1, <1>1, ElementOfSeq DEF TypeOK
    <3> QED
      BY <3>1, <3>2 DEF Post, Pre
  <2>4. tree' \in [Roots -> SUBSET Cases] /\ tree'[Root(a)] = Post(Of(a))
        /\ \A r \in Roots \ {Root(a)} : tree'[r] = tree[r]
    <3> HIDE DEF Post
    <3> QED
      BY <1>1, <1>3, <1>6, <2>3 DEF TypeOK
  <2>5. TypeOK'
    <3>1. wrote' \subseteq [root : Roots, of : approvals, by : Appliers]
      <4>1. new \in [root : Roots, of : approvals, by : Appliers]
        BY <1>3
      <4> HIDE DEF new
      <4> QED
        BY <4>1, <1>1, <1>6 DEF TypeOK
    <3>2. \A b \in Appliers : job'[b].at \in Working => job'[b].of \in approvals
      BY <1>1, <1>3, <2>1 DEF TypeOK, Moved, Of
    <3> QED
      BY <3>1, <3>2, <1>1, <1>2, <2>1, <2>4 DEF TypeOK, Moved
  <2>6. \A b \in Appliers : Holding(b)'
    <3>1. Holding(a)'
      BY <1>2, <1>4, <2>1, <2>2 DEF Holding, Transaction, Past
    <3> QED
      BY <3>1, <1>1, <1>2, <2>1, <2>2, OthersHold DEF Moved
  <2>7. \A w \in wrote' : Owned(w)'
    <3> PICK n : n = new
      OBVIOUS
    <3>0. n.root = Root(a) /\ n.of = Of(a) /\ n.by = a
      OBVIOUS
    <3> HIDE DEF new
    <3>1. \A w \in wrote : w.by # a
      BY <1>1 DEF ClaimInv, Owned, Past
    <3>2. \A w \in wrote' : w \in wrote \/ w = n
      BY <1>6
    <3>3. Owned(n)'
      <4>1. \A v \in wrote' : v.by = n.by => v = n
        BY <3>0, <3>1, <3>2
      <4> QED
        BY <4>1, <3>0, <1>2, <1>4, <2>1 DEF Owned, Transaction, Past
    <3>4. ASSUME NEW w \in wrote PROVE Owned(w)'
      <4>1. Owned(w) /\ w.by \in Appliers /\ w.by # a
        BY <1>1, <3>1, WriteTyped DEF ClaimInv
      <4>2. \A v \in wrote' : v.by = w.by => v = w
        BY <4>1, <3>0, <3>2 DEF Owned
      <4> QED
        BY <4>1, <4>2, <1>2, <2>1 DEF Owned, Moved, Transaction
    <3> QED
      BY <3>2, <3>3, <3>4
  <2>8. ClaimInv'
    <3>1. \A r \in receipts' : Founded(r.of)'
      BY <1>1, <1>2, <2>2 DEF ClaimInv, Founded
    <3> QED
      BY <2>5, <2>6, <2>7, <3>1 DEF ClaimInv
  <2>9. DirtIsApproved'
    <3>1. ASSUME NEW r \in Roots, tree'[r] # commits[head[r]]
          PROVE  \E w \in wrote' : /\ w.root = r /\ tree'[r] = Post(w.of) /\ consumed[w.of] = w.by
                                   /\ claimed[Transaction(r, w.of)] = w.by
      <4>1. CASE r = Root(a)
        BY <4>1, <1>4, <2>2, <2>4
      <4>2. CASE r # Root(a)
        BY <4>2, <3>1, <2>2, <2>4 DEF PromotionInv, DirtIsApproved
      <4> QED
        BY <4>1, <4>2
    <3>2. \A v \in verified : Founded(v[2])'
      BY <1>2, <2>2 DEF PromotionInv, DirtIsApproved, Founded
    <3> QED
      BY <3>1, <3>2, <1>2 DEF DirtIsApproved, Founded, Post, Pre, Transaction
  <2> QED
    BY <2>8, <2>9 DEF PromotionInv
<1> QED
  BY <1>5, <1>6 DEF Write

\* What holds of every reachable state: PromotionInv is inductive.
THEOREM PromotionInvariant == Spec => []PromotionInv
<1>1. PromotionInv /\ [Next]_vars => PromotionInv'
  <2> SUFFICES ASSUME PromotionInv, [Next]_vars PROVE PromotionInv'
    OBVIOUS
  <2>1. ASSUME NEW a \in Appliers, Apply(a) PROVE PromotionInv'
    BY <2>1, PlainStep, ClaimStep, WriteStep, RecordStep DEF Apply
  <2>2. ASSUME NEW r \in Roots, NEW c \in Candidates, Prepare(r, c) PROVE PromotionInv'
    BY <2>2, OwnerStep
  <2>3. ASSUME NEW r \in Roots, NEW p \in promotions, Approve(r, p) \/ Verify(r, p) PROVE PromotionInv'
    <3>1. p.candidate \in Candidates
      BY DEF PromotionInv, ClaimInv, TypeOK, Promotions
    <3> QED
      BY <2>3, <3>1, OwnerStep
  <2>4. ASSUME NEW r \in Roots, NEW h \in 1..Len(commits), Commit(r) \/ Checkout(r, h) \/ EditOther(r)
        PROVE  PromotionInv'
    BY <2>4, GitStep
  <2>5. 1 \in 1..Len(commits)
    BY DEF PromotionInv, ClaimInv, TypeOK
  <2>6. CASE UNCHANGED vars
    <3>1. UNCHANGED <<commits, head, tree, other, promotions, approvals, claimed, consumed, receipts, verified, job, wrote>>
      BY <2>6 DEF vars
    <3>2. TypeOK'
      BY <3>1 DEF PromotionInv, ClaimInv, TypeOK
    <3> QED
      BY <3>1, <3>2, NoApplierMoves DEF PromotionInv, ClaimInv, DirtIsApproved, Post, Pre, Transaction
  <2> QED
    BY <2>1, <2>2, <2>3, <2>4, <2>5, <2>6, BeginStep DEF Next
<1> QED
  BY <1>1, InitClaims, PTL DEF Spec

\* The type invariant of Promotion.
THEOREM TypeCorrect == Spec => []TypeOK
<1>1. PromotionInv => TypeOK
  BY DEF PromotionInv, ClaimInv
<1> QED
  BY <1>1, PromotionInvariant, PTL

\* An approval is written at most once, and so is a checkout of a commit: the
\* two one-shot claims of applyPromotion hold for every number of appliers.
THEOREM WrittenOnce == Spec => []OneWrite
<1>1. PromotionInv => OneWrite
  <2> SUFFICES ASSUME PromotionInv, NEW w \in wrote, NEW v \in wrote,
                      w.of = v.of \/ Transaction(w.root, w.of) = Transaction(v.root, v.of)
               PROVE  w = v
    BY DEF OneWrite
  <2>1. Owned(w) /\ Owned(v)
    BY DEF PromotionInv, ClaimInv
  <2>2. w.by = v.by
    BY <2>1 DEF Owned
  <2> QED
    BY <2>1, <2>2 DEF Owned
<1> QED
  BY <1>1, PromotionInvariant, PTL

\* What a dirty catalogue holds is one approved promotion, written by the
\* owner of both claims.
THEOREM DirtApproved == Spec => []DirtIsApproved
<1>1. PromotionInv => DirtIsApproved
  BY DEF PromotionInv
<1> QED
  BY <1>1, PromotionInvariant, PTL
==============================================================================
