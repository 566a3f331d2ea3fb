------------------------------ MODULE Promotion ------------------------------
(***************************************************************************)
(* The promotion of self-developed cases into the canonical catalogue: a   *)
(* promotion is prepared against a clean checkout, approved by the owner,  *)
(* applied at most once by a process that claims first the transaction and *)
(* then the approval, and verified before a person commits it.  Several    *)
(* appliers run at once, on several clones that share the private stores,  *)
(* and may die at any step, while the developers go on using git.          *)
(*                                                                         *)
(* A catalogue is its set of cases.  A candidate is a case with the        *)
(* session, the plan and the sandbox result that bring it up, so several   *)
(* may bring the same case; a promotion is identified by its candidate and *)
(* its commit, and an approval by its promotion.                           *)
(***************************************************************************)
EXTENDS Integers, Sequences

CONSTANTS Cases, Candidates,
          CaseOf,      \* the case of each candidate
          Roots, Appliers,
          MaxCommits,  \* bound: how many commits exist
          Nobody

ASSUME PromotionAssumption ==
    /\ MaxCommits \in Nat \ {0} /\ Nobody \notin Appliers
    /\ CaseOf \in [Candidates -> Cases]

VARIABLES commits,     \* the catalogue of each commit, of all the clones
          head,        \* each clone's HEAD
          tree,        \* the catalogue in each clone's working tree
          other,       \* clones with another file changed, staged or untracked
          promotions,  \* the store of prepared promotions
          approvals,   \* the promotions with an approval
          claimed,     \* who claimed each apply transaction
          consumed,    \* who consumed each approval
          receipts,    \* the receipts of applied promotions
          verified,    \* verifications: a clone and a promotion
          job,         \* what each applier works on and where it is
          wrote        \* history: the canonical writes

vars == <<commits, head, tree, other, promotions, approvals, claimed, consumed,
          receipts, verified, job, wrote>>
git == <<commits, head, tree, other>>
stores == <<promotions, approvals, claimed, consumed, receipts, verified>>

Promotions == [candidate : Candidates, head : 1..MaxCommits]

Pre(p) == commits[p.head]                       \* targetPreimageDigest
Post(p) == Pre(p) \cup {CaseOf[p.candidate]}  \* targetPostimageDigest

\* canonicalApplyTransactionIdFor: the checkout and its preimage, which its
\* HEAD determines; neither the approval nor the postimage.
Transactions == Roots \X (1..MaxCommits)
Transaction(r, p) == <<r, p.head>>

Working == {"begun", "inspected", "ready", "claimed", "consumed", "written", "readback", "decided"}
\* seen: the target held the approved postimage when it was read back, and
\* then, whether the change set was valid.  An applier that is refused, fails,
\* dies or is done has ended; what it reports is left out.
Running == [at : Working, root : Roots, of : Promotions, seen : BOOLEAN]
Jobs == Running \cup [at : {"idle", "ended"}]

TypeOK ==
    /\ commits \in Seq(SUBSET Cases) /\ Len(commits) \in 1..MaxCommits
    /\ head \in [Roots -> 1..Len(commits)]
    /\ tree \in [Roots -> SUBSET Cases]
    /\ other \subseteq Roots
    /\ promotions \subseteq {p \in Promotions : p.head <= Len(commits)}
    /\ approvals \subseteq promotions
    /\ claimed \in [Transactions -> Appliers \cup {Nobody}]
    /\ consumed \in [Promotions -> Appliers \cup {Nobody}]
    /\ receipts \subseteq [of : approvals, outcome : {"APPLIED", "CHANGESET_INVALID"}]
    /\ verified \subseteq Roots \X approvals
    /\ job \in [Appliers -> Jobs]
    /\ \A a \in Appliers : job[a].at \in Working => job[a].of \in approvals
    /\ wrote \subseteq [root : Roots, of : approvals, by : Appliers]

Init ==
    /\ commits \in UNION {[1..n -> SUBSET Cases] : n \in 1..MaxCommits}
    /\ \A i, j \in DOMAIN commits : i < j => commits[i] \subseteq commits[j] /\ commits[i] # commits[j]
    /\ head \in [Roots -> DOMAIN commits] /\ tree = [r \in Roots |-> commits[head[r]]] /\ other = {}
    /\ promotions = {} /\ approvals = {} /\ receipts = {} /\ verified = {}
    /\ claimed = [t \in Transactions |-> Nobody]
    /\ consumed = [p \in Promotions |-> Nobody]
    /\ job = [a \in Appliers |-> [at |-> "idle"]]
    /\ wrote = {}

\* assertRepositoryFullyClean
Clean(r) == tree[r] = commits[head[r]] /\ r \notin other

------------------------------------------------------------------------------
(* The owner. *)

Prepare(r, c) ==
    /\ Clean(r) /\ CaseOf[c] \notin tree[r]
    /\ promotions' = promotions \cup {[candidate |-> c, head |-> head[r]]}
    /\ UNCHANGED <<git, approvals, claimed, consumed, receipts, verified, job, wrote>>

Approve(r, p) ==
    /\ Clean(r) /\ head[r] = p.head
    /\ approvals' = approvals \cup {p}
    /\ UNCHANGED <<git, promotions, claimed, consumed, receipts, verified, job, wrote>>

\* verifyCanonicalPromotion.  The receipt does not name the clone.
Verify(r, p) ==
    /\ [of |-> p, outcome |-> "APPLIED"] \in receipts
    /\ head[r] = p.head
    /\ r \notin other /\ tree[r] # commits[head[r]]
    /\ tree[r] = Post(p)
    /\ verified' = verified \cup {<<r, p>>}
    /\ UNCHANGED <<git, promotions, approvals, claimed, consumed, receipts, job, wrote>>

------------------------------------------------------------------------------
(* The developers' git.  The catalogue itself is edited by appliers only. *)

Commit(r) ==
    /\ Len(commits) < MaxCommits /\ tree[r] # commits[head[r]]
    /\ commits' = Append(commits, tree[r])
    /\ head' = [head EXCEPT ![r] = Len(commits) + 1]
    /\ other' = other \ {r}
    /\ UNCHANGED <<tree, stores, job, wrote>>

\* A reset, a pull or a checkout; the working tree follows.
Checkout(r, h) ==
    /\ head' = [head EXCEPT ![r] = h]
    /\ tree' = [tree EXCEPT ![r] = commits[h]]
    /\ other' = other \ {r}
    /\ UNCHANGED <<commits, stores, job, wrote>>

EditOther(r) ==
    /\ r \notin other /\ other' = other \cup {r}
    /\ UNCHANGED <<commits, head, tree, stores, job, wrote>>

------------------------------------------------------------------------------
(* applyPromotion. *)

Goto(a, place) == job' = [job EXCEPT ![a].at = place]
End(a) == job' = [job EXCEPT ![a] = [at |-> "ended"]]
At(a, place) == job[a].at = place
Root(a) == job[a].root
Of(a) == job[a].of

\* The approval is read and must not be consumed; asked before the tree is
\* looked at, which a successful apply leaves dirty.
Begin(a, r, p) ==
    /\ At(a, "idle") /\ p \in approvals
    /\ job' = [job EXCEPT ![a] =
                 IF consumed[p] = Nobody
                 THEN [at |-> "begun", root |-> r, of |-> p, seen |-> FALSE] ELSE [at |-> "ended"]]
    /\ UNCHANGED <<git, stores, wrote>>

Inspect(a) ==
    /\ At(a, "begun")
    /\ IF Clean(Root(a)) /\ head[Root(a)] = Of(a).head
       THEN Goto(a, "inspected")
       ELSE End(a)
    /\ UNCHANGED <<git, stores, wrote>>

\* The target's bytes, and the catalogue loaded afresh with the case rendered
\* into it: the preimage, and the postimage that was approved.
ReadTarget(a) ==
    /\ At(a, "inspected")
    /\ IF tree[Root(a)] = Pre(Of(a)) THEN Goto(a, "ready") ELSE End(a)
    /\ UNCHANGED <<git, stores, wrote>>

\* claimApplyTransaction: an immutable file that cannot replace another; the
\* claim is refused, or fails.
ClaimTransaction(a) ==
    /\ At(a, "ready")
    /\ \/ /\ claimed[Transaction(Root(a), Of(a))] = Nobody
          /\ claimed' = [claimed EXCEPT ![Transaction(Root(a), Of(a))] = a]
          /\ Goto(a, "claimed")
       \/ End(a) /\ UNCHANGED claimed
    /\ UNCHANGED <<git, promotions, approvals, consumed, receipts, verified, wrote>>

\* Mutant: the consumption found free at the beginning is recorded.
ClaimApprovalUnchecked(a) ==
    /\ At(a, "claimed")
    /\ consumed' = [consumed EXCEPT ![Of(a)] = a]
    /\ Goto(a, "consumed")
    /\ UNCHANGED <<git, promotions, approvals, claimed, receipts, verified, wrote>>

\* claimApprovalConsumption.  Another clone's applier may have been first; the
\* transaction of this clone stays claimed then, as it does on a failure.
ClaimApproval(a) ==
    /\ At(a, "claimed")
    /\ \/ /\ consumed[Of(a)] = Nobody
          /\ consumed' = [consumed EXCEPT ![Of(a)] = a]
          /\ Goto(a, "consumed")
       \/ End(a) /\ UNCHANGED consumed
    /\ UNCHANGED <<git, promotions, approvals, claimed, receipts, verified, wrote>>

\* Mutant: the case is added to the catalogue that is there at the write.
WriteRenderedLate(a) ==
    /\ At(a, "consumed")
    /\ tree' = [tree EXCEPT ![Root(a)] = @ \cup {CaseOf[Of(a).candidate]}]
    /\ wrote' = wrote \cup {[root |-> Root(a), of |-> Of(a), by |-> a]}
    /\ Goto(a, "written")
    /\ UNCHANGED <<commits, head, other, stores>>

\* atomicWriteTarget: what counts is the rename.
Write(a) ==
    /\ At(a, "consumed")
    /\ \/ /\ tree' = [tree EXCEPT ![Root(a)] = Post(Of(a))]
          /\ wrote' = wrote \cup {[root |-> Root(a), of |-> Of(a), by |-> a]}
          /\ Goto(a, "written")
       \/ End(a) /\ UNCHANGED <<tree, wrote>>
    /\ UNCHANGED <<commits, head, other, stores>>

\* The target's bytes are read back, and then git is asked what has changed: the
\* target must be all.  People and appliers come in between.
ReadBack(a) ==
    /\ At(a, "written")
    /\ job' = [job EXCEPT ![a].at = "readback", ![a].seen = (tree[Root(a)] = Post(Of(a)))]
    /\ UNCHANGED <<git, stores, wrote>>

Decide(a) ==
    /\ At(a, "readback")
    /\ job' = [job EXCEPT ![a].at = "decided",
                          ![a].seen = @ /\ Root(a) \notin other /\ tree[Root(a)] # commits[head[Root(a)]]]
    /\ UNCHANGED <<git, stores, wrote>>

Outcome(a) == IF job[a].seen THEN "APPLIED" ELSE "CHANGESET_INVALID"

WriteReceipt(a) ==
    /\ At(a, "decided")
    /\ \/ /\ receipts' = receipts \cup {[of |-> Of(a), outcome |-> Outcome(a)]}
          /\ End(a)
       \/ End(a) /\ UNCHANGED receipts
    /\ UNCHANGED <<git, promotions, approvals, claimed, consumed, verified, wrote>>

Die(a) ==
    /\ job[a].at \in Working
    /\ End(a)
    /\ UNCHANGED <<git, stores, wrote>>

Apply(a) == \/ Inspect(a) \/ ReadTarget(a) \/ ClaimTransaction(a) \/ ClaimApproval(a)
            \/ Write(a) \/ ReadBack(a) \/ Decide(a) \/ WriteReceipt(a) \/ Die(a)

Next ==
    \/ \E r \in Roots :
          \/ \E c \in Candidates : Prepare(r, c)
          \/ \E p \in promotions : Approve(r, p) \/ Verify(r, p)
          \/ \E h \in 1..Len(commits) : Checkout(r, h)
          \/ Commit(r) \/ EditOther(r)
          \/ \E a \in Appliers, p \in promotions : Begin(a, r, p)
    \/ \E a \in Appliers : Apply(a)

Spec == Init /\ [][Next]_vars

------------------------------------------------------------------------------
\* One approval is written at most once, in whatever clone, and one checkout
\* of one commit is written at most once, under whatever approval, be it of
\* another case or of the same.
OneWrite ==
    \A w, v \in wrote :
        \/ w.of = v.of
        \/ Transaction(w.root, w.of) = Transaction(v.root, v.of)
        => w = v

\* What a dirty catalogue holds is one approved promotion, written by the
\* applier that owns both claims; it is never a mixture of two, though people
\* move the clones about while appliers are at work.  What was verified was
\* written by the owner of its approval.
DirtIsApproved ==
    /\ \A r \in Roots :
          tree[r] # commits[head[r]] =>
              \E w \in wrote : /\ w.root = r /\ tree[r] = Post(w.of)
                               /\ consumed[w.of] = w.by
                               /\ claimed[Transaction(r, w.of)] = w.by
    /\ \A v \in verified : \E w \in wrote : w.of = v[2] /\ consumed[w.of] = w.by
==============================================================================
