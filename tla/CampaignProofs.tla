---------------------------- MODULE CampaignProofs ----------------------------
(***************************************************************************)
(* Proofs about campaigns that are resumed from what they have written: of *)
(* the local campaign, for any policy, plan, costs and candidates and any  *)
(* number of processes that run it; then of the orchestrator, for any      *)
(* manifest, clusters and budgets and any number of deaths.                *)
(***************************************************************************)
EXTENDS LocalCampaign, CampaignOrchestrator, FiniteSetTheorems, SequenceTheorems, TLAPS

-----------------------------------------------------------------------------
(* The local campaign. *)

\* An absorbed investigation, and the reason it is counted under.
Slot == [reason : Reasons \ {"PAUSED"}, used : Usage, proved : SUBSET Candidates]
Credit(slot) == Attributed(slot.reason, slot.used)

\* f says what the first i of n investigations used.
IsTotals(f, history, n, d) ==
    f = [i \in 0..n |-> IF i = 0 THEN 0 ELSE f[i - 1] + history[i].used[d]]

\* There is such an f, and whichever it is, it ends in this total.
AddsUpTo(history, n, d, total) ==
    /\ \E f : IsTotals(f, history, n, d)
    /\ \A f : IsTotals(f, history, n, d) => f[n] = total

\* Counts and usage explain the first n investigations of a history: each is
\* counted, nothing else is, and what they used is their sum.
Accounts(history, counts, used, n) ==
    /\ n <= Len(history)
    /\ \A i \in 1..n : /\ counts[Credit(history[i])] > 0
                       /\ \A d \in Summed : history[i].used[d] <= used[d]
    /\ \A r \in Reasons \ {"PAUSED"} : counts[r] > 0 => \E i \in 1..n : Credit(history[i]) = r
    /\ used["tools"] > 0 => \E i \in 1..n : history[i].used["tools"] > 0
    /\ \A d \in Summed : AddsUpTo(history, n, d, used[d])

Typed == /\ TypeOK /\ slots \in Seq(Slot)
         /\ pc \in {"recording", "cleanup"} => closing \in [reason : Reasons, cleanup : BOOLEAN]

Within(used, candidates) == /\ \A d \in Counted : used[d] <= Policy[d]
                            /\ Cardinality(candidates) <= Policy["candidates"]

\* In memory and on disk.
Bounded == /\ Within(acc.used, acc.candidates)
           /\ stored # None => Within(stored.used, stored.candidates)

\* What the file says, and where a process with such a file may be.
File == /\ pc \in {"top", "settled"} => stored = None \/ stored.status = "PAUSED"
        /\ pc = "cleanup" => Admitted \subseteq findings
        /\ Finished => pc \in {"down", "recording"} /\ (pc = "recording" => ~closing.cleanup)

\* The history agrees with the accumulators and with the file, and is what
\* the file says once the process is gone or the campaign has ended.
History ==
    /\ \A i \in 1..Len(slots) : slots[i].reason \in Completing => slots[i].used["calls"] > 0
    /\ pc # "down" => acc.next = Len(slots) /\ Accounts(slots, acc.counts, acc.used, acc.next)
    /\ stored # None => Accounts(slots, stored.counts, stored.used, stored.next)
    /\ pc = "down" \/ Finished => Len(slots) = IF stored = None THEN 0 ELSE stored.next

CampaignInv == /\ Typed /\ Bounded /\ File /\ History
               /\ ProgressIsDurable /\ CompletionIsEarned

------------------------------------------------------------------------------
(* Sums: what a recursive definition computes of a history is maintained   *)
(* from step to step, since it cannot be derived by induction over it.     *)

\* The sum of no investigation.
LEMMA SumOfNone ==
  ASSUME NEW history, NEW d
  PROVE  AddsUpTo(history, 0, d, 0)
<1> DEFINE f == [i \in 0..0 |-> 0]
<1>1. \A i \in 0..0 : i = 0
  OBVIOUS
<1>2. f = [i \in 0..0 |-> IF i = 0 THEN 0 ELSE f[i - 1] + history[i].used[d]]
  BY <1>1
<1>3. IsTotals(f, history, 0, d)
  BY <1>2 DEF IsTotals
<1>4. ASSUME NEW g, IsTotals(g, history, 0, d)
      PROVE  g[0] = 0
  <2>1. 0 \in 0..0
    OBVIOUS
  <2> QED
    BY <1>4, <2>1 DEF IsTotals
<1> QED
  BY <1>3, <1>4 DEF AddsUpTo

\* A history that agrees on the summed investigations has the same sum.
LEMMA SumOfPrefix ==
  ASSUME NEW s, NEW t, NEW d, NEW n \in Nat, NEW total, AddsUpTo(s, n, d, total),
         \A i \in 1..n : t[i] = s[i]
  PROVE  AddsUpTo(t, n, d, total)
<1>1. \A i \in 0..n : i # 0 => i \in 1..n
  OBVIOUS
<1>2. ASSUME NEW f
      PROVE  IsTotals(f, s, n, d) <=> IsTotals(f, t, n, d)
  <2>1. \A i \in 0..n : (IF i = 0 THEN 0 ELSE f[i - 1] + s[i].used[d])
                           = (IF i = 0 THEN 0 ELSE f[i - 1] + t[i].used[d])
    BY <1>1
  <2> QED
    BY <2>1 DEF IsTotals
<1> QED
  BY <1>2 DEF AddsUpTo

\* One investigation more adds what it used.
LEMMA SumGrows ==
  ASSUME NEW s, NEW d, NEW n \in Nat, NEW total, AddsUpTo(s, n, d, total)
  PROVE  AddsUpTo(s, n + 1, d, total + s[n + 1].used[d])
<1>1. /\ \A i \in 0..n : i \in 0..(n + 1) /\ i # n + 1 /\ (i # 0 => i - 1 \in 0..n)
      /\ \A i \in 0..(n + 1) : i \in 0..n \/ i = n + 1
      /\ n + 1 \in 0..(n + 1) /\ n \in 0..n /\ (n + 1) - 1 = n /\ n + 1 # 0
  OBVIOUS
<1>2. PICK f : IsTotals(f, s, n, d)
  BY DEF AddsUpTo
<1>3. f[n] = total
  BY <1>2 DEF AddsUpTo
<1>4. \A i \in 0..n : f[i] = IF i = 0 THEN 0 ELSE f[i - 1] + s[i].used[d]
  BY <1>2 DEF IsTotals
<1> DEFINE g == [i \in 0..(n + 1) |-> IF i \in 0..n THEN f[i] ELSE total + s[n + 1].used[d]]
<1>5. /\ \A i \in 0..n : g[i] = f[i]
      /\ g[n + 1] = total + s[n + 1].used[d]
  <2>1. n + 1 \notin 0..n
    OBVIOUS
  <2> QED
    BY <1>1, <2>1
<1>6. g = [i \in 0..(n + 1) |-> g[i]]
  OBVIOUS
<1> HIDE DEF g
<1>7. \A i \in 0..(n + 1) : g[i] = IF i = 0 THEN 0 ELSE g[i - 1] + s[i].used[d]
  <2> SUFFICES ASSUME NEW i \in 0..(n + 1)
               PROVE  g[i] = IF i = 0 THEN 0 ELSE g[i - 1] + s[i].used[d]
    OBVIOUS
  <2>1. CASE i \in 0..n
    BY <1>1, <1>4, <1>5, <2>1
  <2>2. CASE i = n + 1
    BY <1>1, <1>3, <1>5, <2>2
  <2> QED
    BY <1>1, <2>1, <2>2
<1>8. IsTotals(g, s, n + 1, d)
  BY <1>6, <1>7 DEF IsTotals
<1>9. ASSUME NEW h, IsTotals(h, s, n + 1, d)
      PROVE  h[n + 1] = total + s[n + 1].used[d]
  <2>1. \A i \in 0..(n + 1) : h[i] = IF i = 0 THEN 0 ELSE h[i - 1] + s[i].used[d]
    BY <1>9 DEF IsTotals
  <2> DEFINE k == [i \in 0..n |-> h[i]]
  <2>2. \A i \in 0..n : k[i] = h[i]
    OBVIOUS
  <2>3. k = [i \in 0..n |-> k[i]]
    OBVIOUS
  <2> HIDE DEF k
  <2>4. \A i \in 0..n : k[i] = IF i = 0 THEN 0 ELSE k[i - 1] + s[i].used[d]
    BY <1>1, <2>1, <2>2
  <2>5. IsTotals(k, s, n, d)
    BY <2>3, <2>4 DEF IsTotals
  <2>6. k[n] = total
    BY <2>5 DEF AddsUpTo
  <2> QED
    BY <1>1, <2>1, <2>2, <2>6
<1> QED
  BY <1>8, <1>9 DEF AddsUpTo

\* The recursive definition computes it.
LEMMA TotalsIs ==
  ASSUME NEW history , NEW d, NEW total, AddsUpTo(history, Len(history), d, total)
  PROVE  Totals(history, d)[Len(history)] = total
<1>1. PICK f : IsTotals(f, history, Len(history), d)
  BY DEF AddsUpTo
<1>2. IsTotals(Totals(history, d), history, Len(history), d)
  BY <1>1 DEF IsTotals, Totals
<1> QED
  BY <1>2 DEF AddsUpTo

------------------------------------------------------------------------------
(* Usage, reasons and histories. *)

\* The dimensions, and what is known of a usage.
LEMMA UsageFacts ==
  /\ \A used \in Usage, d \in Dims : used[d] \in Nat
  /\ Counted \subseteq Dims /\ Summed \subseteq Dims /\ {"calls", "tools", "provider"} \subseteq Summed /\ Policy \in Usage /\ Costs \subseteq Usage
  /\ {"wall", "candidates", "consecutive", "calls", "tools", "provider"} \subseteq Dims
  /\ {"candidates", "consecutive"} \subseteq Counted /\ "wall" \notin Counted
  /\ NoUsage \in Usage /\ \A d \in Dims : NoUsage[d] = 0
BY CampaignAssumption DEF Usage, Dims, Counted, Summed, Bytes, NoUsage

\* A sum of natural numbers.
LEMMA LeastMost ==
  ASSUME NEW m \in Int, NEW n \in Int
  PROVE  /\ Least(m, n) \in Int /\ Most(m, n) \in Int /\ Most(m, n) >= m /\ Most(m, n) >= n
         /\ Least(m, n) \in {m, n} /\ Most(m, n) \in {m, n}
BY DEF Least, Most

\* Attribution keeps a reason, but for a budget its provider exhausted.
LEMMA AttributedFacts ==
  ASSUME NEW reason \in Reasons, NEW used
  PROVE  /\ Attributed(reason, used) \in Reasons
         /\ Attributed(reason, used) = reason
              \/ (reason = "BUDGET_EXHAUSTED" /\ Attributed(reason, used) = "REASONER_FAILURE")
BY DEF Attributed, Reasons

\* A history that agrees with another one on what was counted is explained by
\* the same counts.
LEMMA AccountsPrefix ==
  ASSUME NEW s, NEW t, NEW counts, NEW used, NEW n \in Nat, Accounts(s, counts, used, n),
         n <= Len(t), \A i \in 1..n : t[i] = s[i]
  PROVE  Accounts(t, counts, used, n)
<1>1. \A i \in 1..n : /\ counts[Credit(t[i])] > 0
                      /\ \A d \in Summed : t[i].used[d] <= used[d]
  BY DEF Accounts
<1>2. \A r \in Reasons \ {"PAUSED"} : counts[r] > 0 => \E i \in 1..n : Credit(t[i]) = r
  <2> SUFFICES ASSUME NEW r \in Reasons \ {"PAUSED"}, counts[r] > 0
               PROVE  \E i \in 1..n : Credit(t[i]) = r
    OBVIOUS
  <2>1. PICK i \in 1..n : Credit(s[i]) = r
    BY DEF Accounts
  <2> QED
    BY <2>1
<1>3. used["tools"] > 0 => \E i \in 1..n : t[i].used["tools"] > 0
  <2> SUFFICES ASSUME used["tools"] > 0 PROVE \E i \in 1..n : t[i].used["tools"] > 0
    OBVIOUS
  <2>1. PICK i \in 1..n : s[i].used["tools"] > 0
    BY DEF Accounts
  <2> QED
    BY <2>1
<1>4. \A d \in Summed : AddsUpTo(t, n, d, used[d])
  BY SumOfPrefix DEF Accounts
<1> QED
  BY <1>1, <1>2, <1>3, <1>4 DEF Accounts

\* One more investigation, counted under its reason and added to the usage.
LEMMA AccountsGrow ==
  ASSUME NEW s \in Seq(Slot), NEW x \in Slot, NEW c \in [Reasons -> Nat], NEW d \in [Reasons -> Nat],
         NEW u \in Usage, NEW v \in Usage, Accounts(s, c, u, Len(s)),
         \A r \in Reasons \ {"PAUSED"} : d[r] = c[r] + (IF r = Credit(x) THEN 1 ELSE 0),
         \A e \in Summed : v[e] = u[e] + x.used[e]
  PROVE  Accounts(Append(s, x), d, v, Len(s) + 1)
<1> DEFINE t == Append(s, x)
<1>1. /\ t \in Seq(Slot) /\ Len(t) = Len(s) + 1 /\ Len(s) \in Nat
      /\ (\A i \in 1..Len(s) : t[i] = s[i]) /\ t[Len(s) + 1] = x
  BY AppendProperties, LenProperties
<1> HIDE DEF t
<1>2. \A i \in 1..(Len(s) + 1) : i \in 1..Len(s) \/ i = Len(s) + 1
  BY <1>1
<1>3. Len(s) + 1 \in 1..(Len(s) + 1) /\ 1..Len(s) \subseteq 1..(Len(s) + 1)
  BY <1>1
<1>4. \A y \in Slot : Credit(y) \in Reasons \ {"PAUSED"} /\ y.used \in Usage
  BY AttributedFacts DEF Slot, Credit, Reasons
<1>5. \A i \in 1..Len(s) : s[i] \in Slot
  BY ElementOfSeq
<1>6. \A r \in Reasons : c[r] \in Nat /\ d[r] \in Nat
  OBVIOUS
<1>7. \A e \in Summed : u[e] \in Nat /\ v[e] \in Nat /\ x.used[e] \in Nat
                        /\ \A i \in 1..Len(s) : s[i].used[e] \in Nat
  BY <1>4, <1>5, UsageFacts
<1>8. \A i \in 1..(Len(s) + 1) : d[Credit(t[i])] > 0 /\ \A e \in Summed : t[i].used[e] <= v[e]
  <2> SUFFICES ASSUME NEW i \in 1..(Len(s) + 1)
               PROVE  d[Credit(t[i])] > 0 /\ \A e \in Summed : t[i].used[e] <= v[e]
    OBVIOUS
  <2>1. CASE i \in 1..Len(s)
    <3>1. c[Credit(s[i])] > 0 /\ \A e \in Summed : s[i].used[e] <= u[e]
      BY <2>1 DEF Accounts
    <3>2. Credit(s[i]) \in Reasons \ {"PAUSED"}
      BY <2>1, <1>4, <1>5
    <3>3. \A r \in Reasons \ {"PAUSED"} : d[r] >= c[r]
      BY <1>6
    <3>4. d[Credit(s[i])] > 0
      BY <3>1, <3>2, <3>3, <1>6
    <3>5. ASSUME NEW e \in Summed
          PROVE  s[i].used[e] <= v[e]
      <4>1. v[e] = u[e] + x.used[e] /\ s[i].used[e] <= u[e]
        BY <3>1
      <4> QED
        BY <1>7, <2>1, <4>1
    <3> QED
      BY <2>1, <1>1, <3>4, <3>5
  <2>2. CASE i = Len(s) + 1
    <3>1. Credit(x) \in Reasons \ {"PAUSED"}
      BY <1>4
    <3>2. d[Credit(x)] > 0
      BY <3>1, <1>6
    <3>3. \A e \in Summed : x.used[e] <= v[e]
      BY <1>7
    <3> QED
      BY <2>2, <1>1, <3>2, <3>3
  <2> QED
    BY <1>2, <2>1, <2>2
<1>9. \A r \in Reasons \ {"PAUSED"} : d[r] > 0 => \E i \in 1..(Len(s) + 1) : Credit(t[i]) = r
  <2> SUFFICES ASSUME NEW r \in Reasons \ {"PAUSED"}, d[r] > 0
               PROVE  \E i \in 1..(Len(s) + 1) : Credit(t[i]) = r
    OBVIOUS
  <2>1. CASE r = Credit(x)
    BY <2>1, <1>1, <1>3
  <2>2. CASE r # Credit(x)
    <3>1. c[r] > 0
      BY <2>2, <1>6
    <3>2. PICK i \in 1..Len(s) : Credit(s[i]) = r
      BY <3>1 DEF Accounts
    <3> QED
      BY <3>2, <1>1, <1>3
  <2> QED
    BY <2>1, <2>2
<1>10. v["tools"] > 0 => \E i \in 1..(Len(s) + 1) : t[i].used["tools"] > 0
  <2> SUFFICES ASSUME v["tools"] > 0 PROVE \E i \in 1..(Len(s) + 1) : t[i].used["tools"] > 0
    OBVIOUS
  <2>1. x.used["tools"] > 0 \/ u["tools"] > 0
    BY <1>7, UsageFacts
  <2>2. CASE x.used["tools"] > 0
    BY <2>2, <1>1, <1>3
  <2>3. CASE u["tools"] > 0
    <3>1. PICK i \in 1..Len(s) : s[i].used["tools"] > 0
      BY <2>3 DEF Accounts
    <3> QED
      BY <3>1, <1>1, <1>3
  <2> QED
    BY <2>1, <2>2, <2>3
<1>11. ASSUME NEW e \in Summed
       PROVE  AddsUpTo(t, Len(s) + 1, e, v[e])
  <2>1. AddsUpTo(t, Len(s), e, u[e])
    BY <1>1, SumOfPrefix DEF Accounts
  <2> QED
    BY <2>1, <1>1, SumGrows
<1> QED
  BY <1>1, <1>8, <1>9, <1>10, <1>11 DEF Accounts, t

------------------------------------------------------------------------------
(* What an investigation may return, and what absorbing it does. *)

LEMMA AllowanceFacts ==
  ASSUME Typed
  PROVE  /\ Allowance \in Usage /\ Base \in Usage
         /\ \A d \in Counted : Allowance[d] = Most(0, Policy[d] - CampaignUsage[d])
         /\ CampaignUsage \in Usage
         /\ \A d \in Counted \ {"candidates"} : CampaignUsage[d] = acc.used[d]
         /\ CampaignUsage["candidates"] = Cardinality(acc.candidates)
         /\ IsFiniteSet(acc.candidates) /\ Cardinality(acc.candidates) \in Nat
<1>1. acc.used \in Usage /\ acc.candidates \in SUBSET Candidates /\ wall \in Nat
      /\ (pending \in Suspension \cup {None})
  BY DEF Typed, TypeOK, Accumulators
<1>2. IsFiniteSet(acc.candidates) /\ Cardinality(acc.candidates) \in Nat
  BY <1>1, CampaignAssumption, FS_Subset, FS_CardinalityType
<1>3. /\ CampaignUsage \in Usage
      /\ \A d \in Counted \ {"candidates"} : CampaignUsage[d] = acc.used[d]
      /\ CampaignUsage["candidates"] = Cardinality(acc.candidates)
  BY <1>1, <1>2, UsageFacts DEF CampaignUsage, Usage
<1>4. \A d \in Dims : Most(0, Policy[d] - CampaignUsage[d]) \in Nat
  <2> SUFFICES ASSUME NEW d \in Dims PROVE Most(0, Policy[d] - CampaignUsage[d]) \in Nat
    OBVIOUS
  <2>1. Policy[d] \in Nat /\ CampaignUsage[d] \in Nat
    BY <1>3, UsageFacts
  <2> QED
    BY <2>1 DEF Most
<1>5. Allowance \in Usage /\ \A d \in Dims : Allowance[d] = Most(0, Policy[d] - CampaignUsage[d])
  BY <1>4 DEF Allowance, Usage
<1>6. Base \in Usage
  BY <1>1, UsageFacts DEF Base, Suspension
<1> QED
  BY <1>2, <1>3, <1>5, <1>6, UsageFacts

LEMMA RunFacts ==
  ASSUME Typed, NEW cost \in Costs, NEW reason \in ReasonsAfter(cost), NEW ran \in Runs(cost, reason)
  PROVE  /\ ran.used \in Usage /\ ran.reason \in Reasons /\ ran.evidence \in BOOLEAN
         /\ ran.candidates \in SUBSET Candidates /\ ran.proved \in SUBSET Candidates
         /\ \A d \in Counted : ran.used[d] <= Allowance[d]
         /\ Cardinality(ran.candidates) <= ran.used["candidates"]
         /\ ran.reason \in Completing => ran.used["calls"] > 0
<1>1. Base \in Usage /\ cost \in Usage
  BY AllowanceFacts, UsageFacts
<1> DEFINE sum == [d \in Dims |-> Base[d] + cost[d]]
<1>2. sum \in Usage /\ sum["calls"] = Base["calls"] + cost["calls"]
  BY <1>1, UsageFacts DEF Usage
<1>3. \A used \in {sum, [sum EXCEPT !.consecutive = cost.consecutive]} :
         used \in Usage /\ used["calls"] = sum["calls"]
  BY <1>1, <1>2, UsageFacts DEF Usage
<1>4. ran.used \in Charged(cost) /\ ran.reason = reason
  BY DEF Runs
<1>5. ran.used \in {sum, [sum EXCEPT !.consecutive = cost.consecutive]}
      /\ \A d \in Counted : ran.used[d] <= Allowance[d]
  BY <1>4 DEF Charged
<1>6. ran.used \in Usage /\ ran.used["calls"] = Base["calls"] + cost["calls"]
  BY <1>2, <1>3, <1>5
<1>7. reason \in Reasons /\ (reason \in Completing => cost.calls > 0)
  BY CampaignAssumption DEF ReasonsAfter, Reasons, Completing
<1>8. reason \in Completing => ran.used["calls"] > 0
  BY <1>1, <1>6, <1>7, UsageFacts
<1> QED
  BY <1>4, <1>5, <1>6, <1>7, <1>8 DEF Runs

\* The counts, and a pause that was retired.
LEMMA CountsFacts ==
  ASSUME Typed, NEW ran, ran.reason \in Reasons \ {"PAUSED"}
  PROVE  /\ CountsAfter(acc.counts, ran) \in [Reasons -> Nat]
         /\ \A r \in Reasons \ {"PAUSED"} :
               CountsAfter(acc.counts, ran)[r]
                 = acc.counts[r] + (IF r = Attributed(ran.reason, ran.used) THEN 1 ELSE 0)
<1> DEFINE counted == [acc.counts EXCEPT ![Attributed(ran.reason, ran.used)] = @ + 1]
<1>1. acc.counts \in [Reasons -> Nat]
  BY DEF Typed, TypeOK, Accumulators
<1>2. Attributed(ran.reason, ran.used) \in Reasons \ {"PAUSED"}
  BY AttributedFacts
<1>3. /\ counted \in [Reasons -> Nat]
      /\ \A r \in Reasons : counted[r] = acc.counts[r] + (IF r = Attributed(ran.reason, ran.used) THEN 1 ELSE 0)
  BY <1>1, <1>2
<1> HIDE DEF counted
<1>4. "PAUSED" \in Reasons /\ counted["PAUSED"] \in Nat
  BY <1>3 DEF Reasons
<1>5. CountsAfter(acc.counts, ran) = IF pending # None /\ counted["PAUSED"] > 0
                                     THEN [counted EXCEPT !["PAUSED"] = @ - 1] ELSE counted
  BY DEF CountsAfter, counted
<1>6. CASE pending # None /\ counted["PAUSED"] > 0
  <2>1. counted["PAUSED"] - 1 \in Nat
    BY <1>4, <1>6
  <2>2. CountsAfter(acc.counts, ran) = [counted EXCEPT !["PAUSED"] = counted["PAUSED"] - 1]
    BY <1>5, <1>6
  <2> QED
    BY <1>3, <2>1, <2>2
<1>7. CASE ~(pending # None /\ counted["PAUSED"] > 0)
  BY <1>3, <1>5, <1>7
<1> QED
  BY <1>6, <1>7

LEMMA AddedFacts ==
  ASSUME Typed, NEW ran, ran.used \in Usage
  PROVE  /\ Added(acc.used, ran) \in Usage
         /\ \A d \in Dims \ {"consecutive", "wall", "candidates"} :
               Added(acc.used, ran)[d] = acc.used[d] + ran.used[d]
         /\ Added(acc.used, ran)["candidates"] = 0
         /\ ran.reason # "REASONER_FAILURE" =>
               Added(acc.used, ran)["consecutive"]
                 \in {0, acc.used["consecutive"] + ran.used["consecutive"]}
<1>1. acc.used \in Usage
  BY DEF Typed, TypeOK, Accumulators
<1>2. \A d \in Dims : acc.used[d] \in Nat /\ ran.used[d] \in Nat
  BY <1>1, UsageFacts
<1>3. /\ StreakAfter(acc.used["consecutive"], ran) \in Nat
      /\ ran.reason # "REASONER_FAILURE" =>
            StreakAfter(acc.used["consecutive"], ran)
              \in {0, acc.used["consecutive"] + ran.used["consecutive"]}
  BY <1>2, UsageFacts DEF StreakAfter, Most
<1>4. \A d \in Dims :
        Added(acc.used, ran)[d] =
          CASE d = "consecutive"            -> StreakAfter(acc.used[d], ran)
            [] d \in {"wall", "candidates"} -> 0
            [] OTHER                        -> acc.used[d] + ran.used[d]
  BY DEF Added
<1>5. /\ Added(acc.used, ran)["consecutive"] = StreakAfter(acc.used["consecutive"], ran)
      /\ Added(acc.used, ran)["candidates"] = 0 /\ Added(acc.used, ran)["wall"] = 0
      /\ \A d \in Dims \ {"consecutive", "wall", "candidates"} :
               Added(acc.used, ran)[d] = acc.used[d] + ran.used[d]
  BY <1>4, UsageFacts
<1>6. \A d \in Dims : Added(acc.used, ran)[d] \in Nat
  <2> SUFFICES ASSUME NEW d \in Dims PROVE Added(acc.used, ran)[d] \in Nat
    OBVIOUS
  <2>1. CASE d \in {"consecutive", "wall", "candidates"}
    BY <2>1, <1>3, <1>5
  <2>2. CASE d \notin {"consecutive", "wall", "candidates"}
    BY <2>2, <1>2, <1>5
  <2> QED
    BY <2>1, <2>2
<1>7. Added(acc.used, ran) \in Usage
  <2>1. Added(acc.used, ran) = [d \in Dims |-> Added(acc.used, ran)[d]]
    BY DEF Added
  <2> QED
    BY <1>6, <2>1 DEF Usage
<1> QED
  BY <1>3, <1>5, <1>7

LEMMA AbsorbedTyped ==
  ASSUME Typed, NEW ran, ran.used \in Usage, ran.reason \in Reasons \ {"PAUSED"},
         ran.candidates \in SUBSET Candidates
  PROVE  /\ Absorbed(ran) \in Accumulators
         /\ Absorbed(ran).counts = CountsAfter(acc.counts, ran)
         /\ Absorbed(ran).used = Added(acc.used, ran)
         /\ Absorbed(ran).candidates = acc.candidates \cup ran.candidates
         /\ Absorbed(ran).next = acc.next + 1
<1>1. acc \in Accumulators
  BY DEF Typed, TypeOK
<1>2. CountsAfter(acc.counts, ran) \in [Reasons -> Nat] /\ Added(acc.used, ran) \in Usage
  BY CountsFacts, AddedFacts
<1>3. acc.candidates \cup ran.candidates \in SUBSET Candidates
  BY <1>1 DEF Accumulators
<1>4. Absorbed(ran) =
        [acc EXCEPT !.counts = CountsAfter(acc.counts, ran),
                    !.used = Added(acc.used, ran),
                    !.candidates = acc.candidates \cup ran.candidates,
                    !.started = IF pending = None THEN acc.started + 1 ELSE acc.started,
                    !.completed = acc.completed + 1,
                    !.next = acc.next + 1]
  BY DEF Absorbed
<1>5. /\ (IF pending = None THEN acc.started + 1 ELSE acc.started) \in Nat
      /\ acc.completed + 1 \in Nat /\ acc.next + 1 \in Nat
  BY <1>1 DEF Accumulators
<1> QED
  BY <1>1, <1>2, <1>3, <1>4, <1>5 DEF Accumulators

\* What every investigation is allowed is what the others left over.
LEMMA AbsorbedWithin ==
  ASSUME Typed, Bounded, NEW cost \in Costs, NEW reason \in ReasonsAfter(cost),
         NEW ran \in Runs(cost, reason), ran.reason # "PAUSED",
         ran.reason # "REASONER_FAILURE" \/ Conserved(Absorbed(ran))
  PROVE  Within(Absorbed(ran).used, Absorbed(ran).candidates)
<1>1. /\ ran.used \in Usage /\ ran.reason \in Reasons /\ ran.candidates \in SUBSET Candidates
      /\ \A d \in Counted : ran.used[d] <= Allowance[d]
      /\ Cardinality(ran.candidates) <= ran.used["candidates"]
  BY RunFacts
<1>2. /\ Absorbed(ran).used = Added(acc.used, ran)
      /\ Absorbed(ran).candidates = acc.candidates \cup ran.candidates
  BY <1>1, AbsorbedTyped
<1>3. CASE Conserved(Absorbed(ran))
  BY <1>3, UsageFacts DEF Conserved, Within
<1>4. CASE ran.reason # "REASONER_FAILURE"
  <2>1. /\ acc.used \in Usage /\ \A d \in Dims : Policy[d] \in Nat /\ acc.used[d] \in Nat /\ ran.used[d] \in Nat
    BY <1>1, UsageFacts DEF Typed, TypeOK, Accumulators
  <2>2. /\ \A d \in Counted \ {"candidates"} : ran.used[d] <= Policy[d] - acc.used[d]
        /\ ran.used["candidates"] <= Policy["candidates"] - Cardinality(acc.candidates)
        /\ Cardinality(acc.candidates) \in Nat /\ IsFiniteSet(acc.candidates)
    <3>1. /\ \A d \in Counted : Allowance[d] = Most(0, Policy[d] - CampaignUsage[d])
          /\ \A d \in Counted \ {"candidates"} : CampaignUsage[d] = acc.used[d]
          /\ CampaignUsage["candidates"] = Cardinality(acc.candidates)
          /\ Cardinality(acc.candidates) \in Nat /\ IsFiniteSet(acc.candidates)
      BY AllowanceFacts
    <3>2. \A d \in Counted : CampaignUsage[d] <= Policy[d] /\ CampaignUsage[d] \in Nat
      BY <2>1, <3>1, UsageFacts DEF Bounded, Within
    <3>3. \A d \in Counted : Allowance[d] = Policy[d] - CampaignUsage[d]
      <4> SUFFICES ASSUME NEW d \in Counted PROVE Allowance[d] = Policy[d] - CampaignUsage[d]
        OBVIOUS
      <4>1. CampaignUsage[d] <= Policy[d] /\ CampaignUsage[d] \in Nat /\ Policy[d] \in Nat
        BY <2>1, <3>2, UsageFacts
      <4> QED
        BY <3>1, <4>1 DEF Most
    <3> QED
      BY <1>1, <3>1, <3>3, UsageFacts
  <2>3. \A d \in Counted : Added(acc.used, ran)[d] <= Policy[d]
    <3> SUFFICES ASSUME NEW d \in Counted PROVE Added(acc.used, ran)[d] <= Policy[d]
      OBVIOUS
    <3>1. /\ \A e \in Dims \ {"consecutive", "wall", "candidates"} :
                Added(acc.used, ran)[e] = acc.used[e] + ran.used[e]
          /\ Added(acc.used, ran)["candidates"] = 0
          /\ Added(acc.used, ran)["consecutive"]
                 \in {0, acc.used["consecutive"] + ran.used["consecutive"]}
      BY <1>1, <1>4, AddedFacts
    <3>2. d \in Dims /\ d # "wall"
      BY UsageFacts
    <3>3. CASE d = "candidates"
      BY <2>1, <3>1, <3>2, <3>3
    <3>4. CASE d = "consecutive"
      BY <2>1, <2>2, <3>1, <3>2, <3>4
    <3>5. CASE d \notin {"candidates", "consecutive"}
      <4>1. Added(acc.used, ran)[d] = acc.used[d] + ran.used[d] /\ ran.used[d] <= Policy[d] - acc.used[d]
        BY <2>2, <3>1, <3>2, <3>5
      <4> QED
        BY <2>1, <3>2, <4>1
    <3> QED
      BY <3>3, <3>4, <3>5
  <2>4. Cardinality(acc.candidates \cup ran.candidates) <= Policy["candidates"]
    <3>1. IsFiniteSet(ran.candidates) /\ Cardinality(ran.candidates) \in Nat
      BY <1>1, CampaignAssumption, FS_Subset, FS_CardinalityType
    <3>2. IsFiniteSet(acc.candidates \cap ran.candidates)
          /\ Cardinality(acc.candidates \cap ran.candidates) \in Nat
      BY <3>1, FS_Subset, FS_CardinalityType
    <3>3. Cardinality(acc.candidates \cup ran.candidates)
            = Cardinality(acc.candidates) + Cardinality(ran.candidates)
                - Cardinality(acc.candidates \cap ran.candidates)
      BY <2>2, <3>1, FS_Union
    <3> QED
      BY <1>1, <2>1, <2>2, <3>1, <3>2, <3>3, UsageFacts
  <2> QED
    BY <1>2, <2>3, <2>4 DEF Within
<1> QED
  BY <1>3, <1>4

------------------------------------------------------------------------------
(* The steps. *)

\* The checkpoint written of accumulators.
LEMMA DocumentFacts ==
  ASSUME NEW a \in Accumulators, NEW time \in Nat, NEW status \in {"PAUSED", "TERMINATED"},
         NEW reason \in Reasons, NEW paused \in Suspension \cup {None},
         NEW file, file = Document(a, time, status, reason, paused)
  PROVE  /\ file \in Doc /\ file # None
         /\ file.status = status /\ file.reason = reason /\ file.next = a.next /\ file.counts = a.counts
         /\ file.used = a.used /\ file.candidates = a.candidates
<1>1. file \in Doc
  BY DEF Document, Doc, Accumulators
<1> QED
  BY <1>1, CampaignAssumption DEF Document

\* What a slot's place in the history says.
LEMMA SlotsFacts ==
  ASSUME Typed
  PROVE  /\ Len(slots) \in Nat /\ \A i \in 1..Len(slots) : slots[i] \in Slot
         /\ DOMAIN slots = 1..Len(slots)
BY LenProperties, ElementOfSeq DEF Typed

LEMMA FreshTyped == Fresh \in Accumulators /\ Within(Fresh.used, Fresh.candidates)
<1>1. Fresh \in Accumulators /\ Fresh.used = NoUsage /\ Fresh.candidates = {}
  BY UsageFacts DEF Fresh, Accumulators
<1>2. Cardinality({}) = 0
  BY FS_EmptySet
<1>3. \A d \in Dims : Policy[d] \in Nat /\ NoUsage[d] = 0
  BY UsageFacts
<1> QED
  BY <1>1, <1>2, <1>3, UsageFacts DEF Within

\* The process goes, however far it had come: the history is cut to what the
\* file says.
LEMMA GoneStep ==
  ASSUME CampaignInv, Gone, findings' \subseteq Candidates, outcome' \in Reasons \cup {None},
         \/ stored' \in {stored, None}
         \/ /\ stored' \in Doc /\ Within(stored'.used, stored'.candidates)
            /\ Accounts(slots, stored'.counts, stored'.used, stored'.next)
            /\ stored'.reason \notin Completing
  PROVE  CampaignInv'
<1>1. Typed /\ TypeOK /\ Bounded /\ History /\ CompletionIsEarned
  BY DEF CampaignInv, Typed
<1>2. /\ pc' = "down" /\ acc' = Fresh /\ wall' = 0 /\ pending' = None /\ receipts' = {}
      /\ pauseAsked' = FALSE /\ last' = None /\ closing' = None /\ plan' = plan /\ starts' = starts
      /\ slots' = IF stored' = None THEN <<>> ELSE SubSeq(slots, 1, stored'.next)
  BY DEF Gone
<1>3. stored' \in Doc \cup {None}
  BY <1>1 DEF TypeOK
<1>4. stored' # None => Accounts(slots, stored'.counts, stored'.used, stored'.next)
  BY <1>1 DEF History
<1>5. /\ slots \in Seq(Slot) /\ Len(slots) \in Nat /\ \A i \in 1..Len(slots) : slots[i] \in Slot
  BY <1>1, SlotsFacts DEF Typed
<1>6. /\ slots' \in Seq(Slot)
      /\ Len(slots') = IF stored' = None THEN 0 ELSE stored'.next
      /\ \A i \in 1..Len(slots') : i \in 1..Len(slots) /\ slots'[i] = slots[i]
  <2>1. CASE stored' = None
    <3>1. slots' = <<>>
      BY <1>2, <2>1
    <3>2. slots' \in Seq(Slot) /\ Len(slots') = 0
      BY <3>1, EmptySeq
    <3> QED
      BY <2>1, <3>2
  <2>2. CASE stored' # None
    <3>1. stored'.next \in Nat /\ stored'.next <= Len(slots)
      BY <1>3, <1>4, <2>2 DEF Doc, Accounts
    <3>2. \A i \in 1..stored'.next : slots[i] \in Slot /\ i \in 1..Len(slots)
      BY <1>5, <3>1
    <3>3. slots' = SubSeq(slots, 1, stored'.next)
      BY <1>2, <2>2
    <3>4. /\ slots' \in Seq(Slot)
          /\ Len(slots') = IF 1 <= stored'.next THEN stored'.next - 1 + 1 ELSE 0
          /\ \A i \in 1..(stored'.next - 1 + 1) : slots'[i] = slots[1 + i - 1]
      BY <3>1, <3>2, <3>3, SubSeqProperties
    <3>5. Len(slots') = stored'.next
      BY <3>1, <3>4
    <3>6. \A i \in 1..stored'.next : slots'[i] = slots[i]
      BY <3>1, <3>4
    <3> QED
      BY <2>2, <3>2, <3>4, <3>5, <3>6
  <2> QED
    BY <2>1, <2>2
<1>7. Typed'
  BY <1>1, <1>2, <1>3, <1>6, FreshTyped DEF Typed, TypeOK
<1>8. Bounded'
  BY <1>1, <1>2, FreshTyped DEF Bounded
<1>9. File'
  BY <1>2 DEF File, Finished
<1>10. History'
  <2>1. \A i \in 1..Len(slots') : slots'[i].reason \in Completing => slots'[i].used["calls"] > 0
    BY <1>1, <1>6 DEF History
  <2>2. stored' # None => Accounts(slots', stored'.counts, stored'.used, stored'.next)
    <3> SUFFICES ASSUME stored' # None
                 PROVE  Accounts(slots', stored'.counts, stored'.used, stored'.next)
      OBVIOUS
    <3>1. Len(slots') = stored'.next /\ stored'.next \in Nat
      BY <1>3, <1>6 DEF Doc
    <3> QED
      BY <1>4, <1>6, <3>1, AccountsPrefix
  <2> QED
    BY <1>2, <1>6, <2>1, <2>2 DEF History
<1>11. ProgressIsDurable'
  BY <1>2 DEF ProgressIsDurable
<1>12. CompletionIsEarned'
  <2> SUFFICES ASSUME Finished', stored'.reason \in Completing
               PROVE  CompletionIsEarned'
    BY DEF CompletionIsEarned
  <2>1. stored' = stored /\ stored # None /\ Finished
    BY DEF Finished
  <2>2. Len(slots) = stored.next
    BY <1>1, <2>1 DEF History
  <2>3. slots' = slots
    BY <1>2, <1>5, <2>1, <2>2, SubSeqFull
  <2> QED
    BY <1>1, <1>2, <2>1, <2>3 DEF CompletionIsEarned, Clean
<1> QED
  BY <1>7, <1>8, <1>9, <1>10, <1>11, <1>12 DEF CampaignInv

\* The steps that end the process.
LEMMA EndSteps ==
  ASSUME CampaignInv, Kill \/ StopExhausted \/ Cleanup \/ \E cost \in Costs : Overspend(cost)
  PROVE  CampaignInv'
<1>1. Typed /\ TypeOK /\ Bounded /\ History
  BY DEF CampaignInv, Typed
<1>2. findings \subseteq Candidates /\ outcome \in Reasons \cup {None} /\ acc \in Accumulators /\ wall \in Nat
  BY <1>1 DEF TypeOK
<1>3. CASE Kill \/ \E cost \in Costs : Overspend(cost)
  BY <1>2, <1>3, GoneStep DEF Kill, Overspend
<1>4. CASE StopExhausted
  <2>1. /\ Gone /\ findings' = findings /\ outcome' = Attributed("BUDGET_EXHAUSTED", acc.used)
        /\ stored' = Document(acc, wall, "TERMINATED", "BUDGET_EXHAUSTED", None) /\ pc = "top"
    BY <1>4 DEF StopExhausted, Publish
  <2>2. "BUDGET_EXHAUSTED" \in Reasons
    BY DEF Reasons
  <2>3. outcome' \in Reasons
    BY <2>1, <2>2, AttributedFacts
  <2>4. /\ stored' \in Doc /\ stored'.reason = "BUDGET_EXHAUSTED" /\ stored'.next = acc.next
        /\ stored'.counts = acc.counts /\ stored'.used = acc.used /\ stored'.candidates = acc.candidates
    BY <1>2, <2>1, <2>2, DocumentFacts
  <2>5. Accounts(slots, acc.counts, acc.used, acc.next) /\ Within(acc.used, acc.candidates)
    BY <1>1, <2>1 DEF History, Bounded
  <2> QED
    BY <1>2, <2>1, <2>3, <2>4, <2>5, GoneStep DEF Completing
<1>5. CASE Cleanup
  <2>1. closing.reason \in Reasons
    BY <1>1, <1>5 DEF Cleanup, Typed
  <2>2. outcome' \in Reasons
    BY <1>5, <2>1, AttributedFacts DEF Cleanup
  <2> QED
    BY <1>2, <1>5, <2>2, GoneStep DEF Cleanup
<1> QED
  BY <1>3, <1>4, <1>5

\* The findings are written, and the file goes or stays.
LEMMA PersistStep ==
  ASSUME CampaignInv, NEW kept \in SUBSET Candidates, PersistAdmissions(kept)
  PROVE  CampaignInv'
<1>1. Typed /\ TypeOK
  BY DEF CampaignInv, Typed
<1>2. findings' \subseteq Candidates /\ findings' = findings \cup kept /\ stored' = stored /\ pc = "recording"
  BY <1>1 DEF PersistAdmissions, TypeOK
<1>3. CASE ~CleanupDue(kept)
  <2>1. outcome' = Attributed(closing.reason, acc.used) /\ Gone
    BY <1>3 DEF PersistAdmissions
  <2>2. closing.reason \in Reasons
    BY <1>1, <1>2 DEF Typed
  <2>3. outcome' \in Reasons
    BY <2>1, <2>2, AttributedFacts
  <2> QED
    BY <1>2, <2>1, <2>3, GoneStep
<1>4. CASE CleanupDue(kept)
  <2>1. pc' = "cleanup" /\ UNCHANGED <<outcome, closing, plan, memory, last, starts, slots, stored>>
    BY <1>2, <1>4 DEF PersistAdmissions
  <2>2. UNCHANGED <<outcome, closing, plan, acc, wall, pending, receipts, pauseAsked, last, starts, slots, stored>>
    BY <2>1 DEF memory
  <2>3. kept = Admitted /\ closing.cleanup
    BY <1>4 DEF CleanupDue
  <2>4. Typed'
    BY <1>1, <1>2, <2>1, <2>2 DEF Typed, TypeOK
  <2>5. ~Finished
    BY <1>2, <2>3 DEF CampaignInv, File
  <2>6. File'
    BY <1>2, <2>1, <2>2, <2>3, <2>5 DEF File, Admitted, Finished
  <2>7. Bounded'
    BY <2>2 DEF CampaignInv, Bounded
  <2>8. History'
    BY <1>2, <2>1, <2>2, <2>5 DEF CampaignInv, History, Finished
  <2>9. ProgressIsDurable' /\ CompletionIsEarned'
    BY <2>1, <2>2, <2>5 DEF CampaignInv, ProgressIsDurable, CompletionIsEarned, Finished
  <2> QED
    BY <2>4, <2>6, <2>7, <2>8, <2>9 DEF CampaignInv
<1> QED
  BY <1>3, <1>4

\* A process begins, or the outcome of an ended campaign is told.
LEMMA StartSteps ==
  ASSUME CampaignInv, FreshRun \/ ResumeRun \/ ResumeFinished
  PROVE  CampaignInv'
<1>1. Typed /\ TypeOK /\ Bounded /\ File /\ History /\ ProgressIsDurable /\ CompletionIsEarned
  BY DEF CampaignInv, Typed
<1>2. /\ pc = "down" /\ starts < MaxStarts /\ starts' = starts + 1
      /\ UNCHANGED <<receipts, pauseAsked, last, closing, findings>>
  BY DEF FreshRun, ResumeRun, ResumeFinished, Process
<1>3. starts' \in 0..MaxStarts
  BY <1>1, <1>2, CampaignAssumption DEF TypeOK
<1>4. CASE FreshRun
  <2>1. /\ plan' \in Plans /\ stored' = None /\ acc' = Fresh /\ wall' = 0 /\ pending' = None
        /\ pc' = "top" /\ outcome' = None /\ slots' = <<>>
    BY <1>4 DEF FreshRun
  <2>2. slots' \in Seq(Slot) /\ Len(slots') = 0
    BY <2>1, EmptySeq
  <2>3. Typed'
    BY <1>1, <1>2, <1>3, <2>1, <2>2, FreshTyped DEF Typed, TypeOK
  <2>4. Bounded' /\ File' /\ ProgressIsDurable' /\ CompletionIsEarned'
    BY <2>1, FreshTyped DEF Bounded, File, Finished, ProgressIsDurable, CompletionIsEarned, Fresh
  <2>5. /\ Fresh.next = 0 /\ Fresh.used = NoUsage /\ (\A r \in Reasons : Fresh.counts[r] = 0)
        /\ NoUsage["tools"] = 0 /\ \A d \in Summed : NoUsage[d] = 0
    BY UsageFacts DEF Fresh
  <2>6. Accounts(slots', Fresh.counts, Fresh.used, 0)
    BY <2>2, <2>5, SumOfNone DEF Accounts
  <2>7. History'
    BY <2>1, <2>2, <2>5, <2>6 DEF History, Finished
  <2> QED
    BY <2>3, <2>4, <2>7 DEF CampaignInv
<1>5. CASE ResumeRun
  <2>1. /\ stored # None /\ stored.status = "PAUSED" /\ acc' = Seed(stored) /\ wall' = stored.wall
        /\ pending' = stored.paused /\ pc' = "top" /\ outcome' = None /\ UNCHANGED <<plan, stored, slots>>
    BY <1>5 DEF ResumeRun
  <2>2. stored \in Doc
    BY <1>1, <2>1 DEF TypeOK
  <2>3. /\ Seed(stored) \in Accumulators /\ Seed(stored).next = stored.next
        /\ Seed(stored).counts = stored.counts /\ Seed(stored).used = stored.used
        /\ Seed(stored).candidates = stored.candidates
    BY <2>2 DEF Seed, Doc, Accumulators
  <2>4. stored.wall \in Nat /\ stored.paused \in Suspension \cup {None}
    BY <2>2 DEF Doc
  <2>5. Typed'
    BY <1>1, <1>2, <1>3, <2>1, <2>3, <2>4 DEF Typed, TypeOK
  <2>6. Bounded' /\ File' /\ ProgressIsDurable' /\ CompletionIsEarned'
    BY <1>1, <2>1, <2>3 DEF Bounded, File, Finished, ProgressIsDurable, CompletionIsEarned
  <2>7. History'
    BY <1>1, <1>2, <2>1, <2>3 DEF History, Finished
  <2> QED
    BY <2>5, <2>6, <2>7 DEF CampaignInv
<1>6. CASE ResumeFinished
  <2>1. /\ stored # None /\ outcome' = ResumedReason(stored)
        /\ UNCHANGED <<pc, plan, acc, wall, pending, stored, slots>>
    BY <1>6 DEF ResumeFinished
  <2>2. stored.reason \in Reasons
    BY <1>1, <2>1 DEF TypeOK, Doc
  <2>3. outcome' \in Reasons
    BY <2>1, <2>2, AttributedFacts DEF ResumedReason
  <2>4. Typed'
    BY <1>1, <1>2, <1>3, <2>1, <2>3 DEF Typed, TypeOK
  <2>5. Bounded' /\ File' /\ ProgressIsDurable' /\ History'
    BY <1>1, <1>2, <2>1 DEF Bounded, File, Finished, ProgressIsDurable, History, Admitted
  <2>6. CompletionIsEarned'
    BY <1>1, <2>1 DEF CompletionIsEarned, Finished, Clean
  <2> QED
    BY <2>4, <2>5, <2>6 DEF CampaignInv
<1> QED
  BY <1>4, <1>5, <1>6

\* An absorbed investigation takes its place in the history.
LEMMA AbsorbFacts ==
  ASSUME CampaignInv, pc = "top", NEW cost \in Costs, NEW reason \in ReasonsAfter(cost),
         NEW ran \in Runs(cost, reason), ran.reason # "PAUSED", Absorb(ran)
  PROVE  /\ acc' = Absorbed(ran) /\ acc' \in Accumulators /\ pending' = None
         /\ slots' \in Seq(Slot) /\ acc'.next = Len(slots')
         /\ Accounts(slots', acc'.counts, acc'.used, acc'.next)
         /\ \A i \in 1..Len(slots') : slots'[i].reason \in Completing => slots'[i].used["calls"] > 0
         /\ stored # None => Accounts(slots', stored.counts, stored.used, stored.next)
<1>1. Typed /\ TypeOK /\ History
  BY DEF CampaignInv, Typed
<1>2. /\ ran.used \in Usage /\ ran.reason \in Reasons /\ ran.candidates \in SUBSET Candidates
      /\ ran.proved \in SUBSET Candidates /\ (ran.reason \in Completing => ran.used["calls"] > 0)
  BY <1>1, RunFacts
<1> DEFINE slot == [reason |-> ran.reason, used |-> ran.used, proved |-> ran.proved]
<1>3. slot \in Slot /\ Credit(slot) = Attributed(ran.reason, ran.used) /\ slot.used = ran.used
      /\ slot.reason = ran.reason
  BY <1>2 DEF Slot, Credit
<1>4. acc' = Absorbed(ran) /\ pending' = None /\ slots' = Append(slots, slot)
  BY DEF Absorb
<1> HIDE DEF slot
<1>5. /\ acc' \in Accumulators /\ acc'.counts = CountsAfter(acc.counts, ran)
      /\ acc'.used = Added(acc.used, ran) /\ acc'.next = acc.next + 1
  BY <1>1, <1>2, <1>4, AbsorbedTyped
<1>6. acc.counts \in [Reasons -> Nat] /\ acc.used \in Usage /\ acc.next = Len(slots)
      /\ Accounts(slots, acc.counts, acc.used, Len(slots))
  BY <1>1 DEF TypeOK, Accumulators, History
<1>7. /\ slots \in Seq(Slot) /\ slots' \in Seq(Slot) /\ Len(slots') = Len(slots) + 1
      /\ (\A i \in 1..Len(slots) : slots'[i] = slots[i]) /\ slots'[Len(slots) + 1] = slot
      /\ Len(slots) \in Nat
  BY <1>1, <1>3, <1>4, AppendProperties, SlotsFacts DEF Typed
<1>8. Accounts(slots', acc'.counts, acc'.used, acc'.next)
  <2>1. /\ CountsAfter(acc.counts, ran) \in [Reasons -> Nat]
        /\ \A r \in Reasons \ {"PAUSED"} :
              CountsAfter(acc.counts, ran)[r] = acc.counts[r] + (IF r = Credit(slot) THEN 1 ELSE 0)
    BY <1>1, <1>2, <1>3, CountsFacts
  <2>2. /\ Added(acc.used, ran) \in Usage
        /\ \A d \in Summed : Added(acc.used, ran)[d] = acc.used[d] + slot.used[d]
    BY <1>1, <1>2, <1>3, AddedFacts, UsageFacts DEF Summed
  <2> QED
    BY <1>3, <1>4, <1>5, <1>6, <1>7, <2>1, <2>2, AccountsGrow
<1>9. \A i \in 1..Len(slots') : slots'[i].reason \in Completing => slots'[i].used["calls"] > 0
  <2>1. \A i \in 1..Len(slots') : i \in 1..Len(slots) \/ i = Len(slots) + 1
    BY <1>7
  <2> QED
    BY <1>1, <1>2, <1>3, <1>7, <2>1 DEF History
<1>10. stored # None => Accounts(slots', stored.counts, stored.used, stored.next)
  <2> SUFFICES ASSUME stored # None PROVE Accounts(slots', stored.counts, stored.used, stored.next)
    OBVIOUS
  <2>1. Accounts(slots, stored.counts, stored.used, stored.next) /\ stored.next \in Nat
    BY <1>1 DEF History, TypeOK, Doc
  <2>2. stored.next <= Len(slots') /\ \A i \in 1..stored.next : i \in 1..Len(slots)
    BY <1>7, <2>1 DEF Accounts
  <2> QED
    BY <1>7, <2>1, <2>2, AccountsPrefix
<1> QED
  BY <1>4, <1>5, <1>6, <1>7, <1>8, <1>9, <1>10

\* A pause is counted as such and changes no other count.
LEMMA SuspendedFacts ==
  ASSUME Typed, NEW ran, ran.used \in Usage
  PROVE  /\ Suspended(ran) \in Accumulators /\ Suspended(ran).next = acc.next
         /\ Suspended(ran).used = acc.used /\ Suspended(ran).candidates = acc.candidates
         /\ \A r \in Reasons \ {"PAUSED"} : Suspended(ran).counts[r] = acc.counts[r]
<1>1. acc \in Accumulators /\ acc.counts \in [Reasons -> Nat] /\ acc.started + 1 \in Nat
  BY DEF Typed, TypeOK, Accumulators
<1> DEFINE counts == [acc.counts EXCEPT !["PAUSED"] = @ + 1]
           suspended == acc.suspended \/ ran.used.provider > 0
<1>2. counts \in [Reasons -> Nat] /\ \A r \in Reasons \ {"PAUSED"} : counts[r] = acc.counts[r]
  BY <1>1 DEF Reasons
<1>3. suspended \in BOOLEAN
  BY <1>1 DEF Accumulators
<1>4. Suspended(ran) = [acc EXCEPT !.counts = counts, !.started = acc.started + 1, !.suspended = suspended]
  BY <1>1 DEF Suspended, Accumulators
<1> HIDE DEF counts, suspended
<1> QED
  BY <1>1, <1>2, <1>3, <1>4 DEF Accumulators

LEMMA InvestigateStep ==
  ASSUME CampaignInv, NEW cost \in Costs, Investigate(cost)
  PROVE  CampaignInv'
<1>1. Typed /\ TypeOK /\ Bounded /\ File /\ History /\ CompletionIsEarned
  BY DEF CampaignInv, Typed
<1>0. PICK reason \in ReasonsAfter(cost) : \E ran \in Runs(cost, reason) :
         /\ receipts' = receipts \cup ran.proved
         /\ Cancelled(ran) \/ Paused(ran) \/ Ended(ran)
  BY DEF Investigate
<1>2. PICK ran \in Runs(cost, reason) :
         /\ receipts' = receipts \cup ran.proved
         /\ Cancelled(ran) \/ Paused(ran) \/ Ended(ran)
  BY <1>0
<1>3. /\ pc = "top" /\ wall' = wall + cost.wall /\ pauseAsked' \in {pauseAsked, TRUE}
      /\ UNCHANGED <<plan, starts, findings, outcome>>
  BY DEF Investigate, Ready
<1>4. wall' \in Nat
  BY <1>1, <1>3, UsageFacts DEF TypeOK
<1>5. /\ ran.used \in Usage /\ ran.reason \in Reasons /\ ran.candidates \in SUBSET Candidates
      /\ ran.proved \in SUBSET Candidates
  BY <1>1, RunFacts
<1>6. ~Finished
  BY <1>1, <1>3 DEF File, Finished
<1>7. CASE Cancelled(ran)
  <2>1. /\ ran.reason = "CANCELLED" /\ pc' = "recording" /\ Absorb(ran) /\ UNCHANGED <<last, stored>>
        /\ closing' = [reason |-> "CANCELLED", cleanup |-> TRUE]
    BY <1>7 DEF Cancelled, Close
  <2>2. /\ acc' = Absorbed(ran) /\ acc' \in Accumulators /\ pending' = None
        /\ slots' \in Seq(Slot) /\ acc'.next = Len(slots')
        /\ Accounts(slots', acc'.counts, acc'.used, acc'.next)
        /\ \A i \in 1..Len(slots') : slots'[i].reason \in Completing => slots'[i].used["calls"] > 0
        /\ stored # None => Accounts(slots', stored.counts, stored.used, stored.next)
    BY <1>3, <2>1, AbsorbFacts
  <2>3. Typed'
    BY <1>1, <1>2, <1>3, <1>4, <1>5, <2>1, <2>2 DEF Typed, TypeOK, Reasons
  <2>4. Bounded'
    BY <1>1, <2>1, <2>2, AbsorbedWithin DEF Bounded
  <2>5. ~Finished'
    BY <1>6, <2>1 DEF Finished
  <2>6. File' /\ ProgressIsDurable' /\ CompletionIsEarned'
    BY <2>1, <2>5 DEF File, ProgressIsDurable, CompletionIsEarned
  <2>7. History'
    BY <2>1, <2>2, <2>5 DEF History
  <2> QED
    BY <2>3, <2>4, <2>6, <2>7 DEF CampaignInv
<1>8. CASE Ended(ran)
  <2>1. /\ ran.reason \notin {"CANCELLED", "PAUSED"} /\ pc' = "settled" /\ Absorb(ran)
        /\ last' = [reason |-> ran.reason, news |-> News(ran)]
        /\ Conserved(Absorbed(ran)) /\ closing' = closing
        /\ stored' = Document(acc', wall', "PAUSED", "PAUSED", None)
    BY <1>8 DEF Ended, Ends, Progress, Publish
  <2>2. /\ acc' = Absorbed(ran) /\ acc' \in Accumulators /\ pending' = None
        /\ slots' \in Seq(Slot) /\ acc'.next = Len(slots')
        /\ Accounts(slots', acc'.counts, acc'.used, acc'.next)
        /\ \A i \in 1..Len(slots') : slots'[i].reason \in Completing => slots'[i].used["calls"] > 0
    BY <1>3, <2>1, AbsorbFacts
  <2>3. /\ stored' \in Doc /\ stored' # None /\ stored'.status = "PAUSED" /\ stored'.next = acc'.next
        /\ stored'.counts = acc'.counts /\ stored'.used = acc'.used
        /\ stored'.candidates = acc'.candidates
    BY <1>4, <2>1, <2>2, DocumentFacts DEF Reasons
  <2>4. last' \in [reason : Reasons, news : BOOLEAN]
    <3>1. News(ran) \in BOOLEAN
      BY <1>1, RunFacts DEF News
    <3> QED
      BY <1>5, <2>1, <3>1
  <2>5. Typed'
    BY <1>1, <1>2, <1>3, <1>4, <1>5, <2>1, <2>2, <2>3, <2>4 DEF Typed, TypeOK
  <2>6. Bounded'
    BY <1>1, <2>1, <2>2, <2>3, AbsorbedWithin DEF Bounded
  <2>7. ~Finished'
    BY <2>3 DEF Finished
  <2>8. File' /\ ProgressIsDurable' /\ CompletionIsEarned'
    BY <2>1, <2>3, <2>7 DEF File, ProgressIsDurable, CompletionIsEarned
  <2>9. History'
    BY <2>1, <2>2, <2>3, <2>7 DEF History
  <2> QED
    BY <2>5, <2>6, <2>8, <2>9 DEF CampaignInv
<1>9. CASE Paused(ran)
  <2>1. /\ pc' = "recording" /\ closing' = [reason |-> "PAUSED", cleanup |-> FALSE]
        /\ acc' = Suspended(ran) /\ pending' = [used |-> ran.used, candidates |-> ran.candidates]
        /\ stored' = Document(acc', wall', "PAUSED", "PAUSED", pending')
        /\ UNCHANGED <<last, slots>>
    BY <1>9 DEF Paused, Close, Publish
  <2>2. pending' \in Suspension
    BY <1>5, <2>1 DEF Suspension
  <2>3. /\ acc' \in Accumulators /\ acc'.next = acc.next /\ acc'.used = acc.used
        /\ acc'.candidates = acc.candidates
        /\ \A r \in Reasons \ {"PAUSED"} : acc'.counts[r] = acc.counts[r]
    BY <1>1, <1>5, <2>1, SuspendedFacts
  <2>4. /\ stored' \in Doc /\ stored' # None /\ stored'.status = "PAUSED" /\ stored'.next = acc'.next
        /\ stored'.counts = acc'.counts /\ stored'.used = acc'.used
        /\ stored'.candidates = acc'.candidates
    BY <1>4, <2>1, <2>2, <2>3, DocumentFacts DEF Reasons
  <2>5. Typed'
    BY <1>1, <1>2, <1>3, <1>4, <1>5, <2>1, <2>2, <2>3, <2>4 DEF Typed, TypeOK, Reasons
  <2>6. Bounded'
    BY <1>1, <2>3, <2>4 DEF Bounded
  <2>7. ~Finished'
    BY <2>4 DEF Finished
  <2>8. File' /\ ProgressIsDurable' /\ CompletionIsEarned'
    BY <2>1, <2>7 DEF File, ProgressIsDurable, CompletionIsEarned
  <2>9. Accounts(slots, acc'.counts, acc'.used, acc'.next)
    <3>1. Accounts(slots, acc.counts, acc.used, acc.next) /\ acc.next = Len(slots)
      BY <1>1, <1>3 DEF History
    <3>2. \A i \in 1..Len(slots) : Credit(slots[i]) \in Reasons \ {"PAUSED"}
      <4>1. \A s \in Slot : Credit(s) \in Reasons \ {"PAUSED"}
        BY AttributedFacts DEF Slot, Credit
      <4> QED
        BY <1>1, <4>1, SlotsFacts
    <3> QED
      BY <2>3, <3>1, <3>2 DEF Accounts
  <2>10. History'
    BY <1>1, <1>3, <2>1, <2>3, <2>4, <2>7, <2>9 DEF History
  <2> QED
    BY <2>5, <2>6, <2>8, <2>10 DEF CampaignInv
<1> QED
  BY <1>2, <1>7, <1>8, <1>9

\* A completion is decided only over a history that earned it.
LEMMA VerdictEarned ==
  ASSUME CampaignInv, pc # "down", PlanRan, Verdict(acc) \in Completing
  PROVE  /\ Clean
         /\ Verdict(acc) = "COMPLETE_WITH_FINDING" <=>
               \E i \in DOMAIN slots : slots[i].reason = "COMPLETE_WITH_FINDING"
<1>1. Typed /\ TypeOK /\ History
  BY DEF CampaignInv, Typed
<1>2. Qualifies(acc)
  BY DEF Verdict, Completing
<1>3. /\ acc.next = Len(slots) /\ Accounts(slots, acc.counts, acc.used, Len(slots))
      /\ acc.counts \in [Reasons -> Nat] /\ acc.used \in Usage
      /\ DOMAIN slots = 1..Len(slots) /\ Len(slots) \in Nat
      /\ \A i \in 1..Len(slots) : slots[i] \in Slot
  BY <1>1, SlotsFacts DEF History, TypeOK, Accumulators
<1>4. Completing \subseteq Reasons \ {"PAUSED", "REASONER_FAILURE", "BUDGET_EXHAUSTED"}
  BY DEF Completing, Reasons
<1>5. \A i \in 1..Len(slots) : Credit(slots[i]) = slots[i].reason /\ slots[i].reason \in Completing
  <2> SUFFICES ASSUME NEW i \in 1..Len(slots)
               PROVE  Credit(slots[i]) = slots[i].reason /\ slots[i].reason \in Completing
    OBVIOUS
  <2>1. slots[i].reason \in Reasons /\ Credit(slots[i]) = Attributed(slots[i].reason, slots[i].used)
    BY <1>3 DEF Slot, Credit
  <2>2. /\ Credit(slots[i]) \in Reasons
        /\ \/ Credit(slots[i]) = slots[i].reason
           \/ Credit(slots[i]) = "REASONER_FAILURE"
    BY <2>1, AttributedFacts
  <2>3. acc.counts[Credit(slots[i])] > 0
    BY <1>3 DEF Accounts
  <2>4. Credit(slots[i]) \in Completing
    BY <1>2, <2>2, <2>3 DEF Qualifies
  <2> QED
    BY <1>4, <2>2, <2>4
<1>6. Len(slots) >= plan /\ plan >= MinInvestigations
  BY <1>2, <1>3 DEF Qualifies, PlanRan
<1>7. \E i \in 1..Len(slots) : slots[i].used["tools"] > 0
  BY <1>2, <1>3 DEF Qualifies, Accounts
<1>8. \A i \in 1..Len(slots) : slots[i].used["provider"] = 0
  <2> SUFFICES ASSUME NEW i \in 1..Len(slots) PROVE slots[i].used["provider"] = 0
    OBVIOUS
  <2>1. /\ slots[i].used["calls"] > 0 /\ slots[i].used["calls"] <= acc.used["calls"]
        /\ slots[i].used["provider"] <= acc.used["provider"]
    BY <1>1, <1>3, <1>5, UsageFacts DEF History, Accounts
  <2>2. /\ slots[i].used["calls"] \in Nat /\ slots[i].used["provider"] \in Nat
        /\ acc.used["calls"] \in Nat /\ acc.used["provider"] \in Nat
    BY <1>3, UsageFacts DEF Slot
  <2>3. Least(acc.used["provider"], acc.used["calls"]) = 0
    BY <1>2 DEF Qualifies, ProviderClass
  <2>4. acc.used["provider"] = 0
    BY <2>1, <2>2, <2>3 DEF Least
  <2> QED
    BY <2>1, <2>2, <2>4
<1>9. Clean
  BY <1>3, <1>5, <1>6, <1>7, <1>8 DEF Clean
<1>10. Verdict(acc) = "COMPLETE_WITH_FINDING" <=> acc.counts["COMPLETE_WITH_FINDING"] > 0
  BY <1>2 DEF Verdict
<1>11. "COMPLETE_WITH_FINDING" \in Reasons \ {"PAUSED"}
  BY DEF Reasons
<1>12. acc.counts["COMPLETE_WITH_FINDING"] > 0
         => \E i \in 1..Len(slots) : slots[i].reason = "COMPLETE_WITH_FINDING"
  <2> SUFFICES ASSUME acc.counts["COMPLETE_WITH_FINDING"] > 0
               PROVE  \E i \in 1..Len(slots) : slots[i].reason = "COMPLETE_WITH_FINDING"
    OBVIOUS
  <2>1. PICK i \in 1..Len(slots) : Credit(slots[i]) = "COMPLETE_WITH_FINDING"
    BY <1>3, <1>11 DEF Accounts
  <2> QED
    BY <1>5, <2>1
<1>13. (\E i \in 1..Len(slots) : slots[i].reason = "COMPLETE_WITH_FINDING")
         => acc.counts["COMPLETE_WITH_FINDING"] > 0
  <2> SUFFICES ASSUME NEW i \in 1..Len(slots), slots[i].reason = "COMPLETE_WITH_FINDING"
               PROVE  acc.counts["COMPLETE_WITH_FINDING"] > 0
    OBVIOUS
  <2>1. acc.counts[Credit(slots[i])] > 0 /\ Credit(slots[i]) = "COMPLETE_WITH_FINDING"
    BY <1>3, <1>5 DEF Accounts
  <2> QED
    BY <2>1
<1> QED
  BY <1>3, <1>9, <1>10, <1>12, <1>13

\* What the decision leaves alone, whatever it is.
LEMMA DecisionFacts ==
  ASSUME CampaignInv, StopUnsafe \/ StopSpent \/ StopStagnant \/ StopPlan \/ GoOn
  PROVE  /\ pc = "settled" /\ ~Finished
         /\ UNCHANGED <<plan, receipts, pauseAsked, pending, findings, outcome, starts, slots>>
         /\ last' = None
         /\ acc' \in Accumulators /\ acc'.next = acc.next /\ acc'.counts = acc.counts
         /\ acc'.used = acc.used /\ acc'.candidates = acc.candidates
<1>1. acc \in Accumulators /\ File
  BY DEF CampaignInv, Typed, TypeOK
<1>2. pc = "settled" /\ Decision /\ (acc' = acc \/ acc' = [acc EXCEPT !.stagnant = Stagnant])
  BY DEF StopUnsafe, StopSpent, StopStagnant, StopPlan, GoOn, Safe, Funded
<1>3. Stagnant \in Nat
  BY <1>1 DEF Stagnant, Accumulators
<1>4. /\ acc' \in Accumulators /\ acc'.next = acc.next /\ acc'.counts = acc.counts
      /\ acc'.used = acc.used /\ acc'.candidates = acc.candidates
  BY <1>1, <1>2, <1>3 DEF Accumulators
<1>5. ~Finished
  BY <1>1, <1>2 DEF File, Finished
<1> QED
  BY <1>2, <1>4, <1>5 DEF Decision

LEMMA DecisionSteps ==
  ASSUME CampaignInv, StopUnsafe \/ StopSpent \/ StopStagnant \/ StopPlan \/ GoOn
  PROVE  CampaignInv'
<1>1. Typed /\ TypeOK /\ Bounded /\ File /\ History /\ ProgressIsDurable /\ CompletionIsEarned
  BY DEF CampaignInv, Typed
<1>2. /\ pc = "settled" /\ ~Finished
      /\ UNCHANGED <<plan, receipts, pauseAsked, pending, findings, outcome, starts, slots>>
      /\ last' = None
      /\ acc' \in Accumulators /\ acc'.next = acc.next /\ acc'.counts = acc.counts
      /\ acc'.used = acc.used /\ acc'.candidates = acc.candidates
  BY DecisionFacts
<1>3. /\ acc.next = Len(slots) /\ Accounts(slots, acc.counts, acc.used, acc.next)
      /\ Within(acc.used, acc.candidates)
  BY <1>1, <1>2 DEF History, Bounded
<1>4. ASSUME stored' = stored, wall' \in Nat,
             \/ pc' = "top" /\ closing' = closing
             \/ pc' = "recording" /\ closing' \in [reason : Reasons, cleanup : BOOLEAN]
      PROVE  CampaignInv'
  <2>1. Typed'
    BY <1>1, <1>2, <1>4 DEF Typed, TypeOK
  <2>2. ~Finished'
    BY <1>2, <1>4 DEF Finished
  <2>3. Bounded' /\ File' /\ ProgressIsDurable' /\ CompletionIsEarned'
    BY <1>1, <1>2, <1>4, <2>2 DEF Bounded, File, ProgressIsDurable, CompletionIsEarned
  <2>4. History'
    BY <1>1, <1>2, <1>4, <2>2 DEF History
  <2> QED
    BY <2>1, <2>3, <2>4 DEF CampaignInv
<1>5. ASSUME NEW reason \in Reasons, wall' = wall, pc' = "recording",
             closing' = [reason |-> reason, cleanup |-> FALSE],
             stored' = Document(acc', wall', "TERMINATED", reason, None),
             reason \in Completing =>
                /\ Clean
                /\ reason = "COMPLETE_WITH_FINDING" <=>
                      \E i \in DOMAIN slots : slots[i].reason = "COMPLETE_WITH_FINDING"
      PROVE  CampaignInv'
  <2>1. /\ stored' \in Doc /\ stored' # None /\ stored'.status = "TERMINATED" /\ stored'.next = acc'.next
        /\ stored'.reason = reason /\ stored'.counts = acc'.counts /\ stored'.used = acc'.used
        /\ stored'.candidates = acc'.candidates
    <3>1. wall' \in Nat
      BY <1>1, <1>5 DEF TypeOK
    <3> QED
      BY <1>2, <1>5, <3>1, DocumentFacts
  <2>2. Typed'
    BY <1>1, <1>2, <1>5, <2>1 DEF Typed, TypeOK
  <2>3. Bounded' /\ File' /\ ProgressIsDurable'
    BY <1>2, <1>3, <1>5, <2>1 DEF Bounded, File, ProgressIsDurable, Finished
  <2>4. History'
    BY <1>1, <1>2, <1>3, <1>5, <2>1 DEF History
  <2>5. CompletionIsEarned'
    BY <1>2, <1>5, <2>1 DEF CompletionIsEarned, Clean
  <2> QED
    BY <2>2, <2>3, <2>4, <2>5 DEF CampaignInv
<1>6. CASE StopUnsafe \/ StopStagnant
  <2>1. /\ stored' = stored /\ wall' = wall /\ pc' = "recording"
        /\ closing' \in {[reason |-> "SAFETY_BLOCKED", cleanup |-> TRUE],
                         [reason |-> "NO_PROGRESS", cleanup |-> TRUE]}
    BY <1>6 DEF StopUnsafe, StopStagnant, Close
  <2>2. wall' \in Nat
    BY <1>1, <2>1 DEF TypeOK
  <2>3. closing' \in [reason : Reasons, cleanup : BOOLEAN]
    <3>1. \A r \in Reasons : [reason |-> r, cleanup |-> TRUE] \in [reason : Reasons, cleanup : BOOLEAN]
      OBVIOUS
    <3>2. "SAFETY_BLOCKED" \in Reasons /\ "NO_PROGRESS" \in Reasons
      BY DEF Reasons
    <3> QED
      BY <2>1, <3>1, <3>2
  <2> QED
    BY <1>4, <2>1, <2>2, <2>3
<1>7. CASE GoOn
  <2>1. /\ stored' = stored /\ closing' = closing /\ pc' = "top"
        /\ \E d \in Delays : wall' = wall + d
    BY <1>7 DEF GoOn
  <2>2. wall' \in Nat
    BY <1>1, <2>1, CampaignAssumption DEF TypeOK
  <2> QED
    BY <1>4, <2>1, <2>2
<1>8. CASE StopSpent
  <2>1. /\ wall' = wall /\ acc' = acc /\ pc' = "recording"
        /\ closing' = [reason |-> "BUDGET_EXHAUSTED", cleanup |-> FALSE]
        /\ stored' = Document(acc', wall', "TERMINATED", "BUDGET_EXHAUSTED", None)
    BY <1>8 DEF StopSpent, Terminate, Publish, Close
  <2>2. "BUDGET_EXHAUSTED" \in Reasons \ Completing
    BY DEF Reasons, Completing
  <2> QED
    BY <1>5, <2>1, <2>2
<1>9. CASE StopPlan
  <2>1. /\ wall' = wall /\ pc' = "recording" /\ PlanRan
        /\ closing' = [reason |-> Verdict(acc), cleanup |-> FALSE]
        /\ stored' = Document(acc', wall', "TERMINATED", Verdict(acc), None)
    BY <1>9 DEF StopPlan, Publish, Close
  <2>2. PICK reason : reason = Verdict(acc)
    OBVIOUS
  <2>3. reason \in Reasons
    BY <2>2 DEF Verdict, Reasons
  <2>4. reason \in Completing =>
          /\ Clean
          /\ reason = "COMPLETE_WITH_FINDING" <=>
                \E i \in DOMAIN slots : slots[i].reason = "COMPLETE_WITH_FINDING"
    BY <1>2, <2>1, <2>2, VerdictEarned
  <2> QED
    BY <1>5, <2>1, <2>2, <2>3, <2>4
<1> QED
  BY <1>6, <1>7, <1>8, <1>9

LEMMA StutterStep ==
  ASSUME CampaignInv, UNCHANGED vars
  PROVE  CampaignInv'
<1>1. UNCHANGED <<pc, plan, acc, wall, pending, receipts, pauseAsked, last, closing, stored,
                  findings, outcome, starts, slots>>
  BY DEF vars, memory
<1>2. Typed'
  BY <1>1 DEF CampaignInv, Typed, TypeOK
<1>3. Bounded' /\ File' /\ History'
  BY <1>1 DEF CampaignInv, Bounded, File, History, Finished, Admitted
<1>4. ProgressIsDurable' /\ CompletionIsEarned'
  BY <1>1 DEF CampaignInv, ProgressIsDurable, CompletionIsEarned, Finished, Clean
<1> QED
  BY <1>2, <1>3, <1>4 DEF CampaignInv

------------------------------------------------------------------------------
(* The theorems. *)

\* The inductive invariant: the history of absorbed investigations explains
\* the accumulators, the file is a prefix of it, and a campaign that ended
\* for a completion earned it.
THEOREM CampaignInvariant == Spec => []CampaignInv
<1>1. Init => CampaignInv
  <2> SUFFICES ASSUME Init PROVE CampaignInv
    OBVIOUS
  <2>1. slots \in Seq(Slot) /\ Len(slots) = 0
    BY EmptySeq DEF Init
  <2>2. 0 \in 0..MaxStarts /\ acc \in Accumulators
    BY FreshTyped, CampaignAssumption DEF Init
  <2>3. TypeOK
    BY <2>2 DEF Init, TypeOK
  <2>4. Typed
    BY <2>1, <2>3 DEF Init, Typed
  <2>5. Bounded /\ File /\ History /\ ProgressIsDurable /\ CompletionIsEarned
    BY <2>1, FreshTyped DEF Init, Bounded, File, History, ProgressIsDurable, CompletionIsEarned, Finished
  <2> QED
    BY <2>4, <2>5 DEF CampaignInv
<1>2. CampaignInv /\ [Next]_vars => CampaignInv'
  BY EndSteps, PersistStep, StartSteps, InvestigateStep, DecisionSteps, StutterStep DEF Next, Loop
<1> QED
  BY <1>1, <1>2, PTL DEF Spec

\* Every variable keeps its type.
THEOREM TypeCorrect == Spec => []TypeOK
<1>1. CampaignInv => TypeOK
  BY DEF CampaignInv, Typed
<1> QED
  BY <1>1, CampaignInvariant, PTL

\* The campaign's usage is that of its investigations, each counted once.
THEOREM UsageIsCountedOnce == Spec => []UsageCountedOnce
<1>1. CampaignInv => UsageCountedOnce
  <2> SUFFICES ASSUME CampaignInv, pc # "down", NEW d \in Summed
               PROVE  acc.used[d] = Totals(slots, d)[Len(slots)]
    BY DEF UsageCountedOnce
  <2>1. AddsUpTo(slots, Len(slots), d, acc.used[d])
    BY DEF CampaignInv, History, Accounts
  <2> QED
    BY <2>1, TotalsIs
<1> QED
  BY <1>1, CampaignInvariant, PTL

\* No counted dimension passes the campaign's ceiling, in memory or on disk:
\* each investigation is allowed what the others left over.
THEOREM CountsStayWithinPolicy == Spec => []CountsWithinPolicy
<1>1. CampaignInv => CountsWithinPolicy
  <2> SUFFICES ASSUME CampaignInv PROVE CountsWithinPolicy
    OBVIOUS
  <2>1. Typed /\ Bounded
    BY DEF CampaignInv
  <2>2. \A d \in Counted : CampaignUsage[d] <= Policy[d]
    BY <2>1, AllowanceFacts DEF Bounded, Within
  <2> QED
    BY <2>1, <2>2 DEF Bounded, Within, CountsWithinPolicy
<1> QED
  BY <1>1, CampaignInvariant, PTL

\* A process killed between two investigations loses none it absorbed.
THEOREM ProgressStaysDurable == Spec => []ProgressIsDurable
<1>1. CampaignInv => ProgressIsDurable
  BY DEF CampaignInv
<1> QED
  BY <1>1, CampaignInvariant, PTL

\* A campaign is complete only if every slot of its plan ran to a completion
\* of its own, none with a provider failure, in whichever process it ran.
THEOREM CompletionStaysEarned == Spec => []CompletionIsEarned
<1>1. CampaignInv => CompletionIsEarned
  BY DEF CampaignInv
<1> QED
  BY <1>1, CampaignInvariant, PTL

\* The file of a campaign is removed only by a new campaign, or when every
\* finding the process could still admit is durable.
THEOREM FindingsOutliveTheFile == Spec => CleanupKeepsFindings
<1>1. ASSUME CampaignInv, [Next]_vars, stored # None, stored' = None
      PROVE  FreshRun \/ Admitted \subseteq findings
  <2>1. acc \in Accumulators /\ wall \in Nat /\ File /\ Typed
    BY <1>1 DEF CampaignInv, Typed, TypeOK
  <2>2. ~UNCHANGED vars
    BY <1>1 DEF vars
  <2>3. ~(ResumeRun \/ ResumeFinished \/ Kill \/ (\E cost \in Costs : Overspend(cost))
            \/ StopUnsafe \/ StopStagnant \/ GoOn \/ \E kept \in SUBSET Candidates : PersistAdmissions(kept))
    BY <1>1 DEF ResumeRun, ResumeFinished, Kill, Overspend, StopUnsafe, StopStagnant, GoOn, PersistAdmissions
  <2>4. ~StopExhausted
    <3>1. "BUDGET_EXHAUSTED" \in Reasons
      BY DEF Reasons
    <3>2. Document(acc, wall, "TERMINATED", "BUDGET_EXHAUSTED", None) # None
      BY <2>1, <3>1, DocumentFacts
    <3> QED
      BY <1>1, <3>2 DEF StopExhausted, Publish
  <2>5. ~(StopSpent \/ StopPlan)
    <3> SUFFICES ASSUME StopSpent \/ StopPlan PROVE FALSE
      OBVIOUS
    <3>1. acc' \in Accumulators /\ wall' \in Nat
      BY <1>1, <2>1, DecisionFacts DEF StopSpent, StopPlan
    <3>2. PICK reason \in Reasons : stored' = Document(acc', wall', "TERMINATED", reason, None)
      <4>1. "BUDGET_EXHAUSTED" \in Reasons /\ Verdict(acc) \in Reasons
        BY DEF Verdict, Reasons
      <4>2. StopSpent => stored' = Document(acc', wall', "TERMINATED", "BUDGET_EXHAUSTED", None)
        BY DEF StopSpent, Terminate, Publish
      <4>3. StopPlan => stored' = Document(acc', wall', "TERMINATED", Verdict(acc), None)
        BY DEF StopPlan, Publish
      <4> QED
        BY <4>1, <4>2, <4>3
    <3> QED
      BY <1>1, <3>1, <3>2, DocumentFacts
  <2>6. ASSUME NEW cost \in Costs, Investigate(cost)
        PROVE  FALSE
    <3>1. PICK reason \in ReasonsAfter(cost) : \E ran \in Runs(cost, reason) :
             Cancelled(ran) \/ Paused(ran) \/ Ended(ran)
      BY <2>6 DEF Investigate
    <3>2. PICK ran \in Runs(cost, reason) : Cancelled(ran) \/ Paused(ran) \/ Ended(ran)
      BY <3>1
    <3>3. CampaignInv'
      BY <1>1, <2>6, InvestigateStep
    <3>4. acc' \in Accumulators /\ wall' \in Nat /\ pending' \in Suspension \cup {None}
      BY <3>3 DEF CampaignInv, Typed, TypeOK
    <3>5. \/ stored' = stored
          \/ stored' = Document(acc', wall', "PAUSED", "PAUSED", pending')
          \/ stored' = Document(acc', wall', "PAUSED", "PAUSED", None)
      BY <3>2 DEF Cancelled, Paused, Ended, Progress, Publish
    <3> QED
      BY <1>1, <3>4, <3>5, DocumentFacts DEF Reasons
  <2>7. CASE Cleanup
    BY <2>1, <2>7 DEF Cleanup, File
  <2> QED
    BY <1>1, <2>2, <2>3, <2>4, <2>5, <2>6, <2>7 DEF Next, Loop
<1>2. CampaignInv /\ [Next]_vars
        => [stored # None /\ stored' = None => FreshRun \/ Admitted \subseteq findings]_vars
  BY <1>1
<1> QED
  BY <1>2, CampaignInvariant, PTL DEF Spec, CleanupKeepsFindings

\* Where a process has been asked to pause, it is there to be asked.
Asked == pauseAsked => pc # "down"

\* An investigation of a process that was asked to pause is suspended at once,
\* with the usage it had.
LEMMA AskedIsPaused ==
  ASSUME CampaignInv, pauseAsked, NEW cost \in Costs, Investigate(cost)
  PROVE  acc'.used = acc.used /\ UNCHANGED slots /\ pending'.used = Base
<1>1. /\ Typed /\ acc \in Accumulators /\ cost = NoUsage /\ ReasonsAfter(cost) = {"PAUSED"}
  BY DEF CampaignInv, Typed, TypeOK, Investigate, Possible, ReasonsAfter, Signalled
<1>2. PICK ran \in Runs(cost, "PAUSED") : Cancelled(ran) \/ Paused(ran) \/ Ended(ran)
  BY <1>1 DEF Investigate
<1>3. ran.reason = "PAUSED" /\ ran.used \in Charged(cost)
  BY <1>2 DEF Runs
<1>4. Paused(ran)
  BY <1>2, <1>3 DEF Cancelled, Ended, Ends
<1>5. ran.used = Base
  <2>1. Base \in Usage /\ cost \in Usage /\ \A d \in Dims : cost[d] = 0
    BY <1>1, AllowanceFacts, UsageFacts
  <2> DEFINE sum == [d \in Dims |-> Base[d] + cost[d]]
  <2>2. sum = Base
    BY <2>1 DEF Usage
  <2>3. cost.calls = 0
    BY <2>1, UsageFacts
  <2>4. ran.used = sum
    BY <1>3, <2>3 DEF Charged
  <2> QED
    BY <2>2, <2>4
<1>6. acc'.used = acc.used
  <2>1. acc' = Suspended(ran)
    BY <1>4 DEF Paused
  <2> QED
    BY <1>1, <2>1 DEF Suspended, Accumulators
<1> QED
  BY <1>4, <1>5, <1>6 DEF Paused

\* Once a pause is asked nothing more is absorbed or spent, whatever is left to
\* investigate.
THEOREM PauseStops == Spec => PauseStopsCampaign
<1>1. Init => Asked
  BY DEF Init, Asked
<1>2. Asked /\ [Next]_vars => Asked'
  <2> SUFFICES ASSUME Asked, [Next]_vars, pauseAsked', pc' = "down" PROVE FALSE
    BY DEF Asked
  <2>1. ~Gone
    BY DEF Gone
  <2>2. ~UNCHANGED vars
    BY DEF vars, memory, Asked
  <2>3. ~(FreshRun \/ ResumeRun \/ ResumeFinished \/ Kill)
    BY <2>1 DEF FreshRun, ResumeRun, ResumeFinished, Process, Kill, Asked
  <2>4. ASSUME NEW cost \in Costs PROVE ~(Investigate(cost) \/ Overspend(cost))
    BY <2>1 DEF Investigate, Overspend, Cancelled, Paused, Ended, Close
  <2>5. ~(StopExhausted \/ StopUnsafe \/ StopSpent \/ StopStagnant \/ StopPlan \/ GoOn)
    BY <2>1 DEF StopExhausted, StopUnsafe, StopSpent, StopStagnant, StopPlan, GoOn, Terminate, Close
  <2>6. ~(Cleanup \/ \E kept \in SUBSET Candidates : PersistAdmissions(kept))
    BY <2>1 DEF Cleanup, PersistAdmissions
  <2> QED
    BY <2>2, <2>3, <2>4, <2>5, <2>6 DEF Next, Loop
<1>3. ASSUME CampaignInv, Asked, [Next]_vars, pauseAsked, pauseAsked'
      PROVE  /\ acc'.used = acc.used /\ UNCHANGED slots
             /\ pending' # pending => pending'.used = Base
  <2>1. ~Gone /\ pc # "down"
    BY <1>3 DEF Gone, Asked
  <2>2. ~(FreshRun \/ ResumeRun \/ ResumeFinished \/ Kill \/ Cleanup \/ StopExhausted)
    BY <2>1 DEF FreshRun, ResumeRun, ResumeFinished, Process, Kill, Cleanup, StopExhausted
  <2>3. ASSUME NEW cost \in Costs PROVE ~Overspend(cost)
    BY <2>1 DEF Overspend
  <2>4. CASE StopUnsafe \/ StopSpent \/ StopStagnant \/ StopPlan \/ GoOn
    <3>1. UNCHANGED <<slots, pending>>
      BY <2>4, <1>3, DecisionFacts
    <3>2. acc \in Accumulators
      BY <1>3 DEF CampaignInv, Typed, TypeOK
    <3>3. acc'.used = acc.used
      BY <2>4, <3>2 DEF StopUnsafe, StopSpent, StopStagnant, StopPlan, GoOn, Funded, Accumulators
    <3> QED
      BY <3>1, <3>3
  <2>5. CASE \E kept \in SUBSET Candidates : PersistAdmissions(kept)
    BY <2>1, <2>5 DEF PersistAdmissions, memory
  <2>6. CASE UNCHANGED vars
    BY <2>6 DEF vars, memory
  <2>7. CASE \E cost \in Costs : Investigate(cost)
    BY <2>7, <1>3, AskedIsPaused
  <2> QED
    BY <1>3, <2>2, <2>3, <2>4, <2>5, <2>6, <2>7 DEF Next, Loop
<1>4. CampaignInv /\ Asked /\ [Next]_vars
        => [pauseAsked /\ pauseAsked' =>
              /\ acc'.used = acc.used /\ UNCHANGED slots
              /\ pending' # pending => pending'.used = Base]_vars
  BY <1>3
<1> QED
  BY <1>1, <1>2, <1>4, CampaignInvariant, PTL DEF Spec, PauseStopsCampaign

-----------------------------------------------------------------------------
(* The orchestrator: where its process is, and what its document says. *)

ItemPhases == {"items", "executing", "item returned", "item alarmed"}
ReplayPhases == {"replaying", "replay returned", "replay alarmed"}
Phases == {"idle", "preflight", "queue", "finalize"} \cup ItemPhases \cup ReplayPhases
Statuses == Terminal \cup Resumable
ItemStates == ItemOpen \cup ItemDone

\* Where no verdict has been written the process may be anywhere; where one has,
\* a process only gives it again.
Verdicts ==
    /\ phase \notin {"idle", "finalize"} => doc.status \in Resumable
    /\ phase = "finalize" => /\ stop # "none"
                             /\ doc.status \in Terminal => stop = doc.status

\* The cluster that is replayed has a reservation that is not consumed.
InReplay ==
    phase \in ReplayPhases => \A c \in Clusters : IsNextReplay(c) =>
        doc.queue[c] = "RUNNING" /\ doc.reservation[c] = "RESERVED"

\* A safety event was returned to a process that lived to look at it.
Seen == "seen" \in happened

\* Whatever a clean campaign must not have met, and met, has left an unresolved reason.
Marked(d, met) ==
    \/ "REASON" \in d.unresolved
    \/ /\ ~met /\ ~d.safety /\ d.replayEvents = 0
       /\ \A i \in Items : d.items[i].state # "SKIPPED"
       /\ \A c \in Clusters : d.queue[c] # "BLOCKED"

Again(entries) == {e \in Items \X (2..MaxAttempts) : e[2] <= entries[e[1]]}
ReservedIn(d) == {c \in Clusters : d.reservation[c] # "none"}

\* A document accounts for the entries of the executor.
AccountsFor(d, entries) ==
    /\ \A i \in Items : entries[i] <= d.items[i].attempts
    /\ Cardinality(Again(entries)) + Cardinality(ReservedIn(d)) <= d.replays

OrchestratorInv ==
    /\ OrchestratorTypeOK /\ Valid(doc)
    /\ Verdicts /\ InReplay
    /\ Marked(doc, Seen) /\ AccountsFor(doc, runs)

\* What a document says is done stays as it is.
KeptIn(d) == \A i \in Items : doc.items[i].state \in ItemDone => d.items[i] = doc.items[i]
Kept == KeptIn(doc') /\ \A i \in Items : doc.items[i].state \in ItemDone => runs'[i] = runs[i]

LEMMA DocumentFields ==
    ASSUME NEW d \in CheckpointDocument
    PROVE  /\ d.status \in Statuses
           /\ d.items \in [Items -> [state : ItemStates, attempts : 0..MaxAttempts]]
           /\ d.found \in SUBSET Clusters
           /\ d.queue \in [Clusters -> QueueOpen \cup QueueDone \cup {"none"}]
           /\ d.reservation \in [Clusters -> {"none", "RESERVED", "CONSUMED"}]
           /\ d.ready \in SUBSET Clusters
           /\ d.replays \in 0..MaxReplays
           /\ d.contexts \in 0..MaxContexts
           /\ d.actionsSpent \in BOOLEAN
           /\ d.safety \in BOOLEAN
           /\ d.replayEvents \in 0..2
           /\ d.unresolved \in SUBSET {"PROCESS_INTERRUPTION", "REASON"}
  BY DEF CheckpointDocument, Statuses, ItemStates

\* Nothing of the replays, and not the result class, differs.
Aside(d, e) ==
    /\ e.status = d.status /\ e.queue = d.queue /\ e.reservation = d.reservation
    /\ e.ready = d.ready /\ e.replayEvents = d.replayEvents

LEMMA Recorded ==
    ASSUME NEW d \in CheckpointDocument, NEW i \in Items, NEW s \in ItemStates,
           NEW a \in 0..MaxAttempts
    PROVE  LET e == RecordItem(d, i, s, a) IN
           /\ e \in CheckpointDocument /\ Aside(d, e)
           /\ e.replays = d.replays /\ e.contexts = d.contexts
           /\ e.safety = d.safety /\ e.unresolved = d.unresolved
           /\ e.items[i].state = s /\ e.items[i].attempts = a
           /\ \A j \in Items \ {i} : e.items[j] = d.items[j]
  <1> DEFINE new == [d.items EXCEPT ![i] = [state |-> s, attempts |-> a]]
  <1>1. d.items \in [Items -> [state : ItemStates, attempts : 0..MaxAttempts]]
    BY DocumentFields
  <1>2. new \in [Items -> [state : ItemStates, attempts : 0..MaxAttempts]]
    BY <1>1
  <1>3. /\ new[i].state = s /\ new[i].attempts = a
        /\ \A j \in Items \ {i} : new[j] = d.items[j]
    BY <1>1
  <1>4. RecordItem(d, i, s, a) = [d EXCEPT !.items = new]
    BY DEF RecordItem
  <1> HIDE DEF new
  <1> DEFINE e == [d EXCEPT !.items = new]
  <1>5. e \in CheckpointDocument
    BY <1>2 DEF CheckpointDocument, ItemStates
  <1>6. e.items = new /\ Aside(d, e) /\ e.replays = d.replays
        /\ e.contexts = d.contexts /\ e.safety = d.safety /\ e.unresolved = d.unresolved
    BY DEF CheckpointDocument, Aside
  <1> HIDE DEF e
  <1>7. QED
    BY <1>3, <1>4, <1>5, <1>6 DEF e

LEMMA Explained ==
    ASSUME NEW d \in CheckpointDocument, NEW r \in {"PROCESS_INTERRUPTION", "REASON"}
    PROVE  LET e == Because(d, r) IN
           /\ e \in CheckpointDocument /\ Aside(d, e)
           /\ e.replays = d.replays /\ e.contexts = d.contexts
           /\ e.safety = d.safety /\ e.unresolved = d.unresolved \cup {r}
           /\ e.items = d.items
  <1> DEFINE new == d.unresolved \cup {r}
  <1>1. new \in SUBSET {"PROCESS_INTERRUPTION", "REASON"}
    BY DocumentFields
  <1>2. Because(d, r) = [d EXCEPT !.unresolved = new]
    BY DEF Because
  <1> HIDE DEF new
  <1> DEFINE e == [d EXCEPT !.unresolved = new]
  <1>3. e \in CheckpointDocument
    BY <1>1 DEF CheckpointDocument
  <1>4. e.items = d.items /\ Aside(d, e) /\ e.replays = d.replays
        /\ e.contexts = d.contexts /\ e.safety = d.safety /\ e.unresolved = new
    BY DEF CheckpointDocument, Aside
  <1> HIDE DEF e
  <1>5. QED
    BY <1>2, <1>3, <1>4 DEF e, new

LEMMA Skipped ==
    ASSUME NEW d \in CheckpointDocument
    PROVE  LET e == SkipPending(d) IN
           /\ e \in CheckpointDocument /\ Aside(d, e)
           /\ e.replays = d.replays /\ e.contexts = d.contexts
           /\ e.safety = d.safety /\ e.unresolved = d.unresolved \cup {"REASON"}
           /\ \A i \in Items : /\ e.items[i].attempts = d.items[i].attempts
                               /\ d.items[i].state \in ItemDone => e.items[i] = d.items[i]
  <1> DEFINE new == [i \in Items |->
                       IF d.items[i].state \in {"PENDING", "RUNNING"}
                       THEN [d.items[i] EXCEPT !.state = "SKIPPED"] ELSE d.items[i]]
  <1>1. \A i \in Items : d.items[i] \in [state : ItemStates, attempts : 0..MaxAttempts]
    BY DocumentFields
  <1>2. \A i \in Items :
          /\ new[i] \in [state : ItemStates, attempts : 0..MaxAttempts]
          /\ new[i].attempts = d.items[i].attempts
          /\ d.items[i].state \in ItemDone => new[i] = d.items[i]
    <2> TAKE i \in Items
    <2>1. CASE d.items[i].state \in {"PENDING", "RUNNING"}
      <3>1. new[i] = [d.items[i] EXCEPT !.state = "SKIPPED"]
        BY <2>1
      <3> HIDE DEF new
      <3>2. QED
        BY <1>1, <2>1, <3>1 DEF ItemStates, ItemDone
    <2>2. CASE d.items[i].state \notin {"PENDING", "RUNNING"}
      <3>1. new[i] = d.items[i]
        BY <2>2
      <3> HIDE DEF new
      <3>2. QED
        BY <1>1, <3>1
    <2>3. QED
      BY <2>1, <2>2
  <1>3. new \in [Items -> [state : ItemStates, attempts : 0..MaxAttempts]]
    <2>1. new = [i \in Items |-> new[i]]
      OBVIOUS
    <2> HIDE DEF new
    <2>2. QED
      BY <1>2, <2>1
  <1> DEFINE skipped == [d EXCEPT !.items = new]
  <1>4. SkipPending(d) = Because(skipped, "REASON")
    BY DEF SkipPending
  <1> HIDE DEF new
  <1>5. skipped \in CheckpointDocument
    BY <1>3 DEF CheckpointDocument, ItemStates
  <1>6. skipped.items = new /\ Aside(d, skipped) /\ skipped.replays = d.replays
        /\ skipped.contexts = d.contexts /\ skipped.safety = d.safety
        /\ skipped.unresolved = d.unresolved
    BY DEF CheckpointDocument, Aside
  <1> HIDE DEF skipped
  <1>7. QED
    BY <1>2, <1>4, <1>5, <1>6, Explained DEF Aside

-----------------------------------------------------------------------------
(* What holds whichever document is written. *)

LEMMA Counts ==
    ASSUME NEW entries, NEW d
    PROVE  /\ IsFiniteSet(Again(entries)) /\ Cardinality(Again(entries)) \in Nat
           /\ IsFiniteSet(ReservedIn(d)) /\ Cardinality(ReservedIn(d)) \in Nat
  <1>1. IsFiniteSet(Items \X (2..MaxAttempts))
    <2>1. 2 \in Int /\ MaxAttempts \in Int
      BY OrchestratorAssumption
    <2>2. IsFiniteSet(2..MaxAttempts)
      BY <2>1, FS_Interval
    <2>3. QED
      BY <2>2, OrchestratorAssumption, FS_Product
  <1>2. IsFiniteSet(Again(entries))
    BY <1>1, FS_Subset DEF Again
  <1>3. IsFiniteSet(ReservedIn(d))
    BY OrchestratorAssumption, FS_Subset DEF ReservedIn
  <1>4. QED
    BY <1>2, <1>3, FS_CardinalityType

LEMMA StillAccounts ==
    ASSUME NEW d \in CheckpointDocument, NEW e \in CheckpointDocument,
           NEW entries \in [Items -> Nat], AccountsFor(d, entries),
           d.replays <= e.replays, ReservedIn(e) = ReservedIn(d),
           \A i \in Items : d.items[i].attempts <= e.items[i].attempts
    PROVE  AccountsFor(e, entries)
  <1>1. d.replays \in Nat /\ e.replays \in Nat
    BY DocumentFields
  <1>2. \A i \in Items : d.items[i].attempts \in Nat /\ e.items[i].attempts \in Nat
    BY DocumentFields
  <1>3. \A i \in Items : entries[i] <= e.items[i].attempts
    BY <1>2 DEF AccountsFor
  <1>4. Cardinality(Again(entries)) + Cardinality(ReservedIn(d)) <= e.replays
    <2>1. Cardinality(Again(entries)) + Cardinality(ReservedIn(d)) <= d.replays
      BY DEF AccountsFor
    <2>2. QED
      BY <1>1, <2>1, Counts
  <1>5. QED
    BY <1>3, <1>4 DEF AccountsFor

LEMMA StillValid ==
    ASSUME NEW d, NEW e, Valid(d), Aside(d, e), d.status \in Resumable
    PROVE  Valid(e)
  <1>1. ReservationsValid(e)
    BY DEF Valid, ReservationsValid, Aside
  <1>2. e.status \notin {"COMPLETE_CLEAN", "COMPLETE_WITH_FINDINGS", "BUDGET_EXHAUSTED"}
    BY DEF Aside, Resumable
  <1>3. QED
    BY <1>1, <1>2 DEF Valid, Aside

LEMMA SameReserved ==
    ASSUME NEW d, NEW e, Aside(d, e)
    PROVE  ReservedIn(e) = ReservedIn(d)
  BY DEF Aside, ReservedIn

NextIn(d, c) ==
    /\ d.queue[c] \in QueueOpen
    /\ \A e \in Clusters : e < c => d.queue[e] \notin QueueOpen

\* Where a process may be once d is its document.
Suits(d, next, verdict) ==
    /\ next \in Phases /\ verdict \in Statuses \cup {"none"}
    /\ next \notin {"idle", "finalize"} => d.status \in Resumable
    /\ next = "finalize" => verdict # "none" /\ (d.status \in Resumable \/ verdict = d.status)
    /\ next \in ReplayPhases => \A c \in Clusters : NextIn(d, c) =>
         d.queue[c] = "RUNNING" /\ d.reservation[c] = "RESERVED"

\* The event of a minimizer's replay is not seen.
LEMMA Unseen ==
    ASSUME OrchestratorInv, MinimizationReplays
    PROVE  happened' \subseteq Fates /\ Seen' = Seen
  <1>1. happened \subseteq Fates
    BY DEF OrchestratorInv, OrchestratorTypeOK
  <1>2. CASE happened' = happened
    BY <1>1, <1>2 DEF Seen
  <1>3. CASE happened' = happened \cup {"minimized"}
    BY <1>1, <1>3 DEF Seen, Fates
  <1>4. QED
    BY <1>2, <1>3 DEF MinimizationReplays

LEMMA Reached ==
    ASSUME NEW d \in CheckpointDocument, NEW next, Suits(d, next, stop'),
           doc' = d, phase' = next, Valid(d), Marked(d, Seen'), AccountsFor(d, runs'),
           runs' \in [Items -> Nat], happened' \subseteq Fates
    PROVE  OrchestratorInv'
  <1>1. OrchestratorTypeOK'
    BY DEF OrchestratorTypeOK, Suits, Phases, ItemPhases, ReplayPhases, Statuses
  <1>2. Valid(doc)' /\ Marked(doc, Seen)' /\ AccountsFor(doc, runs)'
    <2>1. Valid(doc)'
      BY DEF Valid, ReservationsValid, BudgetSpent
    <2>2. Marked(doc, Seen)'
      BY DEF Marked
    <2>3. AccountsFor(doc, runs)'
      BY DEF AccountsFor, Again, ReservedIn
    <2>4. QED
      BY <2>1, <2>2, <2>3
  <1>3. Verdicts'
    <2>1. d.status \in Resumable => d.status \notin Terminal
      BY DEF Resumable, Terminal, Refusals
    <2>2. QED
      BY <2>1 DEF Verdicts, Suits
  <1>4. InReplay'
    BY DEF InReplay, Suits, NextIn, IsNextReplay
  <1>5. QED
    BY <1>1, <1>2, <1>3, <1>4 DEF OrchestratorInv

\* A write that may be refused.
LEMMA Written ==
    ASSUME OrchestratorInv, NEW d \in CheckpointDocument, NEW next,
           Checkpoint(d, next), Suits(d, next, stop'),
           runs' = runs, MinimizationReplays,
           Marked(d, Seen), AccountsFor(d, runs), KeptIn(d)
    PROVE  OrchestratorInv' /\ Kept
  <1>1. /\ runs \in [Items -> Nat] /\ doc \in CheckpointDocument
        /\ happened' \subseteq Fates /\ Seen' = Seen
    BY Unseen DEF OrchestratorInv, OrchestratorTypeOK
  <1>2. CASE Valid(d) /\ doc' = d /\ phase' = next
    <2>1. OrchestratorInv'
      BY <1>1, <1>2, Reached
    <2>2. Kept
      BY <1>2 DEF Kept, KeptIn
    <2>3. QED
      BY <2>1, <2>2
  <1>3. CASE ~Valid(d) /\ doc' = doc /\ phase' = "idle"
    <2>1. Suits(doc, "idle", stop')
      BY DEF Suits, Phases, ItemPhases, ReplayPhases
    <2>2. Valid(doc) /\ Marked(doc, Seen) /\ AccountsFor(doc, runs)
      BY DEF OrchestratorInv
    <2>3. OrchestratorInv'
      BY <1>1, <1>3, <2>1, <2>2, Reached
    <2>4. Kept
      BY <1>3 DEF Kept, KeptIn
    <2>5. QED
      BY <2>3, <2>4
  <1>4. QED
    BY <1>2, <1>3 DEF Checkpoint

\* No write: the process goes on with the document as it is.
LEMMA StaysAsItIs ==
    ASSUME OrchestratorInv, doc' = doc, Suits(doc, phase', stop'), runs' = runs,
           happened' = happened
    PROVE  OrchestratorInv' /\ Kept
  <1>1. /\ runs \in [Items -> Nat] /\ doc \in CheckpointDocument
        /\ happened' \subseteq Fates /\ Seen' = Seen
        /\ Valid(doc) /\ Marked(doc, Seen) /\ AccountsFor(doc, runs)
    BY DEF OrchestratorInv, OrchestratorTypeOK, Seen
  <1>2. OrchestratorInv'
    BY <1>1, Reached
  <1>3. Kept
    BY DEF Kept, KeptIn
  <1>4. QED
    BY <1>2, <1>3

\* A write that is not, and what the executor has returned with it.
LEMMA WrittenInFull ==
    ASSUME OrchestratorInv, NEW d \in CheckpointDocument, NEW next,
           Checkpoint(d, next), Valid(d), Suits(d, next, stop'),
           runs' = runs, happened' \subseteq Fates,
           Marked(d, Seen'), AccountsFor(d, runs), KeptIn(d)
    PROVE  OrchestratorInv' /\ Kept
  <1>1. runs \in [Items -> Nat]
    BY DEF OrchestratorInv, OrchestratorTypeOK
  <1>2. doc' = d /\ phase' = next
    BY DEF Checkpoint
  <1>3. OrchestratorInv'
    BY <1>1, <1>2, Reached
  <1>4. Kept
    BY <1>2 DEF Kept, KeptIn
  <1>5. QED
    BY <1>3, <1>4

-----------------------------------------------------------------------------
(* The work items. *)

\* A document in which, of what this one says, only open items have changed.
Advances(e) ==
    /\ e \in CheckpointDocument /\ Aside(doc, e) /\ e.replays = doc.replays
    /\ \A i \in Items : doc.items[i].attempts <= e.items[i].attempts
    /\ KeptIn(e)

LEMMA RecordAdvances ==
    ASSUME OrchestratorInv, NEW i \in Items, doc.items[i].state \in ItemOpen,
           NEW s \in ItemStates, NEW a \in 0..MaxAttempts, doc.items[i].attempts <= a
    PROVE  Advances(RecordItem(doc, i, s, a))
  <1>1. doc \in CheckpointDocument
    BY DEF OrchestratorInv, OrchestratorTypeOK
  <1> DEFINE e == RecordItem(doc, i, s, a)
  <1>2. /\ e \in CheckpointDocument /\ Aside(doc, e) /\ e.replays = doc.replays
        /\ e.unresolved = doc.unresolved /\ e.items[i].attempts = a
        /\ \A j \in Items \ {i} : e.items[j] = doc.items[j]
    BY <1>1, Recorded
  <1> HIDE DEF e
  <1>3. doc.items[i].state \notin ItemDone
    BY DEF ItemOpen, ItemDone
  <1>4. \A j \in Items : doc.items[j].attempts \in Nat
    BY <1>1, DocumentFields
  <1>5. \A j \in Items : doc.items[j].attempts <= e.items[j].attempts
    BY <1>2, <1>4
  <1>6. KeptIn(e)
    BY <1>2, <1>3 DEF KeptIn
  <1>7. Advances(e)
    BY <1>2, <1>5, <1>6 DEF Advances
  <1>8. QED
    BY <1>7 DEF e

LEMMA AdvancesSuits ==
    ASSUME OrchestratorInv, phase \in ItemPhases, NEW e, Advances(e)
    PROVE  /\ Valid(e) /\ AccountsFor(e, runs) /\ e.status \in Resumable
  <1>1. doc.status \in Resumable /\ Valid(doc) /\ AccountsFor(doc, runs)
        /\ doc \in CheckpointDocument /\ runs \in [Items -> Nat]
    BY DEF OrchestratorInv, OrchestratorTypeOK, Verdicts, ItemPhases
  <1>2. Valid(e) /\ e.status \in Resumable
    BY <1>1, StillValid DEF Advances, Aside
  <1>3. ReservedIn(e) = ReservedIn(doc)
    BY SameReserved DEF Advances
  <1>4. doc.replays \in Nat
    BY <1>1, DocumentFields
  <1>5. AccountsFor(e, runs)
    BY <1>1, <1>3, <1>4, StillAccounts DEF Advances
  <1>6. QED
    BY <1>2, <1>5

\* The campaign stops at an item, whatever it was that stopped it.
LEMMA Stopped ==
    ASSUME OrchestratorInv, phase \in ItemPhases, NEW d, Advances(d),
           NEW verdict \in Statuses, StopAt(d, verdict),
           runs' = runs, happened' \subseteq Fates
    PROVE  OrchestratorInv' /\ Kept
  <1> DEFINE e == SkipPending(d)
  <1>1. /\ e \in CheckpointDocument /\ Aside(d, e) /\ e.replays = d.replays
        /\ "REASON" \in e.unresolved
        /\ \A i \in Items : /\ e.items[i].attempts = d.items[i].attempts
                            /\ d.items[i].state \in ItemDone => e.items[i] = d.items[i]
    BY Skipped DEF Advances
  <1>2. Checkpoint(e, "finalize") /\ stop' = verdict
    BY DEF StopAt
  <1> HIDE DEF e
  <1>3. doc.unresolved \in SUBSET {"PROCESS_INTERRUPTION", "REASON"}
    BY DocumentFields DEF OrchestratorInv, OrchestratorTypeOK
  <1>4. KeptIn(e)
    BY <1>1 DEF Advances, KeptIn
  <1>5. Valid(d) /\ AccountsFor(d, runs) /\ d.status \in Resumable /\ d \in CheckpointDocument
    BY AdvancesSuits DEF Advances
  <1>6. Valid(e) /\ e.status \in Resumable
    BY <1>1, <1>5, StillValid DEF Aside
  <1>7. AccountsFor(e, runs)
    <2>1. runs \in [Items -> Nat]
      BY DEF OrchestratorInv, OrchestratorTypeOK
    <2>2. ReservedIn(e) = ReservedIn(d)
      BY <1>1, SameReserved
    <2>3. d.replays \in Nat /\ \A i \in Items : d.items[i].attempts \in Nat
      BY <1>5, DocumentFields
    <2>4. d.replays <= e.replays
          /\ \A i \in Items : d.items[i].attempts <= e.items[i].attempts
      BY <1>1, <2>3
    <2>5. QED
      BY <1>1, <1>5, <2>1, <2>2, <2>4, StillAccounts
  <1>8. Marked(e, Seen')
    BY <1>1 DEF Marked
  <1>9. Suits(e, "finalize", stop')
    BY <1>2, <1>6 DEF Suits, Phases, ItemPhases, ReplayPhases, Statuses, Terminal, Refusals, Resumable
  <1>10. QED
    BY <1>1, <1>2, <1>4, <1>6, <1>7, <1>8, <1>9, WrittenInFull

\* An outcome that stops nothing, or a verdict that is written later.
LEMMA OutcomeWritten ==
    ASSUME OrchestratorInv, phase \in ItemPhases, NEW d, Advances(d),
           Marked(d, Seen), NEW next \in Phases \ ReplayPhases,
           Checkpoint(d, next), stop' \in Statuses \cup {"none"},
           next = "finalize" => stop' # "none",
           runs' = runs, MinimizationReplays
    PROVE  OrchestratorInv' /\ Kept
  <1>1. Valid(d) /\ AccountsFor(d, runs) /\ d.status \in Resumable
        /\ d \in CheckpointDocument /\ KeptIn(d)
    BY AdvancesSuits DEF Advances
  <1>2. Suits(d, next, stop')
    BY <1>1 DEF Suits
  <1>3. QED
    BY <1>1, <1>2, Written

\* e differs from d in what the runs found and spent, not in what it says is done.
Colours(d, e) ==
    /\ Aside(d, e) /\ e.items = d.items /\ e.replays = d.replays
    /\ e.unresolved = d.unresolved

LEMMA ColoursAdvances ==
    ASSUME NEW d, NEW e \in CheckpointDocument, Advances(d), Colours(d, e)
    PROVE  Advances(e)
  BY DEF Advances, Colours, Aside, KeptIn

LEMMA OutcomeAdvances ==
    ASSUME OrchestratorInv, NEW i \in Items, IsNext(i),
           NEW s \in {"COMPLETED", "BLOCKED"}, NEW d \in Outcomes(i, s)
    PROVE  Advances(d) /\ Marked(d, Seen)
  <1>1. doc \in CheckpointDocument /\ Marked(doc, Seen)
    BY DEF OrchestratorInv, OrchestratorTypeOK
  <1>2. doc.items[i].state \in ItemOpen /\ doc.items[i].attempts \in 0..MaxAttempts
    BY <1>1, DocumentFields DEF IsNext
  <1> DEFINE r == RecordItem(doc, i, s, doc.items[i].attempts)
  <1>3. s \in ItemStates /\ doc.items[i].attempts <= doc.items[i].attempts
    BY <1>2, OrchestratorAssumption DEF ItemStates, ItemDone
  <1>4. Advances(r)
    BY <1>2, <1>3, RecordAdvances
  <1>5. /\ r \in CheckpointDocument /\ Aside(doc, r) /\ r.safety = doc.safety
        /\ r.unresolved = doc.unresolved /\ r.items[i].state = s
        /\ \A j \in Items \ {i} : r.items[j] = doc.items[j]
    BY <1>1, <1>2, <1>3, Recorded
  <1> DEFINE Told(new, spent) == [r EXCEPT !.found = @ \cup new, !.actionsSpent = spent]
  <1>6. PICK new \in SUBSET Clusters, spent \in {doc.actionsSpent, TRUE} :
          d = Told(new, spent)
    <2>1. d \in UNION {{Told(new, spent) : new \in SUBSET Clusters}
                        : spent \in {doc.actionsSpent, TRUE}}
      BY DEF Outcomes
    <2> HIDE DEF Told
    <2>2. QED
      BY <2>1
  <1> HIDE DEF r
  <1> DEFINE found == r.found \cup new
  <1>7. found \in SUBSET Clusters /\ spent \in BOOLEAN
    BY <1>1, <1>5, DocumentFields
  <1>8. d = [r EXCEPT !.found = found, !.actionsSpent = spent]
    BY <1>6
  <1> HIDE DEF found
  <1>9. d \in CheckpointDocument
    BY <1>5, <1>7, <1>8 DEF CheckpointDocument
  <1>10. Colours(r, d) /\ d.safety = r.safety
    BY <1>5, <1>8 DEF CheckpointDocument, Colours, Aside
  <1>11. Marked(r, Seen)
    BY <1>1, <1>5 DEF Marked, Aside
  <1>12. Marked(d, Seen)
    BY <1>10, <1>11 DEF Marked, Colours, Aside
  <1>13. QED
    BY <1>4, <1>9, <1>10, <1>12, ColoursAdvances

LEMMA ItemsStep ==
    ASSUME OrchestratorInv, NEW i \in Items, phase = "items", IsNext(i),
           ItemRefused(i) \/ AttemptsExhausted(i) \/ ItemBudgetExhausted(i)
    PROVE  OrchestratorInv' /\ Kept
  <1>1. doc \in CheckpointDocument /\ happened \subseteq Fates /\ phase \in ItemPhases
    BY DEF OrchestratorInv, OrchestratorTypeOK, ItemPhases
  <1>2. doc.items[i].state \in ItemOpen /\ doc.items[i].attempts \in 0..MaxAttempts
    BY <1>1, DocumentFields DEF IsNext
  <1>3. "BLOCKED" \in ItemStates
    BY DEF ItemStates, ItemDone
  <1>4. Advances(RecordItem(doc, i, "BLOCKED", doc.items[i].attempts))
    <2>1. doc.items[i].attempts <= doc.items[i].attempts
      BY <1>2, OrchestratorAssumption
    <2>2. QED
      BY <1>2, <1>3, <2>1, RecordAdvances
  <1>5. CASE ItemRefused(i)
    <2>1. ItemVerdicts \subseteq Statuses
      BY DEF Statuses, Terminal, Refusals, ItemVerdicts
    <2>2. PICK verdict \in Statuses :
            StopAt(RecordItem(doc, i, "BLOCKED", doc.items[i].attempts), verdict)
      BY <1>5, <2>1 DEF ItemRefused
    <2>3. QED
      BY <1>1, <1>4, <1>5, <2>2, Stopped DEF ItemRefused
  <1>6. CASE AttemptsExhausted(i)
    <2>1. "PARTIAL_RUNTIME_INFRA_FAILURE" \in Statuses
      BY DEF Statuses, Terminal, Refusals
    <2>2. QED
      BY <1>1, <1>4, <1>6, <2>1, Stopped DEF AttemptsExhausted
  <1>7. CASE ItemBudgetExhausted(i)
    <2>1. doc.items[i].attempts + 1 \in 0..MaxAttempts
          /\ doc.items[i].attempts <= doc.items[i].attempts + 1
      BY <1>2, <1>7, OrchestratorAssumption DEF ItemBudgetExhausted
    <2>2. Advances(RecordItem(doc, i, "BLOCKED", doc.items[i].attempts + 1))
      BY <1>2, <1>3, <2>1, RecordAdvances
    <2>3. "BUDGET_EXHAUSTED" \in Statuses
      BY DEF Statuses, Terminal
    <2>4. QED
      BY <1>1, <1>7, <2>2, <2>3, Stopped DEF ItemBudgetExhausted
  <1>8. QED
    BY <1>5, <1>6, <1>7

LEMMA EnteredOnceMore ==
    ASSUME NEW entries \in [Items -> Nat], NEW i \in Items, NEW n \in Nat,
           Cardinality(Again(entries)) <= n
    PROVE  LET more == [entries EXCEPT ![i] = @ + 1] IN
           /\ entries[i] = 0 => Cardinality(Again(more)) <= n
           /\ Cardinality(Again(more)) <= n + 1
  <1> DEFINE more == [entries EXCEPT ![i] = @ + 1]
             new == <<i, entries[i] + 1>>
  <1>1. more[i] = entries[i] + 1 /\ \A j \in Items \ {i} : more[j] = entries[j]
    OBVIOUS
  <1>2. entries[i] \in Nat /\ \A j \in Items : entries[j] \in Nat
    OBVIOUS
  <1> HIDE DEF more
  <1>3. \A e \in Again(more) : e \in Again(entries) \/ (e = new /\ entries[i] > 0)
    <2> SUFFICES ASSUME NEW e \in Again(more)
                 PROVE  e \in Again(entries) \/ (e = new /\ entries[i] > 0)
      OBVIOUS
    <2>1. PICK j \in Items, m \in 2..MaxAttempts : e = <<j, m>>
      BY DEF Again
    <2>2. m <= more[j] /\ m \in Nat /\ m >= 2
      BY <2>1, OrchestratorAssumption DEF Again
    <2>3. CASE m <= entries[j]
      BY <2>1, <2>3 DEF Again
    <2>4. CASE ~(m <= entries[j])
      <3>1. j = i
        BY <1>1, <2>2, <2>4
      <3>2. m = entries[i] + 1 /\ entries[i] > 0
        BY <1>1, <1>2, <2>2, <2>4, <3>1
      <3>3. QED
        BY <2>1, <3>1, <3>2
    <2>5. QED
      BY <2>3, <2>4
  <1>4. Cardinality(Again(more)) \in Nat /\ Cardinality(Again(entries)) \in Nat
    BY Counts
  <1>5. ASSUME entries[i] = 0 PROVE Cardinality(Again(more)) <= n
    <2>1. Again(more) \subseteq Again(entries)
      BY <1>2, <1>3, <1>5
    <2>2. Cardinality(Again(more)) <= Cardinality(Again(entries))
      BY <2>1, Counts, FS_Subset
    <2>3. QED
      BY <1>4, <2>2
  <1>6. Cardinality(Again(more)) <= n + 1
    <2>1. Again(more) \subseteq Again(entries) \cup {new}
      BY <1>3
    <2>2. /\ IsFiniteSet(Again(entries) \cup {new})
          /\ Cardinality(Again(entries) \cup {new}) <= Cardinality(Again(entries)) + 1
      <3>1. IsFiniteSet(Again(entries))
        BY Counts
      <3> HIDE DEF new
      <3>2. /\ IsFiniteSet(Again(entries) \cup {new})
            /\ \/ Cardinality(Again(entries) \cup {new}) = Cardinality(Again(entries))
               \/ Cardinality(Again(entries) \cup {new}) = Cardinality(Again(entries)) + 1
        BY <3>1, FS_AddElement
      <3>3. QED
        BY <1>4, <3>2
    <2>3. Cardinality(Again(more)) <= Cardinality(Again(entries) \cup {new})
      BY <2>1, <2>2, FS_Subset
    <2>4. Cardinality(Again(entries) \cup {new}) \in Nat
      BY <2>2, FS_CardinalityType
    <2>5. QED
      BY <1>4, <2>2, <2>3, <2>4
  <1>7. QED
    BY <1>5, <1>6 DEF more

LEMMA EnterItemStep ==
    ASSUME OrchestratorInv, NEW i \in Items, EnterItem(i)
    PROVE  OrchestratorInv' /\ Kept
  <1>1. /\ doc \in CheckpointDocument /\ happened \subseteq Fates /\ runs \in [Items -> Nat]
        /\ Marked(doc, Seen) /\ AccountsFor(doc, runs) /\ Valid(doc)
        /\ stop \in Statuses \cup {"none"} /\ doc.status \in Resumable
    BY DEF OrchestratorInv, OrchestratorTypeOK, EnterItem, Verdicts, Statuses
  <1>2. /\ doc.items[i].state \in ItemOpen /\ doc.items[i].attempts \in 0..MaxAttempts
        /\ doc.items[i].attempts < MaxAttempts
        /\ doc.replays \in 0..MaxReplays /\ doc.contexts \in 0..MaxContexts
    BY <1>1, DocumentFields DEF EnterItem, IsNext
  <1> DEFINE r == RecordItem(doc, i, "RUNNING", doc.items[i].attempts + 1)
             more == [runs EXCEPT ![i] = @ + 1]
             replays == r.replays + (IF IsReplay(i) THEN 1 ELSE 0)
             contexts == r.contexts + 1
  <1>3. /\ "RUNNING" \in ItemStates /\ doc.items[i].attempts + 1 \in 0..MaxAttempts
        /\ doc.items[i].attempts <= doc.items[i].attempts + 1
    BY <1>2, OrchestratorAssumption DEF ItemStates, ItemOpen
  <1>4. /\ r \in CheckpointDocument /\ Aside(doc, r) /\ r.safety = doc.safety
        /\ r.unresolved = doc.unresolved /\ r.replays = doc.replays
        /\ r.contexts = doc.contexts
        /\ r.items[i].state = "RUNNING" /\ r.items[i].attempts = doc.items[i].attempts + 1
        /\ \A j \in Items \ {i} : r.items[j] = doc.items[j]
    BY <1>1, <1>2, <1>3, Recorded
  <1>5. Advances(r)
    BY <1>2, <1>3, RecordAdvances
  <1>6. Reserved(i) = [r EXCEPT !.contexts = contexts, !.replays = replays]
    BY DEF Reserved
  <1>7. /\ runs' = more /\ stop' = stop /\ MinimizationReplays
        /\ Checkpoint(Reserved(i), "executing")
        /\ happened' \subseteq Fates /\ Seen' = Seen
    BY Unseen DEF EnterItem, MinimizationReplays
  <1> HIDE DEF r
  <1>8. /\ replays \in 0..MaxReplays /\ contexts \in 0..MaxContexts
        /\ replays = doc.replays + (IF IsReplay(i) THEN 1 ELSE 0)
    <2>1. doc.contexts < CollectContexts /\ (IsReplay(i) => doc.replays < MaxReplays)
      BY DEF EnterItem, Affordable
    <2>2. contexts \in 0..MaxContexts
      BY <1>2, <1>4, <2>1, OrchestratorAssumption
    <2>3. replays \in 0..MaxReplays
      BY <1>2, <1>4, <2>1, OrchestratorAssumption
    <2>4. QED
      BY <1>4, <2>2, <2>3
  <1> HIDE DEF replays, contexts
  <1> DEFINE d == [r EXCEPT !.contexts = contexts, !.replays = replays]
  <1>9. d \in CheckpointDocument
    BY <1>4, <1>8 DEF CheckpointDocument
  <1>10. /\ Aside(r, d) /\ d.items = r.items /\ d.unresolved = r.unresolved
         /\ d.safety = r.safety /\ d.replays = replays
    BY <1>4 DEF CheckpointDocument, Aside
  <1> HIDE DEF d
  <1>11. Aside(doc, d)
    BY <1>4, <1>10 DEF Aside
  <1>12. Valid(d) /\ d.status \in Resumable
    BY <1>1, <1>11, StillValid DEF Aside
  <1>13. Marked(d, Seen')
    <2>1. Marked(r, Seen)
      BY <1>1, <1>4 DEF Marked, Aside
    <2>2. QED
      BY <1>7, <1>10, <2>1 DEF Marked, Aside
  <1>14. more \in [Items -> Nat]
    BY <1>1
  <1>15. AccountsFor(d, more)
    <2>1. more[i] = runs[i] + 1 /\ \A j \in Items \ {i} : more[j] = runs[j]
      BY <1>1
    <2>2. \A j \in Items : runs[j] \in Nat /\ doc.items[j].attempts \in Nat
                           /\ runs[j] <= doc.items[j].attempts
      BY <1>1, DocumentFields DEF AccountsFor
    <2>3. \A j \in Items : more[j] <= d.items[j].attempts
      BY <1>4, <1>10, <2>1, <2>2
    <2>4. ReservedIn(d) = ReservedIn(doc)
      BY <1>11, SameReserved
    <2> DEFINE c == Cardinality(ReservedIn(doc))
               n == Cardinality(Again(runs))
    <2>5. c \in Nat /\ n \in Nat /\ n + c <= doc.replays /\ n <= n
          /\ Cardinality(Again(more)) \in Nat
      BY <1>1, Counts DEF AccountsFor
    <2>6. /\ runs[i] = 0 => Cardinality(Again(more)) <= n
          /\ Cardinality(Again(more)) <= n + 1
      BY <1>1, <2>5, EnteredOnceMore
    <2>7. runs[i] # 0 => IsReplay(i)
      BY <2>2, OrchestratorAssumption DEF IsReplay
    <2> HIDE DEF more, c, n
    <2>8. Cardinality(Again(more)) + c <= replays
      BY <1>2, <1>8, <2>5, <2>6, <2>7, OrchestratorAssumption
    <2>9. QED
      BY <1>10, <2>3, <2>4, <2>8 DEF AccountsFor, c
  <1>16. doc' = d /\ phase' = "executing"
    BY <1>6, <1>7, <1>12 DEF Checkpoint, d
  <1>17. Suits(d, "executing", stop')
    BY <1>1, <1>7, <1>12 DEF Suits, Phases, ItemPhases, ReplayPhases
  <1>18. OrchestratorInv'
    <2> HIDE DEF more
    <2>1. QED
      BY <1>1, <1>7, <1>9, <1>12, <1>13, <1>14, <1>15, <1>16, <1>17, Reached
  <1>19. Kept
    <2>1. doc.items[i].state \notin ItemDone
      BY <1>2 DEF ItemOpen, ItemDone
    <2>2. \A j \in Items \ {i} : d.items[j] = doc.items[j] /\ more[j] = runs[j]
      BY <1>1, <1>4, <1>10
    <2> HIDE DEF more
    <2>3. QED
      BY <1>7, <1>16, <2>1, <2>2 DEF Kept, KeptIn
  <1>20. QED
    BY <1>18, <1>19

LEMMA SafetyAdvances ==
    ASSUME NEW d, Advances(d)
    PROVE  Advances([d EXCEPT !.safety = TRUE])
  <1> DEFINE e == [d EXCEPT !.safety = TRUE]
  <1>1. d \in CheckpointDocument
    BY DEF Advances
  <1>2. e \in CheckpointDocument /\ Colours(d, e)
    BY <1>1 DEF CheckpointDocument, Colours, Aside
  <1> HIDE DEF e
  <1>3. Advances(e)
    BY <1>2, ColoursAdvances
  <1>4. QED
    BY <1>3 DEF e

LEMMA SpentAdvances ==
    ASSUME NEW d, Advances(d), NEW spent \in BOOLEAN
    PROVE  Advances([d EXCEPT !.safety = TRUE, !.actionsSpent = spent])
  <1> DEFINE e == [d EXCEPT !.safety = TRUE, !.actionsSpent = spent]
  <1>1. d \in CheckpointDocument
    BY DEF Advances
  <1>2. e \in CheckpointDocument
    BY <1>1 DEF CheckpointDocument
  <1>3. Colours(d, e)
    BY <1>1 DEF CheckpointDocument, Colours, Aside
  <1> HIDE DEF e
  <1>4. Advances(e)
    BY <1>2, <1>3, ColoursAdvances
  <1>5. QED
    BY <1>4 DEF e

LEMMA InterruptedStep ==
    ASSUME OrchestratorInv, NEW i \in Items, ItemInterrupted(i)
    PROVE  OrchestratorInv' /\ Kept
  <1>1. doc \in CheckpointDocument /\ Marked(doc, Seen)
    BY DEF OrchestratorInv, OrchestratorTypeOK
  <1>2. doc.items[i].state \in ItemOpen /\ doc.items[i].attempts \in 0..MaxAttempts
    BY <1>1, DocumentFields DEF ItemInterrupted, Executing, IsNext
  <1>3. "REPLAY_REQUIRED" \in ItemStates /\ doc.items[i].attempts <= doc.items[i].attempts
    BY <1>2, OrchestratorAssumption DEF ItemStates, ItemOpen
  <1> DEFINE r == RecordItem(doc, i, "REPLAY_REQUIRED", doc.items[i].attempts)
             b == Because(r, "PROCESS_INTERRUPTION")
             d == [b EXCEPT !.status = "INCOMPLETE_PROCESS_INTERRUPTION"]
  <1>4. Checkpoint(d, "finalize") /\ stop' = "INCOMPLETE_PROCESS_INTERRUPTION"
        /\ runs' = runs /\ MinimizationReplays
    BY DEF ItemInterrupted, MinimizationReplays
  <1>5. /\ r \in CheckpointDocument /\ Aside(doc, r) /\ r.safety = doc.safety
        /\ r.unresolved = doc.unresolved /\ r.items[i].state = "REPLAY_REQUIRED"
        /\ \A j \in Items \ {i} : r.items[j] = doc.items[j]
    BY <1>1, <1>2, <1>3, Recorded
  <1>6. Advances(r)
    BY <1>2, <1>3, RecordAdvances
  <1> HIDE DEF r
  <1>7. /\ b \in CheckpointDocument /\ Aside(r, b) /\ b.items = r.items
        /\ b.replays = r.replays /\ b.safety = r.safety
        /\ r.unresolved \subseteq b.unresolved
    BY <1>5, Explained
  <1> HIDE DEF b
  <1>8. /\ d \in CheckpointDocument /\ d.status = "INCOMPLETE_PROCESS_INTERRUPTION"
        /\ d.items = b.items /\ d.replays = b.replays /\ d.safety = b.safety
        /\ d.unresolved = b.unresolved /\ d.queue = b.queue
        /\ d.reservation = b.reservation /\ d.replayEvents = b.replayEvents
    BY <1>7 DEF CheckpointDocument, Resumable
  <1> HIDE DEF d
  <1>9. Marked(d, Seen)
    <2>1. Marked(r, Seen)
      BY <1>1, <1>5 DEF Marked, Aside
    <2>2. QED
      BY <1>7, <1>8, <2>1 DEF Marked, Aside
  <1>10. AccountsFor(d, runs)
    <2>1. AccountsFor(r, runs)
      BY <1>6, AdvancesSuits DEF ItemInterrupted, Executing, ItemPhases
    <2>2. ReservedIn(d) = ReservedIn(r)
      BY <1>7, <1>8 DEF Aside, ReservedIn
    <2>3. QED
      BY <1>7, <1>8, <2>1, <2>2 DEF AccountsFor
  <1>11. KeptIn(d)
    BY <1>6, <1>7, <1>8 DEF Advances, KeptIn
  <1>12. Suits(d, "finalize", stop')
    BY <1>4, <1>8 DEF Suits, Phases, ItemPhases, ReplayPhases, Statuses, Resumable
  <1>13. QED
    BY <1>4, <1>8, <1>9, <1>10, <1>11, <1>12, Written

LEMMA ExecutingStep ==
    ASSUME OrchestratorInv, NEW i \in Items, IsNext(i), phase \in ItemPhases,
           \/ ItemReturns(i) \/ ItemCompletes(i) \/ ItemSafetyEvent(i)
           \/ ItemEventRefused(i) \/ ItemStopsCampaign(i) \/ ItemThrows(i)
           \/ ItemSafetyBlocked(i) \/ ItemOverspends(i) \/ ItemInterrupted(i)
    PROVE  OrchestratorInv' /\ Kept
  <1>1. /\ doc \in CheckpointDocument /\ happened \subseteq Fates
        /\ stop \in Statuses \cup {"none"}
        /\ happened \cup {"seen"} \subseteq Fates
    BY DEF OrchestratorInv, OrchestratorTypeOK, Statuses, Fates
  <1>2. doc.items[i].state \in ItemOpen /\ doc.items[i].attempts \in 0..MaxAttempts
    BY <1>1, DocumentFields DEF IsNext
  <1>3. /\ ItemVerdicts \subseteq Statuses
        /\ {"PARTIAL_SAFETY_BLOCKED", "PARTIAL_RUNTIME_INFRA_FAILURE",
            "BUDGET_EXHAUSTED"} \subseteq Statuses
    BY DEF Statuses, Terminal, Refusals, ItemVerdicts
  <1>4. CASE ItemCompletes(i)
    <2>1. PICK d \in Outcomes(i, "COMPLETED") : Checkpoint(d, "items")
      BY <1>4 DEF ItemCompletes
    <2>2. Advances(d) /\ Marked(d, Seen)
      BY OutcomeAdvances
    <2>3. QED
      BY <1>1, <1>4, <2>1, <2>2, OutcomeWritten
      DEF ItemCompletes, Phases, ItemPhases, ReplayPhases, MinimizationReplays
  <1>5. CASE ItemSafetyEvent(i)
    <2>1. PICK s \in {"COMPLETED", "BLOCKED"} : \E d \in Outcomes(i, s) :
            StopAt([d EXCEPT !.safety = TRUE], "PARTIAL_SAFETY_BLOCKED")
      BY <1>5 DEF ItemSafetyEvent
    <2>2. PICK d \in Outcomes(i, s) :
            StopAt([d EXCEPT !.safety = TRUE], "PARTIAL_SAFETY_BLOCKED")
      BY <2>1
    <2>3. Advances(d)
      BY OutcomeAdvances
    <2>4. Advances([d EXCEPT !.safety = TRUE])
      BY <2>3, SafetyAdvances
    <2>5. runs' = runs /\ happened' \subseteq Fates
      BY <1>1, <1>5 DEF ItemSafetyEvent
    <2>6. QED
      BY <1>1, <1>3, <2>2, <2>4, <2>5, Stopped
  <1>6. CASE ItemStopsCampaign(i)
    <2>1. PICK verdict \in Statuses, s \in {"COMPLETED", "BLOCKED"} :
            \E d \in Outcomes(i, s) : StopAt(d, verdict)
      BY <1>3, <1>6 DEF ItemStopsCampaign
    <2>2. PICK d \in Outcomes(i, s) : StopAt(d, verdict)
      BY <2>1
    <2>3. Advances(d)
      BY OutcomeAdvances
    <2>4. QED
      BY <1>1, <1>6, <2>2, <2>3, Stopped DEF ItemStopsCampaign
  <1>7. CASE ItemSafetyBlocked(i)
    <2>1. PICK d \in Outcomes(i, "BLOCKED") : Checkpoint(d, "finalize")
      BY <1>7 DEF ItemSafetyBlocked
    <2>2. Advances(d) /\ Marked(d, Seen)
      BY OutcomeAdvances
    <2>3. stop' \in Statuses /\ stop' # "none"
      BY <1>3, <1>7 DEF ItemSafetyBlocked
    <2>4. QED
      BY <1>1, <1>7, <2>1, <2>2, <2>3, OutcomeWritten
      DEF ItemSafetyBlocked, Phases, ItemPhases, ReplayPhases, MinimizationReplays
  <1>8. CASE ItemOverspends(i)
    <2>1. "BLOCKED" \in ItemStates /\ doc.items[i].attempts <= doc.items[i].attempts
      BY <1>2, OrchestratorAssumption DEF ItemStates, ItemDone
    <2>2. Advances(RecordItem(doc, i, "BLOCKED", doc.items[i].attempts))
      BY <1>2, <2>1, RecordAdvances
    <2>3. happened' \subseteq Fates /\ runs' = runs
      BY <1>1, <1>8 DEF ItemOverspends
    <2>4. QED
      BY <1>1, <1>3, <1>8, <2>2, <2>3, Stopped DEF ItemOverspends
  <1>9. CASE ItemInterrupted(i)
    BY <1>9, InterruptedStep
  <1>10. CASE ItemReturns(i)
    <2>1. doc' = doc /\ runs' = runs /\ stop' = stop /\ happened' = happened
          /\ phase' \in ItemPhases
      BY <1>10 DEF ItemReturns, ItemPhases
    <2>2. doc.status \in Resumable
      BY DEF OrchestratorInv, Verdicts, ItemPhases
    <2>3. Suits(doc, phase', stop')
      BY <1>1, <2>1, <2>2 DEF Suits, Phases, ItemPhases, ReplayPhases
    <2>4. QED
      BY <2>1, <2>3, StaysAsItIs
  <1>11. CASE ItemThrows(i)
    <2>1. PICK verdict \in Statuses :
            StopAt(RecordItem(doc, i, "BLOCKED", doc.items[i].attempts), verdict)
      BY <1>3, <1>11 DEF ItemThrows
    <2>2. "BLOCKED" \in ItemStates /\ doc.items[i].attempts <= doc.items[i].attempts
      BY <1>2, OrchestratorAssumption DEF ItemStates, ItemDone
    <2>3. Advances(RecordItem(doc, i, "BLOCKED", doc.items[i].attempts))
      BY <1>2, <2>2, RecordAdvances
    <2>4. QED
      BY <1>1, <1>11, <2>1, <2>3, Stopped DEF ItemThrows
  <1>12. CASE ItemEventRefused(i)
    <2>1. PICK verdict \in Statuses, spent \in {doc.actionsSpent, TRUE} :
            StopAt([RecordItem(doc, i, "BLOCKED", doc.items[i].attempts) EXCEPT
                      !.safety = TRUE, !.actionsSpent = spent], verdict)
      BY <1>3, <1>12 DEF ItemEventRefused
    <2>2. "BLOCKED" \in ItemStates /\ doc.items[i].attempts <= doc.items[i].attempts
      BY <1>2, OrchestratorAssumption DEF ItemStates, ItemDone
    <2>3. Advances(RecordItem(doc, i, "BLOCKED", doc.items[i].attempts))
      BY <1>2, <2>2, RecordAdvances
    <2>4. spent \in BOOLEAN
      BY <1>1, DocumentFields
    <2>5. Advances([RecordItem(doc, i, "BLOCKED", doc.items[i].attempts) EXCEPT
                      !.safety = TRUE, !.actionsSpent = spent])
      BY <2>3, <2>4, SpentAdvances
    <2>6. runs' = runs /\ happened' \subseteq Fates
      BY <1>1, <1>12 DEF ItemEventRefused
    <2>7. QED
      BY <2>1, <2>5, <2>6, Stopped
  <1>13. QED
    BY <1>4, <1>5, <1>6, <1>7, <1>8, <1>9, <1>10, <1>11, <1>12

-----------------------------------------------------------------------------
(* Processes that start and end. *)

LEMMA Closed ==
    ASSUME OrchestratorInv, NEW d \in CheckpointDocument, NEW verdict \in Statuses,
           CloseCampaign(d, verdict), Marked(d, Seen), AccountsFor(d, runs), KeptIn(d)
    PROVE  OrchestratorInv' /\ Kept
  <1>1. stop \in Statuses \cup {"none"}
    BY DEF OrchestratorInv, OrchestratorTypeOK, Statuses
  <1> DEFINE left == IF verdict = "COMPLETE_CLEAN"
                     THEN d.unresolved \ {"PROCESS_INTERRUPTION"} ELSE d.unresolved
             e == [d EXCEPT !.status = verdict, !.unresolved = left]
  <1>2. Checkpoint(e, "idle") /\ stop' = stop /\ runs' = runs /\ MinimizationReplays
    BY DEF CloseCampaign, MinimizationReplays
  <1>3. /\ left \in SUBSET {"PROCESS_INTERRUPTION", "REASON"}
        /\ "REASON" \in d.unresolved => "REASON" \in left
    BY DocumentFields
  <1> HIDE DEF left
  <1>4. e \in CheckpointDocument
    BY <1>3 DEF CheckpointDocument, Statuses
  <1>5. /\ e.items = d.items /\ e.queue = d.queue /\ e.reservation = d.reservation
        /\ e.replays = d.replays /\ e.safety = d.safety
        /\ e.replayEvents = d.replayEvents /\ e.unresolved = left
    BY DEF CheckpointDocument
  <1> HIDE DEF e
  <1>6. Marked(e, Seen) /\ AccountsFor(e, runs) /\ KeptIn(e)
    BY <1>3, <1>5 DEF Marked, AccountsFor, ReservedIn, KeptIn
  <1>7. Suits(e, "idle", stop')
    BY <1>1, <1>2 DEF Suits, Phases, ItemPhases, ReplayPhases
  <1>8. QED
    BY <1>2, <1>4, <1>6, <1>7, Written

LEMMA ExplainedClosed ==
    ASSUME OrchestratorInv, NEW r \in {"PROCESS_INTERRUPTION", "REASON"}
    PROVE  LET e == Because(doc, r) IN
           /\ e \in CheckpointDocument
           /\ Marked(e, Seen) /\ AccountsFor(e, runs) /\ KeptIn(e)
  <1> DEFINE e == Because(doc, r)
  <1>1. doc \in CheckpointDocument /\ Marked(doc, Seen) /\ AccountsFor(doc, runs)
    BY DEF OrchestratorInv, OrchestratorTypeOK
  <1>2. /\ e \in CheckpointDocument /\ Aside(doc, e) /\ e.replays = doc.replays
        /\ e.safety = doc.safety /\ doc.unresolved \subseteq e.unresolved
        /\ e.items = doc.items
    BY <1>1, Explained
  <1> HIDE DEF e
  <1>3. Marked(e, Seen)
    BY <1>1, <1>2 DEF Marked, Aside
  <1>4. AccountsFor(e, runs)
    BY <1>1, <1>2, SameReserved DEF AccountsFor
  <1>5. KeptIn(e)
    BY <1>2 DEF KeptIn
  <1>6. QED
    BY <1>2, <1>3, <1>4, <1>5 DEF e

LEMMA PlanStep ==
    ASSUME OrchestratorInv, PlanQueue
    PROVE  OrchestratorInv' /\ Kept
  <1>1. /\ doc \in CheckpointDocument /\ Marked(doc, Seen) /\ AccountsFor(doc, runs)
        /\ stop \in Statuses \cup {"none"} /\ doc.status \in Resumable
    BY DEF OrchestratorInv, OrchestratorTypeOK, PlanQueue, Verdicts, Statuses
  <1> DEFINE new == [c \in Clusters |->
                       IF c \notin Promoted(doc.found \ doc.ready) THEN "none"
                       ELSE IF doc.queue[c] = "none" THEN "PENDING" ELSE doc.queue[c]]
             d == [doc EXCEPT !.queue = new]
  <1>2. Checkpoint(d, "queue") /\ stop' = stop /\ runs' = runs /\ MinimizationReplays
    BY DEF PlanQueue, MinimizationReplays
  <1>3. doc.queue \in [Clusters -> QueueOpen \cup QueueDone \cup {"none"}]
    BY <1>1, DocumentFields
  <1>4. new \in [Clusters -> QueueOpen \cup QueueDone \cup {"none"}]
    BY <1>3 DEF QueueOpen, ItemOpen
  <1>5. \A c \in Clusters : new[c] = "BLOCKED" => doc.queue[c] = "BLOCKED"
    OBVIOUS
  <1> HIDE DEF new
  <1>6. d \in CheckpointDocument
    BY <1>1, <1>4 DEF CheckpointDocument
  <1>7. /\ d.items = doc.items /\ d.queue = new /\ d.reservation = doc.reservation
        /\ d.replays = doc.replays /\ d.safety = doc.safety /\ d.status = doc.status
        /\ d.replayEvents = doc.replayEvents /\ d.unresolved = doc.unresolved
    BY <1>1 DEF CheckpointDocument
  <1> HIDE DEF d
  <1>8. Marked(d, Seen) /\ AccountsFor(d, runs) /\ KeptIn(d)
    BY <1>1, <1>5, <1>7 DEF Marked, AccountsFor, ReservedIn, KeptIn
  <1>9. Suits(d, "queue", stop')
    BY <1>1, <1>2, <1>7 DEF Suits, Phases, ItemPhases, ReplayPhases
  <1>10. QED
    BY <1>2, <1>6, <1>8, <1>9, Written

LEMMA ProcessStep ==
    ASSUME OrchestratorInv,
           \/ Resume \/ PreflightPasses \/ PreflightRefuses \/ Finalize \/ Die
           \/ StopAfterItem \/ PlanQueue \/ Complete
    PROVE  OrchestratorInv' /\ Kept
  <1>1. /\ doc \in CheckpointDocument /\ runs \in [Items -> Nat] /\ happened \subseteq Fates
        /\ Marked(doc, Seen) /\ AccountsFor(doc, runs) /\ Valid(doc)
        /\ stop \in Statuses \cup {"none"} /\ doc.status \in Statuses
    BY DocumentFields DEF OrchestratorInv, OrchestratorTypeOK, Statuses
  <1>2. Refusals \subseteq Statuses
    BY DEF Statuses, Terminal
  <1>3. {"COMPLETE_WITH_FINDINGS", "COMPLETE_CLEAN",
         "INCOMPLETE_PROCESS_INTERRUPTION"} \subseteq Statuses
    BY DEF Statuses, Terminal, Resumable
  <1>4. KeptIn(doc)
    BY DEF KeptIn
  <1>5. CASE Resume
    <2>1. doc' = doc /\ runs' = runs /\ happened' = happened
      BY <1>5 DEF Resume
    <2>2. Suits(doc, phase', stop')
      <3>1. CASE doc.status \in Resumable
        BY <1>5, <3>1 DEF Resume, Suits, Phases, ItemPhases, ReplayPhases
      <3>2. CASE doc.status \notin Resumable
        <4>1. phase' = "finalize" /\ stop' = doc.status
          BY <1>5, <3>2 DEF Resume
        <4>2. doc.status # "none"
          BY <1>1 DEF Statuses, Terminal, Refusals, Resumable
        <4>3. QED
          BY <1>1, <4>1, <4>2 DEF Suits, Phases, ItemPhases, ReplayPhases
      <3>3. QED
        BY <3>1, <3>2
    <2>3. QED
      BY <2>1, <2>2, StaysAsItIs
  <1>6. CASE PreflightPasses
    <2>1. doc.status \in Resumable
      BY <1>6 DEF OrchestratorInv, Verdicts, PreflightPasses
    <2>2. Suits(doc, "items", stop')
      BY <1>1, <1>6, <2>1 DEF Suits, Phases, ItemPhases, ReplayPhases, PreflightPasses
    <2>3. QED
      BY <1>1, <1>4, <1>6, <2>2, Written DEF PreflightPasses, MinimizationReplays
  <1>7. CASE PreflightRefuses
    <2>1. PICK verdict \in Refusals : CloseCampaign(Because(doc, "REASON"), verdict)
      BY <1>7 DEF PreflightRefuses
    <2>2. QED
      BY <1>2, <2>1, ExplainedClosed, Closed
  <1>8. CASE Finalize
    <2>1. stop \in Statuses /\ CloseCampaign(doc, stop)
      BY <1>1, <1>8 DEF OrchestratorInv, Verdicts, Finalize
    <2>2. QED
      BY <1>1, <1>4, <2>1, Closed
  <1>9. CASE Die
    <2>1. doc' = doc /\ runs' = runs /\ phase' = "idle" /\ stop' = "none"
          /\ happened' \subseteq Fates /\ Seen' = Seen
      BY <1>1, <1>9 DEF Die, Fates, Seen
    <2>2. Suits(doc, "idle", stop')
      BY <2>1 DEF Suits, Phases, ItemPhases, ReplayPhases
    <2>3. OrchestratorInv'
      BY <1>1, <2>1, <2>2, Reached
    <2>4. Kept
      BY <2>1 DEF Kept, KeptIn
    <2>5. QED
      BY <2>3, <2>4
  <1>10. CASE StopAfterItem
    BY <1>3, <1>10, ExplainedClosed, Closed DEF StopAfterItem
  <1>11. CASE PlanQueue
    BY <1>11, PlanStep
  <1>12. CASE Complete
    <2>1. PICK verdict \in Statuses : CloseCampaign(doc, verdict)
      BY <1>3, <1>12 DEF Complete
    <2>2. QED
      BY <1>1, <1>4, <2>1, Closed
  <1>13. QED
    BY <1>5, <1>6, <1>7, <1>8, <1>9, <1>10, <1>11, <1>12

-----------------------------------------------------------------------------
(* The replays. *)

\* A document in which the reservations, and what is done, are those of this one.
Turns(e) ==
    /\ e \in CheckpointDocument /\ e.status = doc.status
    /\ ReservedIn(e) = ReservedIn(doc) /\ doc.replays <= e.replays
    /\ \A i \in Items : doc.items[i].attempts <= e.items[i].attempts
    /\ KeptIn(e)

LEMMA TurnsAccounts ==
    ASSUME OrchestratorInv, NEW e, Turns(e)
    PROVE  AccountsFor(e, runs)
  <1>1. /\ doc \in CheckpointDocument /\ runs \in [Items -> Nat]
        /\ AccountsFor(doc, runs)
    BY DEF OrchestratorInv, OrchestratorTypeOK
  <1>2. QED
    BY <1>1, StillAccounts DEF Turns

LEMMA DocTurns ==
    ASSUME OrchestratorInv
    PROVE  Turns(doc) /\ Marked(doc, Seen)
  <1>1. doc \in CheckpointDocument /\ Marked(doc, Seen)
    BY DEF OrchestratorInv, OrchestratorTypeOK
  <1>2. doc.replays \in Nat /\ \A i \in Items : doc.items[i].attempts \in Nat
    BY <1>1, DocumentFields
  <1>3. doc.replays <= doc.replays
        /\ \A i \in Items : doc.items[i].attempts <= doc.items[i].attempts
    BY <1>2
  <1>4. QED
    BY <1>1, <1>3 DEF Turns, KeptIn

\* What is written of a replay, unless a safety event was met in it.
LEMMA TurnWritten ==
    ASSUME OrchestratorInv, phase \in ReplayPhases \cup {"queue"}, NEW d, Turns(d),
           Marked(d, Seen), NEW next \in Phases \ ReplayPhases,
           Checkpoint(d, next), stop' \in Statuses \cup {"none"},
           next = "finalize" => stop' # "none",
           runs' = runs, MinimizationReplays
    PROVE  OrchestratorInv' /\ Kept
  <1>1. d \in CheckpointDocument /\ KeptIn(d) /\ d.status \in Resumable
    BY DEF OrchestratorInv, Verdicts, Turns, ReplayPhases
  <1>2. AccountsFor(d, runs)
    BY TurnsAccounts
  <1>3. Suits(d, next, stop')
    BY <1>1 DEF Suits
  <1>4. QED
    BY <1>1, <1>2, <1>3, Written

LEMMA ExplainedTurns ==
    ASSUME OrchestratorInv, NEW d, Turns(d), NEW r \in {"PROCESS_INTERRUPTION", "REASON"}
    PROVE  LET e == Because(d, r) IN
           /\ Turns(e)
           /\ Marked(d, Seen) => Marked(e, Seen)
           /\ r = "REASON" => Marked(e, Seen)
           /\ e.items = d.items /\ e.queue = d.queue /\ e.reservation = d.reservation
  <1> DEFINE e == Because(d, r)
  <1>1. /\ e \in CheckpointDocument /\ Aside(d, e) /\ e.replays = d.replays
        /\ e.safety = d.safety /\ e.items = d.items
        /\ e.unresolved = d.unresolved \cup {r}
    BY Explained DEF Turns
  <1> HIDE DEF e
  <1>2. ReservedIn(e) = ReservedIn(d)
    BY <1>1, SameReserved
  <1>3. Turns(e)
    BY <1>1, <1>2 DEF Turns, Aside, KeptIn
  <1>4. Marked(d, Seen) => Marked(e, Seen)
    BY <1>1 DEF Marked, Aside
  <1>5. r = "REASON" => Marked(e, Seen)
    BY <1>1 DEF Marked
  <1>6. QED
    BY <1>1, <1>3, <1>4, <1>5 DEF e, Aside

LEMMA SkippedTurns ==
    ASSUME OrchestratorInv, NEW d, Turns(d)
    PROVE  LET e == SkipPending(d) IN
           /\ Turns(e) /\ Aside(d, e)
           /\ \A met : Marked(e, met)
  <1> DEFINE e == SkipPending(d)
  <1>1. /\ e \in CheckpointDocument /\ Aside(d, e) /\ e.replays = d.replays
        /\ e.unresolved = d.unresolved \cup {"REASON"}
        /\ \A i \in Items : /\ e.items[i].attempts = d.items[i].attempts
                            /\ d.items[i].state \in ItemDone => e.items[i] = d.items[i]
    BY Skipped DEF Turns
  <1> HIDE DEF e
  <1>2. ReservedIn(e) = ReservedIn(d)
    BY <1>1, SameReserved
  <1>3. KeptIn(e)
    BY <1>1 DEF Turns, KeptIn
  <1>4. Turns(e)
    BY <1>1, <1>2, <1>3 DEF Turns, Aside
  <1>5. QED
    BY <1>1, <1>4 DEF e, Marked

LEMMA ConsumedTurns ==
    ASSUME OrchestratorInv, NEW c \in Clusters, IsNextReplay(c), phase \in ReplayPhases
    PROVE  /\ Turns(Consumed(c)) /\ Marked(Consumed(c), Seen)
           /\ Consumed(c).replays = doc.replays /\ Consumed(c).queue = doc.queue
           /\ Consumed(c).ready = doc.ready /\ Consumed(c).replayEvents = doc.replayEvents
           /\ \A e \in Clusters : Consumed(c).reservation[e] =
                IF e = c THEN "CONSUMED" ELSE doc.reservation[e]
  <1>1. /\ doc \in CheckpointDocument /\ Marked(doc, Seen) /\ Turns(doc)
        /\ doc.reservation[c] = "RESERVED"
    BY DocTurns DEF OrchestratorInv, OrchestratorTypeOK, InReplay
  <1> DEFINE new == [doc.reservation EXCEPT ![c] = "CONSUMED"]
             d == [doc EXCEPT !.reservation = new]
  <1>2. doc.reservation \in [Clusters -> {"none", "RESERVED", "CONSUMED"}]
    BY <1>1, DocumentFields
  <1>3. /\ new \in [Clusters -> {"none", "RESERVED", "CONSUMED"}]
        /\ \A e \in Clusters : new[e] = IF e = c THEN "CONSUMED" ELSE doc.reservation[e]
    BY <1>2
  <1>4. Consumed(c) = d
    BY DEF Consumed
  <1> HIDE DEF new
  <1>5. d \in CheckpointDocument
    BY <1>1, <1>3 DEF CheckpointDocument
  <1>6. /\ d.items = doc.items /\ d.queue = doc.queue /\ d.reservation = new
        /\ d.replays = doc.replays /\ d.safety = doc.safety /\ d.status = doc.status
        /\ d.replayEvents = doc.replayEvents /\ d.unresolved = doc.unresolved
        /\ d.ready = doc.ready
    BY <1>1 DEF CheckpointDocument
  <1> HIDE DEF d
  <1>7. ReservedIn(d) = ReservedIn(doc)
    BY <1>1, <1>3, <1>6 DEF ReservedIn
  <1>8. Turns(d)
    BY <1>1, <1>5, <1>6, <1>7 DEF Turns, KeptIn
  <1>9. Marked(d, Seen)
    BY <1>1, <1>6 DEF Marked
  <1>10. QED
    BY <1>3, <1>4, <1>6, <1>8, <1>9

LEMMA QueuedTurns ==
    ASSUME NEW d, Turns(d), NEW c \in Clusters, NEW q \in QueueOpen \cup QueueDone
    PROVE  LET e == [d EXCEPT !.queue[c] = q] IN
           /\ Turns(e) /\ e.replays = d.replays /\ e.ready = d.ready
           /\ e.reservation = d.reservation /\ e.contexts = d.contexts
           /\ e.unresolved = d.unresolved
           /\ q # "BLOCKED" /\ Marked(d, Seen) => Marked(e, Seen)
           /\ \A k \in Clusters : e.queue[k] = IF k = c THEN q ELSE d.queue[k]
  <1> DEFINE new == [d.queue EXCEPT ![c] = q]
             e == [d EXCEPT !.queue = new]
  <1>1. d \in CheckpointDocument
    BY DEF Turns
  <1>2. d.queue \in [Clusters -> QueueOpen \cup QueueDone \cup {"none"}]
    BY <1>1, DocumentFields
  <1>3. /\ new \in [Clusters -> QueueOpen \cup QueueDone \cup {"none"}]
        /\ \A k \in Clusters : new[k] = IF k = c THEN q ELSE d.queue[k]
    BY <1>2
  <1>4. [d EXCEPT !.queue[c] = q] = e
    OBVIOUS
  <1> HIDE DEF new
  <1>5. e \in CheckpointDocument
    BY <1>1, <1>3 DEF CheckpointDocument
  <1>6. /\ e.items = d.items /\ e.queue = new /\ e.reservation = d.reservation
        /\ e.replays = d.replays /\ e.safety = d.safety /\ e.status = d.status
        /\ e.replayEvents = d.replayEvents /\ e.unresolved = d.unresolved
        /\ e.ready = d.ready /\ e.contexts = d.contexts
    BY <1>1 DEF CheckpointDocument
  <1> HIDE DEF e
  <1>7. Turns(e)
    BY <1>5, <1>6 DEF Turns, KeptIn, ReservedIn
  <1>8. q # "BLOCKED" /\ Marked(d, Seen) => Marked(e, Seen)
    BY <1>3, <1>6 DEF Marked
  <1>9. QED
    BY <1>3, <1>4, <1>6, <1>7, <1>8

\* The record is blocked, and the promotion stops.
LEMMA BlockedStep ==
    ASSUME OrchestratorInv, phase \in ReplayPhases \cup {"queue"}, NEW d, Turns(d),
           NEW c \in Clusters, NEW verdict \in Statuses, BlockReplay(d, c, verdict),
           runs' = runs, MinimizationReplays
    PROVE  OrchestratorInv' /\ Kept
  <1> DEFINE b == [d EXCEPT !.queue[c] = "BLOCKED"]
  <1>1. Checkpoint(Because(b, "REASON"), "finalize") /\ stop' = verdict
    BY DEF BlockReplay
  <1>2. "BLOCKED" \in QueueOpen \cup QueueDone
    BY DEF QueueDone
  <1>3. Turns(b)
    BY <1>2, QueuedTurns
  <1> HIDE DEF b
  <1>4. Turns(Because(b, "REASON")) /\ Marked(Because(b, "REASON"), Seen)
    BY <1>3, ExplainedTurns
  <1>5. verdict # "none"
    BY DEF Statuses, Terminal, Refusals, Resumable
  <1>6. QED
    BY <1>1, <1>4, <1>5, TurnWritten DEF Phases, ItemPhases, ReplayPhases

LEMMA EnterReplayStep ==
    ASSUME OrchestratorInv, NEW c \in Clusters, EnterReplay(c)
    PROVE  OrchestratorInv' /\ Kept
  <1>1. /\ doc \in CheckpointDocument /\ Marked(doc, Seen) /\ AccountsFor(doc, runs)
        /\ Turns(doc) /\ stop \in Statuses \cup {"none"} /\ doc.status \in Resumable
        /\ runs \in [Items -> Nat]
    BY DocTurns DEF OrchestratorInv, OrchestratorTypeOK, EnterReplay, Verdicts, Statuses
  <1> DEFINE b == [doc EXCEPT !.queue[c] = "RUNNING"]
  <1>2. "RUNNING" \in QueueOpen
    BY DEF QueueOpen, ItemOpen
  <1>3. /\ Turns(b) /\ Marked(b, Seen) /\ b.replays = doc.replays
        /\ b.reservation = doc.reservation /\ b.contexts = doc.contexts
        /\ b.unresolved = doc.unresolved
        /\ \A k \in Clusters : b.queue[k] = IF k = c THEN "RUNNING" ELSE doc.queue[k]
    BY <1>1, <1>2, QueuedTurns
  <1>4. b \in CheckpointDocument /\ AccountsFor(b, runs) /\ b.status = doc.status
    BY <1>3, TurnsAccounts DEF Turns
  <1>5. stop' = stop /\ runs' = runs /\ MinimizationReplays
    BY DEF EnterReplay, MinimizationReplays
  <1> HIDE DEF b
  <1>6. \A k \in Clusters : NextIn(b, k) => k = c
    <2> SUFFICES ASSUME NEW k \in Clusters, NextIn(b, k), k # c
                 PROVE  FALSE
      OBVIOUS
    <2>1. IsNextReplay(c)
      BY DEF EnterReplay
    <2>2. k \in Nat /\ c \in Nat
      BY OrchestratorAssumption
    <2>3. k < c \/ c < k
      BY <2>2
    <2>4. b.queue[k] = doc.queue[k] /\ b.queue[c] = "RUNNING"
      BY <1>3
    <2>5. QED
      BY <1>2, <2>1, <2>3, <2>4 DEF NextIn, IsNextReplay
  <1>7. CASE /\ doc.reservation[c] = "RESERVED"
             /\ Checkpoint([doc EXCEPT !.queue[c] = "RUNNING"], "replaying")
    <2>1. Checkpoint(b, "replaying")
      BY <1>7 DEF b
    <2>2. Suits(b, "replaying", stop')
      BY <1>1, <1>3, <1>4, <1>5, <1>6, <1>7 DEF Suits, Phases, ItemPhases, ReplayPhases
    <2>3. QED
      BY <1>3, <1>4, <1>5, <2>1, <2>2, Written DEF Turns
  <1>8. CASE /\ doc.reservation[c] = "none"
             /\ doc.replays < MaxReplays /\ doc.contexts < MaxContexts
             /\ Checkpoint([doc EXCEPT !.reservation[c] = "RESERVED", !.queue[c] = "RUNNING",
                                       !.replays = @ + 1, !.contexts = @ + 1], "replaying")
    <2> DEFINE new == [b.reservation EXCEPT ![c] = "RESERVED"]
               replays == b.replays + 1
               contexts == b.contexts + 1
               d == [b EXCEPT !.reservation = new, !.replays = replays, !.contexts = contexts]
    <2>1. [doc EXCEPT !.reservation[c] = "RESERVED", !.queue[c] = "RUNNING",
                      !.replays = @ + 1, !.contexts = @ + 1] = d
      BY <1>1 DEF CheckpointDocument, b
    <2>2. b.reservation \in [Clusters -> {"none", "RESERVED", "CONSUMED"}]
      BY <1>4, DocumentFields
    <2>3. /\ new \in [Clusters -> {"none", "RESERVED", "CONSUMED"}]
          /\ \A k \in Clusters : new[k] = IF k = c THEN "RESERVED" ELSE b.reservation[k]
      BY <2>2
    <2>4. /\ replays \in 0..MaxReplays /\ contexts \in 0..MaxContexts
          /\ replays = doc.replays + 1 /\ doc.replays \in Nat
      <3>1. doc.replays \in 0..MaxReplays /\ doc.contexts \in 0..MaxContexts
        BY <1>1, DocumentFields
      <3>2. QED
        BY <1>3, <1>8, <3>1, OrchestratorAssumption
    <2> HIDE DEF new, replays, contexts
    <2>5. d \in CheckpointDocument
      BY <1>4, <2>3, <2>4 DEF CheckpointDocument
    <2>6. /\ d.items = b.items /\ d.queue = b.queue /\ d.reservation = new
          /\ d.replays = replays /\ d.safety = b.safety /\ d.status = b.status
          /\ d.replayEvents = b.replayEvents /\ d.unresolved = b.unresolved
      BY <1>4 DEF CheckpointDocument
    <2>7. Checkpoint(d, "replaying")
      BY <1>8, <2>1
    <2> HIDE DEF d
    <2>8. Marked(d, Seen) /\ KeptIn(d)
      BY <1>3, <2>6 DEF Marked, KeptIn, Turns
    <2>9. AccountsFor(d, runs)
      <3>1. ReservedIn(d) = ReservedIn(doc) \cup {c} /\ c \notin ReservedIn(doc)
        BY <1>3, <1>8, <2>3, <2>6 DEF ReservedIn
      <3>2. Cardinality(ReservedIn(d)) = Cardinality(ReservedIn(doc)) + 1
        BY <3>1, Counts, FS_AddElement
      <3>3. Cardinality(Again(runs)) + Cardinality(ReservedIn(d)) <= d.replays
        BY <1>1, <2>4, <2>6, <3>2, Counts DEF AccountsFor
      <3>4. QED
        BY <1>4, <2>6, <3>3 DEF AccountsFor
    <2>10. Suits(d, "replaying", stop')
      <3>1. \A k \in Clusters : NextIn(d, k) => k = c
        BY <1>6, <2>6 DEF NextIn
      <3>2. QED
        BY <1>1, <1>3, <1>4, <1>5, <2>3, <2>6, <3>1 DEF Suits, Phases, ItemPhases, ReplayPhases
    <2>11. QED
      BY <1>5, <2>5, <2>7, <2>8, <2>9, <2>10, Written
  <1>9. QED
    BY <1>7, <1>8 DEF EnterReplay

LEMMA QueueStep ==
    ASSUME OrchestratorInv, NEW c \in Clusters,
           \/ CloseInterruptedReplay(c) \/ ReplayBudgetExhausted(c) \/ ReplayRefused(c)
           \/ EnterReplay(c)
    PROVE  OrchestratorInv' /\ Kept
  <1>1. {"PARTIAL_RUNTIME_INFRA_FAILURE", "BUDGET_EXHAUSTED"} \subseteq Statuses
    BY DEF Statuses, Terminal, Refusals
  <1>2. Turns(doc)
    BY DocTurns
  <1>3. CASE CloseInterruptedReplay(c)
    BY <1>1, <1>2, <1>3, BlockedStep DEF CloseInterruptedReplay, MinimizationReplays
  <1>4. CASE ReplayBudgetExhausted(c)
    BY <1>1, <1>2, <1>4, BlockedStep DEF ReplayBudgetExhausted, MinimizationReplays
  <1>5. CASE ReplayRefused(c)
    BY <1>1, <1>2, <1>5, BlockedStep DEF ReplayRefused, MinimizationReplays
  <1>6. CASE EnterReplay(c)
    BY <1>6, EnterReplayStep
  <1>7. QED
    BY <1>3, <1>4, <1>5, <1>6

\* The counter of safety events in replays is refused a second one: the document
\* of the first is the one that is kept.
LEMMA ReplaySafetyStep ==
    ASSUME OrchestratorInv, NEW c \in Clusters, ReplaySafetyEvent(c)
    PROVE  OrchestratorInv' /\ Kept
  <1>1. /\ doc \in CheckpointDocument /\ Marked(doc, Seen) /\ Valid(doc)
        /\ AccountsFor(doc, runs) /\ runs \in [Items -> Nat] /\ doc.status \in Resumable
        /\ doc.replayEvents \in 0..1 /\ IsNextReplay(c) /\ phase \in ReplayPhases
    <2>1. doc \in CheckpointDocument /\ Valid(doc)
      BY DEF OrchestratorInv, OrchestratorTypeOK
    <2>2. doc.replayEvents \in 0..1
      BY <2>1, DocumentFields DEF Valid
    <2>3. QED
      BY <2>1, <2>2 DEF OrchestratorInv, OrchestratorTypeOK, ReplaySafetyEvent, Verdicts,
                        ReplayPhases
  <1> DEFINE a == Consumed(c)
             events == a.replayEvents + 1
             b == [a EXCEPT !.safety = TRUE, !.replayEvents = events]
             d == SkipPending(b)
  <1>2. /\ Checkpoint(d, "finalize") /\ stop' = "PARTIAL_RUNTIME_INFRA_FAILURE"
        /\ happened' \subseteq Fates /\ Seen' = TRUE /\ runs' = runs
    BY DEF ReplaySafetyEvent, Fates, Seen, OrchestratorInv, OrchestratorTypeOK
  <1>3. /\ Turns(a) /\ a.queue = doc.queue /\ a.ready = doc.ready
        /\ a.replayEvents = doc.replayEvents
        /\ \A e \in Clusters : a.reservation[e] =
             IF e = c THEN "CONSUMED" ELSE doc.reservation[e]
    BY <1>1, ConsumedTurns
  <1> HIDE DEF a
  <1>4. events \in 0..2 /\ events = doc.replayEvents + 1
    BY <1>1, <1>3
  <1> HIDE DEF events
  <1>5. b \in CheckpointDocument
    BY <1>3, <1>4 DEF CheckpointDocument, Turns
  <1>6. /\ b.items = a.items /\ b.queue = a.queue /\ b.reservation = a.reservation
        /\ b.replays = a.replays /\ b.status = a.status /\ b.ready = a.ready
        /\ b.unresolved = a.unresolved /\ b.replayEvents = events
    BY <1>3 DEF CheckpointDocument, Turns
  <1> HIDE DEF b
  <1>7. Turns(b)
    BY <1>3, <1>5, <1>6 DEF Turns, KeptIn, ReservedIn
  <1>8. Turns(d) /\ Aside(b, d) /\ Marked(d, TRUE)
    BY <1>7, SkippedTurns
  <1> HIDE DEF d
  <1>9. Suits(d, "finalize", stop') /\ Suits(doc, "idle", stop')
    <2>1. d.status = doc.status
      BY <1>8 DEF Turns
    <2>2. QED
      BY <1>1, <1>2, <2>1 DEF Suits, Phases, ItemPhases, ReplayPhases, Statuses, Terminal, Refusals
  <1>10. CASE Valid(d)
    <2>1. AccountsFor(d, runs) /\ d \in CheckpointDocument /\ KeptIn(d)
      BY <1>8, TurnsAccounts DEF Turns
    <2>2. QED
      BY <1>2, <1>8, <1>9, <1>10, <2>1, WrittenInFull
  <1>11. CASE ~Valid(d)
    <2>1. doc' = doc /\ phase' = "idle"
      BY <1>2, <1>11 DEF Checkpoint
    <2>2. doc.replayEvents # 0
      <3> SUFFICES ASSUME doc.replayEvents = 0 PROVE Valid(d)
        BY <1>11
      <3>1. d.replayEvents = 1 /\ d.status \in Resumable /\ d.queue = doc.queue
            /\ d.ready = doc.ready /\ d.reservation = a.reservation
        BY <1>1, <1>3, <1>4, <1>6, <1>8 DEF Aside, Turns
      <3>2. doc.queue[c] = "RUNNING" /\ doc.reservation[c] = "RESERVED"
        BY <1>1 DEF OrchestratorInv, InReplay
      <3>3. ReservationsValid(d)
        BY <1>1, <1>3, <3>1, <3>2 DEF Valid, ReservationsValid
      <3>4. d.status \notin {"COMPLETE_CLEAN", "COMPLETE_WITH_FINDINGS", "BUDGET_EXHAUSTED"}
        BY <3>1 DEF Resumable
      <3>5. QED
        BY <3>1, <3>3, <3>4 DEF Valid
    <2>3. Marked(doc, TRUE)
      BY <1>1, <2>2 DEF Marked
    <2>4. OrchestratorInv'
      BY <1>1, <1>2, <1>9, <2>1, <2>3, Reached
    <2>5. Kept
      BY <1>2, <2>1 DEF Kept, KeptIn
    <2>6. QED
      BY <2>4, <2>5
  <1>12. QED
    BY <1>10, <1>11

LEMMA DossierStep ==
    ASSUME OrchestratorInv, NEW c \in Clusters, Dossier(c)
    PROVE  OrchestratorInv' /\ Kept
  <1>1. /\ phase \in ReplayPhases /\ IsNextReplay(c)
        /\ stop' = stop /\ runs' = runs /\ MinimizationReplays
        /\ stop \in Statuses \cup {"none"} /\ doc \in CheckpointDocument
    BY DEF Dossier, Replayed, ReplayPhases, OrchestratorInv, OrchestratorTypeOK, Statuses
  <1> DEFINE a == Consumed(c)
             b == [a EXCEPT !.queue[c] = "COMPLETED"]
  <1>2. PICK n \in 0..(MaxReplays - doc.replays), ready \in BOOLEAN :
          Checkpoint([a EXCEPT !.queue[c] = "COMPLETED", !.replays = @ + n,
                               !.ready = IF ready THEN @ \cup {c} ELSE @], "queue")
    BY DEF Dossier
  <1>3. Turns(a) /\ Marked(a, Seen) /\ a.replays = doc.replays
    BY <1>1, ConsumedTurns
  <1> HIDE DEF a
  <1>4. "COMPLETED" \in QueueDone
    BY DEF QueueDone
  <1>5. Turns(b) /\ Marked(b, Seen) /\ b.replays = doc.replays /\ b.ready = a.ready
    BY <1>3, <1>4, QueuedTurns
  <1> DEFINE replays == a.replays + n
             reported == IF ready THEN a.ready \cup {c} ELSE a.ready
             d == [b EXCEPT !.replays = replays, !.ready = reported]
  <1>6. [a EXCEPT !.queue[c] = "COMPLETED", !.replays = @ + n,
                  !.ready = IF ready THEN @ \cup {c} ELSE @] = d
    BY <1>3 DEF CheckpointDocument, Turns
  <1>7. replays \in 0..MaxReplays /\ doc.replays <= replays
    <2>1. doc.replays \in 0..MaxReplays
      BY <1>1, DocumentFields
    <2>2. QED
      BY <1>2, <1>3, <2>1, OrchestratorAssumption
  <1>8. reported \in SUBSET Clusters
    BY <1>3, DocumentFields DEF Turns
  <1>9. Checkpoint(d, "queue")
    BY <1>2, <1>6
  <1> HIDE DEF replays, reported, b
  <1>10. d \in CheckpointDocument
    BY <1>5, <1>7, <1>8 DEF CheckpointDocument, Turns
  <1>11. /\ d.items = b.items /\ d.queue = b.queue /\ d.reservation = b.reservation
         /\ d.replays = replays /\ d.safety = b.safety /\ d.status = b.status
         /\ d.replayEvents = b.replayEvents /\ d.unresolved = b.unresolved
    BY <1>5 DEF CheckpointDocument, Turns
  <1> HIDE DEF d
  <1>12. Turns(d)
    BY <1>5, <1>7, <1>10, <1>11 DEF Turns, KeptIn, ReservedIn
  <1>13. Marked(d, Seen)
    BY <1>5, <1>11 DEF Marked
  <1>14. QED
    BY <1>1, <1>9, <1>12, <1>13, TurnWritten DEF Phases, ItemPhases, ReplayPhases

LEMMA ReplayInterruptedStep ==
    ASSUME OrchestratorInv, NEW c \in Clusters, ReplayInterrupted(c)
    PROVE  OrchestratorInv' /\ Kept
  <1>1. /\ phase \in ReplayPhases /\ IsNextReplay(c) /\ runs' = runs /\ MinimizationReplays
        /\ stop' = "INCOMPLETE_PROCESS_INTERRUPTION"
    BY DEF ReplayInterrupted, Replaying, ReplayPhases, MinimizationReplays
  <1>2. PICK a \in {doc, [Consumed(c) EXCEPT !.queue[c] = "REPLAY_REQUIRED"]} :
          Checkpoint([Because(a, "PROCESS_INTERRUPTION")
                        EXCEPT !.status = "INCOMPLETE_PROCESS_INTERRUPTION"], "finalize")
    BY DEF ReplayInterrupted
  <1>3. Turns(a) /\ Marked(a, Seen)
    <2>1. Turns(doc) /\ Marked(doc, Seen)
      BY DocTurns
    <2>2. Turns(Consumed(c)) /\ Marked(Consumed(c), Seen)
      BY <1>1, ConsumedTurns
    <2>3. "REPLAY_REQUIRED" \in QueueOpen
      BY DEF QueueOpen, ItemOpen
    <2>4. Turns([Consumed(c) EXCEPT !.queue[c] = "REPLAY_REQUIRED"])
          /\ Marked([Consumed(c) EXCEPT !.queue[c] = "REPLAY_REQUIRED"], Seen)
      BY <2>2, <2>3, QueuedTurns
    <2>5. QED
      BY <1>2, <2>1, <2>4
  <1> DEFINE b == Because(a, "PROCESS_INTERRUPTION")
             d == [b EXCEPT !.status = "INCOMPLETE_PROCESS_INTERRUPTION"]
  <1>4. Turns(b) /\ Marked(b, Seen)
    BY <1>3, ExplainedTurns
  <1> HIDE DEF b
  <1>5. d \in CheckpointDocument
    BY <1>4 DEF CheckpointDocument, Turns, Resumable
  <1>6. /\ d.items = b.items /\ d.queue = b.queue /\ d.reservation = b.reservation
        /\ d.replays = b.replays /\ d.safety = b.safety
        /\ d.replayEvents = b.replayEvents /\ d.unresolved = b.unresolved
        /\ d.status = "INCOMPLETE_PROCESS_INTERRUPTION"
    BY <1>4 DEF CheckpointDocument, Turns
  <1>7. Checkpoint(d, "finalize")
    BY <1>2 DEF b
  <1> HIDE DEF d
  <1>8. Marked(d, Seen) /\ KeptIn(d)
    BY <1>4, <1>6 DEF Marked, Turns, KeptIn
  <1>9. AccountsFor(d, runs)
    BY <1>4, <1>6, TurnsAccounts DEF AccountsFor, ReservedIn
  <1>10. Suits(d, "finalize", stop')
    BY <1>1, <1>6 DEF Suits, Phases, ItemPhases, ReplayPhases, Statuses, Resumable
  <1>11. QED
    BY <1>1, <1>5, <1>7, <1>8, <1>9, <1>10, Written

LEMMA ReplayingStep ==
    ASSUME OrchestratorInv, NEW c \in Clusters, IsNextReplay(c), phase \in ReplayPhases,
           \/ ReplayReturns(c) \/ ReplaySafetyEvent(c) \/ ReplayPrivacyBlocked(c) \/ NotReproduced(c)
           \/ MinimizationUnavailable(c) \/ Dossier(c) \/ TriageFails(c)
           \/ ReplayFails(c) \/ ReplayInterrupted(c)
    PROVE  OrchestratorInv' /\ Kept
  <1>1. stop \in Statuses \cup {"none"}
    BY DEF OrchestratorInv, OrchestratorTypeOK, Statuses
  <1>2. /\ ReplayVerdicts \subseteq Statuses
        /\ {"PARTIAL_SAFETY_BLOCKED", "BUDGET_EXHAUSTED"} \subseteq Statuses
        /\ "none" \notin Statuses
    BY DEF Statuses, Terminal, Refusals, Resumable, ReplayVerdicts
  <1>3. Turns(doc) /\ Turns(Consumed(c)) /\ Marked(Consumed(c), Seen)
    BY DocTurns, ConsumedTurns
  <1>4. CASE ReplaySafetyEvent(c)
    BY <1>4, ReplaySafetyStep
  <1>5. CASE ReplayPrivacyBlocked(c)
    <2>1. Checkpoint(SkipPending(Consumed(c)), "finalize")
          /\ stop' = "PARTIAL_SAFETY_BLOCKED" /\ runs' = runs /\ MinimizationReplays
      BY <1>5 DEF ReplayPrivacyBlocked, StopAt, MinimizationReplays
    <2>2. Turns(SkipPending(Consumed(c))) /\ Marked(SkipPending(Consumed(c)), Seen)
      BY <1>1, <1>3, SkippedTurns
    <2>3. QED
      BY <1>1, <1>2, <2>1, <2>2, TurnWritten DEF Phases, ItemPhases, ReplayPhases
  <1>6. CASE NotReproduced(c)
    <2> DEFINE d == [Consumed(c) EXCEPT !.queue[c] = "COMPLETED"]
    <2>1. Checkpoint(d, "queue") /\ stop' = stop /\ runs' = runs /\ MinimizationReplays
      BY <1>6 DEF NotReproduced, MinimizationReplays
    <2>2. "COMPLETED" \in QueueDone
      BY DEF QueueDone
    <2>3. Turns(d) /\ Marked(d, Seen)
      BY <1>3, <2>2, QueuedTurns
    <2> HIDE DEF d
    <2>4. QED
      BY <1>1, <2>1, <2>3, TurnWritten DEF Phases, ItemPhases, ReplayPhases
  <1>7. CASE MinimizationUnavailable(c)
    BY <1>1, <1>2, <1>3, <1>7, BlockedStep
    DEF MinimizationUnavailable, MinimizationReplays
  <1>8. CASE Dossier(c)
    BY <1>8, DossierStep
  <1>9. CASE TriageFails(c)
    BY <1>1, <1>2, <1>3, <1>9, BlockedStep DEF TriageFails
  <1>10. CASE ReplayFails(c)
    BY <1>1, <1>2, <1>3, <1>10, BlockedStep DEF ReplayFails, MinimizationReplays
  <1>11. CASE ReplayInterrupted(c)
    BY <1>11, ReplayInterruptedStep
  <1>12. CASE ReplayReturns(c)
    <2>1. doc' = doc /\ runs' = runs /\ stop' = stop /\ happened' = happened
          /\ phase' \in ReplayPhases
      BY <1>12 DEF ReplayReturns, ReplayPhases
    <2>2. doc.status \in Resumable
      BY DEF OrchestratorInv, Verdicts, ReplayPhases
    <2>3. \A k \in Clusters : NextIn(doc, k) =>
            doc.queue[k] = "RUNNING" /\ doc.reservation[k] = "RESERVED"
      BY DEF OrchestratorInv, InReplay, NextIn, IsNextReplay
    <2>4. Suits(doc, phase', stop')
      BY <1>1, <2>1, <2>2, <2>3 DEF Suits, Phases, ItemPhases, ReplayPhases
    <2>5. QED
      BY <2>1, <2>4, StaysAsItIs
  <1>13. QED
    BY <1>4, <1>5, <1>6, <1>7, <1>8, <1>9, <1>10, <1>11, <1>12

-----------------------------------------------------------------------------
(* The theorems. *)

LEMMA OrchestratorStarts ==
    OrchestratorInit => OrchestratorInv
  <1> SUFFICES ASSUME OrchestratorInit
               PROVE  OrchestratorInv
    OBVIOUS
  <1>1. /\ doc = InitialCheckpoint /\ phase = "idle" /\ stop = "none"
        /\ runs = [i \in Items |-> 0] /\ happened = {}
    BY DEF OrchestratorInit
  <1>2. /\ doc.status = "IN_PROGRESS" /\ doc.unresolved = {} /\ doc.ready = {}
        /\ doc.replays = 0 /\ doc.contexts = 0 /\ doc.replayEvents = 0
        /\ doc.found = {} /\ doc.safety = FALSE /\ doc.actionsSpent = FALSE
        /\ doc.items = [i \in Items |-> [state |-> "PENDING", attempts |-> 0]]
        /\ doc.queue = [c \in Clusters |-> "none"]
        /\ doc.reservation = [c \in Clusters |-> "none"]
    BY <1>1 DEF InitialCheckpoint
  <1>3. doc \in CheckpointDocument
    <2>1. 0 \in 0..MaxAttempts /\ 0 \in 0..MaxReplays /\ 0 \in 0..MaxContexts
      BY OrchestratorAssumption
    <2>2. [i \in Items |-> [state |-> "PENDING", attempts |-> 0]] \in
            [Items -> [state : ItemOpen \cup ItemDone, attempts : 0..MaxAttempts]]
      BY <2>1 DEF ItemOpen
    <2>3. QED
      BY <1>1, <2>1, <2>2 DEF InitialCheckpoint, CheckpointDocument, Resumable
  <1>4. OrchestratorTypeOK
    BY <1>1, <1>3 DEF OrchestratorTypeOK
  <1>5. Valid(doc)
    BY <1>2 DEF Valid, ReservationsValid
  <1>6. Marked(doc, Seen)
    BY <1>1, <1>2 DEF Marked, Seen
  <1>7. AccountsFor(doc, runs)
    <2>1. Again(runs) = {}
      BY <1>1, OrchestratorAssumption DEF Again
    <2>2. ReservedIn(doc) = {}
      BY <1>2 DEF ReservedIn
    <2>3. \A i \in Items : runs[i] <= doc.items[i].attempts
      BY <1>1, <1>2
    <2>4. QED
      BY <1>2, <2>1, <2>2, <2>3, FS_EmptySet DEF AccountsFor
  <1>8. QED
    BY <1>1, <1>4, <1>5, <1>6, <1>7 DEF OrchestratorInv, Verdicts, InReplay, ReplayPhases

LEMMA OrchestratorStep ==
    ASSUME OrchestratorInv, OrchestratorNext
    PROVE  OrchestratorInv' /\ Kept
  <1>1. CASE \/ Resume \/ PreflightPasses \/ PreflightRefuses \/ Finalize \/ Die
             \/ StopAfterItem \/ PlanQueue \/ Complete
    BY <1>1, ProcessStep
  <1>2. CASE \E i \in Items : ItemStep(i)
    <2>1. PICK i \in Items : ItemStep(i)
      BY <1>2
    <2>2. CASE ItemRefused(i) \/ AttemptsExhausted(i) \/ ItemBudgetExhausted(i)
      BY <2>2, ItemsStep DEF ItemRefused, AttemptsExhausted, ItemBudgetExhausted
    <2>3. CASE EnterItem(i)
      BY <2>3, EnterItemStep
    <2>4. CASE \/ ItemReturns(i) \/ ItemCompletes(i) \/ ItemSafetyEvent(i)
               \/ ItemEventRefused(i) \/ ItemStopsCampaign(i) \/ ItemThrows(i)
               \/ ItemSafetyBlocked(i) \/ ItemOverspends(i) \/ ItemInterrupted(i)
      <3>1. IsNext(i) /\ phase \in ItemPhases
        BY <2>4 DEF ItemReturns, ItemCompletes, ItemSafetyEvent, ItemEventRefused,
             ItemStopsCampaign, ItemThrows, ItemSafetyBlocked, ItemOverspends,
             ItemInterrupted, Executing, Returned, ItemAlarmed, ItemPhases
      <3>2. QED
        BY <2>4, <3>1, ExecutingStep
    <2>5. QED
      BY <2>1, <2>2, <2>3, <2>4 DEF ItemStep
  <1>3. CASE \E c \in Clusters : ReplayStep(c)
    <2>1. PICK c \in Clusters : ReplayStep(c)
      BY <1>3
    <2>2. CASE \/ CloseInterruptedReplay(c) \/ ReplayBudgetExhausted(c)
               \/ ReplayRefused(c) \/ EnterReplay(c)
      BY <2>2, QueueStep
    <2>3. CASE \/ ReplayReturns(c) \/ ReplaySafetyEvent(c) \/ ReplayPrivacyBlocked(c)
               \/ NotReproduced(c) \/ MinimizationUnavailable(c) \/ Dossier(c)
               \/ TriageFails(c) \/ ReplayFails(c) \/ ReplayInterrupted(c)
      <3>1. IsNextReplay(c) /\ phase \in ReplayPhases
        BY <2>3 DEF ReplayReturns, ReplaySafetyEvent, ReplayPrivacyBlocked, NotReproduced,
             MinimizationUnavailable, Dossier, TriageFails, ReplayFails, ReplayInterrupted,
             Replaying, Replayed, ReplayPhases
      <3>2. QED
        BY <2>3, <3>1, ReplayingStep
    <2>4. QED
      BY <2>1, <2>2, <2>3 DEF ReplayStep
  <1>4. QED
    BY <1>1, <1>2, <1>3 DEF OrchestratorNext

\* However often the process dies, the document is one the validator accepts, all
\* a clean campaign must not have met has left a reason in it, and it accounts for
\* every entry of the executor and every replay.
THEOREM OrchestratorInvariant == OrchestratorSpec => []OrchestratorInv
  <1>1. OrchestratorInit => OrchestratorInv
    BY OrchestratorStarts
  <1>2. OrchestratorInv /\ [OrchestratorNext]_orchestratorVars => OrchestratorInv'
    <2> SUFFICES ASSUME OrchestratorInv, [OrchestratorNext]_orchestratorVars
                 PROVE  OrchestratorInv'
      OBVIOUS
    <2>1. CASE OrchestratorNext
      BY <2>1, OrchestratorStep
    <2>2. CASE UNCHANGED orchestratorVars
      <3>1. /\ doc' = doc /\ phase' = phase /\ stop' = stop /\ runs' = runs
            /\ happened' = happened
        BY <2>2 DEF orchestratorVars
      <3>2. OrchestratorTypeOK' /\ Valid(doc)' /\ Marked(doc, Seen)'
        BY <3>1 DEF OrchestratorInv, OrchestratorTypeOK, Valid, ReservationsValid,
                    BudgetSpent, Marked, Seen
      <3>3. AccountsFor(doc, runs)' /\ Verdicts' /\ InReplay'
        BY <3>1 DEF OrchestratorInv, AccountsFor, Again, ReservedIn, Verdicts, InReplay,
                    IsNextReplay
      <3>4. QED
        BY <3>2, <3>3 DEF OrchestratorInv
    <2>3. QED
      BY <2>1, <2>2
  <1>3. QED
    BY <1>1, <1>2, PTL DEF OrchestratorSpec

\* What is executed is reserved: entries of the executor are attempts, and each
\* after the first, and each replay, has its own unit of the replay budget.
THEOREM EntriesHaveTheirUnit == OrchestratorSpec => []EntriesAreReserved
  <1>1. OrchestratorInv => EntriesAreReserved
    <2> SUFFICES ASSUME OrchestratorInv
                 PROVE  EntriesAreReserved
      OBVIOUS
    <2>1. doc \in CheckpointDocument /\ AccountsFor(doc, runs)
      BY DEF OrchestratorInv, OrchestratorTypeOK
    <2>2. /\ \A i \in Items : doc.items[i].attempts <= MaxAttempts
          /\ doc.replays <= MaxReplays
      BY <2>1, DocumentFields, OrchestratorAssumption
    <2>3. Reentries = Again(runs) /\ ReservedClusters = ReservedIn(doc)
      BY DEF Reentries, Again, ReservedClusters, ReservedIn
    <2>4. QED
      BY <2>1, <2>2, <2>3 DEF EntriesAreReserved, AccountsFor
  <1>2. QED
    BY <1>1, OrchestratorInvariant, PTL

\* A clean campaign saw no safety event, left no work and blocked no replay: what
\* it may have missed is the event of a process that died before it looked, and
\* that of a replay of the minimizer.
THEOREM CleanCampaignsAreClean == OrchestratorSpec => []CleanIsClean
  <1>1. OrchestratorInv => CleanIsClean
    <2> SUFFICES ASSUME OrchestratorInv, doc.status = "COMPLETE_CLEAN"
                 PROVE  /\ ~Seen /\ ~doc.safety
                        /\ \A i \in Items : doc.items[i].state \in {"COMPLETED", "BLOCKED"}
                        /\ \A c \in Clusters : doc.queue[c] \in {"none", "COMPLETED"}
      BY DEF CleanIsClean, Seen
    <2>1. doc \in CheckpointDocument /\ Valid(doc) /\ Marked(doc, Seen)
      BY DEF OrchestratorInv, OrchestratorTypeOK
    <2>2. /\ doc.unresolved = {}
          /\ \A i \in Items : doc.items[i].state \notin ItemOpen
          /\ \A c \in Clusters : doc.queue[c] \notin QueueOpen
      BY <2>1 DEF Valid
    <2>3. /\ ~Seen /\ ~doc.safety
          /\ \A i \in Items : doc.items[i].state # "SKIPPED"
          /\ \A c \in Clusters : doc.queue[c] # "BLOCKED"
      BY <2>1, <2>2 DEF Marked
    <2>4. \A i \in Items : doc.items[i].state \in {"COMPLETED", "BLOCKED"}
      BY <2>1, <2>2, <2>3, DocumentFields DEF ItemStates, ItemDone
    <2>5. \A c \in Clusters : doc.queue[c] \in {"none", "COMPLETED"}
      BY <2>1, <2>2, <2>3, DocumentFields DEF QueueDone
    <2>6. QED
      BY <2>3, <2>4, <2>5
  <1>2. QED
    BY <1>1, OrchestratorInvariant, PTL

\* Of two clusters only one is the next.
LEMMA OneIsNext ==
    ASSUME NEW c \in Clusters, NEW e \in Clusters, IsNextReplay(c), IsNextReplay(e)
    PROVE  c = e
  <1>1. c \in Nat /\ e \in Nat
    BY OrchestratorAssumption
  <1>2. c = e \/ c < e \/ e < c
    BY <1>1
  <1>3. QED
    BY <1>2 DEF IsNextReplay

LEMMA ConsumedIsNotEntered ==
    ASSUME OrchestratorNext, NEW c \in Clusters, doc.reservation[c] = "CONSUMED",
           phase = "queue", phase' = "replaying", IsNextReplay(c)
    PROVE  FALSE
  <1>1. CASE \/ Resume \/ PreflightPasses \/ PreflightRefuses \/ Finalize \/ Die
             \/ StopAfterItem \/ PlanQueue \/ Complete
    BY <1>1 DEF Resume, PreflightPasses, PreflightRefuses, Finalize, Die, StopAfterItem,
                PlanQueue, Complete, CloseCampaign, Checkpoint
  <1>2. CASE \E i \in Items : ItemStep(i)
    BY <1>2 DEF ItemStep, ItemRefused, AttemptsExhausted, ItemBudgetExhausted, EnterItem,
         ItemReturns, ItemCompletes, ItemSafetyEvent, ItemEventRefused, ItemStopsCampaign,
         ItemThrows, ItemSafetyBlocked, ItemOverspends, ItemInterrupted, Executing,
         Returned, ItemAlarmed
  <1>3. CASE \E e \in Clusters : ReplayStep(e)
    <2>1. PICK e \in Clusters : ReplayStep(e)
      BY <1>3
    <2>2. CASE CloseInterruptedReplay(e) \/ ReplayBudgetExhausted(e) \/ ReplayRefused(e)
      BY <2>2 DEF CloseInterruptedReplay, ReplayBudgetExhausted, ReplayRefused,
                  BlockReplay, Checkpoint
    <2>3. CASE EnterReplay(e)
      <3>1. c = e
        BY <2>3, OneIsNext DEF EnterReplay
      <3>2. QED
        BY <2>3, <3>1 DEF EnterReplay
    <2>4. CASE \/ ReplayReturns(e) \/ ReplaySafetyEvent(e) \/ ReplayPrivacyBlocked(e)
               \/ NotReproduced(e) \/ MinimizationUnavailable(e) \/ Dossier(e)
               \/ TriageFails(e) \/ ReplayFails(e) \/ ReplayInterrupted(e)
      BY <2>4 DEF ReplayReturns, ReplaySafetyEvent, ReplayPrivacyBlocked, NotReproduced,
           MinimizationUnavailable, Dossier, TriageFails, ReplayFails,
           ReplayInterrupted, Replaying, Replayed
    <2>5. QED
      BY <2>1, <2>2, <2>3, <2>4 DEF ReplayStep
  <1>4. QED
    BY <1>1, <1>2, <1>3 DEF OrchestratorNext

LEMMA VerdictIsKept ==
    ASSUME OrchestratorInv, OrchestratorNext, doc.status \in Terminal
    PROVE  doc'.status = doc.status /\ runs' = runs /\ phase' \in {"idle", "finalize"}
  <1>1. doc.status \notin Resumable /\ doc \in CheckpointDocument
    BY DEF Terminal, Refusals, Resumable, OrchestratorInv, OrchestratorTypeOK
  <1>2. phase \in {"idle", "finalize"} /\ (phase = "finalize" => stop = doc.status)
    BY <1>1 DEF OrchestratorInv, Verdicts
  <1>3. Resume \/ Finalize \/ Die
    <2>1. ~(PreflightPasses \/ PreflightRefuses \/ StopAfterItem \/ PlanQueue \/ Complete)
      BY <1>2 DEF PreflightPasses, PreflightRefuses, StopAfterItem, PlanQueue, Complete
    <2>2. \A i \in Items : ~ItemStep(i)
      BY <1>2 DEF ItemStep, ItemRefused, AttemptsExhausted, ItemBudgetExhausted, EnterItem,
           ItemReturns, ItemCompletes, ItemSafetyEvent, ItemEventRefused,
           ItemStopsCampaign, ItemThrows, ItemSafetyBlocked, ItemOverspends,
           ItemInterrupted, Executing, Returned, ItemAlarmed
    <2>3. \A c \in Clusters : ~ReplayStep(c)
      BY <1>2 DEF ReplayStep, CloseInterruptedReplay, ReplayBudgetExhausted, ReplayRefused,
           EnterReplay, ReplayReturns, ReplaySafetyEvent, ReplayPrivacyBlocked,
           NotReproduced, MinimizationUnavailable, Dossier, TriageFails, ReplayFails,
           ReplayInterrupted, Replaying, Replayed
    <2>4. QED
      BY <2>1, <2>2, <2>3 DEF OrchestratorNext
  <1>4. CASE Resume
    BY <1>1, <1>4 DEF Resume
  <1>5. CASE Die
    BY <1>5 DEF Die
  <1>6. CASE Finalize
    <2> DEFINE left == IF stop = "COMPLETE_CLEAN"
                       THEN doc.unresolved \ {"PROCESS_INTERRUPTION"} ELSE doc.unresolved
               e == [doc EXCEPT !.status = stop, !.unresolved = left]
    <2>1. Checkpoint(e, "idle") /\ runs' = runs /\ stop = doc.status
      BY <1>2, <1>6 DEF Finalize, CloseCampaign
    <2> HIDE DEF left
    <2>2. e.status = stop
      BY <1>1 DEF CheckpointDocument
    <2> HIDE DEF e
    <2>3. QED
      BY <2>1, <2>2 DEF Checkpoint
  <1>7. QED
    BY <1>3, <1>4, <1>5, <1>6

\* What the document says is done is not done again.
THEOREM DoneIsDone == OrchestratorSpec => RecordedWorkIsNotRepeated
  <1>1. ASSUME OrchestratorInv, [OrchestratorNext]_orchestratorVars
        PROVE  [/\ \A i \in Items : doc.items[i].state \in ItemDone =>
                     doc'.items[i] = doc.items[i] /\ runs'[i] = runs[i]
                /\ \A c \in Clusters : doc.reservation[c] = "CONSUMED" =>
                     ~(phase = "queue" /\ phase' = "replaying" /\ IsNextReplay(c))
                /\ doc.status \in Terminal =>
                     doc'.status = doc.status /\ runs' = runs
                     /\ phase' \in {"idle", "finalize"}]_orchestratorVars
    <2>1. CASE OrchestratorNext
      <3>1. Kept
        BY <1>1, <2>1, OrchestratorStep
      <3>2. \A c \in Clusters : doc.reservation[c] = "CONSUMED" =>
              ~(phase = "queue" /\ phase' = "replaying" /\ IsNextReplay(c))
        BY <2>1, ConsumedIsNotEntered
      <3>3. doc.status \in Terminal =>
              doc'.status = doc.status /\ runs' = runs /\ phase' \in {"idle", "finalize"}
        BY <1>1, <2>1, VerdictIsKept
      <3>4. QED
        BY <3>1, <3>2, <3>3 DEF Kept, KeptIn
    <2>2. CASE UNCHANGED orchestratorVars
      BY <2>2
    <2>3. QED
      BY <1>1, <2>1, <2>2
  <1>2. OrchestratorInv /\ [OrchestratorNext]_orchestratorVars =>
        [/\ \A i \in Items : doc.items[i].state \in ItemDone =>
              doc'.items[i] = doc.items[i] /\ runs'[i] = runs[i]
         /\ \A c \in Clusters : doc.reservation[c] = "CONSUMED" =>
              ~(phase = "queue" /\ phase' = "replaying" /\ IsNextReplay(c))
         /\ doc.status \in Terminal =>
              doc'.status = doc.status /\ runs' = runs /\ phase' \in {"idle", "finalize"}]_orchestratorVars
    BY <1>1
  <1>3. QED
    BY <1>2, OrchestratorInvariant, PTL DEF OrchestratorSpec, RecordedWorkIsNotRepeated

=============================================================================
