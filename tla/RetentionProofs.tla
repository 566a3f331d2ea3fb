--------------------------- MODULE RetentionProofs ---------------------------
(***************************************************************************)
(* Proofs about evidence retention, for any number of applies, of runs and *)
(* of runs to keep.                                                        *)
(***************************************************************************)
EXTENDS Retention, FiniteSetTheorems, SequenceTheorems, TLAPS

------------------------------------------------------------------------------
(* The order of the entries. *)

\* What comes later in the order appeared later, unless it is one of Y.
Ordered(s, Y) == \A i, j \in 1..Len(s) : i < j => s[j] > s[i] \/ s[j] \in Y

LEMMA ElementsTyped ==
  ASSUME NEW S, NEW s \in Seq(S)
  PROVE  Elements(s) \subseteq S
BY LenProperties, ElementOfSeq DEF Elements

LEMMA WithoutElements ==
  ASSUME NEW b \in Nat, NEW s \in Seq(1..b), NEW r \in Elements(s), NEW Y,
         Distinct(s)
  PROVE  /\ Without(s, r) \in Seq(1..b)
         /\ Elements(Without(s, r)) = Elements(s) \ {r}
         /\ Distinct(Without(s, r))
         /\ Ordered(s, Y) => Ordered(Without(s, r), Y \ {r})
<1> DEFINE gone == CHOOSE i \in DOMAIN s : s[i] = r
           at(j) == IF j < gone THEN j ELSE j + 1
           w == [j \in 1..(Len(s) - 1) |-> s[at(j)]]
<1>1. Without(s, r) = w
  BY DEF Without
<1>2. gone \in DOMAIN s /\ s[gone] = r
  BY DEF Elements
<1>3. Len(s) \in Nat /\ DOMAIN s = 1..Len(s) /\ \A i \in 1..Len(s) : s[i] \in 1..b
  BY LenProperties, ElementOfSeq
<1> HIDE DEF gone
<1>4. Len(s) - 1 \in Nat /\ DOMAIN w = 1..(Len(s) - 1)
  BY <1>2, <1>3
<1>5. \A j \in 1..(Len(s) - 1) : at(j) \in 1..Len(s) /\ at(j) # gone /\ w[j] = s[at(j)]
  BY <1>2, <1>3
<1>6. w \in Seq(1..b) /\ Len(w) = Len(s) - 1
  BY <1>3, <1>4, <1>5, IsASeq
<1>7. \A i \in 1..Len(s) : i # gone => \E j \in 1..(Len(s) - 1) : at(j) = i
  <2> SUFFICES ASSUME NEW i \in 1..Len(s), i # gone
               PROVE  \E j \in 1..(Len(s) - 1) : at(j) = i
    OBVIOUS
  <2>1. CASE i < gone
    BY <2>1, <1>2, <1>3
  <2>2. CASE i > gone
    <3>1. i - 1 \in 1..(Len(s) - 1) /\ at(i - 1) = i
      BY <2>2, <1>2, <1>3
    <3> QED
      BY <3>1
  <2> QED
    BY <2>1, <2>2, <1>2, <1>3
<1>8. \A i, j \in 1..(Len(s) - 1) : /\ at(i) = at(j) => i = j
                                    /\ i < j => at(j) - at(i) >= j - i /\ at(i) < at(j)
  BY <1>2, <1>3
<1> HIDE DEF at, w
<1>9. Elements(w) = Elements(s) \ {r}
  <2>1. Elements(w) \subseteq Elements(s) \ {r}
    <3> SUFFICES ASSUME NEW j \in 1..(Len(s) - 1) PROVE w[j] \in Elements(s) \ {r}
      BY <1>4 DEF Elements
    <3>1. at(j) \in 1..Len(s) /\ at(j) # gone /\ w[j] = s[at(j)]
      BY <1>5
    <3> QED
      BY <3>1, <1>2, <1>3 DEF Elements, Distinct
  <2>2. Elements(s) \ {r} \subseteq Elements(w)
    <3> SUFFICES ASSUME NEW i \in 1..Len(s), s[i] # r PROVE s[i] \in Elements(w)
      BY <1>3 DEF Elements
    <3>1. PICK j \in 1..(Len(s) - 1) : at(j) = i
      BY <1>2, <1>7
    <3> QED
      BY <3>1, <1>4, <1>5 DEF Elements
  <2> QED
    BY <2>1, <2>2
<1>10. Distinct(w)
  BY <1>3, <1>5, <1>6, <1>8 DEF Distinct
<1>11. ASSUME Ordered(s, Y), NEW i \in 1..(Len(s) - 1), NEW j \in 1..(Len(s) - 1), i < j
       PROVE  w[j] > w[i] \/ w[j] \in Y \ {r}
  <2>1. PICK p \in 1..Len(s) : p = at(i)
    BY <1>5
  <2>2. PICK q \in 1..Len(s) : q = at(j)
    BY <1>5
  <2>3. p < q
    BY <2>1, <2>2, <1>8, <1>11
  <2>4. w[i] = s[p] /\ w[j] = s[q] /\ w[j] # r
    BY <2>1, <2>2, <1>2, <1>3, <1>5 DEF Distinct
  <2>5. s[q] > s[p] \/ s[q] \in Y
    BY <2>3, <1>11 DEF Ordered
  <2> QED
    BY <2>4, <2>5
<1>12. Ordered(s, Y) => Ordered(w, Y \ {r})
  BY <1>6, <1>11 DEF Ordered
<1> QED
  BY <1>1, <1>6, <1>9, <1>10, <1>12

LEMMA AppendElements ==
  ASSUME NEW b \in Nat, NEW c \in Nat, b <= c, NEW s \in Seq(1..b), NEW r \in 1..c, NEW Y,
         r \notin Elements(s), Distinct(s)
  PROVE  /\ Append(s, r) \in Seq(1..c)
         /\ Elements(Append(s, r)) = Elements(s) \cup {r}
         /\ Distinct(Append(s, r))
         /\ Ordered(s, Y) /\ (r > b \/ r \in Y) => Ordered(Append(s, r), Y)
<1> DEFINE a == Append(s, r)
<1>1. Len(s) \in Nat /\ DOMAIN s = 1..Len(s) /\ \A i \in 1..Len(s) : s[i] \in 1..b
  BY LenProperties, ElementOfSeq
<1>2. s \in Seq(1..c)
  <2>1. 1..b \subseteq 1..c
    OBVIOUS
  <2> QED
    BY <2>1, SeqMonotonic
<1>3. a \in Seq(1..c) /\ Len(a) = Len(s) + 1 /\ a[Len(s) + 1] = r
  BY <1>1, <1>2, AppendProperties
<1>4. \A i \in 1..Len(s) : a[i] = s[i] /\ s[i] # r
  BY <1>1, <1>2, AppendProperties DEF Elements
<1>5. DOMAIN a = 1..(Len(s) + 1) /\ \A i \in 1..(Len(s) + 1) : i \in 1..Len(s) \/ i = Len(s) + 1
  BY <1>1, <1>3, LenProperties
<1> HIDE DEF a
<1>6. Elements(a) = Elements(s) \cup {r}
  BY <1>1, <1>3, <1>4, <1>5 DEF Elements
<1>7. Distinct(a)
  <2> SUFFICES ASSUME NEW i \in 1..(Len(s) + 1), NEW j \in 1..(Len(s) + 1), a[i] = a[j]
               PROVE  i = j
    BY <1>3 DEF Distinct
  <2>1. CASE i \in 1..Len(s) /\ j \in 1..Len(s)
    BY <2>1, <1>4 DEF Distinct
  <2> QED
    BY <2>1, <1>3, <1>4, <1>5
<1>8. ASSUME Ordered(s, Y), r > b \/ r \in Y
      PROVE  Ordered(a, Y)
  <2> SUFFICES ASSUME NEW i \in 1..(Len(s) + 1), NEW j \in 1..(Len(s) + 1), i < j
               PROVE  a[j] > a[i] \/ a[j] \in Y
    BY <1>3 DEF Ordered
  <2>1. i \in 1..Len(s) /\ a[i] = s[i] /\ s[i] \in 1..b
    BY <1>1, <1>4
  <2>2. CASE j \in 1..Len(s)
    BY <2>1, <2>2, <1>4, <1>8 DEF Ordered
  <2>3. CASE j = Len(s) + 1
    BY <2>1, <2>3, <1>3, <1>8
  <2> QED
    BY <2>2, <2>3, <1>5
<1> QED
  BY <1>3, <1>6, <1>7, <1>8 DEF a

\* Moving an entry to the end.
LEMMA MovedElements ==
  ASSUME NEW b \in Nat, NEW s \in Seq(1..b), NEW r \in Elements(s), NEW Y,
         Distinct(s)
  PROVE  /\ Append(Without(s, r), r) \in Seq(1..b)
         /\ Elements(Append(Without(s, r), r)) = Elements(s)
         /\ Distinct(Append(Without(s, r), r))
         /\ Ordered(s, Y) /\ r \in Y => Ordered(Append(Without(s, r), r), Y)
<1>1. PICK w : w = Without(s, r)
  OBVIOUS
<1>2. /\ w \in Seq(1..b) /\ Elements(w) = Elements(s) \ {r} /\ Distinct(w)
      /\ Ordered(s, Y) => Ordered(w, Y \ {r})
  BY <1>1, WithoutElements
<1>3. Ordered(w, Y \ {r}) => Ordered(w, Y)
  BY DEF Ordered
<1>4. r \in 1..b /\ r \notin Elements(w) /\ b <= b
  BY <1>2, ElementsTyped
<1>5. /\ Append(w, r) \in Seq(1..b) /\ Elements(Append(w, r)) = Elements(w) \cup {r}
      /\ Distinct(Append(w, r))
      /\ Ordered(w, Y) /\ (r > b \/ r \in Y) => Ordered(Append(w, r), Y)
  BY <1>2, <1>4, AppendElements
<1> QED
  BY <1>1, <1>2, <1>3, <1>5

\* As many entries as are kept can rank before an entry that is not among the
\* recent ones: those that appeared later, and those of Y.
LEMMA NewestAreRecent ==
  ASSUME NEW b \in Nat, NEW s \in Seq(1..b), NEW Y, KeepRecent \in Nat,
         Distinct(s), Ordered(s, Y), NEW r \in Elements(s) \ Recent(s)
  PROVE  Cardinality({e \in 1..b : e > r \/ e \in Y}) >= KeepRecent
<1> DEFINE newer == {e \in 1..b : e > r \/ e \in Y}
<1>1. Len(s) \in Nat /\ DOMAIN s = 1..Len(s) /\ \A i \in 1..Len(s) : s[i] \in 1..b
  BY LenProperties, ElementOfSeq
<1>2. PICK i \in 1..Len(s) : s[i] = r /\ ~(i > Len(s) - KeepRecent)
  BY <1>1 DEF Elements, Recent
<1> DEFINE after == (i + 1)..Len(s)
           f == [j \in after |-> s[j]]
<1>3. \A j \in after : j \in 1..Len(s) /\ i < j
  BY <1>1
<1>4. \A j \in after : s[j] \in newer
  BY <1>1, <1>2, <1>3 DEF Ordered
<1>5. \A j, k \in after : s[j] = s[k] => j = k
  BY <1>3 DEF Distinct
<1>6. Cardinality(after) >= KeepRecent
  <2>1. i + 1 \in Int /\ Len(s) \in Int
    BY <1>1
  <2>2. Cardinality(after) = IF i + 1 > Len(s) THEN 0 ELSE Len(s) - (i + 1) + 1
    BY <2>1, FS_Interval
  <2> QED
    BY <2>2, <1>1, <1>2
<1>7. IsFiniteSet(newer)
  <2>1. IsFiniteSet(1..b)
    BY FS_Interval
  <2> QED
    BY <2>1, FS_Subset
<1> HIDE DEF newer, after
<1>8. f \in Injection(after, newer)
  BY <1>4, <1>5 DEF Injection, IsInjective
<1>9. Cardinality(after) <= Cardinality(newer) /\ IsFiniteSet(after)
  BY <1>7, <1>8, FS_Injection
<1>10. Cardinality(after) \in Nat /\ Cardinality(newer) \in Nat
  BY <1>7, <1>9, FS_CardinalityType
<1>11. Cardinality(newer) >= KeepRecent
  BY <1>6, <1>9, <1>10
<1> QED
  BY <1>11 DEF newer

------------------------------------------------------------------------------
(* What is removed, and what is said of it. *)

Unplanned == {"idle", "reviewed", "listed", "confirmed"}
Journaled == {"prepared", "removing", "removed", "published", "verified"}

\* Each apply's journal agrees with what it did, in the order of its steps.
JournalAgrees(o) ==
    /\ removed[o] \subseteq job[o].deleted
    /\ job[o].left \cup job[o].deleted \subseteq job[o].confirmed.candidates
    /\ job[o].at \in {"idle", "reviewed"} => job[o].hollow = {}
    /\ job[o].at \in {"idle", "reviewed", "listed"} => job[o].left = {}
    /\ job[o].at = "removing" => job[o].target \in job[o].left
    /\ job[o].at \in Unplanned => prepared[o] = NoRecord
    /\ prepared[o] = NoRecord => job[o].at \notin Journaled /\ job[o].deleted = {}
    /\ Recorded(prepared[o]) => job[o].left \cup job[o].deleted \subseteq prepared[o]
    /\ job[o].at \in Unplanned \cup {"prepared", "removing", "removed"} => terminal[o] = NoRecord
    /\ job[o].at \in {"published", "verified"} => Recorded(terminal[o])
    /\ terminal[o] \in {NoRecord, job[o].deleted}
    /\ job[o].at # "done" => receipts[o] = NoRecord
    /\ Recorded(receipts[o]) =>
          IF Recorded(prepared[o]) THEN receipts[o] = terminal[o] ELSE receipts[o] = {}

\* What an apply counts as deleted is gone, and what is gone was removed by
\* some apply; candidates are entries that have appeared.
GoneIsRemoved ==
    /\ \A o \in Applies : /\ job[o].confirmed.candidates \subseteq 1..born
                          /\ job[o].deleted \cap present = {}
    /\ \A r \in 1..born : r \notin present => \E o \in Applies : r \in removed[o]

JournalInv == /\ TypeOK
              /\ \A o \in Applies : JournalAgrees(o)
              /\ GoneIsRemoved
              /\ RemovalsAreRecorded

LEMMA InitJournal == Init => JournalInv
<1> SUFFICES ASSUME Init PROVE JournalInv
  OBVIOUS
<1>1. order \in Seq(1..born) /\ Distinct(order) /\ present = 1..born
  <2>1. born \in Nat
    BY DEF Init
  <2>2. order \in Seq(1..born) /\ Len(order) = born
    BY <2>1, IsASeq DEF Init
  <2>3. DOMAIN order = 1..born /\ \A i \in 1..born : order[i] = i
    BY DEF Init
  <2> QED
    BY <2>2, <2>3 DEF Distinct, Elements, present
<1>2. [at |-> "idle", confirmed |-> NoToken, entries |-> <<>>,
       hollow |-> {}, left |-> {}, target |-> 0, deleted |-> {}] \in Job
  BY EmptySeq, RetentionAssumption DEF Job, Places
<1>3. TypeOK
  BY <1>1, <1>2 DEF Init, TypeOK
<1>4. \A o \in Applies : JournalAgrees(o)
  BY DEF Init, JournalAgrees, NoToken, Recorded, Unplanned, Journaled
<1>5. GoneIsRemoved
  BY <1>1 DEF Init, GoneIsRemoved, NoToken
<1>6. RemovalsAreRecorded
  BY <1>1 DEF Init, RemovalsAreRecorded
<1> QED
  BY <1>3, <1>4, <1>5, <1>6 DEF JournalInv

LEMMA TokenTyped ==
  ASSUME NEW entries \in Seq(Runs), NEW halved \in SUBSET Runs, NEW named, NEW scanned
  PROVE  /\ Candidates(entries, named, scanned) \in SUBSET Elements(entries)
         /\ Candidates(entries, named, scanned) \cap Recent(entries) = {}
         /\ TokenOf(entries, halved, Candidates(entries, named, scanned)) \in Token
<1> DEFINE chosen == Candidates(entries, named, scanned)
<1>1. chosen \in SUBSET Elements(entries) /\ chosen \cap Recent(entries) = {}
  BY DEF Candidates
<1>2. Elements(entries) \in SUBSET Runs
  BY LenProperties, ElementOfSeq DEF Elements
<1>3. Cardinality(Elements(entries) \ chosen) \in 0..MaxRuns
  <2>1. IsFiniteSet(Runs) /\ Cardinality(Runs) = MaxRuns
    BY FS_Interval, RetentionAssumption DEF Runs
  <2>2. Elements(entries) \ chosen \in SUBSET Runs
    BY <1>2
  <2>3. IsFiniteSet(Elements(entries) \ chosen) /\ Cardinality(Elements(entries) \ chosen) <= MaxRuns
    BY <2>1, <2>2, FS_Subset
  <2> QED
    BY <2>3, FS_CardinalityType, RetentionAssumption
<1> QED
  BY <1>1, <1>2, <1>3 DEF TokenOf, Token

\* Only o's record changes, and it stays one.
Stepped(o) == /\ job' \in [Applies -> Job]
              /\ \A p \in Applies \ {o} : job'[p] = job[p]

SameKnowledge(o) == /\ job'[o].confirmed = job[o].confirmed /\ job'[o].entries = job[o].entries
                    /\ job'[o].hollow = job[o].hollow
                    /\ job'[o].left = job[o].left /\ job'[o].target = job[o].target
                    /\ job'[o].deleted = job[o].deleted

LEMMA JobTyped == TypeOK => job \in [Applies -> Job]
BY DEF TypeOK

LEMMA GotoSteps ==
  ASSUME NEW o \in Applies, NEW place \in Places, job \in [Applies -> Job], Goto(o, place)
  PROVE  Stepped(o) /\ SameKnowledge(o) /\ job'[o].at = place
BY DEF Goto, Stepped, SameKnowledge, Job

LEMMA StoreTyped ==
  ASSUME TypeOK
  PROVE  order \in Seq(Runs) /\ present \in SUBSET Runs /\ hollow \in SUBSET Runs
<1>1. 1..born \subseteq Runs
  BY RetentionAssumption DEF TypeOK, Runs
<1>2. order \in Seq(Runs)
  BY <1>1, SeqMonotonic DEF TypeOK
<1>3. present \subseteq Runs
  BY <1>2, ElementsTyped DEF present
<1> QED
  BY <1>2, <1>3 DEF TypeOK

LEMMA ReviewSteps ==
  ASSUME NEW o \in Applies, TypeOK, Review(o)
  PROVE  /\ Stepped(o) /\ job'[o].at = "reviewed" /\ job'[o].hollow = job[o].hollow
         /\ job'[o].left = job[o].left /\ job'[o].deleted = job[o].deleted
         /\ job'[o].confirmed.candidates \subseteq present
<1>1. order \in Seq(Runs) /\ hollow \in SUBSET Runs
  BY StoreTyped
<1>2. PICK t \in Token : t = TokenOf(order, hollow, Candidates(order, referenced, TRUE))
  BY <1>1, TokenTyped
<1>3. t.candidates \subseteq present
  <2>1. t.candidates = Candidates(order, referenced, TRUE)
    BY <1>2 DEF TokenOf
  <2> QED
    BY <2>1 DEF Candidates, present
<1>4. job' = [job EXCEPT ![o].at = "reviewed", ![o].confirmed = t]
  BY <1>2 DEF Review
<1> QED
  BY <1>3, <1>4, JobTyped DEF Stepped, Job, Places

LEMMA ListSteps ==
  ASSUME NEW o \in Applies, TypeOK, List(o)
  PROVE  /\ Stepped(o) /\ job'[o].at = "listed" /\ job'[o].entries = order
         /\ job'[o].hollow = hollow
         /\ job'[o].confirmed = job[o].confirmed
         /\ job'[o].left = job[o].left /\ job'[o].deleted = job[o].deleted
<1>1. order \in Seq(Runs) /\ hollow \in SUBSET Runs
  BY StoreTyped
<1>2. job' = [job EXCEPT ![o] = [@ EXCEPT !.at = "listed", !.entries = order, !.hollow = hollow]]
  BY DEF List
<1> QED
  BY <1>1, <1>2, JobTyped DEF Stepped, Job, Places

LEMMA PlanSteps ==
  ASSUME NEW o \in Applies, TypeOK, Plan(o)
  PROVE  /\ Stepped(o) /\ job'[o].confirmed = job[o].confirmed
         /\ job'[o].deleted = job[o].deleted /\ job'[o].hollow = job[o].hollow
         /\ \/ job'[o].at = "stopped" /\ job'[o].left = job[o].left
            \/ /\ job'[o].at = "confirmed" /\ job'[o].left = job[o].confirmed.candidates
               /\ job'[o].left \subseteq Elements(job[o].entries) \ Recent(job[o].entries)
<1> DEFINE chosen(scanned) == Candidates(job[o].entries, referenced, scanned)
<1>1. PICK scanned \in BOOLEAN :
         IF TokenOf(job[o].entries, job[o].hollow, chosen(scanned)) = job[o].confirmed
         THEN job' = [job EXCEPT ![o].at = "confirmed", ![o].left = chosen(scanned),
                                 ![o].entries = <<>>]
         ELSE Goto(o, "stopped")
  BY DEF Plan
<1>2. job[o] \in Job /\ job[o].entries \in Seq(Runs) /\ job[o].hollow \in SUBSET Runs
  BY DEF TypeOK, Job
<1>3. /\ chosen(scanned) \in SUBSET Elements(job[o].entries)
      /\ chosen(scanned) \cap Recent(job[o].entries) = {}
  BY <1>2, TokenTyped
<1>4. Elements(job[o].entries) \subseteq Runs
  BY <1>2, ElementsTyped
<1>5. CASE TokenOf(job[o].entries, job[o].hollow, chosen(scanned)) = job[o].confirmed
  <2>1. chosen(scanned) = job[o].confirmed.candidates
    BY <1>5 DEF TokenOf
  <2>2. chosen(scanned) \in SUBSET Runs
    BY <1>3, <1>4
  <2> HIDE DEF chosen
  <2>3. job' = [job EXCEPT ![o].at = "confirmed", ![o].left = chosen(scanned), ![o].entries = <<>>]
    BY <1>1, <1>5
  <2>4. PICK l \in SUBSET Runs : l = chosen(scanned)
    BY <2>2
  <2>5. job' = [job EXCEPT ![o].at = "confirmed", ![o].left = l, ![o].entries = <<>>]
    BY <2>3, <2>4
  <2>6. job \in [Applies -> Job] /\ <<>> \in Seq(Runs)
    BY JobTyped, EmptySeq
  <2>7. PICK none \in Seq(Runs) : none = <<>>
    BY <2>6
  <2>8. job' = [job EXCEPT ![o].at = "confirmed", ![o].left = l, ![o].entries = none]
    BY <2>5, <2>7
  <2>9. /\ Stepped(o) /\ job'[o].at = "confirmed" /\ job'[o].left = l
        /\ job'[o].confirmed = job[o].confirmed /\ job'[o].deleted = job[o].deleted
        /\ job'[o].hollow = job[o].hollow
    <3> DEFINE new == [job[o] EXCEPT !.at = "confirmed", !.left = l, !.entries = none]
    <3>1. job[o] \in Job
      BY <2>6
    <3>2. new \in Job
      BY <3>1 DEF Job, Places
    <3>3. /\ new.at = "confirmed" /\ new.left = l /\ new.confirmed = job[o].confirmed
          /\ new.deleted = job[o].deleted /\ new.hollow = job[o].hollow
      BY <3>1 DEF Job
    <3>4. job' = [job EXCEPT ![o] = new]
      BY <2>6, <2>8
    <3> HIDE DEF new
    <3>5. Stepped(o) /\ job'[o] = new
      BY <2>6, <3>2, <3>4 DEF Stepped
    <3> QED
      BY <3>3, <3>5
  <2> QED
    BY <2>1, <2>4, <2>9, <1>3
<1>6. CASE TokenOf(job[o].entries, job[o].hollow, chosen(scanned)) # job[o].confirmed
  BY <1>1, <1>6, GotoSteps DEF SameKnowledge, TypeOK, Places
<1> QED
  BY <1>5, <1>6

LEMMA DealtSteps ==
  ASSUME NEW o \in Applies, job \in [Applies -> Job], NEW r \in Runs, NEW d \in SUBSET Runs,
         Dealt(o, r, d)
  PROVE  /\ Stepped(o) /\ job'[o].at \in {"prepared", "removed"}
         /\ job'[o].confirmed = job[o].confirmed /\ job'[o].hollow = job[o].hollow
         /\ job'[o].left = job[o].left \ {r} /\ job'[o].deleted = d
<1>1. job[o] \in Job
  OBVIOUS
<1>2. PICK l \in SUBSET Runs : l = job[o].left \ {r}
  BY <1>1 DEF Job
<1>3. PICK a \in {"prepared", "removed"} : a = IF job[o].left = {r} THEN "removed" ELSE "prepared"
  OBVIOUS
<1>4. job' = [job EXCEPT ![o] = [@ EXCEPT !.at = a, !.left = l, !.target = 0, !.deleted = d]]
  BY <1>2, <1>3 DEF Dealt
<1>5. 0 \in 0..MaxRuns
  BY RetentionAssumption
<1>6. Stepped(o) /\ job'[o] = [job[o] EXCEPT !.at = a, !.left = l, !.target = 0, !.deleted = d]
  BY <1>4, <1>5 DEF Stepped, Job, Places
<1>7. /\ job'[o].at = a /\ job'[o].left = l /\ job'[o].deleted = d
      /\ job'[o].confirmed = job[o].confirmed /\ job'[o].hollow = job[o].hollow
  BY <1>1, <1>6 DEF Job
<1> QED
  BY <1>2, <1>3, <1>6, <1>7

\* What a look at a candidate, and a removal that fails, have in common.
LEMMA LookSteps ==
  ASSUME NEW o \in Applies, TypeOK, NEW r \in Runs, Look(o, r)
  PROVE  /\ Stepped(o) /\ job[o].at = "prepared"
         /\ job'[o].at \in {"prepared", "removing", "removed"}
         /\ job'[o].confirmed = job[o].confirmed /\ job'[o].hollow = job[o].hollow
         /\ job'[o].left \subseteq job[o].left /\ job'[o].deleted = job[o].deleted
         /\ job'[o].at = "removing" => job'[o].target \in job'[o].left
<1>1. job \in [Applies -> Job] /\ job[o].deleted \in SUBSET Runs /\ job[o] \in Job
  BY JobTyped DEF Job
<1>2. job[o].at = "prepared" /\ r \in job[o].left
  BY DEF Look, At
<1>3. CASE r \in present
  <2>1. job' = [job EXCEPT ![o] = [@ EXCEPT !.at = "removing", !.target = r]]
    BY <1>3 DEF Look
  <2>2. r \in 0..MaxRuns
    BY RetentionAssumption DEF Runs
  <2>3. Stepped(o) /\ job'[o] = [job[o] EXCEPT !.at = "removing", !.target = r]
    BY <1>1, <2>1, <2>2 DEF Stepped, Job, Places
  <2>4. /\ job'[o].at = "removing" /\ job'[o].target = r
        /\ job'[o].confirmed = job[o].confirmed /\ job'[o].hollow = job[o].hollow
        /\ job'[o].left = job[o].left /\ job'[o].deleted = job[o].deleted
    BY <1>1, <2>3 DEF Job
  <2> QED
    BY <1>2, <2>3, <2>4
<1>4. CASE r \notin present
  <2>1. Dealt(o, r, job[o].deleted)
    BY <1>4 DEF Look
  <2> QED
    BY <1>1, <1>2, <2>1, DealtSteps
<1> QED
  BY <1>3, <1>4

\* The candidate that is being removed.
LEMMA TargetTyped ==
  ASSUME JournalInv, NEW o \in Applies, job[o].at = "removing"
  PROVE  /\ job[o].target \in job[o].left /\ job[o].target \in Runs /\ job[o].target \in 1..born
         /\ job[o].target \in job[o].confirmed.candidates
         /\ Recorded(prepared[o]) /\ job[o].target \in prepared[o]
<1>1. job[o].left \in SUBSET Runs
  BY JobTyped DEF JournalInv, Job
<1>2. JournalAgrees(o) /\ job[o].confirmed.candidates \subseteq 1..born
  BY DEF JournalInv, GoneIsRemoved
<1>3. job[o].target \in job[o].left /\ prepared[o] # NoRecord
  BY <1>2 DEF JournalAgrees, Journaled
<1>4. /\ job[o].left \subseteq job[o].confirmed.candidates
      /\ job[o].left \subseteq prepared[o]
  BY <1>2, <1>3 DEF JournalAgrees, Recorded
<1> QED
  BY <1>1, <1>2, <1>3, <1>4 DEF Recorded

LEMMA FailSteps ==
  ASSUME NEW o \in Applies, JournalInv, Fail(o)
  PROVE  /\ Stepped(o) /\ job[o].at = "removing" /\ job'[o].at \in {"prepared", "removed"}
         /\ job'[o].confirmed = job[o].confirmed /\ job'[o].hollow = job[o].hollow
         /\ job'[o].left \subseteq job[o].left /\ job'[o].deleted = job[o].deleted
<1>1. job \in [Applies -> Job] /\ job[o].deleted \in SUBSET Runs
  BY JobTyped DEF Job, JournalInv
<1>2. job[o].at = "removing" /\ Dealt(o, job[o].target, job[o].deleted)
  BY DEF Fail, At
<1>3. job[o].target \in Runs
  BY <1>2, TargetTyped
<1> QED
  BY <1>1, <1>2, <1>3, DealtSteps

LEMMA FinishSteps ==
  ASSUME NEW o \in Applies, JournalInv, Finish(o), NEW r, r = job[o].target
  PROVE  /\ Stepped(o) /\ job[o].at = "removing" /\ job'[o].at \in {"prepared", "removed"}
         /\ job'[o].confirmed = job[o].confirmed /\ job'[o].hollow = job[o].hollow
         /\ job'[o].left \subseteq job[o].left /\ job'[o].deleted = job[o].deleted \cup {r}
         /\ order' = IF r \in present THEN Without(order, r) ELSE order
         /\ hollow' = hollow \ {r}
         /\ removed' = [removed EXCEPT ![o] = @ \cup ({r} \cap present)]
         /\ UNCHANGED <<strays, born, referenced, prepared, terminal, receipts>>
<1>1. /\ job[o].at = "removing" /\ Dealt(o, r, job[o].deleted \cup {r})
      /\ order' = IF r \in present THEN Without(order, r) ELSE order
      /\ hollow' = hollow \ {r}
      /\ removed' = [removed EXCEPT ![o] = @ \cup ({r} \cap present)]
      /\ UNCHANGED <<strays, born, referenced, prepared, terminal, receipts>>
  BY DEF Finish, At
<1>2. r \in Runs
  BY <1>1, TargetTyped
<1>3. job \in [Applies -> Job] /\ job[o].deleted \cup {r} \in SUBSET Runs
  BY <1>2, JobTyped DEF Job, JournalInv
<1>4. /\ Stepped(o) /\ job'[o].at \in {"prepared", "removed"}
      /\ job'[o].confirmed = job[o].confirmed /\ job'[o].hollow = job[o].hollow
      /\ job'[o].left = job[o].left \ {r} /\ job'[o].deleted = job[o].deleted \cup {r}
  BY <1>1, <1>2, <1>3, DealtSteps
<1> QED
  BY <1>1, <1>4

\* An apply's step that touches only its own records, and keeps them.
LEMMA OwnStep ==
  ASSUME JournalInv, NEW o \in Applies, Stepped(o), UNCHANGED <<store, removed>>,
         prepared' \in [Applies -> (SUBSET Runs) \cup {NoRecord}],
         terminal' \in [Applies -> (SUBSET Runs) \cup {NoRecord}],
         receipts' \in [Applies -> (SUBSET Runs) \cup {NoRecord}],
         \A p \in Applies \ {o} : /\ prepared'[p] = prepared[p] /\ terminal'[p] = terminal[p]
                                  /\ receipts'[p] = receipts[p],
         Recorded(prepared[o]) => prepared'[o] = prepared[o],
         job'[o].confirmed.candidates \subseteq 1..born, job'[o].deleted = job[o].deleted,
         JournalAgrees(o)'
  PROVE  JournalInv'
<1>1. TypeOK'
  BY DEF JournalInv, TypeOK, store, Stepped, present, Distinct, Elements
<1>2. \A p \in Applies : JournalAgrees(p)'
  <2> SUFFICES ASSUME NEW p \in Applies \ {o} PROVE JournalAgrees(p)'
    OBVIOUS
  <2>1. /\ JournalAgrees(p) /\ job'[p] = job[p] /\ prepared'[p] = prepared[p]
        /\ terminal'[p] = terminal[p] /\ receipts'[p] = receipts[p] /\ removed' = removed
    BY DEF JournalInv, Stepped
  <2> QED
    BY <2>1 DEF JournalAgrees, Recorded
<1>3. GoneIsRemoved'
  <2>1. born' = born /\ present' = present /\ removed' = removed
    BY DEF store, present, Elements
  <2>2. \A p \in Applies : /\ job'[p].confirmed.candidates \subseteq 1..born
                           /\ job'[p].deleted = job[p].deleted
    BY DEF JournalInv, GoneIsRemoved, Stepped
  <2> QED
    BY <2>1, <2>2 DEF JournalInv, GoneIsRemoved
<1>4. RemovalsAreRecorded'
  <2>1. \A p \in Applies : Recorded(prepared[p]) => prepared'[p] = prepared[p]
    OBVIOUS
  <2>2. born' = born /\ present' = present /\ hollow' = hollow
    BY DEF store, present, Elements
  <2> QED
    BY <2>1, <2>2 DEF JournalInv, RemovalsAreRecorded, Recorded
<1> QED
  BY <1>1, <1>2, <1>3, <1>4 DEF JournalInv

LEMMA NoRecordIsNoSet == \A S \in SUBSET Runs : S # NoRecord
BY RetentionAssumption DEF Runs

LEMMA CandidatesAppeared ==
  ASSUME JournalInv, NEW o \in Applies
  PROVE  job[o].confirmed.candidates \subseteq 1..born
BY DEF JournalInv, GoneIsRemoved

LEMMA ReviewJournal == ASSUME JournalInv, NEW o \in Applies, Review(o) PROVE JournalInv'
<1>1. /\ Stepped(o) /\ job'[o].at = "reviewed" /\ job'[o].hollow = job[o].hollow
      /\ job'[o].left = job[o].left /\ job'[o].deleted = job[o].deleted
      /\ job'[o].confirmed.candidates \subseteq present
  BY ReviewSteps DEF JournalInv
<1>2. job[o].at = "idle" /\ UNCHANGED <<store, prepared, terminal, receipts, removed>>
  BY DEF Review, At
<1>3. JournalAgrees(o) /\ job[o].left = {} /\ job[o].deleted = {}
  BY <1>2 DEF JournalInv, JournalAgrees, Unplanned
<1>4. JournalAgrees(o)'
  BY <1>1, <1>2, <1>3 DEF JournalAgrees, Recorded, Unplanned, Journaled
<1>5. present \subseteq 1..born
  BY ElementsTyped DEF JournalInv, TypeOK, present
<1> QED
  BY <1>1, <1>2, <1>4, <1>5, OwnStep DEF JournalInv, TypeOK

LEMMA ListJournal == ASSUME JournalInv, NEW o \in Applies, List(o) PROVE JournalInv'
<1>1. /\ Stepped(o) /\ job'[o].at = "listed" /\ job'[o].confirmed = job[o].confirmed
      /\ job'[o].left = job[o].left /\ job'[o].deleted = job[o].deleted
  BY ListSteps DEF JournalInv
<1>2. job[o].at = "reviewed" /\ UNCHANGED <<store, prepared, terminal, receipts, removed>>
  BY DEF List, At
<1>3. JournalAgrees(o)'
  BY <1>1, <1>2 DEF JournalInv, JournalAgrees, Recorded, Unplanned, Journaled
<1> QED
  BY <1>1, <1>2, <1>3, CandidatesAppeared, OwnStep DEF JournalInv, TypeOK

LEMMA PlanJournal == ASSUME JournalInv, NEW o \in Applies, Plan(o) PROVE JournalInv'
<1>1. /\ Stepped(o) /\ job'[o].confirmed = job[o].confirmed /\ job'[o].deleted = job[o].deleted
      /\ \/ job'[o].at = "stopped" /\ job'[o].left = job[o].left
         \/ job'[o].at = "confirmed" /\ job'[o].left = job[o].confirmed.candidates
  BY PlanSteps DEF JournalInv
<1>2. job[o].at = "listed" /\ UNCHANGED <<store, prepared, terminal, receipts, removed>>
  BY DEF Plan, At
<1>3. JournalAgrees(o) /\ prepared[o] = NoRecord /\ job[o].deleted = {}
  BY <1>2 DEF JournalInv, JournalAgrees, Unplanned
<1>4. JournalAgrees(o)'
  BY <1>1, <1>2, <1>3 DEF JournalAgrees, Recorded, Unplanned, Journaled
<1> QED
  BY <1>1, <1>2, <1>4, CandidatesAppeared, OwnStep DEF JournalInv, TypeOK

LEMMA PreserveJournal == ASSUME JournalInv, NEW o \in Applies, Preserve(o) PROVE JournalInv'
<1>1. job[o].at = "confirmed" /\ UNCHANGED <<store, prepared, terminal, removed>>
  BY DEF Preserve, At
<1>2. JournalAgrees(o) /\ prepared[o] = NoRecord /\ job[o].deleted = {}
  BY <1>1 DEF JournalInv, JournalAgrees, Unplanned
<1>3. /\ Stepped(o) /\ SameKnowledge(o)
      /\ \/ job'[o].at = "done" /\ receipts' = [receipts EXCEPT ![o] = {}]
         \/ job'[o].at = "stopped" /\ receipts' = receipts
  BY GotoSteps, JobTyped DEF Preserve, JournalInv, Places
<1>4. /\ receipts' \in [Applies -> (SUBSET Runs) \cup {NoRecord}]
      /\ \A p \in Applies \ {o} : receipts'[p] = receipts[p]
      /\ job'[o].at = "done" => receipts'[o] = {}
      /\ job'[o].at = "stopped" => receipts'[o] = receipts[o]
  BY <1>3 DEF JournalInv, TypeOK
<1>5. JournalAgrees(o)'
  BY <1>1, <1>2, <1>3, <1>4 DEF JournalAgrees, Recorded, Unplanned, Journaled, SameKnowledge
<1> QED
  BY <1>1, <1>3, <1>4, <1>5, CandidatesAppeared, OwnStep DEF SameKnowledge, JournalInv, TypeOK

LEMMA PrepareJournal == ASSUME JournalInv, NEW o \in Applies, Prepare(o) PROVE JournalInv'
<1>1. job[o].at = "confirmed" /\ UNCHANGED <<store, terminal, receipts, removed>>
  BY DEF Prepare, At
<1>2. JournalAgrees(o) /\ prepared[o] = NoRecord /\ job[o].deleted = {} /\ job[o].left \in SUBSET Runs
  BY <1>1, JobTyped DEF JournalInv, JournalAgrees, Unplanned, Job
<1>3. /\ Stepped(o) /\ SameKnowledge(o)
      /\ \/ job'[o].at = "prepared" /\ prepared' = [prepared EXCEPT ![o] = job[o].left]
         \/ job'[o].at = "stopped" /\ prepared' = prepared
  BY GotoSteps, JobTyped DEF Prepare, JournalInv, Places
<1>4. /\ prepared' \in [Applies -> (SUBSET Runs) \cup {NoRecord}]
      /\ \A p \in Applies \ {o} : prepared'[p] = prepared[p]
      /\ job'[o].at = "prepared" => prepared'[o] = job[o].left
      /\ job'[o].at = "stopped" => prepared'[o] = prepared[o]
  BY <1>2, <1>3 DEF JournalInv, TypeOK
<1>5. JournalAgrees(o)'
  BY <1>1, <1>2, <1>3, <1>4, NoRecordIsNoSet DEF JournalAgrees, Recorded, Unplanned, Journaled, SameKnowledge
<1> QED
  BY <1>1, <1>2, <1>3, <1>4, <1>5, CandidatesAppeared, OwnStep DEF SameKnowledge, JournalInv, TypeOK, Recorded

LEMMA PublishJournal == ASSUME JournalInv, NEW o \in Applies, Publish(o) PROVE JournalInv'
<1>1. job[o].at = "removed" /\ UNCHANGED <<store, prepared, receipts, removed>>
  BY DEF Publish, At
<1>2. JournalAgrees(o) /\ job[o].deleted \in SUBSET Runs
  BY JobTyped DEF JournalInv, Job
<1>3. /\ Stepped(o) /\ SameKnowledge(o)
      /\ \/ job'[o].at = "published" /\ terminal' = [terminal EXCEPT ![o] = job[o].deleted]
         \/ job'[o].at = "stopped" /\ terminal' = terminal
  BY GotoSteps, JobTyped DEF Publish, JournalInv, Places
<1>4. /\ terminal' \in [Applies -> (SUBSET Runs) \cup {NoRecord}]
      /\ \A p \in Applies \ {o} : terminal'[p] = terminal[p]
      /\ job'[o].at = "published" => terminal'[o] = job[o].deleted
      /\ job'[o].at = "stopped" => terminal'[o] = terminal[o]
  BY <1>2, <1>3 DEF JournalInv, TypeOK
<1>5. JournalAgrees(o)'
  BY <1>1, <1>2, <1>3, <1>4, NoRecordIsNoSet DEF JournalAgrees, Recorded, Unplanned, Journaled, SameKnowledge
<1> QED
  BY <1>1, <1>3, <1>4, <1>5, CandidatesAppeared, OwnStep DEF SameKnowledge, JournalInv, TypeOK

LEMMA RereadJournal == ASSUME JournalInv, NEW o \in Applies, Reread(o) PROVE JournalInv'
<1>1. job[o].at = "published" /\ UNCHANGED <<store, prepared, terminal, receipts, removed>>
  BY DEF Reread, At
<1>2. Stepped(o) /\ SameKnowledge(o) /\ job'[o].at \in {"verified", "stopped"}
  BY GotoSteps, JobTyped DEF Reread, JournalInv, Places
<1>3. JournalAgrees(o)'
  BY <1>1, <1>2 DEF JournalInv, JournalAgrees, Recorded, Unplanned, Journaled, SameKnowledge
<1> QED
  BY <1>1, <1>2, <1>3, CandidatesAppeared, OwnStep DEF SameKnowledge, JournalInv, TypeOK

LEMMA ReceiptJournal == ASSUME JournalInv, NEW o \in Applies, WriteReceipt(o) PROVE JournalInv'
<1>1. job[o].at = "verified" /\ UNCHANGED <<store, prepared, terminal, removed>>
  BY DEF WriteReceipt, At
<1>2. JournalAgrees(o) /\ terminal[o] = job[o].deleted /\ terminal[o] \in SUBSET Runs
  BY <1>1 DEF JournalInv, JournalAgrees, Recorded, TypeOK
<1>3. /\ Stepped(o) /\ SameKnowledge(o)
      /\ \/ job'[o].at = "done" /\ receipts' = [receipts EXCEPT ![o] = terminal[o]]
         \/ job'[o].at = "stopped" /\ receipts' = receipts
  BY GotoSteps, JobTyped DEF WriteReceipt, JournalInv, Places
<1>4. /\ receipts' \in [Applies -> (SUBSET Runs) \cup {NoRecord}]
      /\ \A p \in Applies \ {o} : receipts'[p] = receipts[p]
      /\ job'[o].at = "done" => receipts'[o] = terminal[o]
      /\ job'[o].at = "stopped" => receipts'[o] = receipts[o]
  BY <1>2, <1>3 DEF JournalInv, TypeOK
<1>5. JournalAgrees(o)'
  BY <1>1, <1>2, <1>3, <1>4 DEF JournalAgrees, Recorded, Unplanned, Journaled, SameKnowledge
<1> QED
  BY <1>1, <1>3, <1>4, <1>5, CandidatesAppeared, OwnStep DEF SameKnowledge, JournalInv, TypeOK

LEMMA DieJournal == ASSUME JournalInv, NEW o \in Applies, Die(o) PROVE JournalInv'
<1>1. job[o].at # "done" /\ UNCHANGED <<store, prepared, terminal, receipts, removed>>
  BY DEF Die
<1>2. Stepped(o) /\ SameKnowledge(o) /\ job'[o].at = "stopped"
  BY GotoSteps, JobTyped DEF Die, JournalInv, Places
<1>3. JournalAgrees(o)'
  BY <1>1, <1>2 DEF JournalInv, JournalAgrees, Recorded, Unplanned, Journaled, SameKnowledge
<1> QED
  BY <1>1, <1>2, <1>3, CandidatesAppeared, OwnStep DEF SameKnowledge, JournalInv, TypeOK

LEMMA LookJournal ==
  ASSUME JournalInv, NEW o \in Applies, NEW r \in Runs, Look(o, r) PROVE JournalInv'
<1>1. /\ Stepped(o) /\ job[o].at = "prepared"
      /\ job'[o].at \in {"prepared", "removing", "removed"}
      /\ job'[o].confirmed = job[o].confirmed /\ job'[o].hollow = job[o].hollow
      /\ job'[o].left \subseteq job[o].left /\ job'[o].deleted = job[o].deleted
      /\ job'[o].at = "removing" => job'[o].target \in job'[o].left
  BY LookSteps DEF JournalInv
<1>2. UNCHANGED <<store, prepared, terminal, receipts, removed>>
  BY DEF Look
<1>3. JournalAgrees(o)'
  BY <1>1, <1>2 DEF JournalInv, JournalAgrees, Recorded, Unplanned, Journaled
<1> QED
  BY <1>1, <1>2, <1>3, CandidatesAppeared, OwnStep DEF JournalInv, TypeOK

LEMMA FailJournal == ASSUME JournalInv, NEW o \in Applies, Fail(o) PROVE JournalInv'
<1>1. /\ Stepped(o) /\ job[o].at = "removing" /\ job'[o].at \in {"prepared", "removed"}
      /\ job'[o].confirmed = job[o].confirmed /\ job'[o].hollow = job[o].hollow
      /\ job'[o].left \subseteq job[o].left /\ job'[o].deleted = job[o].deleted
  BY FailSteps
<1>2. UNCHANGED <<store, prepared, terminal, receipts, removed>>
  BY DEF Fail
<1>3. JournalAgrees(o)'
  BY <1>1, <1>2 DEF JournalInv, JournalAgrees, Recorded, Unplanned, Journaled
<1> QED
  BY <1>1, <1>2, <1>3, CandidatesAppeared, OwnStep DEF JournalInv, TypeOK

LEMMA FinishJournal == ASSUME JournalInv, NEW o \in Applies, Finish(o) PROVE JournalInv'
<1>1. PICK r : r = job[o].target
  OBVIOUS
<1>2. /\ Stepped(o) /\ job[o].at = "removing" /\ job'[o].at \in {"prepared", "removed"}
      /\ job'[o].confirmed = job[o].confirmed /\ job'[o].hollow = job[o].hollow
      /\ job'[o].left \subseteq job[o].left /\ job'[o].deleted = job[o].deleted \cup {r}
      /\ order' = IF r \in present THEN Without(order, r) ELSE order
      /\ hollow' = hollow \ {r}
      /\ removed' = [removed EXCEPT ![o] = @ \cup ({r} \cap present)]
      /\ UNCHANGED <<strays, born, referenced, prepared, terminal, receipts>>
  BY <1>1, FinishSteps
<1>3. /\ r \in job[o].left /\ r \in 1..born /\ r \in job[o].confirmed.candidates
      /\ Recorded(prepared[o]) /\ r \in prepared[o]
  BY <1>1, <1>2, TargetTyped
<1>4. born \in Nat /\ order \in Seq(1..born) /\ Distinct(order) /\ hollow \subseteq present
      /\ present = Elements(order) /\ 1..born \subseteq Runs
  BY RetentionAssumption DEF JournalInv, TypeOK, present, Runs
<1>5. order' \in Seq(1..born) /\ Distinct(order') /\ Elements(order') = present \ {r}
  <2>1. CASE r \in present
    BY <1>2, <1>4, <2>1, WithoutElements
  <2>2. CASE r \notin present
    BY <1>2, <1>4, <2>2
  <2> QED
    BY <2>1, <2>2
<1>6. present' = present \ {r}
  BY <1>5 DEF present
<1>7. /\ removed' \in [Applies -> SUBSET Runs] /\ removed'[o] = removed[o] \cup ({r} \cap present)
      /\ \A p \in Applies \ {o} : removed'[p] = removed[p]
  <2>1. removed \in [Applies -> SUBSET Runs]
    BY DEF JournalInv, TypeOK
  <2> QED
    BY <1>2, <1>3, <1>4, <2>1
<1>8. TypeOK'
  BY <1>2, <1>4, <1>5, <1>6, <1>7 DEF JournalInv, TypeOK, Stepped
<1>9. \A p \in Applies : JournalAgrees(p)'
  <2> SUFFICES ASSUME NEW p \in Applies PROVE JournalAgrees(p)'
    OBVIOUS
  <2>1. JournalAgrees(p)
    BY DEF JournalInv
  <2>2. CASE p = o
    BY <2>1, <2>2, <1>2, <1>3, <1>7 DEF JournalAgrees, Recorded, Unplanned, Journaled
  <2>3. CASE p # o
    <3>1. job'[p] = job[p] /\ removed'[p] = removed[p]
      BY <2>3, <1>2, <1>7 DEF Stepped
    <3> QED
      BY <2>1, <3>1, <1>2 DEF JournalAgrees, Recorded
  <2> QED
    BY <2>2, <2>3
<1>10. GoneIsRemoved'
  <2>1. \A p \in Applies : /\ job'[p].confirmed.candidates = job[p].confirmed.candidates
                           /\ job'[p].deleted \subseteq job[p].deleted \cup {r}
    BY <1>2 DEF Stepped
  <2>2. \A q \in 1..born : q \notin present \ {r} => \E p \in Applies : q \in removed'[p]
    <3> SUFFICES ASSUME NEW q \in 1..born, q \notin present \ {r}
                 PROVE  \E p \in Applies : q \in removed'[p]
      OBVIOUS
    <3>1. CASE q \notin present
      BY <3>1, <1>7 DEF JournalInv, GoneIsRemoved
    <3>2. CASE q \in present
      BY <3>2, <1>7
    <3> QED
      BY <3>1, <3>2
  <2>3. \A p \in Applies : /\ job[p].confirmed.candidates \subseteq 1..born
                           /\ job[p].deleted \cap present = {}
    BY DEF JournalInv, GoneIsRemoved
  <2> QED
    BY <2>1, <2>2, <2>3, <1>2, <1>6 DEF GoneIsRemoved
<1>11. RemovalsAreRecorded'
  BY <1>2, <1>3, <1>6 DEF JournalInv, RemovalsAreRecorded, Recorded
<1> QED
  BY <1>8, <1>9, <1>10, <1>11 DEF JournalInv

\* A step that only moves entries in the order, or empties a recorded one.
LEMMA MoveJournal ==
  ASSUME JournalInv, UNCHANGED <<strays, born, referenced, job, prepared, terminal, receipts, removed>>,
         order' \in Seq(1..born), Distinct(order'), Elements(order') = present, hollow' \subseteq present,
         \A r \in hollow' \ hollow : \E o \in Applies : Recorded(prepared[o]) /\ r \in prepared[o]
  PROVE  JournalInv'
<1>1. present' = present
  BY DEF present
<1>2. TypeOK'
  BY <1>1 DEF JournalInv, TypeOK
<1>3. \A o \in Applies : JournalAgrees(o)'
  BY DEF JournalInv, JournalAgrees, Recorded
<1>4. GoneIsRemoved'
  BY <1>1 DEF JournalInv, GoneIsRemoved
<1>5. RemovalsAreRecorded'
  BY <1>1 DEF JournalInv, RemovalsAreRecorded, Recorded
<1> QED
  BY <1>2, <1>3, <1>4, <1>5 DEF JournalInv

LEMMA TearSteps ==
  ASSUME JournalInv, NEW o \in Applies, Tear(o), NEW Y, NEW r, r = job[o].target
  PROVE  /\ order' \in Seq(1..born) /\ Distinct(order') /\ Elements(order') = present
         /\ Ordered(order, Y) /\ r \in Y => Ordered(order', Y)
<1>1. r \in present /\ order' \in {order, Append(Without(order, r), r)}
  BY DEF Tear
<1>2. born \in Nat /\ order \in Seq(1..born) /\ Distinct(order) /\ present = Elements(order)
  BY DEF JournalInv, TypeOK, present
<1>3. CASE order' = order
  BY <1>2, <1>3
<1>4. CASE order' = Append(Without(order, r), r)
  BY <1>1, <1>2, <1>4, MovedElements
<1> QED
  BY <1>1, <1>3, <1>4

LEMMA TearJournal == ASSUME JournalInv, NEW o \in Applies, Tear(o) PROVE JournalInv'
<1>1. PICK r : r = job[o].target
  OBVIOUS
<1>2. /\ job[o].at = "removing" /\ r \in present /\ hollow' = hollow \cup {r}
      /\ UNCHANGED <<strays, born, referenced, job, prepared, terminal, receipts, removed>>
  BY <1>1 DEF Tear, At
<1>3. order' \in Seq(1..born) /\ Distinct(order') /\ Elements(order') = present
  BY <1>1, TearSteps
<1>4. hollow' \subseteq present
  BY <1>2 DEF JournalInv, TypeOK
<1>5. Recorded(prepared[o]) /\ r \in prepared[o]
  BY <1>1, <1>2, TargetTyped
<1> QED
  BY <1>2, <1>3, <1>4, <1>5, MoveJournal

LEMMA TouchSteps ==
  ASSUME JournalInv, NEW e \in Runs, Touch(e), NEW Y
  PROVE  /\ order' \in Seq(1..born) /\ Distinct(order') /\ Elements(order') = present
         /\ Ordered(order, Y) /\ e \in Y => Ordered(order', Y)
<1>1. e \in present /\ order' = Append(Without(order, e), e)
  BY DEF Touch
<1>2. born \in Nat /\ order \in Seq(1..born) /\ Distinct(order) /\ present = Elements(order)
  BY DEF JournalInv, TypeOK, present
<1> QED
  BY <1>1, <1>2, MovedElements

LEMMA TouchJournal == ASSUME JournalInv, NEW e \in Runs, Touch(e) PROVE JournalInv'
<1>1. order' \in Seq(1..born) /\ Distinct(order') /\ Elements(order') = present
  BY TouchSteps
<1>2. hollow' = hollow /\ hollow \subseteq present
      /\ UNCHANGED <<strays, born, referenced, job, prepared, terminal, receipts, removed>>
  BY DEF Touch, JournalInv, TypeOK
<1> QED
  BY <1>1, <1>2, MoveJournal

LEMMA AppearJournal == ASSUME JournalInv, Appear PROVE JournalInv'
<1>1. /\ born \in Nat /\ born + 1 \in Nat /\ born' = born + 1 /\ born' \in 0..MaxRuns
      /\ order' = Append(order, born + 1)
      /\ UNCHANGED <<strays, hollow, referenced, job, prepared, terminal, receipts, removed>>
  BY RetentionAssumption DEF Appear, JournalInv, TypeOK
<1>2. order \in Seq(1..born) /\ Distinct(order) /\ present = Elements(order)
  BY DEF JournalInv, TypeOK, present
<1>3. present \subseteq 1..born
  BY <1>2, ElementsTyped
<1>4. born + 1 \in 1..(born + 1) /\ born + 1 \notin Elements(order) /\ born <= born + 1
  BY <1>1, <1>2, <1>3
<1>5. /\ order' \in Seq(1..(born + 1)) /\ Distinct(order')
      /\ Elements(order') = Elements(order) \cup {born + 1}
  BY <1>1, <1>2, <1>4, AppendElements
<1>6. present' = present \cup {born + 1}
  BY <1>2, <1>5 DEF present
<1>7. TypeOK'
  BY <1>1, <1>5, <1>6 DEF JournalInv, TypeOK
<1>8. \A o \in Applies : JournalAgrees(o)'
  BY <1>1 DEF JournalInv, JournalAgrees, Recorded
<1>9. GoneIsRemoved'
  <2>1. \A o \in Applies : /\ job[o].confirmed.candidates \subseteq 1..born
                           /\ job[o].deleted \subseteq 1..born /\ job[o].deleted \cap present = {}
    BY DEF JournalInv, GoneIsRemoved, JournalAgrees
  <2>2. 1..born \subseteq 1..born' /\ born + 1 \notin 1..born
    BY <1>1
  <2>3. \A r \in 1..born' : r \notin present' => r \in 1..born /\ r \notin present
    BY <1>1, <1>6
  <2>4. \A r \in 1..born' : r \notin present' => \E o \in Applies : r \in removed'[o]
    BY <2>3, <1>1 DEF JournalInv, GoneIsRemoved
  <2>5. \A o \in Applies : /\ job'[o].confirmed.candidates \subseteq 1..born'
                           /\ job'[o].deleted \cap present' = {}
    BY <2>1, <2>2, <1>1, <1>6
  <2> QED
    BY <2>4, <2>5 DEF GoneIsRemoved
<1>10. RemovalsAreRecorded'
  <2>1. (1..born') \ (present' \ hollow') \subseteq (1..born) \ (present \ hollow)
    <3>1. born + 1 \notin hollow
      BY <1>3, <1>4 DEF JournalInv, TypeOK
    <3> QED
      BY <3>1, <1>1, <1>6
  <2> QED
    BY <2>1, <1>1 DEF JournalInv, RemovalsAreRecorded, Recorded
<1> QED
  BY <1>7, <1>8, <1>9, <1>10 DEF JournalInv

LEMMA ReferJournal == ASSUME JournalInv, NEW r \in Runs, Refer(r) PROVE JournalInv'
<1>1. /\ UNCHANGED <<strays, born, order, hollow, job, prepared, terminal, receipts, removed>>
      /\ referenced' \subseteq Runs
  BY DEF Refer, JournalInv, TypeOK
<1>2. present' = present
  BY <1>1 DEF present, Elements
<1>3. TypeOK'
  BY <1>1, <1>2 DEF JournalInv, TypeOK, Distinct
<1>4. \A o \in Applies : JournalAgrees(o)'
  BY <1>1 DEF JournalInv, JournalAgrees, Recorded
<1> QED
  BY <1>1, <1>2, <1>3, <1>4 DEF JournalInv, GoneIsRemoved, RemovalsAreRecorded, Recorded

LEMMA StillJournal == ASSUME JournalInv, UNCHANGED vars PROVE JournalInv'
<1>1. /\ UNCHANGED <<strays, born, order, hollow, job, prepared, terminal, receipts, removed>>
      /\ referenced' = referenced
  BY DEF vars
<1>2. present' = present
  BY <1>1 DEF present, Elements
<1>3. TypeOK'
  BY <1>1, <1>2 DEF JournalInv, TypeOK, Distinct
<1>4. \A o \in Applies : JournalAgrees(o)'
  BY <1>1 DEF JournalInv, JournalAgrees, Recorded
<1> QED
  BY <1>1, <1>2, <1>3, <1>4 DEF JournalInv, GoneIsRemoved, RemovalsAreRecorded, Recorded

\* What holds of every reachable state: JournalInv is inductive.
THEOREM JournalInvariant == Spec => []JournalInv
<1>1. JournalInv /\ [Next]_vars => JournalInv'
  <2> SUFFICES ASSUME JournalInv, [Next]_vars PROVE JournalInv'
    OBVIOUS
  <2>1. ASSUME NEW o \in Applies, Apply(o) PROVE JournalInv'
    BY <2>1, ReviewJournal, ListJournal, PlanJournal, PreserveJournal, PrepareJournal, LookJournal, TearJournal,
       FinishJournal, FailJournal, PublishJournal, RereadJournal, ReceiptJournal, DieJournal DEF Apply
  <2> QED
    BY <2>1, AppearJournal, TouchJournal, ReferJournal, StillJournal DEF Next
<1> QED
  BY <1>1, InitJournal, PTL DEF Spec

------------------------------------------------------------------------------
(* What is kept. *)

\* No apply has listed the entries while a run lay emptied in part.
Clean == \A o \in Applies : job[o].hollow = {}

\* As many entries as are kept can rank before each of S.
Old(S) == \A r \in S : Cardinality(Newer(r)) >= KeepRecent

\* What a plan listed and did not find recent, and what it chose, is old.
PlansOld(o) ==
    /\ job[o].at = "listed" => Old(Elements(job[o].entries) \ Recent(job[o].entries))
    /\ job[o].at \in {"confirmed", "prepared", "removing"} => Old(job[o].left)

Newest == {r \in (1..born) \ strays : Cardinality(Newer(r)) < KeepRecent}

\* The runs that are whole are in the order of their recording; so what a
\* listing of whole runs takes for the recent entries covers the newest runs,
\* and what was old when it was planned stays old.
NewestInv ==
    /\ Ordered(order, strays \cup hollow)
    /\ Clean => /\ Newest \subseteq present \ hollow
                /\ \A o \in Applies : PlansOld(o)

KeepInv == JournalInv /\ NewestInv

LEMMA InitNewest == Init => NewestInv
<1> SUFFICES ASSUME Init PROVE NewestInv
  OBVIOUS
<1>1. born \in Nat /\ order = [i \in 1..born |-> i]
  BY DEF Init
<1>2. order \in Seq(1..born) /\ Len(order) = born
  BY <1>1, IsASeq
<1>3. present = 1..born /\ Ordered(order, strays \cup hollow)
  <2>1. DOMAIN order = 1..born /\ \A i \in 1..born : order[i] = i
    BY <1>1
  <2> QED
    BY <1>1, <1>2, <2>1 DEF Ordered, Elements, present
<1>4. \A o \in Applies : PlansOld(o)
  BY DEF Init, PlansOld
<1> QED
  BY <1>3, <1>4 DEF Init, NewestInv, Newest

LEMMA NewerTyped ==
  ASSUME born \in Nat, NEW r \in Int
  PROVE  IsFiniteSet(Newer(r)) /\ Cardinality(Newer(r)) \in Nat
<1>1. IsFiniteSet(1..born)
  BY FS_Interval
<1>2. Newer(r) \in SUBSET (1..born)
  BY DEF Newer
<1> QED
  BY <1>1, <1>2, FS_Subset, FS_CardinalityType

\* Of an apply's step that touches nothing outside it: what it has to show.
LEMMA OwnNewest ==
  ASSUME KeepInv, NEW o \in Applies, Stepped(o), UNCHANGED store,
         job'[o].hollow = {} => job[o].hollow = {},
         /\ Ordered(order, strays \cup job'[o].hollow) \/ job'[o].at # "listed"
         /\ job'[o].hollow = {}
         /\ job[o].at = "listed" => Old(Elements(job[o].entries) \ Recent(job[o].entries))
         /\ job[o].at \in {"confirmed", "prepared", "removing"} => Old(job[o].left)
         => /\ job'[o].at = "listed" => Old(Elements(job'[o].entries) \ Recent(job'[o].entries))
            /\ job'[o].at \in {"confirmed", "prepared", "removing"} => Old(job'[o].left),
         job'[o].at = "listed" /\ job[o].at # "listed" => job'[o].hollow = hollow,
         job[o].at = "listed" => job'[o].at # "listed"
  PROVE  NewestInv'
<1>1. UNCHANGED <<strays, born, order, hollow>> /\ present' = present
  BY DEF store, present, Elements
<1>2. Ordered(order, strays \cup hollow)'
  BY <1>1 DEF KeepInv, NewestInv, Ordered
<1> SUFFICES ASSUME Clean'
             PROVE  /\ Newest' \subseteq present' \ hollow'
                    /\ \A p \in Applies : PlansOld(p)'
  BY <1>2 DEF NewestInv
<1>3. Clean
  BY DEF Clean, Stepped
<1>4. /\ Newest \subseteq present \ hollow
      /\ \A p \in Applies : PlansOld(p)
  BY <1>3 DEF KeepInv, NewestInv
<1>5. Ordered(order, strays \cup job'[o].hollow) \/ job'[o].at # "listed"
  BY DEF KeepInv, NewestInv
<1>6. job'[o].hollow = {}
  BY DEF Clean
<1>7. \A p \in Applies :
         /\ job'[p].at = "listed" => Old(Elements(job'[p].entries) \ Recent(job'[p].entries))
         /\ job'[p].at \in {"confirmed", "prepared", "removing"} => Old(job'[p].left)
  <2> SUFFICES ASSUME NEW p \in Applies
               PROVE  /\ job'[p].at = "listed" => Old(Elements(job'[p].entries) \ Recent(job'[p].entries))
                      /\ job'[p].at \in {"confirmed", "prepared", "removing"} => Old(job'[p].left)
    OBVIOUS
  <2>1. CASE p = o
    BY <2>1, <1>4, <1>5, <1>6 DEF PlansOld
  <2>2. CASE p # o
    BY <2>2, <1>4 DEF PlansOld, Stepped
  <2> QED
    BY <2>1, <2>2
<1>8. \A S : Old(S) => Old(S)'
  BY <1>1 DEF Old, Newer
<1>9. Newest' \subseteq Newest
  BY <1>1 DEF Newest, Newer
<1> QED
  BY <1>1, <1>4, <1>7, <1>8, <1>9 DEF PlansOld, Old, Newer, Elements, Recent

\* Of a step that empties or removes a run: nothing becomes old or new by it,
\* and what it takes is old.
LEMMA TakeNewest ==
  ASSUME KeepInv, NEW o \in Applies, NEW r, Clean => Old({r}), Stepped(o) \/ job' = job,
         born' = born, strays' = strays,
         job'[o].hollow = job[o].hollow, job'[o].left \subseteq job[o].left,
         job[o].at = "removing", job'[o].at # "listed",
         present \ {r} \subseteq present', hollow' \subseteq hollow \cup {r},
         Ordered(order', strays \cup hollow')
  PROVE  NewestInv'
<1>1. Ordered(order, strays \cup hollow)'
  BY DEF Ordered
<1> SUFFICES ASSUME Clean'
             PROVE  /\ Newest' \subseteq present' \ hollow'
                    /\ \A p \in Applies : PlansOld(p)'
  BY <1>1 DEF NewestInv
<1>2. Clean
  BY DEF Clean, Stepped
<1>3. /\ Newest \subseteq present \ hollow
      /\ \A p \in Applies : PlansOld(p)
  BY <1>2 DEF KeepInv, NewestInv
<1>4. r \notin Newest
  <2> SUFFICES ASSUME r \in Newest PROVE FALSE
    OBVIOUS
  <2>1. Cardinality(Newer(r)) >= KeepRecent /\ Cardinality(Newer(r)) < KeepRecent
    BY <1>2 DEF Old, Newest
  <2>2. Cardinality(Newer(r)) \in Nat /\ KeepRecent \in Nat
    BY NewerTyped, RetentionAssumption DEF KeepInv, JournalInv, TypeOK, Newest
  <2> QED
    BY <2>1, <2>2
<1>5. Newest' = Newest /\ \A S : Old(S) => Old(S)'
  BY DEF Newest, Newer, Old
<1>6. \A p \in Applies :
         /\ job'[p].at = "listed" => Old(Elements(job'[p].entries) \ Recent(job'[p].entries))
         /\ job'[p].at \in {"confirmed", "prepared", "removing"} => Old(job'[p].left)
  <2> SUFFICES ASSUME NEW p \in Applies
               PROVE  /\ job'[p].at = "listed" => Old(Elements(job'[p].entries) \ Recent(job'[p].entries))
                      /\ job'[p].at \in {"confirmed", "prepared", "removing"} => Old(job'[p].left)
    OBVIOUS
  <2>1. CASE p = o
    BY <2>1, <1>3 DEF PlansOld, Old
  <2>2. CASE p # o
    BY <2>2, <1>3 DEF PlansOld, Stepped
  <2> QED
    BY <2>1, <2>2
<1> QED
  BY <1>3, <1>4, <1>5, <1>6 DEF PlansOld, Old, Newer, Elements, Recent

LEMMA TargetOld ==
  ASSUME KeepInv, NEW o \in Applies, job[o].at = "removing", NEW r, r = job[o].target
  PROVE  Clean => Old({r})
<1>1. r \in job[o].left
  BY TargetTyped DEF KeepInv
<1>2. Clean => Old(job[o].left)
  BY DEF KeepInv, NewestInv, PlansOld
<1> QED
  BY <1>1, <1>2 DEF Old

LEMMA TearNewest == ASSUME KeepInv, NEW o \in Applies, Tear(o) PROVE NewestInv'
<1>1. PICK r : r = job[o].target
  OBVIOUS
<1>2. /\ job[o].at = "removing" /\ hollow' = hollow \cup {r}
      /\ UNCHANGED <<strays, born, job>>
  BY <1>1 DEF Tear, At
<1> DEFINE young == strays \cup hollow'
<1>3. Ordered(order, young)
  BY <1>2 DEF KeepInv, NewestInv, Ordered
<1>4. Elements(order') = present /\ Ordered(order', young)
  <2>1. r \in young
    BY <1>2
  <2> HIDE DEF young
  <2> QED
    BY <2>1, <1>1, <1>3, TearSteps DEF KeepInv
<1>5. present' = present
  BY <1>4 DEF present
<1>6. Clean => Old({r})
  BY <1>1, <1>2, TargetOld
<1> QED
  BY <1>2, <1>4, <1>5, <1>6, TakeNewest

LEMMA FinishNewest == ASSUME KeepInv, NEW o \in Applies, Finish(o) PROVE NewestInv'
<1>1. PICK r : r = job[o].target
  OBVIOUS
<1>2. /\ Stepped(o) /\ job[o].at = "removing" /\ job'[o].at \in {"prepared", "removed"}
      /\ job'[o].hollow = job[o].hollow /\ job'[o].left \subseteq job[o].left
      /\ order' = IF r \in present THEN Without(order, r) ELSE order
      /\ hollow' = hollow \ {r} /\ born' = born /\ strays' = strays
  BY <1>1, FinishSteps DEF KeepInv
<1> DEFINE young == strays \cup hollow
<1>3. Ordered(order, young)
  BY DEF KeepInv, NewestInv
<1>4. born \in Nat /\ order \in Seq(1..born) /\ Distinct(order) /\ present = Elements(order)
  BY DEF KeepInv, JournalInv, TypeOK, present
<1>5. Elements(order') = present \ {r} /\ Ordered(order', young \ {r})
  <2> HIDE DEF young
  <2>1. CASE r \in present
    BY <2>1, <1>2, <1>3, <1>4, WithoutElements
  <2>2. CASE r \notin present
    <3>1. order' = order /\ \A i \in 1..Len(order) : order[i] # r
      BY <2>2, <1>2, <1>4, LenProperties DEF Elements
    <3> QED
      BY <3>1, <2>2, <1>3, <1>4 DEF Ordered
  <2> QED
    BY <2>1, <2>2
<1>6. present' = present \ {r} /\ Ordered(order', strays \cup hollow')
  BY <1>2, <1>5 DEF present, Ordered
<1>7. Clean => Old({r})
  BY <1>1, <1>2, TargetOld
<1> QED
  BY <1>2, <1>6, <1>7, TakeNewest

LEMMA OwnStepsNewest ==
  ASSUME KeepInv, NEW o \in Applies,
         Review(o) \/ List(o) \/ Plan(o) \/ Preserve(o) \/ Prepare(o)
           \/ (\E r \in Runs : Look(o, r)) \/ Fail(o)
           \/ Publish(o) \/ Reread(o) \/ WriteReceipt(o) \/ Die(o)
  PROVE  NewestInv'
<1>1. TypeOK /\ JournalAgrees(o) /\ JournalInv
  BY DEF KeepInv, JournalInv
<1>2. CASE Review(o)
  <2>1. /\ Stepped(o) /\ job'[o].at = "reviewed" /\ job'[o].hollow = job[o].hollow
    BY <1>1, <1>2, ReviewSteps
  <2> QED
    BY <1>2, <2>1, OwnNewest DEF Review
<1>3. CASE List(o)
  <2>1. /\ Stepped(o) /\ job'[o].at = "listed" /\ job'[o].entries = order /\ job'[o].hollow = hollow
        /\ UNCHANGED store /\ job[o].at = "reviewed"
    BY <1>1, <1>3, ListSteps DEF List, At
  <2>2. job[o].hollow = {}
    BY <1>1, <2>1 DEF JournalAgrees
  <2>3. hollow = {} => Old(Elements(order) \ Recent(order))
    <3> SUFFICES ASSUME hollow = {}, NEW r \in Elements(order) \ Recent(order)
                 PROVE  Cardinality(Newer(r)) >= KeepRecent
      BY DEF Old
    <3>1. /\ born \in Nat /\ order \in Seq(1..born) /\ Distinct(order) /\ KeepRecent \in Nat
      BY <1>1, RetentionAssumption DEF TypeOK
    <3>2. Ordered(order, strays)
      BY DEF KeepInv, NewestInv, Ordered
    <3>3. Cardinality({e \in 1..born : e > r \/ e \in strays}) >= KeepRecent
      BY <3>1, <3>2, NewestAreRecent
    <3> QED
      BY <3>3 DEF Newer
  <2> QED
    BY <2>1, <2>2, <2>3, OwnNewest
<1>4. CASE Plan(o)
  <2>1. /\ Stepped(o) /\ job'[o].hollow = job[o].hollow
        /\ \/ job'[o].at = "stopped" /\ job'[o].left = job[o].left
           \/ /\ job'[o].at = "confirmed"
              /\ job'[o].left \subseteq Elements(job[o].entries) \ Recent(job[o].entries)
    BY <1>1, <1>4, PlanSteps
  <2>2. job[o].at = "listed"
    BY <1>4 DEF Plan, At
  <2>3. Old(Elements(job[o].entries) \ Recent(job[o].entries)) /\ job'[o].at = "confirmed" => Old(job'[o].left)
    BY <2>1 DEF Old
  <2> QED
    BY <1>4, <2>1, <2>2, <2>3, OwnNewest DEF Plan
<1>5. CASE Preserve(o) \/ Publish(o) \/ Reread(o) \/ WriteReceipt(o) \/ Die(o)
  <2>1. /\ Stepped(o) /\ SameKnowledge(o)
        /\ job'[o].at \in {"done", "stopped", "published", "verified"}
    BY <1>1, <1>5, JobTyped, GotoSteps DEF Preserve, Publish, Reread, WriteReceipt, Die, Places
  <2>2. UNCHANGED store
    BY <1>5 DEF Preserve, Publish, Reread, WriteReceipt, Die
  <2> QED
    BY <2>1, <2>2, OwnNewest DEF SameKnowledge
<1>6. CASE Prepare(o)
  <2>1. job[o].at = "confirmed" /\ UNCHANGED store
    BY <1>6 DEF Prepare, At
  <2>2. Stepped(o) /\ SameKnowledge(o) /\ job'[o].at \in {"prepared", "stopped"}
    BY <1>1, <1>6, JobTyped, GotoSteps DEF Prepare, Places
  <2> QED
    BY <2>1, <2>2, OwnNewest DEF SameKnowledge
<1>7. CASE (\E r \in Runs : Look(o, r)) \/ Fail(o)
  <2>1. /\ Stepped(o) /\ job[o].at \in {"prepared", "removing"}
        /\ job'[o].at \in {"prepared", "removing", "removed"}
        /\ job'[o].hollow = job[o].hollow /\ job'[o].left \subseteq job[o].left
    BY <1>1, <1>7, LookSteps, FailSteps
  <2>2. UNCHANGED store
    BY <1>7 DEF Look, Fail
  <2>3. Old(job[o].left) => Old(job'[o].left)
    BY <2>1 DEF Old
  <2> QED
    BY <2>1, <2>2, <2>3, OwnNewest
<1> QED
  BY <1>2, <1>3, <1>4, <1>5, <1>6, <1>7

LEMMA AppearNewest == ASSUME KeepInv, Appear PROVE NewestInv'
<1>1. /\ born \in Nat /\ born + 1 \in Nat /\ born' = born + 1 /\ order' = Append(order, born + 1)
      /\ UNCHANGED <<strays, hollow, job>>
  BY RetentionAssumption DEF Appear, KeepInv, JournalInv, TypeOK
<1>2. order \in Seq(1..born) /\ Distinct(order) /\ present = Elements(order) /\ present \subseteq 1..born
  BY ElementsTyped DEF KeepInv, JournalInv, TypeOK, present
<1>3. born + 1 \in 1..(born + 1) /\ born + 1 \notin Elements(order) /\ born <= born + 1 /\ born + 1 > born
  BY <1>1, <1>2
<1>4. PICK young : young = strays \cup hollow
  OBVIOUS
<1>5. Ordered(order, young)
  BY <1>4 DEF KeepInv, NewestInv
<1>6. Ordered(order', young) /\ Elements(order') = present \cup {born + 1}
  BY <1>1, <1>2, <1>3, <1>5, AppendElements
<1>7. Ordered(order, strays \cup hollow)' /\ present' = present \cup {born + 1}
  BY <1>1, <1>4, <1>6 DEF Ordered, present
<1>8. \A r \in Int : /\ IsFiniteSet(Newer(r)') /\ Newer(r) \subseteq Newer(r)'
                     /\ Cardinality(Newer(r)) <= Cardinality(Newer(r)')
                     /\ Cardinality(Newer(r)) \in Nat /\ Cardinality(Newer(r)') \in Nat
  <2> SUFFICES ASSUME NEW r \in Int
               PROVE  /\ IsFiniteSet(Newer(r)') /\ Newer(r) \subseteq Newer(r)'
                      /\ Cardinality(Newer(r)) <= Cardinality(Newer(r)')
                      /\ Cardinality(Newer(r)) \in Nat /\ Cardinality(Newer(r)') \in Nat
    OBVIOUS
  <2> DEFINE after == {e \in 1..(born + 1) : e > r \/ e \in strays}
  <2>1. Newer(r)' = after /\ Newer(r) \subseteq after
    BY <1>1 DEF Newer
  <2>2. IsFiniteSet(after)
    <3>1. IsFiniteSet(1..(born + 1))
      BY <1>1, FS_Interval
    <3> QED
      BY <3>1, FS_Subset
  <2> HIDE DEF after
  <2>3. Cardinality(Newer(r)) <= Cardinality(after) /\ IsFiniteSet(Newer(r))
    BY <2>1, <2>2, FS_Subset
  <2> QED
    BY <2>1, <2>2, <2>3, FS_CardinalityType
<1>9. \A S \in SUBSET Int : Old(S) => Old(S)'
  <2> SUFFICES ASSUME NEW S \in SUBSET Int, Old(S), NEW r \in S
               PROVE  Cardinality(Newer(r)') >= KeepRecent
    BY DEF Old
  <2>1. /\ Cardinality(Newer(r)) >= KeepRecent /\ Cardinality(Newer(r)) <= Cardinality(Newer(r)')
        /\ Cardinality(Newer(r)) \in Nat /\ Cardinality(Newer(r)') \in Nat /\ KeepRecent \in Nat
    BY <1>8, RetentionAssumption DEF Old
  <2> QED
    BY <2>1
<1>10. Newest' \subseteq Newest \cup {born + 1}
  <2> SUFFICES ASSUME NEW r \in Newest', r # born + 1 PROVE r \in Newest
    OBVIOUS
  <2>1. r \in 1..born /\ r \notin strays /\ Cardinality(Newer(r)') < KeepRecent
    BY <1>1 DEF Newest
  <2>2. /\ Cardinality(Newer(r)) <= Cardinality(Newer(r)') /\ KeepRecent \in Nat
        /\ Cardinality(Newer(r)) \in Nat /\ Cardinality(Newer(r)') \in Nat
    BY <2>1, <1>8, RetentionAssumption
  <2> QED
    BY <2>1, <2>2 DEF Newest
<1> SUFFICES ASSUME Clean'
             PROVE  /\ Newest' \subseteq present' \ hollow'
                    /\ \A p \in Applies : PlansOld(p)'
  BY <1>7 DEF NewestInv
<1>11. Clean
  BY <1>1 DEF Clean
<1>12. /\ Newest \subseteq present \ hollow
       /\ \A p \in Applies : PlansOld(p)
  BY <1>11 DEF KeepInv, NewestInv
<1>13. hollow \subseteq present
  BY DEF KeepInv, JournalInv, TypeOK
<1>14. \A p \in Applies : /\ Elements(job[p].entries) \ Recent(job[p].entries) \in SUBSET Int
                          /\ job[p].left \in SUBSET Int
  <2>1. Runs \subseteq Int
    BY DEF Runs
  <2> QED
    BY <2>1, JobTyped, ElementsTyped DEF KeepInv, JournalInv, Job
<1>15. Newest' \subseteq present' \ hollow'
  BY <1>1, <1>2, <1>3, <1>7, <1>10, <1>12, <1>13
<1>16. \A p \in Applies :
         /\ job[p].at = "listed" => Old(Elements(job[p].entries) \ Recent(job[p].entries))'
         /\ job[p].at \in {"confirmed", "prepared", "removing"} => Old(job[p].left)'
  BY <1>1, <1>9, <1>12, <1>14 DEF PlansOld, Old, Newer
<1> QED
  BY <1>1, <1>15, <1>16 DEF PlansOld, Old, Newer, Elements, Recent

LEMMA TouchNewest == ASSUME KeepInv, NEW e \in Runs, Touch(e) PROVE NewestInv'
<1>1. e \in strays /\ UNCHANGED <<strays, born, hollow, job>>
  BY DEF Touch
<1>2. PICK young : young = strays \cup hollow
  OBVIOUS
<1>3. Ordered(order, young) /\ e \in young
  BY <1>1, <1>2 DEF KeepInv, NewestInv
<1>4. Elements(order') = present /\ Ordered(order', young)
  BY <1>3, TouchSteps DEF KeepInv
<1>5. present' = present /\ Ordered(order, strays \cup hollow)'
  BY <1>1, <1>2, <1>4 DEF present, Ordered
<1>6. Newest' = Newest /\ Clean' = Clean
  BY <1>1 DEF Newest, Newer, Clean
<1>7. \A o \in Applies : PlansOld(o) => PlansOld(o)'
  BY <1>1 DEF PlansOld, Old, Newer, Elements, Recent
<1> QED
  BY <1>1, <1>5, <1>6, <1>7 DEF KeepInv, NewestInv

LEMMA StillNewest ==
  ASSUME KeepInv, UNCHANGED <<strays, born, order, hollow, job>>
  PROVE  NewestInv'
<1>1. present' = present
  BY DEF present, Elements
<1>2. Newest' = Newest /\ Clean' = Clean /\ Ordered(order, strays \cup hollow)' = Ordered(order, strays \cup hollow)
  BY DEF Newest, Newer, Clean, Ordered
<1>3. \A o \in Applies : PlansOld(o) => PlansOld(o)'
  BY DEF PlansOld, Old, Newer, Elements, Recent
<1> QED
  BY <1>1, <1>2, <1>3 DEF KeepInv, NewestInv

\* The type invariant of Retention.
THEOREM TypeCorrect == Spec => []TypeOK
<1>1. JournalInv => TypeOK
  BY DEF JournalInv
<1> QED
  BY <1>1, JournalInvariant, PTL

\* No run is removed, or emptied in part, that no durable PREPARED record
\* names: evidence-retention.mjs prepares the journal before its removals.
THEOREM RemovalsRecorded == Spec => []RemovalsAreRecorded
<1>1. JournalInv => RemovalsAreRecorded
  BY DEF JournalInv
<1> QED
  BY <1>1, JournalInvariant, PTL

\* A terminal record names everything its apply removed, and nothing that is
\* there or that no apply removed; a receipt repeats it.
THEOREM ReceiptsTrue == Spec => []ReceiptsAreTrue
<1>1. JournalInv => ReceiptsAreTrue
  <2> SUFFICES ASSUME JournalInv, NEW o \in Applies
               PROVE  /\ Recorded(terminal[o]) =>
                            /\ removed[o] \subseteq terminal[o] /\ terminal[o] \cap present = {}
                            /\ \A r \in terminal[o] : \E p \in Applies : r \in removed[p]
                      /\ Recorded(receipts[o]) =>
                            IF Recorded(prepared[o]) THEN receipts[o] = terminal[o] ELSE receipts[o] = {}
    BY DEF ReceiptsAreTrue
  <2>1. JournalAgrees(o) /\ job[o].deleted \subseteq 1..born /\ job[o].deleted \cap present = {}
    BY DEF JournalInv, JournalAgrees, GoneIsRemoved
  <2>2. \A r \in job[o].deleted : \E p \in Applies : r \in removed[p]
    BY <2>1 DEF JournalInv, GoneIsRemoved
  <2>3. Recorded(terminal[o]) => terminal[o] = job[o].deleted
    BY <2>1 DEF JournalAgrees, Recorded
  <2> QED
    BY <2>1, <2>2, <2>3 DEF JournalAgrees
<1> QED
  BY <1>1, JournalInvariant, PTL

\* Only what the operator confirmed is removed: the plan computed under the
\* confirmation's token has the candidates of the dry run.
THEOREM ReviewedOnly == Spec => []OnlyReviewedIsRemoved
<1>1. JournalInv => OnlyReviewedIsRemoved
  BY DEF JournalInv, JournalAgrees, OnlyReviewedIsRemoved
<1> QED
  BY <1>1, JournalInvariant, PTL

\* Unless an apply listed the entries while a run lay emptied in part, the
\* newest runs are whole: planRetention's count covers every run before which
\* fewer entries can rank, whatever appeared, was written, removed or
\* referenced between the looks of a plan and its removals.
THEOREM NewestKept == Spec => []NewestAreKept
<1>1. KeepInv => NewestAreKept
  BY DEF KeepInv, NewestInv, NewestAreKept, Clean, Newest
<1>2. JournalInv /\ NewestInv /\ [Next]_vars => NewestInv'
  <2> SUFFICES ASSUME KeepInv, [Next]_vars PROVE NewestInv'
    BY DEF KeepInv
  <2>1. ASSUME NEW o \in Applies, Apply(o) PROVE NewestInv'
    BY <2>1, OwnStepsNewest, TearNewest, FinishNewest DEF Apply
  <2>2. ASSUME NEW r \in Runs, Refer(r) PROVE NewestInv'
    BY <2>2, StillNewest DEF Refer
  <2>3. ASSUME UNCHANGED vars PROVE NewestInv'
    BY <2>3, StillNewest DEF vars
  <2> QED
    BY <2>1, <2>2, <2>3, AppearNewest, TouchNewest DEF Next
<1> QED
  BY <1>1, <1>2, InitNewest, JournalInvariant, PTL DEF Spec, KeepInv
==============================================================================
