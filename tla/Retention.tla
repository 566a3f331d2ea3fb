------------------------------ MODULE Retention ------------------------------
(***************************************************************************)
(* Evidence retention: the removal of old, unreferenced run directories.   *)
(* An operator reviews a dry run and confirms its plan by a token; apply   *)
(* computes the plan again, records it in a journal before the first       *)
(* removal, removes, and publishes a terminal record and a receipt.  Runs  *)
(* and references appear meanwhile, applies overlap, any step may fail,    *)
(* and a process may die.                                                  *)
(*                                                                         *)
(* The artifact root holds runs and strays: files, links and entries with  *)
(* an unsafe name, which are never candidates but are ranked with the runs *)
(* when the most recent are told.  A run is not modified after it has been *)
(* recorded, a stray may be at any time.  A run's size is told apart only  *)
(* as whole or hollow: a removal that is under way, or failed, has emptied *)
(* the directory in part, and perhaps just modified it.  An entry whose    *)
(* size cannot be read is refused as a referenced one is.  The entries and *)
(* the references are each read in one step.                               *)
(***************************************************************************)
EXTENDS Integers, FiniteSets, Sequences

CONSTANTS Applies,     \* invocations with --apply
          MaxRuns,     \* bound: how many entries there ever are
          MaxStrays,   \* bound: how many of them are strays
          Referable,   \* bound: the entries whose references come and go
          KeepRecent,
          NoRecord     \* what is not a set: no record was published

ASSUME RetentionAssumption ==
    /\ MaxRuns \in Nat /\ MaxStrays \in Nat /\ KeepRecent \in Nat
    /\ \A S \in SUBSET (1..MaxRuns) : NoRecord # S

VARIABLES strays,      \* the entries that are no run; never changes
          born,        \* how many entries have appeared
          order,       \* the entries there are, the last modified last
          hollow,      \* those of them a removal has emptied in part
          referenced,  \* the runs named in the tracked project state
          job,         \* where each apply is, and what it knows
          prepared,    \* the candidates of each PREPARED record, or NoRecord
          terminal,    \* the deleted set of each terminal record, or NoRecord
          receipts,    \* the deleted set of each operator receipt, or NoRecord
          removed      \* history: what each apply removed

vars == <<strays, born, order, hollow, referenced, job, prepared, terminal, receipts, removed>>
store == <<strays, born, order, hollow, referenced>>

Runs == 1..MaxRuns
Recorded(r) == r # NoRecord
Elements(s) == {s[i] : i \in DOMAIN s}
\* The entries but r, which is one of them.
Without(s, r) == LET gone == CHOOSE i \in DOMAIN s : s[i] = r
                 IN  [j \in 1..(Len(s) - 1) |-> s[IF j < gone THEN j ELSE j + 1]]
present == Elements(order)

\* What a confirmation token tells apart: the candidates, those of them with
\* another size, and how many entries were refused.
Token == [candidates : SUBSET Runs, hollow : SUBSET Runs, refused : 0..MaxRuns]
NoToken == [candidates |-> {}, hollow |-> {}, refused |-> -1]

\* An apply that is blocked, or whose process died, has stopped.
Places == {"idle", "reviewed", "listed", "confirmed", "prepared", "removing", "removed",
           "published", "verified", "done", "stopped"}

Job == [at : Places, confirmed : Token \cup {NoToken},
        entries : Seq(Runs), hollow : SUBSET Runs,
        left : SUBSET Runs, target : 0..MaxRuns, deleted : SUBSET Runs]

Distinct(s) == \A i, j \in 1..Len(s) : s[i] = s[j] => i = j

TypeOK ==
    /\ strays \subseteq Runs
    /\ born \in 0..MaxRuns
    /\ order \in Seq(1..born) /\ Distinct(order)
    /\ hollow \subseteq present
    /\ referenced \subseteq Runs
    /\ job \in [Applies -> Job]
    /\ prepared \in [Applies -> (SUBSET Runs) \cup {NoRecord}]
    /\ terminal \in [Applies -> (SUBSET Runs) \cup {NoRecord}]
    /\ receipts \in [Applies -> (SUBSET Runs) \cup {NoRecord}]
    /\ removed \in [Applies -> SUBSET Runs]

Init ==
    /\ strays \in {S \in SUBSET Runs : Cardinality(S) <= MaxStrays}
    /\ born \in 0..MaxRuns
    /\ order = [i \in 1..born |-> i]
    /\ hollow = {}
    /\ referenced = {}
    /\ job = [o \in Applies |-> [at |-> "idle", confirmed |-> NoToken, entries |-> <<>>,
                                 hollow |-> {}, left |-> {}, target |-> 0, deleted |-> {}]]
    /\ prepared = [o \in Applies |-> NoRecord]
    /\ terminal = [o \in Applies |-> NoRecord]
    /\ receipts = [o \in Applies |-> NoRecord]
    /\ removed = [o \in Applies |-> {}]

------------------------------------------------------------------------------
(* planRetention *)

\* Mutant: one fewer.
RecentShort(entries) == {entries[i] : i \in {i \in DOMAIN entries : i > Len(entries) - KeepRecent + 1}}

\* The KeepRecent entries modified last, whatever they are.
Recent(entries) == {entries[i] : i \in {i \in DOMAIN entries : i > Len(entries) - KeepRecent}}

\* Everything that cannot be proved removable is refused: a partial scan of
\* the references refuses every entry.
Candidates(entries, named, scanned) ==
    IF scanned THEN (Elements(entries) \ (named \cup strays)) \ Recent(entries) ELSE {}

TokenOf(entries, halved, candidates) ==
    [candidates |-> candidates, hollow |-> halved \cap candidates,
     refused |-> Cardinality(Elements(entries) \ candidates)]

------------------------------------------------------------------------------
(* One apply. *)

Goto(o, place) == job' = [job EXCEPT ![o].at = place]
At(o, place) == job[o].at = place

\* The dry run whose token the operator passes to --confirm.
Review(o) ==
    /\ At(o, "idle")
    /\ job' = [job EXCEPT ![o].at = "reviewed",
                          ![o].confirmed = TokenOf(order, hollow, Candidates(order, referenced, TRUE))]
    /\ UNCHANGED <<store, prepared, terminal, receipts, removed>>

\* enumerateEntries
List(o) ==
    /\ At(o, "reviewed")
    /\ job' = [job EXCEPT ![o] = [@ EXCEPT !.at = "listed", !.entries = order, !.hollow = hollow]]
    /\ UNCHANGED <<store, prepared, terminal, receipts, removed>>

\* collectReferenceTokens, planRetention and the comparison of the tokens.
Plan(o) ==
    /\ At(o, "listed")
    /\ \E scanned \in BOOLEAN :
          LET candidates == Candidates(job[o].entries, referenced, scanned)
          IN  IF TokenOf(job[o].entries, job[o].hollow, candidates) = job[o].confirmed
              THEN job' = [job EXCEPT ![o].at = "confirmed", ![o].left = candidates,
                                       ![o].entries = <<>>]
              ELSE Goto(o, "stopped")
    /\ UNCHANGED <<store, prepared, terminal, receipts, removed>>

\* No candidate: an honest PRESERVED receipt and no journal operation.
Preserve(o) ==
    /\ At(o, "confirmed") /\ job[o].left = {}
    /\ \/ receipts' = [receipts EXCEPT ![o] = {}] /\ Goto(o, "done")
       \/ Goto(o, "stopped") /\ UNCHANGED receipts
    /\ UNCHANGED <<store, prepared, terminal, removed>>

\* Mutant: the journal is opened when there is something to record.
PrepareLate(o) ==
    /\ At(o, "confirmed") /\ job[o].left # {}
    /\ Goto(o, "prepared")
    /\ UNCHANGED <<store, prepared, terminal, receipts, removed>>

\* prepareRetentionOperation: without the record nothing is removed.
Prepare(o) ==
    /\ At(o, "confirmed") /\ job[o].left # {}
    /\ \/ prepared' = [prepared EXCEPT ![o] = job[o].left] /\ Goto(o, "prepared")
       \/ Goto(o, "stopped") /\ UNCHANGED prepared
    /\ UNCHANGED <<store, terminal, receipts, removed>>

\* The candidate r is dealt with; the last one ends the removals.
Dealt(o, r, deleted) ==
    job' = [job EXCEPT ![o] = [@ EXCEPT !.at = IF job[o].left = {r} THEN "removed" ELSE "prepared",
                                        !.left = job[o].left \ {r}, !.target = 0,
                                        !.deleted = deleted]]

\* removeCandidate looks at the directory; one that is gone is PRESERVED.
Look(o, r) ==
    /\ At(o, "prepared") /\ r \in job[o].left
    /\ IF r \in present
       THEN job' = [job EXCEPT ![o] = [@ EXCEPT !.at = "removing", !.target = r]]
       ELSE Dealt(o, r, job[o].deleted)
    /\ UNCHANGED <<store, prepared, terminal, receipts, removed>>

\* The recursive removal takes away a part.
Tear(o) ==
    /\ At(o, "removing") /\ job[o].target \in present
    /\ order' \in {order, Append(Without(order, job[o].target), job[o].target)}
    /\ hollow' = hollow \cup {job[o].target}
    /\ UNCHANGED <<strays, born, referenced, job, prepared, terminal, receipts, removed>>

\* The removal succeeds, also where another has taken the directory since the
\* look: REMOVED.
Finish(o) ==
    LET r == job[o].target
    IN  /\ At(o, "removing")
        /\ order' = IF r \in present THEN Without(order, r) ELSE order
        /\ hollow' = hollow \ {r}
        /\ removed' = [removed EXCEPT ![o] = @ \cup ({r} \cap present)]
        /\ Dealt(o, r, job[o].deleted \cup {r})
        /\ UNCHANGED <<strays, born, referenced, prepared, terminal, receipts>>

\* Mutant: the result says REMOVED whatever the removal did.
FailUnseen(o) ==
    /\ At(o, "removing")
    /\ Dealt(o, job[o].target, job[o].deleted \cup {job[o].target})
    /\ UNCHANGED <<store, prepared, terminal, receipts, removed>>

\* The removal throws, before or after some of it is gone: PRESERVED.
Fail(o) ==
    /\ At(o, "removing")
    /\ Dealt(o, job[o].target, job[o].deleted)
    /\ UNCHANGED <<store, prepared, terminal, receipts, removed>>

\* finalizeRetentionOperation publishes without replacing.
Publish(o) ==
    /\ At(o, "removed")
    /\ \/ terminal' = [terminal EXCEPT ![o] = job[o].deleted] /\ Goto(o, "published")
       \/ Goto(o, "stopped") /\ UNCHANGED terminal
    /\ UNCHANGED <<store, prepared, receipts, removed>>

\* It reads the record again, and so does the caller.
Reread(o) ==
    /\ At(o, "published")
    /\ Goto(o, "verified") \/ Goto(o, "stopped")
    /\ UNCHANGED <<store, prepared, terminal, receipts, removed>>

WriteReceipt(o) ==
    /\ At(o, "verified")
    /\ \/ receipts' = [receipts EXCEPT ![o] = terminal[o]] /\ Goto(o, "done")
       \/ Goto(o, "stopped") /\ UNCHANGED receipts
    /\ UNCHANGED <<store, prepared, terminal, removed>>

Die(o) ==
    /\ job[o].at \in Places \ {"idle", "reviewed", "done", "stopped"}
    /\ Goto(o, "stopped")
    /\ UNCHANGED <<store, prepared, terminal, receipts, removed>>

Apply(o) == \/ Review(o) \/ List(o) \/ Plan(o) \/ Preserve(o) \/ Prepare(o)
            \/ (\E r \in Runs : Look(o, r)) \/ Tear(o) \/ Finish(o) \/ Fail(o)
            \/ Publish(o) \/ Reread(o) \/ WriteReceipt(o) \/ Die(o)

------------------------------------------------------------------------------
(* The rest of the program, and the owner. *)

Appear ==
    /\ born < MaxRuns
    /\ born' = born + 1 /\ order' = Append(order, born + 1)
    /\ UNCHANGED <<strays, hollow, referenced, job, prepared, terminal, receipts, removed>>

\* A stray is written anew.
Touch(e) ==
    /\ e \in strays \cap present
    /\ order' = Append(Without(order, e), e)
    /\ UNCHANGED <<strays, born, hollow, referenced, job, prepared, terminal, receipts, removed>>

Refer(r) ==
    /\ r \in (Referable \cap (1..born)) \ strays
    /\ referenced' \in {referenced \cup {r}, referenced \ {r}}
    /\ UNCHANGED <<strays, born, order, hollow, job, prepared, terminal, receipts, removed>>

Next == (\E o \in Applies : Apply(o)) \/ Appear \/ \E r \in Runs : Touch(r) \/ Refer(r)

Spec == Init /\ [][Next]_vars

------------------------------------------------------------------------------
\* What can rank before the run r: the runs recorded later, and the strays.
Newer(r) == {e \in 1..born : e > r \/ e \in strays}

\* A run that fewer than KeepRecent entries can rank before is there and whole,
\* however many applies overlap, fail or die, unless some apply listed the
\* entries while a run lay emptied in part.  (Being emptied can make a run the
\* last modified: the listing then counts it among those to keep, in the place
\* of another.)
NewestAreKept ==
    (\A o \in Applies : job[o].hollow = {})
    => \A r \in (1..born) \ strays :
          Cardinality(Newer(r)) < KeepRecent => r \in present \ hollow

\* Every run that is gone, or was emptied in part, is a candidate of a
\* durable PREPARED record: no deletion is unrecorded, at no point.
RemovalsAreRecorded ==
    \A r \in 1..born \ (present \ hollow) :
        \E o \in Applies : Recorded(prepared[o]) /\ r \in prepared[o]

\* A terminal record leaves out nothing its apply removed, and what it calls
\* deleted is gone and was removed by some apply (by which one, where two took
\* the same directory, it cannot say); a receipt repeats the terminal record,
\* or says that nothing was deleted where nothing was to be.
ReceiptsAreTrue ==
    \A o \in Applies :
        /\ Recorded(terminal[o]) =>
              /\ removed[o] \subseteq terminal[o] /\ terminal[o] \cap present = {}
              /\ \A r \in terminal[o] : \E p \in Applies : r \in removed[p]
        /\ Recorded(receipts[o]) =>
              IF Recorded(prepared[o]) THEN receipts[o] = terminal[o] ELSE receipts[o] = {}

\* An apply removes only what the operator saw in the dry run; what has come
\* to be removable, or has been referenced, between dry run and apply changes
\* the token and blocks it.
OnlyReviewedIsRemoved ==
    \A o \in Applies : removed[o] \subseteq job[o].confirmed.candidates
==============================================================================
