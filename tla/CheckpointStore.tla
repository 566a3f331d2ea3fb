--------------------------- MODULE CheckpointStore ---------------------------
(***************************************************************************)
(* The publication path of campaign checkpoints: several operating-system  *)
(* processes, each running a campaign with the SAME id, share one          *)
(* checkpoint file.  A publication reads the stored generation, stages a   *)
(* temporary, re-reads the generation and renames; each of these is a step *)
(* of its own, because another process may run between any two of them and *)
(* the process may die after any of them.                                  *)
(*                                                                         *)
(* A document is its generation and an identity.  The file system's rename *)
(* is atomic; fsync, permissions and symbolic-link checks are left out.    *)
(***************************************************************************)
EXTENDS Integers

CONSTANTS Procs,     \* processes that run the campaign id
          MaxDocs,   \* bound: documents staged in a behaviour
          Absent,    \* no file
          Partial,   \* a temporary not yet completely written
          Damaged    \* a file that cannot be read back as a checkpoint

ASSUME MaxDocsAssumption == MaxDocs \in Nat

\* Generation 0 is a document that predates the generation field.
Doc == [gen : Nat, id : Nat]

ASSUME SlotValuesAssumption ==
    /\ Absent \notin Doc /\ Partial \notin Doc /\ Damaged \notin Doc
    /\ Absent # Partial /\ Absent # Damaged /\ Partial # Damaged

LegacyDoc == [gen |-> 0, id |-> 0]

VARIABLES slot,        \* <campaign>.checkpoint.json
          superseded,  \* <campaign>.checkpoint.json.superseded
          temp,        \* temp[p]: the temporary p is publishing from
          orphans,     \* temporaries left behind by processes that died
          pc,          \* pc[p]: where p is in its session or publication
          observed,    \* observed[p]: the generation p's publication replaces
          nextId,      \* identity of the next staged document
          read,        \* history: read[p], the slot when p read the generation
          raced,       \* history: raced[p], another process moved the slot
                       \*   after p's second look at the generation
          refused      \* history: documents whose publication was refused

vars == <<slot, superseded, temp, orphans, pc, observed, nextId,
          read, raced, refused>>

history == <<read, raced, refused>>

\* off: no session.  idle: between publications.  The others are the steps
\* of publishCheckpointDocument, named for what was done last.
Places == {"off", "idle", "opened", "staged", "compared", "renamed"}

\* Mutant: a damaged predecessor reads as a free slot.
ReadableAlways(s) == TRUE

\* NaN, or a thrown refusal, for a file that cannot be read back.
Readable(s) == s # Damaged

\* storedCheckpointGeneration: 0 when there is no document.
StoredGeneration(s) == IF s \in {Absent, Damaged} THEN 0 ELSE s.gen

Init == /\ slot \in {Absent, LegacyDoc, Damaged}
        /\ superseded = Absent
        /\ temp = [p \in Procs |-> Absent]
        /\ orphans = {}
        /\ pc = [p \in Procs |-> "off"]
        /\ observed = [p \in Procs |-> 0]
        /\ nextId = 1
        /\ read = [p \in Procs |-> Absent]
        /\ raced = [p \in Procs |-> FALSE]
        /\ refused = {}

Goto(p, place) == pc' = [pc EXCEPT ![p] = place]

\* A step of p that moves the slot races every other publication that has
\* already looked at the generation for the second time.
SlotMovedBy(p) ==
    raced' = [q \in Procs |-> IF q # p /\ pc[q] = "compared" THEN TRUE ELSE raced[q]]

------------------------------------------------------------------------------
(* Sessions *)

\* A fresh run supersedes whatever is stored, readable or not.
StartFresh(p) ==
    /\ pc[p] = "off"
    /\ IF slot = Absent
       THEN UNCHANGED <<slot, superseded, raced>>
       ELSE /\ superseded' = slot
            /\ slot' = Absent
            /\ SlotMovedBy(p)
    /\ Goto(p, "idle")
    /\ UNCHANGED <<temp, orphans, observed, nextId, read, refused>>

\* The predecessor could not be moved aside: the failure is swallowed.
StartFreshUnmoved(p) ==
    /\ pc[p] = "off"
    /\ slot # Absent
    /\ Goto(p, "idle")
    /\ UNCHANGED <<slot, superseded, temp, orphans, observed, nextId, history>>

\* A resume loads the stored document; an absent or damaged one refuses.
StartResume(p) ==
    /\ pc[p] = "off"
    /\ slot \notin {Absent, Damaged}
    /\ Goto(p, "idle")
    /\ UNCHANGED <<slot, superseded, temp, orphans, observed, nextId, history>>

\* The campaign ends and keeps its checkpoint for a resume.
EndKeep(p) ==
    /\ pc[p] = "idle"
    /\ Goto(p, "off")
    /\ UNCHANGED <<slot, superseded, temp, orphans, observed, nextId, history>>

\* The campaign ends with no resume value and removes the file, whoever wrote it.
EndDelete(p) ==
    /\ pc[p] = "idle"
    /\ slot' = Absent
    /\ SlotMovedBy(p)
    /\ Goto(p, "off")
    /\ UNCHANGED <<superseded, temp, orphans, observed, nextId, read, refused>>

\* The process dies: memory is lost, a temporary stays in the directory.
Crash(p) ==
    /\ pc[p] # "off"
    /\ orphans' = IF temp[p] = Absent THEN orphans ELSE orphans \cup {temp[p]}
    /\ temp' = [temp EXCEPT ![p] = Absent]
    /\ Goto(p, "off")
    /\ UNCHANGED <<slot, superseded, observed, nextId, history>>

------------------------------------------------------------------------------
(* Publication *)

\* First look at the generation, then the temporary is created exclusively.
Open(p) ==
    /\ pc[p] = "idle"
    /\ nextId <= MaxDocs
    /\ Readable(slot)
    /\ observed' = [observed EXCEPT ![p] = StoredGeneration(slot)]
    /\ read' = [read EXCEPT ![p] = slot]
    /\ temp' = [temp EXCEPT ![p] = Partial]
    /\ Goto(p, "opened")
    /\ UNCHANGED <<slot, superseded, orphans, nextId, raced, refused>>

\* The temporary is completely written, fsynced and verified.
Stage(p) ==
    /\ pc[p] = "opened"
    /\ nextId <= MaxDocs
    /\ temp' = [temp EXCEPT ![p] = [gen |-> observed[p] + 1, id |-> nextId]]
    /\ nextId' = nextId + 1
    /\ Goto(p, "staged")
    /\ UNCHANGED <<slot, superseded, orphans, observed, history>>

\* The finally block unlinks the temporary of an unpublished document.
DropTemp(p) == temp' = [temp EXCEPT ![p] = Absent]

\* Writing the temporary failed: the finally block unlinks it.
StageFails(p) ==
    /\ pc[p] = "opened"
    /\ DropTemp(p)
    /\ Goto(p, "idle")
    /\ UNCHANGED <<slot, superseded, orphans, observed, nextId, history>>

\* Mutant: the conflict test trusts the first look.
SameGenerationUnchecked(p) == Readable(slot)

SameGeneration(p) == Readable(slot) /\ StoredGeneration(slot) = observed[p]

\* Second look: the stored generation is still the one observed.
Compare(p) ==
    /\ pc[p] = "staged"
    /\ SameGeneration(p)
    /\ raced' = [raced EXCEPT ![p] = FALSE]
    /\ Goto(p, "compared")
    /\ UNCHANGED <<slot, superseded, temp, orphans, observed, nextId, read, refused>>

\* Mutant: the conflict is reported and the rename happens all the same.
ConflictIgnored(p) ==
    /\ pc[p] = "staged"
    /\ ~SameGeneration(p)
    /\ refused' = refused \cup {temp[p]}
    /\ Goto(p, "compared")
    /\ UNCHANGED <<slot, superseded, temp, orphans, observed, nextId, read, raced>>

\* CHECKPOINT_GENERATION_CONFLICT: refuse and unlink the temporary.
Conflict(p) ==
    /\ pc[p] = "staged"
    /\ ~SameGeneration(p)
    /\ refused' = refused \cup {temp[p]}
    /\ DropTemp(p)
    /\ Goto(p, "idle")
    /\ UNCHANGED <<slot, superseded, orphans, observed, nextId, read, raced>>

\* The atomic rename onto the checkpoint file.
Rename(p) ==
    /\ pc[p] = "compared"
    /\ slot' = temp[p]
    /\ temp' = [temp EXCEPT ![p] = Absent]
    /\ SlotMovedBy(p)
    /\ Goto(p, "renamed")
    /\ UNCHANGED <<superseded, orphans, observed, nextId, read, refused>>

\* Directory fsync and the closing lstat; its failure is thrown, the
\* document stays published, and nothing is undone.
Return(p) ==
    /\ pc[p] = "renamed"
    /\ Goto(p, "idle")
    /\ UNCHANGED <<slot, superseded, temp, orphans, observed, nextId, history>>

Publish(p) == \/ Open(p) \/ Stage(p) \/ StageFails(p) \/ Compare(p)
              \/ Conflict(p) \/ Rename(p) \/ Return(p)

Session(p) == \/ StartFresh(p) \/ StartFreshUnmoved(p) \/ StartResume(p)
              \/ EndKeep(p) \/ EndDelete(p)

Next == \E p \in Procs : Session(p) \/ Publish(p) \/ Crash(p)

Spec == Init /\ [][Next]_vars

------------------------------------------------------------------------------
(* Properties *)

\* Every variable holds values of its kind.
TypeOK == /\ slot \in Doc \cup {Absent, Damaged}
          /\ superseded \in Doc \cup {Absent, Damaged}
          /\ temp \in [Procs -> Doc \cup {Absent, Partial}]
          /\ orphans \subseteq Doc \cup {Partial}
          /\ pc \in [Procs -> Places]
          /\ observed \in [Procs -> Nat]
          /\ nextId \in Nat
          /\ read \in [Procs -> Doc \cup {Absent}]
          /\ raced \in [Procs -> BOOLEAN]
          /\ refused \subseteq Doc

\* Atomic visibility: whatever the interleaving and whoever dies, the slot
\* moves from complete document to complete document, and a damaged
\* predecessor is never replaced in place (publishCheckpointDocument).
Slot == INSTANCE CheckpointSlot
AtomicSlot == Slot!SlotSpec

\* A publication refused with CHECKPOINT_GENERATION_CONFLICT never becomes
\* visible, then or later ("nothing was overwritten").
RefusedNeverVisible == {slot, superseded} \cap refused = {}

AdvancesObserved(p) == /\ SameGeneration(p)
                       /\ slot'.gen = StoredGeneration(slot) + 1

\* The compare-generation protocol is exact up to the final rename race: a
\* rename that nobody overtook after the second look replaces a document of
\* the generation the publication observed, by the next generation.
UnracedRenameAdvances ==
    [][\A p \in Procs : Rename(p) /\ ~raced[p] => AdvancesObserved(p)]_vars

------------------------------------------------------------------------------
(* The inductive invariant behind the safety properties *)

\* A process that is not publishing owns no temporary: only a death leaves one
\* for listCheckpointTemporaries to report.
IdleOwnsNoTemporary ==
    \A p \in Procs : pc[p] \in {"off", "idle", "renamed"} => temp[p] = Absent

\* A document is staged under the generation after the one observed.
StagedUnderNext ==
    \A p \in Procs : pc[p] \in {"staged", "compared"} =>
        temp[p] \in Doc /\ temp[p].gen = observed[p] + 1

\* Until another process moves the slot, the second look stays true.
SecondLookHolds ==
    \A p \in Procs : pc[p] = "compared" /\ ~raced[p] => SameGeneration(p)

\* Once a publication has seen a readable slot it can never be damaged again.
NoDamageWhilePublishing ==
    \A p \in Procs : pc[p] \in {"opened", "staged", "compared", "renamed"} => Readable(slot)

\* A document in flight is new: unseen, unrefused and held by one process.
Known == {slot, superseded} \cup refused
InFlightIsNew ==
    /\ \A d \in Known : d \in Doc => d.id < nextId
    /\ \A p \in Procs : temp[p] \in Doc =>
          /\ pc[p] \in {"staged", "compared"}
          /\ temp[p].id < nextId
          /\ temp[p] \notin Known
          /\ \A q \in Procs : q # p => temp[q] # temp[p]

StoreInv == /\ TypeOK /\ StagedUnderNext /\ SecondLookHolds
            /\ NoDamageWhilePublishing /\ InFlightIsNew
            /\ RefusedNeverVisible /\ IdleOwnsNoTemporary
==============================================================================
