------------------------------ MODULE AuthBundle ------------------------------
(***************************************************************************)
(* The authenticated capability: a storage-state artefact and the          *)
(* lifecycle record beside it, published together behind a journal.  A     *)
(* capture stages both files, writes the journal, renames the artefact,    *)
(* renames the record and removes the journal; it may fail or die between  *)
(* any two of these.  Next to the captures run a reader (the gate every    *)
(* authenticated lane passes, or the report, which skips the journal), an  *)
(* operator adopting an existing artefact, and recovery.                   *)
(*                                                                         *)
(* A file's bytes are named by the capture that wrote them, so equal names *)
(* are equal digests.  No lock keeps two of these programs apart.          *)
(***************************************************************************)
CONSTANTS Captures,  \* capture runs, each with bytes of its own
          Prior,     \* the bytes of an artefact older than all of them
          None

ASSUME NamesAssumption == Prior \notin Captures /\ None \notin Captures \cup {Prior}

Digests == Captures \cup {Prior}

\* A record holds the digest of one artefact and the earliest cookie expiry
\* of one; an adopted record has the operator's capture instant, so its bytes
\* differ from the capture's own.
Record == [of : Digests, expiry : Digests, adopted : BOOLEAN]

\* The record a capture builds from its staged artefact.
RecordOf(c) == [of |-> c, expiry |-> c, adopted |-> FALSE]

VARIABLES artefact,        \* the storage state at its final path
          record,          \* the lifecycle record beside it
          journal,         \* the capture whose pair the journal names
          stagedArtefact,  \* captures whose pending artefact exists
          stagedRecord,    \* captures whose staged record exists
          pc,              \* pc[c]: the last thing capture c did
          reader,          \* what the reader has looked at so far
          adopter,         \* the artefacts an adoption has read
          recovery,        \* where recovery is, and in whose journal
          overlapped       \* history: two writers ran at once

vars == <<artefact, record, journal, stagedArtefact, stagedRecord, pc,
          reader, adopter, recovery, overlapped>>
files == <<artefact, record, journal, stagedArtefact, stagedRecord>>

Working == {"captured", "recorded", "journaled", "placed", "paired"}
Ended == {"done", "failed", "dead"}
Recovering == {"looked", "placed", "paired", "finished"}

NoAdoption == [expiry |-> None, of |-> None]

Idle == [at |-> "idle", rec |-> None, seen |-> None]

TypeOK ==
    /\ artefact \in Digests \cup {None}
    /\ record \in Record \cup {None}
    /\ journal \in Captures \cup {None}
    /\ stagedArtefact \subseteq Captures /\ stagedRecord \subseteq Captures
    /\ pc \in [Captures -> {"ready"} \cup Working \cup Ended]
    /\ reader \in [at : {"idle", "looked", "recorded", "inspected", "valid"},
                   rec : Record \cup {None}, seen : Digests \cup {None}]
    /\ reader.at \in {"recorded", "inspected", "valid"} => reader.rec \in Record
    /\ adopter \in [expiry : Digests \cup {None}, of : Digests \cup {None}]
    /\ recovery \in [at : {"idle", "completed", "refused"} \cup Recovering,
                     of : Captures \cup {None}]
    /\ overlapped \in BOOLEAN

\* No artefact, one from before lifecycle records, or one with its record.
Init ==
    /\ \/ artefact = None /\ record = None
       \/ artefact = Prior /\ record \in {None, RecordOf(Prior)}
    /\ journal = None
    /\ stagedArtefact = {} /\ stagedRecord = {}
    /\ pc = [c \in Captures |-> "ready"]
    /\ reader = Idle
    /\ adopter = NoAdoption
    /\ recovery = [at |-> "idle", of |-> None]
    /\ overlapped = FALSE

Writing == \/ \E c \in Captures : pc[c] \in Working
           \/ adopter # NoAdoption
           \/ recovery.at \in Recovering

Overlap == overlapped' = (overlapped \/ Writing)

------------------------------------------------------------------------------
(* A capture.  The browser has written the pending artefact. *)

Goto(c, place) == pc' = [pc EXCEPT ![c] = place]

Capture(c) ==
    /\ pc[c] = "ready" /\ Goto(c, "captured")
    /\ stagedArtefact' = stagedArtefact \cup {c}
    /\ Overlap
    /\ UNCHANGED <<artefact, record, journal, stagedRecord, reader, adopter, recovery>>

StageRecord(c) ==
    /\ pc[c] = "captured" /\ Goto(c, "recorded")
    /\ stagedRecord' = stagedRecord \cup {c}
    /\ UNCHANGED <<artefact, record, journal, stagedArtefact, reader, adopter,
                   recovery, overlapped>>

\* Mutant: the renames are not announced.
WriteJournalForgotten(c) ==
    /\ pc[c] = "recorded" /\ Goto(c, "journaled")
    /\ UNCHANGED <<files, reader, adopter, recovery, overlapped>>

\* Whatever journal was there is replaced, an interrupted one included.
WriteJournal(c) ==
    /\ pc[c] = "recorded" /\ Goto(c, "journaled")
    /\ journal' = c
    /\ UNCHANGED <<artefact, record, stagedArtefact, stagedRecord, reader,
                   adopter, recovery, overlapped>>

\* rename(2) of a staged file; it needs the file to be there still.
MoveArtefact(c) ==
    /\ c \in stagedArtefact
    /\ artefact' = c /\ stagedArtefact' = stagedArtefact \ {c}
    /\ UNCHANGED <<record, journal, stagedRecord>>

MoveRecord(c) ==
    /\ c \in stagedRecord
    /\ record' = RecordOf(c) /\ stagedRecord' = stagedRecord \ {c}
    /\ UNCHANGED <<artefact, journal, stagedArtefact>>

\* unlink(2) of the journal, whoever wrote it.
RemoveJournal ==
    /\ journal # None
    /\ journal' = None
    /\ UNCHANGED <<artefact, record, stagedArtefact, stagedRecord>>

\* Mutant: the record is renamed first.
CommitRecordFirst(c) ==
    /\ \/ pc[c] = "journaled" /\ MoveRecord(c) /\ Goto(c, "placed")
       \/ pc[c] = "placed" /\ MoveArtefact(c) /\ Goto(c, "paired")
       \/ pc[c] = "paired" /\ RemoveJournal /\ Goto(c, "done")
    /\ UNCHANGED <<reader, adopter, recovery, overlapped>>

\* The commit: artefact, record, journal.
Commit(c) ==
    /\ \/ pc[c] = "journaled" /\ MoveArtefact(c) /\ Goto(c, "placed")
       \/ pc[c] = "placed" /\ MoveRecord(c) /\ Goto(c, "paired")
       \/ pc[c] = "paired" /\ RemoveJournal /\ Goto(c, "done")
    /\ UNCHANGED <<reader, adopter, recovery, overlapped>>

\* A step throws: the runner removes the pending artefact and nothing else,
\* so a journal written stays, and so does a staged record.
CaptureFails(c) ==
    /\ pc[c] \in Working /\ Goto(c, "failed")
    /\ stagedArtefact' = stagedArtefact \ {c}
    /\ UNCHANGED <<artefact, record, journal, stagedRecord, reader, adopter,
                   recovery, overlapped>>

CaptureDies(c) ==
    /\ pc[c] \in Working /\ Goto(c, "dead")
    /\ UNCHANGED <<files, reader, adopter, recovery, overlapped>>

------------------------------------------------------------------------------
(* Adoption: a record for the artefact that is there.  With an existing      *)
(* record the operator asks for the replacement explicitly.                  *)

\* buildAuthCapabilityRecord reads the expiries, then, again, the digest.
AdoptRead ==
    /\ adopter = NoAdoption /\ artefact # None
    /\ adopter' = [NoAdoption EXCEPT !.expiry = artefact]
    /\ Overlap
    /\ UNCHANGED <<files, pc, reader, recovery>>

AdoptDigest ==
    /\ adopter.expiry # None /\ adopter.of = None
    /\ adopter' = [adopter EXCEPT !.of = artefact]
    /\ UNCHANGED <<files, pc, reader, recovery, overlapped>>

AdoptWrite ==
    /\ adopter.of # None
    /\ record' = [of |-> adopter.of, expiry |-> adopter.expiry, adopted |-> TRUE]
    /\ adopter' = NoAdoption
    /\ UNCHANGED <<artefact, journal, stagedArtefact, stagedRecord, pc, reader,
                   recovery, overlapped>>

AdoptFails ==
    /\ adopter # NoAdoption
    /\ adopter' = NoAdoption
    /\ UNCHANGED <<files, pc, reader, recovery, overlapped>>

------------------------------------------------------------------------------
(* Recovery of an interrupted publication. *)

\* Mutant: the record's bytes are not compared.
FinalsMatchArtefact(c) == artefact = c

\* The files at their final paths are the ones the journal names.
FinalsMatch(c) == artefact = c /\ record = RecordOf(c)

StagedMatch(c) == c \in stagedArtefact /\ c \in stagedRecord

RecoverTo(place, c) == recovery' = [at |-> place, of |-> c]

\* Both staged: complete.  Both final: only the journal is left.  A staged
\* record beside a placed artefact is neither, and refuses.
RecoverLook ==
    /\ recovery.at \notin Recovering /\ journal # None
    /\ LET c == journal IN
       \/ StagedMatch(c) /\ RecoverTo("looked", c)
       \/ ~StagedMatch(c) /\ FinalsMatch(c) /\ RecoverTo("finished", c)
       \/ ~StagedMatch(c) /\ ~FinalsMatch(c) /\ RecoverTo("refused", c)
    /\ Overlap
    /\ UNCHANGED <<files, pc, reader, adopter>>

RecoverCommit ==
    /\ \/ /\ recovery.at = "looked" /\ MoveArtefact(recovery.of)
          /\ RecoverTo("placed", recovery.of)
       \/ /\ recovery.at = "placed" /\ MoveRecord(recovery.of)
          /\ RecoverTo("paired", recovery.of)
       \/ /\ recovery.at \in {"paired", "finished"} /\ RemoveJournal
          /\ RecoverTo("completed", recovery.of)
    /\ UNCHANGED <<pc, reader, adopter, overlapped>>

\* A step of recovery throws, or its process dies.
RecoverFails ==
    /\ recovery.at \in Recovering
    /\ RecoverTo("idle", None)
    /\ UNCHANGED <<files, pc, reader, adopter, overlapped>>

------------------------------------------------------------------------------
(* The reader.  Every refusal ends the reading. *)

Read(step) == reader' = step /\ UNCHANGED <<files, pc, adopter, recovery, overlapped>>

\* A lane's gate starts only while no journal is pending; the report starts
\* whatever is there.
GateBegins ==
    /\ reader.at \in {"idle", "valid"} /\ journal = None
    /\ Read([Idle EXCEPT !.at = "looked"])

ReportBegins ==
    /\ reader.at \in {"idle", "valid"}
    /\ Read([Idle EXCEPT !.at = "looked"])

\* MISSING and UNKNOWN_AGE, or the record.
ReadRecord ==
    /\ reader.at = "looked"
    /\ IF artefact = None \/ record = None
       THEN Read(Idle)
       ELSE Read([reader EXCEPT !.at = "recorded", !.rec = record])

\* The cookies whose expiry decides are read before the digest is taken.
ReadArtefact ==
    /\ reader.at = "recorded"
    /\ Read([reader EXCEPT !.at = "inspected", !.seen = artefact])

\* The digest is of the file as it is now; the environment, the window and
\* the cookies may refuse a capability whose digest is right.
ReadDigest ==
    /\ reader.at = "inspected"
    /\ \/ artefact = reader.rec.of /\ Read([reader EXCEPT !.at = "valid"])
       \/ Read(Idle)

------------------------------------------------------------------------------
Next == \/ \E c \in Captures : \/ Capture(c) \/ StageRecord(c) \/ WriteJournal(c)
                               \/ Commit(c) \/ CaptureFails(c) \/ CaptureDies(c)
        \/ AdoptRead \/ AdoptDigest \/ AdoptWrite \/ AdoptFails
        \/ RecoverLook \/ RecoverCommit \/ RecoverFails
        \/ GateBegins \/ ReportBegins \/ ReadRecord \/ ReadArtefact \/ ReadDigest

Spec == Init /\ [][Next]_vars

------------------------------------------------------------------------------
(* A verdict takes the record, the cookies' expiry and the digest from three *)
(* looks at files that captures, adoption and recovery move meanwhile.  A    *)
(* VALID verdict is nevertheless about one artefact: the expiry it reports   *)
(* was read from the artefact its record describes, because the artefact is  *)
(* renamed before its record and never put back.  (The expiry in the record, *)
(* which decides for an artefact that has none, is PairOrPending's matter.)  *)
VerdictOfOnePair == reader.at = "valid" => reader.seen = reader.rec.of

(* While no two writers ran at once, and whichever of them failed or died,   *)
(* the files are a pair or a journal says that they may not be: the digest    *)
(* and the expiry in the record are the artefact's.                          *)
PairOrPending ==
    ~overlapped => \/ journal # None
                   \/ record = None
                   \/ record.of = artefact /\ record.expiry = artefact

(* Recovery that reports COMPLETED leaves the whole pair its journal named,  *)
(* under the same condition.                                                 *)
RecoveredPairIsWhole ==
    [][recovery.at # "completed" /\ recovery'.at = "completed" /\ ~overlapped
         => /\ artefact' = recovery'.of
            /\ record' = RecordOf(recovery'.of)]_vars
==============================================================================
