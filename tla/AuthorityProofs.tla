---------------------------- MODULE AuthorityProofs ----------------------------
(***************************************************************************)
(* Proofs about the two components that decide on what authority the       *)
(* browser acts.                                                           *)
(*                                                                         *)
(* The authenticated capability bundle, for any number of captures: what   *)
(* a reader accepts is one capture's artefact and record.                  *)
(*                                                                         *)
(* Causal admission, for any number of pages, requests and generations:    *)
(* one inductive invariant, AdmissionInv.  A generation is open exactly    *)
(* while it is the action's or the navigation's, and until a request is    *)
(* forwarded on another's ticket there is a ticket for every ticketed one. *)
(***************************************************************************)
EXTENDS AuthBundle, CausalAdmission, FiniteSetTheorems, TLAPS

\* The bytes d have left their staging name for good: they are the artefact
\* or were, or died with their capture, and nothing renames them again.
Settled(d) == d = Prior \/ (d \in Captures /\ d \notin stagedArtefact /\ pc[d] # "ready")

\* Whatever is named outside the staging directory is settled.
NamesSettled ==
    /\ artefact # None => Settled(artefact)
    /\ record # None => Settled(record.of)
    /\ adopter.of # None => Settled(adopter.of)
    /\ recovery.at \in {"placed", "paired"} => Settled(recovery.of)
    /\ reader.at \in {"recorded", "inspected", "valid"} => Settled(reader.rec.of)

StagedStarted ==
    /\ \A c \in stagedArtefact : pc[c] # "ready"
    /\ \A c \in Captures : pc[c] \in {"placed", "paired"} => c \notin stagedArtefact

\* An adoption that took the digest has taken the expiries.
DigestedReads == adopter.of # None => adopter.expiry # None

\* Once the artefact is seen to differ from the record's, it stays different.
LooksAgree ==
    reader.at = "inspected" => reader.seen = reader.rec.of \/ artefact # reader.rec.of

\* The verdict's invariant: it needs no assumption on who runs when.
VerdictInv == /\ TypeOK /\ NamesSettled /\ StagedStarted /\ DigestedReads /\ LooksAgree
              /\ VerdictOfOnePair

------------------------------------------------------------------------------
LEMMA NewRecord ==
  ASSUME NEW d \in Digests, NEW e \in Digests, NEW b \in BOOLEAN
  PROVE  /\ [of |-> d, expiry |-> e, adopted |-> b] \in Record
         /\ [of |-> d, expiry |-> e, adopted |-> b].of = d
         /\ [of |-> d, expiry |-> e, adopted |-> b].expiry = e
  BY DEF Record

LEMMA CaptureRecord ==
  ASSUME NEW d \in Digests
  PROVE  RecordOf(d) \in Record /\ RecordOf(d).of = d /\ RecordOf(d).expiry = d
  BY NewRecord DEF RecordOf

LEMMA InitVerdict == Init => VerdictInv
<1> SUFFICES ASSUME Init PROVE VerdictInv
  OBVIOUS
<1>1. /\ artefact \in Digests \cup {None} /\ record \in Record \cup {None}
      /\ record # None => record.of = Prior
      /\ artefact # None => artefact = Prior
  <2>1. Prior \in Digests /\ RecordOf(Prior) \in Record /\ RecordOf(Prior).of = Prior
    BY CaptureRecord DEF Digests
  <2> QED
    BY <2>1 DEF Init
<1>2. reader.at = "idle" /\ recovery.at = "idle" /\ adopter = NoAdoption
  BY DEF Init, Idle
<1>3. TypeOK
  <2>1. /\ reader \in [at : {"idle", "looked", "recorded", "inspected", "valid"},
                       rec : Record \cup {None}, seen : Digests \cup {None}]
        /\ adopter \in [expiry : Digests \cup {None}, of : Digests \cup {None}]
    BY DEF Init, Idle, NoAdoption
  <2>2. recovery \in [at : {"idle", "completed", "refused"} \cup Recovering,
                      of : Captures \cup {None}]
    BY DEF Init, Recovering
  <2> QED
    BY <1>1, <1>2, <2>1, <2>2 DEF Init, TypeOK
<1>4. NamesSettled
  BY <1>1, <1>2 DEF NamesSettled, Settled, NoAdoption
<1> QED
  BY <1>2, <1>3, <1>4 DEF Init, VerdictInv, DigestedReads, NoAdoption, StagedStarted, LooksAgree, VerdictOfOnePair

\* Settled bytes stay settled, because a capture stages once.
LEMMA SettledStays ==
  ASSUME VerdictInv, NEW d, Settled(d),
         \/ stagedArtefact' \subseteq stagedArtefact
            /\ \A c \in Captures : pc'[c] = "ready" => pc[c] = "ready"
         \/ \E c \in Captures : Capture(c)
  PROVE  Settled(d)'
  BY DEF VerdictInv, TypeOK, Settled, Capture, Goto

LEMMA StepVerdict == VerdictInv /\ [Next]_vars => VerdictInv'
<1> SUFFICES ASSUME VerdictInv, [Next]_vars PROVE VerdictInv'
  OBVIOUS
<1> USE NamesAssumption
<1>1. ASSUME NEW c \in Captures, Capture(c) PROVE VerdictInv'
  <2>1. \A d : Settled(d) => Settled(d)'
    BY <1>1, SettledStays
  <2>2. TypeOK'
    BY <1>1 DEF VerdictInv, TypeOK, Capture, Goto, Working, Overlap
  <2>4. StagedStarted'
    BY <1>1 DEF VerdictInv, TypeOK, StagedStarted, Capture, Goto
  <2>3. NamesSettled' /\ LooksAgree' /\ VerdictOfOnePair' /\ DigestedReads'
    BY <1>1, <2>1 DEF VerdictInv, DigestedReads, NamesSettled, LooksAgree, VerdictOfOnePair, Capture
  <2> QED
    BY <2>2, <2>3, <2>4 DEF VerdictInv
<1>2. ASSUME NEW c \in Captures, StageRecord(c) \/ WriteJournal(c) \/ CaptureFails(c) \/ CaptureDies(c)
      PROVE  VerdictInv'
  <2>1. stagedArtefact' \subseteq stagedArtefact
        /\ \A d \in Captures : pc'[d] = "ready" => pc[d] = "ready"
    BY <1>2 DEF VerdictInv, TypeOK, StageRecord, WriteJournal, CaptureFails, CaptureDies, Goto, files
  <2>2. \A d : Settled(d) => Settled(d)'
    BY <2>1, SettledStays
  <2>3. TypeOK' /\ StagedStarted'
    BY <1>2 DEF VerdictInv, TypeOK, StagedStarted, StageRecord, WriteJournal,
                CaptureFails, CaptureDies, Goto, files, Working, Ended
  <2>4. UNCHANGED <<artefact, record, adopter, recovery, reader>>
    BY <1>2 DEF StageRecord, WriteJournal, CaptureFails, CaptureDies, files
  <2>5. NamesSettled' /\ LooksAgree' /\ VerdictOfOnePair' /\ DigestedReads'
    BY <2>2, <2>4 DEF VerdictInv, DigestedReads, NamesSettled, LooksAgree, VerdictOfOnePair
  <2> QED
    BY <2>3, <2>5 DEF VerdictInv
<1>3. ASSUME NEW c \in Captures, Commit(c) PROVE VerdictInv'
  <2>1. stagedArtefact' \subseteq stagedArtefact
        /\ \A d \in Captures : pc'[d] = "ready" => pc[d] = "ready"
    BY <1>3 DEF VerdictInv, TypeOK, Commit, MoveArtefact, MoveRecord, RemoveJournal, Goto
  <2>2. \A d : Settled(d) => Settled(d)'
    BY <2>1, SettledStays
  <2>3. CASE pc[c] = "journaled" /\ MoveArtefact(c) /\ Goto(c, "placed")
    <3>1. UNCHANGED <<record, adopter, recovery, reader>>
      BY <1>3, <2>3 DEF Commit, MoveArtefact
    <3>2. artefact' = c /\ c \in Captures /\ c \notin stagedArtefact' /\ pc'[c] # "ready"
          /\ c \in stagedArtefact /\ Settled(c)'
      BY <1>3, <2>3 DEF VerdictInv, TypeOK, MoveArtefact, Goto, Settled
    <3>3. TypeOK' /\ StagedStarted'
      BY <1>3, <2>3, <3>1 DEF VerdictInv, TypeOK, StagedStarted, Commit, MoveArtefact,
                              Goto, Working, Ended, Digests
    <3>4. NamesSettled' /\ VerdictOfOnePair' /\ DigestedReads'
      BY <2>2, <3>1, <3>2 DEF VerdictInv, DigestedReads, NamesSettled, VerdictOfOnePair
    <3>5. LooksAgree'
      BY <3>1, <3>2 DEF VerdictInv, DigestedReads, NamesSettled, LooksAgree, Settled
    <3> QED
      BY <3>3, <3>4, <3>5 DEF VerdictInv
  <2>4. CASE pc[c] = "placed" /\ MoveRecord(c) /\ Goto(c, "paired")
    <3>1. UNCHANGED <<artefact, stagedArtefact, adopter, recovery, reader>>
      BY <1>3, <2>4 DEF Commit, MoveRecord
    <3>2. record' = RecordOf(c) /\ record'.of = c /\ Settled(c)
      BY <1>3, <2>4 DEF VerdictInv, StagedStarted, MoveRecord, RecordOf, Settled
    <3>3. TypeOK' /\ StagedStarted'
      BY <1>3, <2>4, <3>1 DEF VerdictInv, TypeOK, StagedStarted, Commit, MoveRecord,
                              Goto, Working, Ended, RecordOf, Record, Digests
    <3>4. NamesSettled' /\ VerdictOfOnePair' /\ LooksAgree' /\ DigestedReads'
      BY <2>2, <3>1, <3>2 DEF VerdictInv, DigestedReads, NamesSettled, VerdictOfOnePair, LooksAgree
    <3> QED
      BY <3>3, <3>4 DEF VerdictInv
  <2>5. CASE pc[c] = "paired" /\ RemoveJournal /\ Goto(c, "done")
    <3>1. UNCHANGED <<artefact, record, stagedArtefact, adopter, recovery, reader>>
      BY <1>3, <2>5 DEF Commit, RemoveJournal
    <3>2. TypeOK' /\ StagedStarted'
      BY <1>3, <2>5, <3>1 DEF VerdictInv, TypeOK, StagedStarted, Commit, RemoveJournal,
                              Goto, Working, Ended
    <3>3. NamesSettled' /\ VerdictOfOnePair' /\ LooksAgree' /\ DigestedReads'
      BY <2>2, <3>1 DEF VerdictInv, DigestedReads, NamesSettled, VerdictOfOnePair, LooksAgree
    <3> QED
      BY <3>2, <3>3 DEF VerdictInv
  <2> QED
    BY <1>3, <2>3, <2>4, <2>5 DEF Commit
<1>4. ASSUME AdoptRead \/ AdoptDigest \/ AdoptWrite \/ AdoptFails PROVE VerdictInv'
  <2>1. UNCHANGED <<artefact, stagedArtefact, pc, recovery, reader, journal, stagedRecord>>
    BY <1>4 DEF AdoptRead, AdoptDigest, AdoptWrite, AdoptFails, files
  <2>2. \A d : Settled(d) => Settled(d)'
    BY <2>1 DEF Settled
  <2>3. /\ adopter \in [expiry : Digests \cup {None}, of : Digests \cup {None}]
        /\ artefact \in Digests \cup {None} /\ record \in Record \cup {None}
        /\ NoAdoption \in [expiry : Digests \cup {None}, of : Digests \cup {None}]
        /\ NoAdoption.of = None /\ NoAdoption.expiry = None
    BY DEF VerdictInv, TypeOK, NoAdoption
  <2>4. /\ adopter' \in [expiry : Digests \cup {None}, of : Digests \cup {None}]
        /\ adopter'.of \in {None, adopter.of, artefact}
    BY <1>4, <2>3 DEF AdoptRead, AdoptDigest, AdoptWrite, AdoptFails
  <2>5. record' \in Record \cup {None} /\ (record' = record \/ (record'.of = adopter.of /\ adopter.of # None))
    <3>1. CASE AdoptWrite
      <4>1. adopter.of \in Digests /\ adopter.expiry \in Digests
        BY <2>3, <3>1 DEF AdoptWrite, VerdictInv, DigestedReads
      <4> QED
        BY <3>1, <4>1, NewRecord DEF AdoptWrite
    <3>2. CASE ~AdoptWrite
      <4>1. record' = record
        BY <1>4, <3>2 DEF AdoptRead, AdoptDigest, AdoptFails, files
      <4> QED
        BY <2>3, <4>1
    <3> QED
      BY <3>1, <3>2
  <2>6. overlapped' \in BOOLEAN
    BY <1>4 DEF VerdictInv, TypeOK, AdoptRead, AdoptDigest, AdoptWrite, AdoptFails, Overlap
  <2>7. TypeOK' /\ StagedStarted'
    BY <2>1, <2>4, <2>5, <2>6 DEF VerdictInv, TypeOK, StagedStarted
  <2>8. DigestedReads'
    BY <1>4, <2>3 DEF VerdictInv, DigestedReads, AdoptRead, AdoptDigest, AdoptWrite, AdoptFails
  <2>9. NamesSettled' /\ VerdictOfOnePair' /\ LooksAgree'
    BY <2>1, <2>2, <2>4, <2>5 DEF VerdictInv, NamesSettled, VerdictOfOnePair, LooksAgree
  <2> QED
    BY <2>7, <2>8, <2>9 DEF VerdictInv
<1>5. ASSUME RecoverLook \/ RecoverFails PROVE VerdictInv'
  <2>1. UNCHANGED <<artefact, record, stagedArtefact, pc, adopter, reader>>
        /\ recovery'.at \notin {"placed", "paired"}
    BY <1>5 DEF RecoverLook, RecoverFails, RecoverTo, files
  <2>4. UNCHANGED <<journal, stagedRecord>>
    BY <1>5 DEF RecoverLook, RecoverFails, files
  <2>5. recovery' \in [at : {"idle", "completed", "refused"} \cup Recovering,
                       of : Captures \cup {None}]
    BY <1>5 DEF VerdictInv, TypeOK, RecoverLook, RecoverFails, RecoverTo, Recovering
  <2>6. overlapped' \in BOOLEAN
    BY <1>5 DEF VerdictInv, TypeOK, RecoverLook, RecoverFails, Overlap
  <2>2. TypeOK'
    BY <2>1, <2>4, <2>5, <2>6 DEF VerdictInv, TypeOK
  <2>3. NamesSettled' /\ StagedStarted' /\ VerdictOfOnePair' /\ LooksAgree' /\ DigestedReads'
    BY <2>1 DEF VerdictInv, DigestedReads, NamesSettled, StagedStarted, VerdictOfOnePair, LooksAgree, Settled
  <2> QED
    BY <2>2, <2>3 DEF VerdictInv
<1>6. ASSUME RecoverCommit PROVE VerdictInv'
  <2> DEFINE r == recovery.of
  <2>1. UNCHANGED <<pc, adopter, reader, overlapped>> /\ stagedArtefact' \subseteq stagedArtefact
    BY <1>6 DEF RecoverCommit, MoveArtefact, MoveRecord, RemoveJournal
  <2>2. \A d : Settled(d) => Settled(d)'
    BY <2>1 DEF Settled
  <2>8. r \in Captures \cup {None}
        /\ recovery' \in [at : {"idle", "completed", "refused"} \cup Recovering,
                          of : Captures \cup {None}]
    BY <1>6 DEF VerdictInv, TypeOK, RecoverCommit, RecoverTo, Recovering
  <2>9. /\ artefact' \in Digests \cup {None} /\ journal' \in Captures \cup {None}
        /\ stagedArtefact' \subseteq Captures /\ stagedRecord' \subseteq Captures
    BY <1>6 DEF VerdictInv, TypeOK, RecoverCommit, MoveArtefact, MoveRecord, RemoveJournal, Digests
  <2>10. record' \in Record \cup {None}
    BY <1>6, CaptureRecord
    DEF VerdictInv, TypeOK, RecoverCommit, MoveArtefact, MoveRecord, RemoveJournal, Digests
  <2>3. TypeOK'
    BY <2>1, <2>8, <2>9, <2>10 DEF VerdictInv, TypeOK
  <2>4. StagedStarted'
    BY <2>1 DEF VerdictInv, StagedStarted
  <2>5. CASE recovery.at = "looked" /\ MoveArtefact(r) /\ RecoverTo("placed", r)
    <3>1. artefact' = r /\ r \in stagedArtefact /\ recovery'.of = r /\ record' = record
      BY <2>5 DEF MoveArtefact, RecoverTo
    <3>2. Settled(r)'
      BY <2>1, <2>5, <3>1 DEF VerdictInv, TypeOK, StagedStarted, MoveArtefact, Settled
    <3>3. NamesSettled' /\ VerdictOfOnePair' /\ DigestedReads'
      BY <2>1, <2>2, <3>1, <3>2 DEF VerdictInv, DigestedReads, NamesSettled, VerdictOfOnePair
    <3>4. LooksAgree'
      BY <2>1, <3>1 DEF VerdictInv, TypeOK, DigestedReads, NamesSettled, LooksAgree, Settled
    <3> QED
      BY <2>3, <2>4, <3>3, <3>4 DEF VerdictInv
  <2>6. CASE recovery.at = "placed" /\ MoveRecord(r) /\ RecoverTo("paired", r)
    <3>1. artefact' = artefact /\ record'.of = r /\ recovery'.of = r /\ Settled(r)
      BY <2>6 DEF VerdictInv, DigestedReads, NamesSettled, MoveRecord, RecordOf, RecoverTo
    <3>2. NamesSettled' /\ VerdictOfOnePair' /\ LooksAgree' /\ DigestedReads'
      BY <2>1, <2>2, <3>1 DEF VerdictInv, DigestedReads, NamesSettled, VerdictOfOnePair, LooksAgree
    <3> QED
      BY <2>3, <2>4, <3>2 DEF VerdictInv
  <2>7. CASE recovery.at \in {"paired", "finished"} /\ RemoveJournal /\ RecoverTo("completed", r)
    <3>1. UNCHANGED <<artefact, record>> /\ recovery'.at = "completed"
      BY <2>7 DEF RemoveJournal, RecoverTo
    <3>2. NamesSettled' /\ VerdictOfOnePair' /\ LooksAgree' /\ DigestedReads'
      BY <2>1, <2>2, <3>1 DEF VerdictInv, DigestedReads, NamesSettled, VerdictOfOnePair, LooksAgree
    <3> QED
      BY <2>3, <2>4, <3>2 DEF VerdictInv
  <2> QED
    BY <1>6, <2>5, <2>6, <2>7 DEF RecoverCommit
<1>7. ASSUME GateBegins \/ ReportBegins \/ ReadRecord \/ ReadArtefact \/ ReadDigest
      PROVE  VerdictInv'
  <2>1. UNCHANGED <<artefact, record, journal, stagedArtefact, stagedRecord, pc, adopter,
                    recovery, overlapped>>
    BY <1>7 DEF GateBegins, ReportBegins, ReadRecord, ReadArtefact, ReadDigest, Read, files
  <2>2. \A d : Settled(d) => Settled(d)'
    BY <2>1 DEF Settled
  <2>3. \/ reader' = Idle \/ reader' = [Idle EXCEPT !.at = "looked"]
        \/ /\ reader.at = "looked" /\ artefact # None /\ record # None
           /\ reader' = [reader EXCEPT !.at = "recorded", !.rec = record]
        \/ /\ reader.at = "recorded"
           /\ reader' = [reader EXCEPT !.at = "inspected", !.seen = artefact]
        \/ /\ reader.at = "inspected" /\ artefact = reader.rec.of
           /\ reader' = [reader EXCEPT !.at = "valid"]
    BY <1>7 DEF GateBegins, ReportBegins, ReadRecord, ReadArtefact, ReadDigest, Read
  <2> DEFINE Places == {"idle", "looked", "recorded", "inspected", "valid"}
             Readers == [at : Places, rec : Record \cup {None}, seen : Digests \cup {None}]
  <2>4. reader \in Readers /\ artefact \in Digests \cup {None} /\ record \in Record \cup {None}
        /\ (reader.at \in {"recorded", "inspected", "valid"} => reader.rec \in Record)
    BY DEF VerdictInv, TypeOK
  <2>5. CASE reader' = Idle \/ reader' = [Idle EXCEPT !.at = "looked"]
    <3>1. reader' \in Readers /\ reader'.at \in {"idle", "looked"}
      BY <2>5 DEF Idle
    <3> QED
      BY <2>1, <2>2, <3>1 DEF VerdictInv, TypeOK, DigestedReads, NamesSettled, StagedStarted, LooksAgree,
                              VerdictOfOnePair
  <2>6. CASE /\ reader.at = "looked" /\ artefact # None /\ record # None
             /\ reader' = [reader EXCEPT !.at = "recorded", !.rec = record]
    <3>1. reader' \in Readers /\ reader'.at = "recorded" /\ reader'.rec = record
          /\ reader'.rec \in Record
      BY <2>4, <2>6
    <3> QED
      BY <2>1, <2>2, <2>6, <3>1 DEF VerdictInv, TypeOK, DigestedReads, NamesSettled, StagedStarted, LooksAgree,
                                    VerdictOfOnePair
  <2>7. CASE /\ reader.at = "recorded"
             /\ reader' = [reader EXCEPT !.at = "inspected", !.seen = artefact]
    <3>1. reader' \in Readers /\ reader'.at = "inspected" /\ reader'.rec = reader.rec
          /\ reader'.seen = artefact /\ reader'.rec \in Record
      BY <2>4, <2>7
    <3> QED
      BY <2>1, <2>2, <2>7, <3>1 DEF VerdictInv, TypeOK, DigestedReads, NamesSettled, StagedStarted, LooksAgree,
                                    VerdictOfOnePair
  <2>8. CASE /\ reader.at = "inspected" /\ artefact = reader.rec.of
             /\ reader' = [reader EXCEPT !.at = "valid"]
    <3>1. reader' \in Readers /\ reader'.at = "valid" /\ reader'.rec = reader.rec
          /\ reader'.seen = reader.seen /\ reader'.rec \in Record
      BY <2>4, <2>8
    <3> QED
      BY <2>1, <2>2, <2>8, <3>1 DEF VerdictInv, TypeOK, DigestedReads, NamesSettled, StagedStarted, LooksAgree,
                                    VerdictOfOnePair
  <2> QED
    BY <2>3, <2>5, <2>6, <2>7, <2>8
<1>8. CASE UNCHANGED vars
  BY <1>8 DEF vars, VerdictInv, TypeOK, DigestedReads, NamesSettled, StagedStarted, LooksAgree,
              VerdictOfOnePair, Settled
<1> QED
  BY <1>1, <1>2, <1>3, <1>4, <1>5, <1>6, <1>7, <1>8 DEF Next

(* The verdict's invariant holds whoever runs when. *)
THEOREM VerdictInvariant == Spec => []VerdictInv
  BY InitVerdict, StepVerdict, PTL DEF Spec

(* Every variable of the bundle keeps its type. *)
THEOREM TypeCorrect == Spec => []TypeOK
<1>1. VerdictInv => TypeOK
  BY DEF VerdictInv
<1> QED
  BY <1>1, VerdictInvariant, PTL

(* A VALID verdict of requireValidAuthCapability reports the expiry of the   *)
(* artefact its record describes, though the three are read separately.      *)
THEOREM VerdictIsOfOnePair == Spec => []VerdictOfOnePair
<1>1. VerdictInv => VerdictOfOnePair
  BY DEF VerdictInv
<1> QED
  BY <1>1, VerdictInvariant, PTL

------------------------------------------------------------------------------
(* The pair.  While no two writers overlapped, at most one of captures,      *)
(* adoption and recovery is at work, and it owns the journal.                *)

Committing(c) == pc[c] \in {"journaled", "placed", "paired"}

OneWriter ==
    /\ \A c, d \in Captures : pc[c] \in Working /\ pc[d] \in Working => c = d
    /\ \A c \in Captures : pc[c] \in Working => adopter = NoAdoption /\ recovery.at \notin Recovering
    /\ adopter # NoAdoption => recovery.at \notin Recovering

CaptureOwns ==
    \A c \in Captures :
        /\ Committing(c) => journal = c
        /\ pc[c] \in {"placed", "paired"} => artefact = c
        /\ pc[c] = "paired" => record = RecordOf(c)

RecoveryOwns ==
    /\ recovery.at \in Recovering => recovery.of = journal /\ journal # None
    /\ recovery.at \in {"placed", "paired", "finished"} => artefact = recovery.of
    /\ recovery.at \in {"paired", "finished"} => record = RecordOf(recovery.of)

AdoptsArtefact ==
    adopter # NoAdoption => /\ artefact # None /\ adopter.expiry = artefact
                            /\ adopter.of \in {None, artefact}

Quiet == ~overlapped => OneWriter /\ CaptureOwns /\ RecoveryOwns /\ AdoptsArtefact

PairInv == TypeOK /\ Quiet /\ PairOrPending

\* The steps of a writer that is already at work.
LEMMA CaptureKeepsPair ==
  ASSUME PairInv, ~overlapped, NEW c \in Captures,
         StageRecord(c) \/ WriteJournal(c) \/ Commit(c) \/ CaptureFails(c) \/ CaptureDies(c)
  PROVE  Quiet' /\ PairOrPending'
<1>1. /\ pc[c] \in Working /\ UNCHANGED <<adopter, recovery, overlapped>>
      /\ pc' \in [Captures -> {"ready"} \cup Working \cup Ended]
      /\ \A d \in Captures : d # c => pc'[d] = pc[d]
  BY DEF PairInv, TypeOK, StageRecord, WriteJournal, Commit, CaptureFails, CaptureDies,
         Goto, Working, Ended
<1>2. /\ adopter = NoAdoption /\ recovery.at \notin Recovering
      /\ \A d \in Captures : d # c => pc[d] \notin Working
  BY <1>1 DEF PairInv, Quiet, OneWriter
<1>3. OneWriter' /\ AdoptsArtefact' /\ RecoveryOwns'
  BY <1>1, <1>2 DEF OneWriter, AdoptsArtefact, RecoveryOwns, Recovering
<1>4. SUFFICES CaptureOwns' /\ PairOrPending'
  BY <1>3 DEF Quiet
<1>5. \A d \in Captures : d # c => ~Committing(d)' /\ pc'[d] \notin {"placed", "paired"}
  BY <1>1, <1>2 DEF Committing, Working
<1>6. /\ Committing(c) => journal = c
      /\ pc[c] \in {"placed", "paired"} => artefact = c
      /\ pc[c] = "paired" => record = RecordOf(c)
      /\ journal # None \/ record = None \/ (record.of = artefact /\ record.expiry = artefact)
  BY DEF PairInv, Quiet, CaptureOwns, PairOrPending
<1>7. c # None /\ RecordOf(c).of = c /\ RecordOf(c).expiry = c
  BY NamesAssumption, CaptureRecord DEF Digests
<1>8. CASE StageRecord(c)
  BY <1>1, <1>5, <1>6, <1>8 DEF PairInv, TypeOK, StageRecord, Goto, CaptureOwns, Committing,
                                PairOrPending
<1>9. CASE WriteJournal(c)
  BY <1>1, <1>5, <1>7, <1>9 DEF PairInv, TypeOK, WriteJournal, Goto, CaptureOwns, Committing,
                                PairOrPending
<1>10. CASE Commit(c)
  <2>1. CASE pc[c] = "journaled" /\ MoveArtefact(c) /\ Goto(c, "placed")
    <3>1. pc'[c] = "placed" /\ artefact' = c /\ journal' = journal /\ journal = c
      BY <2>1, <1>6 DEF PairInv, TypeOK, MoveArtefact, Goto, Committing
    <3> QED
      BY <1>5, <1>7, <3>1 DEF CaptureOwns, Committing, PairOrPending
  <2>2. CASE pc[c] = "placed" /\ MoveRecord(c) /\ Goto(c, "paired")
    <3>1. /\ pc'[c] = "paired" /\ artefact' = artefact /\ artefact = c
          /\ record' = RecordOf(c) /\ journal' = journal /\ journal = c
      BY <2>2, <1>6 DEF PairInv, TypeOK, MoveRecord, Goto, Committing
    <3> QED
      BY <1>5, <1>7, <3>1 DEF CaptureOwns, Committing, PairOrPending
  <2>3. CASE pc[c] = "paired" /\ RemoveJournal /\ Goto(c, "done")
    <3>1. /\ pc'[c] = "done" /\ artefact' = artefact /\ artefact = c
          /\ record' = record /\ record = RecordOf(c)
      BY <2>3, <1>6 DEF PairInv, TypeOK, RemoveJournal, Goto
    <3> QED
      BY <1>5, <1>7, <3>1 DEF CaptureOwns, Committing, PairOrPending
  <2> QED
    BY <1>10, <2>1, <2>2, <2>3 DEF Commit
<1>11. CASE CaptureFails(c) \/ CaptureDies(c)
  <2>1. pc'[c] \in Ended /\ UNCHANGED <<artefact, record, journal>>
    BY <1>11 DEF PairInv, TypeOK, CaptureFails, CaptureDies, Goto, files, Ended
  <2> QED
    BY <1>1, <1>5, <1>6, <2>1 DEF CaptureOwns, Committing, PairOrPending, Ended
<1> QED
  BY <1>8, <1>9, <1>10, <1>11

\* Beginning to write: with no overlap recorded, nobody else is at work.
LEMMA BeginningKeepsPair ==
  ASSUME PairInv, ~overlapped', RecoverLook \/ AdoptRead \/ \E c \in Captures : Capture(c)
  PROVE  Quiet' /\ PairOrPending'
<1>1. ~overlapped /\ ~Writing /\ UNCHANGED <<artefact, record, journal>>
  BY DEF RecoverLook, AdoptRead, Capture, Overlap, files
<1>2. /\ \A c \in Captures : pc[c] \notin Working
      /\ adopter = NoAdoption /\ recovery.at \notin Recovering
  BY <1>1 DEF Writing
<1>3. PairOrPending'
  BY <1>1 DEF PairInv, PairOrPending
<1>4. ASSUME NEW c \in Captures, Capture(c) PROVE Quiet'
  <2>1. /\ \A d \in Captures : d # c => pc'[d] = pc[d]
        /\ pc'[c] = "captured" /\ UNCHANGED <<adopter, recovery>>
    BY <1>4 DEF PairInv, TypeOK, Capture, Goto
  <2> QED
    BY <1>2, <2>1 DEF Quiet, OneWriter, CaptureOwns, Committing, RecoveryOwns, Recovering,
                      AdoptsArtefact, Working
<1>5. ASSUME AdoptRead PROVE Quiet'
  <2>1. /\ adopter'.expiry = artefact /\ adopter'.of = None /\ artefact # None
        /\ UNCHANGED <<pc, recovery>>
    BY <1>5 DEF AdoptRead, NoAdoption
  <2> QED
    BY <1>1, <2>1, <1>2, <1>5 DEF Quiet, OneWriter, CaptureOwns, Committing, RecoveryOwns, Recovering,
                       AdoptsArtefact, Working
<1>6. ASSUME RecoverLook PROVE Quiet'
  <2>1. /\ UNCHANGED <<pc, adopter>> /\ journal # None /\ recovery'.of = journal
        /\ recovery'.at \in {"looked", "finished", "refused"}
        /\ recovery'.at = "finished" => artefact = journal /\ record = RecordOf(journal)
    BY <1>6 DEF RecoverLook, RecoverTo, FinalsMatch
  <2> QED
    BY <1>1, <1>2, <2>1 DEF Quiet, OneWriter, CaptureOwns, Committing, RecoveryOwns,
                            Recovering, AdoptsArtefact, Working
<1> QED
  BY <1>3, <1>4, <1>5, <1>6

LEMMA RecoveryKeepsPair ==
  ASSUME PairInv, ~overlapped, RecoverCommit \/ RecoverFails
  PROVE  Quiet' /\ PairOrPending'
<1> DEFINE r == recovery.of
<1>1. recovery.at \in Recovering /\ UNCHANGED <<pc, adopter, overlapped>>
  BY DEF RecoverCommit, RecoverFails, Recovering
<1>2. adopter = NoAdoption /\ \A c \in Captures : pc[c] \notin Working
  BY <1>1 DEF PairInv, Quiet, OneWriter
<1>3. r = journal /\ journal # None /\ r \in Captures /\ r \in Digests /\ RecordOf(r).of = r /\ RecordOf(r).expiry = r
  BY <1>1, CaptureRecord DEF PairInv, TypeOK, Quiet, RecoveryOwns, Digests
<1>4. OneWriter' /\ CaptureOwns' /\ AdoptsArtefact'
  BY <1>1, <1>2 DEF OneWriter, CaptureOwns, Committing, AdoptsArtefact, Working
<1>5. SUFFICES RecoveryOwns' /\ PairOrPending'
  BY <1>4 DEF Quiet
<1>6. /\ recovery.at \in {"placed", "paired", "finished"} => artefact = r
      /\ recovery.at \in {"paired", "finished"} => record = RecordOf(r)
      /\ journal # None \/ record = None \/ (record.of = artefact /\ record.expiry = artefact)
  BY DEF PairInv, Quiet, RecoveryOwns, PairOrPending
<1>7. CASE recovery.at = "looked" /\ MoveArtefact(r) /\ RecoverTo("placed", r)
  BY <1>3, <1>7 DEF MoveArtefact, RecoverTo, RecoveryOwns, PairOrPending
<1>8. CASE recovery.at = "placed" /\ MoveRecord(r) /\ RecoverTo("paired", r)
  BY <1>3, <1>6, <1>8 DEF MoveRecord, RecoverTo, RecoveryOwns, PairOrPending
<1>9. CASE recovery.at \in {"paired", "finished"} /\ RemoveJournal /\ RecoverTo("completed", r)
  BY <1>3, <1>6, <1>9 DEF RemoveJournal, RecoverTo, RecoveryOwns, PairOrPending, Recovering
<1>10. CASE RecoverFails
  BY <1>6, <1>10 DEF RecoverFails, RecoverTo, RecoveryOwns, PairOrPending, Recovering, files
<1> QED
  BY <1>7, <1>8, <1>9, <1>10 DEF RecoverCommit

LEMMA AdoptionKeepsPair ==
  ASSUME PairInv, ~overlapped, AdoptDigest \/ AdoptWrite \/ AdoptFails
  PROVE  Quiet' /\ PairOrPending'
<1>1. /\ adopter # NoAdoption /\ UNCHANGED <<artefact, journal, pc, recovery, overlapped>>
      /\ NoAdoption.expiry = None /\ NoAdoption.of = None
  BY DEF AdoptDigest, AdoptWrite, AdoptFails, NoAdoption, files
<1>2. /\ artefact # None /\ adopter.expiry = artefact /\ adopter.of \in {None, artefact}
      /\ recovery.at \notin Recovering
      /\ \A c \in Captures : pc[c] \notin Working
      /\ journal # None \/ record = None \/ (record.of = artefact /\ record.expiry = artefact)
  BY <1>1 DEF PairInv, Quiet, OneWriter, AdoptsArtefact, PairOrPending
<1>3. record' = record \/ (record'.of = artefact /\ record'.expiry = artefact)
  BY <1>2 DEF AdoptDigest, AdoptWrite, AdoptFails, files
<1>4. \/ adopter' = NoAdoption
      \/ (adopter'.expiry = artefact /\ adopter'.of = artefact)
  BY <1>2 DEF PairInv, TypeOK, AdoptDigest, AdoptWrite, AdoptFails
<1>5. OneWriter' /\ CaptureOwns' /\ RecoveryOwns' /\ AdoptsArtefact'
  BY <1>1, <1>2, <1>4 DEF OneWriter, CaptureOwns, Committing, RecoveryOwns, Recovering,
                          AdoptsArtefact, Working
<1> QED
  BY <1>1, <1>2, <1>3, <1>5 DEF Quiet, PairOrPending

LEMMA StepPair == PairInv /\ TypeOK' /\ [Next]_vars => PairInv'
<1> SUFFICES ASSUME PairInv, TypeOK', [Next]_vars, ~overlapped' PROVE Quiet' /\ PairOrPending'
  BY DEF PairInv, Quiet, PairOrPending
<1>1. ASSUME NEW c \in Captures,
             StageRecord(c) \/ WriteJournal(c) \/ Commit(c) \/ CaptureFails(c) \/ CaptureDies(c)
      PROVE  Quiet' /\ PairOrPending'
  <2>1. ~overlapped
    BY <1>1 DEF StageRecord, WriteJournal, Commit, CaptureFails, CaptureDies
  <2> QED
    BY <1>1, <2>1, CaptureKeepsPair
<1>2. ASSUME RecoverLook \/ AdoptRead \/ \E c \in Captures : Capture(c)
      PROVE  Quiet' /\ PairOrPending'
  BY <1>2, BeginningKeepsPair
<1>3. ASSUME RecoverCommit \/ RecoverFails PROVE Quiet' /\ PairOrPending'
  <2>1. ~overlapped
    BY <1>3 DEF RecoverCommit, RecoverFails
  <2> QED
    BY <1>3, <2>1, RecoveryKeepsPair
<1>4. ASSUME AdoptDigest \/ AdoptWrite \/ AdoptFails PROVE Quiet' /\ PairOrPending'
  <2>1. ~overlapped
    BY <1>4 DEF AdoptDigest, AdoptWrite, AdoptFails
  <2> QED
    BY <1>4, <2>1, AdoptionKeepsPair
<1>5. ASSUME GateBegins \/ ReportBegins \/ ReadRecord \/ ReadArtefact \/ ReadDigest \/ UNCHANGED vars
      PROVE  Quiet' /\ PairOrPending'
  <2>1. UNCHANGED <<artefact, record, journal, pc, adopter, recovery, overlapped>>
    BY <1>5 DEF GateBegins, ReportBegins, ReadRecord, ReadArtefact, ReadDigest, Read, files, vars
  <2> QED
    BY <2>1 DEF PairInv, Quiet, OneWriter, CaptureOwns, Committing, RecoveryOwns,
                AdoptsArtefact, PairOrPending
<1> QED
  BY <1>1, <1>2, <1>3, <1>4, <1>5 DEF Next

LEMMA InitPair == Init => PairInv
<1>1. Init => TypeOK
  BY InitVerdict DEF VerdictInv
<1>2. Init => Quiet
  BY DEF Init, Quiet, OneWriter, CaptureOwns, Committing, RecoveryOwns, AdoptsArtefact,
         Working, Recovering
<1>3. Init => PairOrPending
  BY CaptureRecord DEF Init, PairOrPending, Digests
<1> QED
  BY <1>1, <1>2, <1>3 DEF PairInv

(* The pair's invariant: whoever is at work, alone, owns the journal.        *)
THEOREM PairInvariant == Spec => []PairInv
  BY InitPair, StepPair, TypeCorrect, PTL DEF Spec

(* While no two writers overlapped, the files publishAuthCapabilityBundle    *)
(* leaves are a pair or a journal is pending, whatever failed or died.       *)
THEOREM PairIsKept == Spec => []PairOrPending
<1>1. PairInv => PairOrPending
  BY DEF PairInv
<1> QED
  BY <1>1, PairInvariant, PTL

(* recoverAuthCapabilityBundle reports COMPLETED over the whole pair only.   *)
THEOREM RecoveryIsWhole == Spec => RecoveredPairIsWhole
<1>1. ASSUME PairInv, [Next]_vars
      PROVE  [recovery.at # "completed" /\ recovery'.at = "completed" /\ ~overlapped
                => /\ artefact' = recovery'.of
                   /\ record' = RecordOf(recovery'.of)]_vars
  <2> SUFFICES ASSUME recovery.at # "completed", recovery'.at = "completed", ~overlapped
               PROVE  artefact' = recovery'.of /\ record' = RecordOf(recovery'.of)
    OBVIOUS
  <2>1. RecoverCommit
    BY <1>1 DEF Next, vars, Capture, StageRecord, WriteJournal, Commit, CaptureFails, CaptureDies,
                AdoptRead, AdoptDigest, AdoptWrite, AdoptFails, RecoverLook, RecoverFails, RecoverTo,
                GateBegins, ReportBegins, ReadRecord, ReadArtefact, ReadDigest, Read
  <2>2. /\ recovery.at \in {"paired", "finished"} /\ UNCHANGED <<artefact, record>>
        /\ recovery'.of = recovery.of
    BY <2>1 DEF RecoverCommit, RecoverTo, RemoveJournal
  <2> QED
    BY <1>1, <2>2 DEF PairInv, Quiet, RecoveryOwns
<1> QED
  BY <1>1, PairInvariant, PTL DEF Spec, RecoveredPairIsWhole

------------------------------------------------------------------------------
(* The generations and tickets of causal admission. *)

\* The parts of the state that attribution depends on.
Registry ==
    /\ generations \in Seq(Generation)
    /\ Len(generations) <= MaxGenerations
    /\ intent \in BOOLEAN
    /\ journey \in (DOMAIN generations) \cup {NoGeneration}
    /\ navigation \in (DOMAIN generations) \cup {NoGeneration}

\* A generation is open exactly while it is the action's or the navigation's.
Causes ==
    /\ Opened = {journey, navigation} \ {NoGeneration}
    /\ journey # NoGeneration => intent
    /\ journey = navigation => journey = NoGeneration

\* Tickets and requests.
Ledger ==
    /\ fresh \in [Urls -> Nat] /\ spent \in Nat
    /\ request \in [Requests -> Request] /\ overdrawn \subseteq Urls

Timing ==
    /\ loaded \in BOOLEAN /\ loading \subseteq pages /\ pages \subseteq Pages
    /\ timer \in [armed : BOOLEAN, which : 0..1] /\ rearms \in 0..MaxRearms

Budget == units \in [Generations -> [Exempt -> 0..MaxUnits]]

AdmissionInv == Registry /\ Causes /\ Ledger /\ Timing /\ Budget /\ TicketedAreForwarded

\* Settling closes a generation and keeps its kind.
LEMMA SettledGeneration ==
  ASSUME NEW r \in Generation, NEW closed, closed = [r EXCEPT !.open = FALSE]
  PROVE  closed \in Generation /\ ~closed.open
BY DEF Generation

\* A sequence of generations, one of them settled.
LEMMA SettlingFacts ==
  ASSUME Registry, NEW g
  PROVE  /\ AfterSettling(generations, g) \in Seq(Generation)
         /\ Len(AfterSettling(generations, g)) = Len(generations)
         /\ DOMAIN AfterSettling(generations, g) = DOMAIN generations
         /\ OpenOf(AfterSettling(generations, g)) = Opened \ {g}
<1> DEFINE after == AfterSettling(generations, g)
<1>1. /\ DOMAIN generations = 1..Len(generations) /\ Len(generations) \in Nat
      /\ \A i \in DOMAIN generations : generations[i] \in Generation
  BY DEF Registry
<1>2. after = [i \in 1..Len(generations) |->
                  IF i = g THEN [generations[i] EXCEPT !.open = FALSE] ELSE generations[i]]
  BY <1>1 DEF AfterSettling
<1>3. \A i \in 1..Len(generations) :
        /\ after[i] \in Generation
        /\ i = g => ~after[i].open
        /\ i # g => after[i] = generations[i]
  BY <1>1, <1>2, SettledGeneration
<1>4. after \in Seq(Generation) /\ Len(after) = Len(generations)
      /\ DOMAIN after = 1..Len(generations)
  BY <1>1, <1>2, <1>3
<1> QED
  BY <1>1, <1>3, <1>4 DEF Opened, OpenOf

\* What Append does, for sequences of generations.
LEMMA Appending ==
  ASSUME NEW registry \in Seq(Generation), NEW g \in Generation
  PROVE  /\ Append(registry, g) \in Seq(Generation)
         /\ Len(Append(registry, g)) = Len(registry) + 1
         /\ DOMAIN Append(registry, g) = 1..(Len(registry) + 1)
         /\ \A i \in 1..Len(registry) : Append(registry, g)[i] = registry[i]
         /\ Append(registry, g)[Len(registry) + 1] = g
OBVIOUS

\* Opening a generation of a registry whose open generations are those of a set.
LEMMA OpeningFacts ==
  ASSUME NEW registry \in Seq(Generation),
         Len(registry) <= MaxGenerations,
         NEW kind \in {"ACTION", "NAVIGATION"}, NEW g,
         \/ /\ Len(registry) < MaxGenerations /\ g = Len(registry) + 1
            /\ generations' = Append(registry, [kind |-> kind, open |-> TRUE])
         \/ g = NoGeneration /\ generations' = registry
  PROVE  /\ generations' \in Seq(Generation)
         /\ Len(generations') <= MaxGenerations
         /\ DOMAIN registry \subseteq DOMAIN generations'
         /\ g \in (DOMAIN generations' \ DOMAIN registry) \cup {NoGeneration}
         /\ Opened' = OpenOf(registry) \cup ({g} \ {NoGeneration})
<1>1. /\ DOMAIN registry = 1..Len(registry) /\ Len(registry) \in Nat /\ MaxGenerations \in Nat
  BY AdmissionAssumption
<1>2. CASE g = NoGeneration /\ generations' = registry
  BY <1>1, <1>2 DEF Opened, OpenOf
<1>3. CASE /\ Len(registry) < MaxGenerations /\ g = Len(registry) + 1
           /\ generations' = Append(registry, [kind |-> kind, open |-> TRUE])
  <2> DEFINE new == [kind |-> kind, open |-> TRUE]
  <2>1. new \in Generation /\ new.open
    BY DEF Generation
  <2> HIDE DEF new
  <2>2. /\ Append(registry, new) \in Seq(Generation)
        /\ Len(Append(registry, new)) = Len(registry) + 1
        /\ DOMAIN Append(registry, new) = 1..(Len(registry) + 1)
        /\ \A i \in 1..Len(registry) : Append(registry, new)[i] = registry[i]
        /\ Append(registry, new)[Len(registry) + 1] = new
    BY <2>1, Appending
  <2>3. generations' = Append(registry, new)
    BY <1>3 DEF new
  <2>4. /\ generations' \in Seq(Generation) /\ Len(generations') = Len(registry) + 1
        /\ DOMAIN generations' = 1..(Len(registry) + 1)
        /\ \A i \in 1..Len(registry) : generations'[i] = registry[i]
        /\ generations'[g].open
    BY <1>3, <2>1, <2>2, <2>3
  <2>5. PICK n \in Nat : n = Len(registry) /\ DOMAIN registry = 1..n /\ n < MaxGenerations /\ g = n + 1
    BY <1>1, <1>3
  <2>6. /\ generations' \in Seq(Generation) /\ Len(generations') = n + 1
        /\ DOMAIN generations' = 1..(n + 1)
        /\ \A i \in 1..n : generations'[i] = registry[i]
        /\ generations'[n + 1].open
    BY <2>4, <2>5
  <2>7. g # NoGeneration /\ g \notin DOMAIN registry /\ g \in DOMAIN generations'
    BY <2>5, <2>6 DEF NoGeneration
  <2>8. Opened' = OpenOf(registry) \cup {g}
    BY <2>5, <2>6 DEF Opened, OpenOf
  <2> QED
    BY <1>1, <2>5, <2>6, <2>7, <2>8
<1> QED
  BY <1>2, <1>3

\* An event that ends a cause settles its generation; one that opens a cause has
\* a generation of its own.
LEMMA CausesStep ==
  ASSUME Registry, Causes, [AdmissionNext]_admissionVars
  PROVE  Registry' /\ Causes'
<1>1. /\ generations \in Seq(Generation) /\ Len(generations) <= MaxGenerations
      /\ intent \in BOOLEAN
      /\ journey \in (DOMAIN generations) \cup {NoGeneration}
      /\ navigation \in (DOMAIN generations) \cup {NoGeneration}
  BY DEF Registry
<1>2. /\ Opened = {journey, navigation} \ {NoGeneration}
      /\ journey # NoGeneration => intent
      /\ journey = navigation => journey = NoGeneration
  BY DEF Causes
<1>3. ASSUME NEW kind \in {"ACTION", "NAVIGATION"}, BeginIntent(kind)
      PROVE  Registry' /\ Causes'
  <2>1. journey = NoGeneration /\ intent' = TRUE /\ navigation' = navigation
    BY <1>2, <1>3 DEF BeginIntent, window
  <2>2. PICK g \in Generations \cup {NoGeneration} : Open(generations, kind, g) /\ journey' = g
    BY <1>3 DEF BeginIntent
  <2>4. /\ generations' \in Seq(Generation) /\ Len(generations') <= MaxGenerations
        /\ DOMAIN generations \subseteq DOMAIN generations'
        /\ g \in (DOMAIN generations' \ DOMAIN generations) \cup {NoGeneration}
        /\ Opened' = Opened \cup ({g} \ {NoGeneration})
    BY <1>1, <1>3, <2>2, OpeningFacts DEF Open, CanOpen, Opened
  <2>5. Registry'
    BY <1>1, <2>1, <2>2, <2>4 DEF Registry
  <2>6. Causes'
    BY <1>1, <1>2, <2>1, <2>2, <2>4 DEF Causes
  <2> QED
    BY <2>5, <2>6
<1>4. ASSUME NEW g, g \in {journey, navigation}, generations' = AfterSettling(generations, g),
             \/ g = journey /\ journey' = NoGeneration /\ intent' = FALSE /\ navigation' = navigation
             \/ g = navigation /\ navigation' = NoGeneration /\ journey' = journey /\ intent' = intent
      PROVE  Registry' /\ Causes'
  <2>1. /\ generations' \in Seq(Generation) /\ Len(generations') = Len(generations)
        /\ DOMAIN generations' = DOMAIN generations
        /\ OpenOf(generations') = Opened \ {g}
    BY <1>4, SettlingFacts
  <2>2. Opened' = Opened \ {g}
    BY <2>1 DEF Opened
  <2>3. Registry'
    BY <1>1, <1>4, <2>1 DEF Registry
  <2>4. Causes'
    BY <1>2, <1>4, <2>2 DEF Causes
  <2> QED
    BY <2>3, <2>4
<1>5. CASE EndIntent
  BY <1>4, <1>5 DEF EndIntent, window
<1>6. ASSUME NEW p \in Pages, Navigate(p)
      PROVE  Registry' /\ Causes'
  <2>1. PICK g \in Generations \cup {NoGeneration} :
           Open(AfterSettling(generations, navigation), "NAVIGATION", g) /\ navigation' = g
    BY <1>6 DEF Navigate
  <2>2. journey' = journey /\ intent' = intent
    BY <1>6 DEF Navigate
  <2>3. /\ AfterSettling(generations, navigation) \in Seq(Generation)
        /\ Len(AfterSettling(generations, navigation)) = Len(generations)
        /\ DOMAIN AfterSettling(generations, navigation) = DOMAIN generations
        /\ OpenOf(AfterSettling(generations, navigation)) = Opened \ {navigation}
    BY SettlingFacts
  <2>4. /\ generations' \in Seq(Generation) /\ Len(generations') <= MaxGenerations
        /\ DOMAIN generations \subseteq DOMAIN generations'
        /\ g \in (DOMAIN generations' \ DOMAIN generations) \cup {NoGeneration}
        /\ Opened' = (Opened \ {navigation}) \cup ({g} \ {NoGeneration})
    BY <1>1, <2>1, <2>3, OpeningFacts DEF Open, CanOpen
  <2>5. Registry'
    BY <1>1, <2>1, <2>2, <2>4 DEF Registry
  <2>6. Causes'
    BY <1>1, <1>2, <2>1, <2>2, <2>4 DEF Causes
  <2> QED
    BY <2>5, <2>6
<1>7. ASSUME UNCHANGED <<generations, intent, journey, navigation>>
      PROVE  Registry' /\ Causes'
  BY <1>7 DEF Registry, Causes, Opened
<1>8. ASSUME NEW which \in 0..1, TimerFires(which)
      PROVE  Registry' /\ Causes'
  BY <1>4, <1>7, <1>8 DEF TimerFires
<1>9. ASSUME NEW p \in Pages, Load(p) \/ ClosePage(p)
      PROVE  Registry' /\ Causes'
  BY <1>7, <1>9 DEF Load, ClosePage
<1>10. ASSUME NEW r \in Requests, Browser(r)
       PROVE  Registry' /\ Causes'
  BY <1>7, <1>10 DEF Browser, Issue, IssueUngated, Forward, Answered, window
<1>11. CASE UNCHANGED admissionVars
  BY <1>7, <1>11 DEF admissionVars
<1> QED
  BY <1>3, <1>5, <1>6, <1>8, <1>9, <1>10, <1>11 DEF AdmissionNext, Window

------------------------------------------------------------------------------
\* The request of a place that is free, on its way to the proxy, or past it.
LEMMA Flights ==
  /\ \A q \in Request : /\ q.at = "none" => q = NoRequest
                        /\ q.at = "sent" => q \in Sent
                        /\ q.at \notin {"none", "sent"} => q \in Past
  /\ \A q \in Past : q.at \in {"upstream", "refused"}
  /\ Sent \cup Past \subseteq Request /\ NoRequest \in Request /\ NoRequest.at = "none"
BY DEF Sent, Past, Request, NoRequest

LEMMA TicketedFinite ==
  ASSUME NEW u
  PROVE  IsFiniteSet(Ticketed(u)) /\ Cardinality(Ticketed(u)) \in Nat
BY AdmissionAssumption, FS_Subset, FS_CardinalityType DEF Ticketed

LEMMA TicketedFinitePrimed ==
  ASSUME NEW u
  PROVE  IsFiniteSet(Ticketed(u)') /\ Cardinality(Ticketed(u)') \in Nat
BY AdmissionAssumption, FS_Subset, FS_CardinalityType DEF Ticketed

\* Fewer ticketed requests, and no fewer tickets.
LEMMA FewerTicketed ==
  ASSUME Ledger, TicketedAreForwarded, overdrawn' = overdrawn,
         \A u \in Urls : Ticketed(u)' \subseteq Ticketed(u),
         fresh' = fresh
  PROVE  TicketedAreForwarded'
<1> SUFFICES ASSUME NEW u \in Urls \ overdrawn
             PROVE  Cardinality(Ticketed(u)') <= fresh[u]
  BY DEF TicketedAreForwarded
<1>1. Cardinality(Ticketed(u)) <= fresh[u] /\ fresh[u] \in Nat
  BY DEF TicketedAreForwarded, Ledger
<1>2. Cardinality(Ticketed(u)') <= Cardinality(Ticketed(u))
  BY TicketedFinite, FS_Subset
<1> QED
  BY <1>1, <1>2, TicketedFinite, TicketedFinitePrimed

\* A request that is not admitted is past the proxy or has no ticket.
LEMMA IssueFacts ==
  ASSUME NEW r \in Requests, NEW u \in Urls, Issue(r, u) \/ IssueUngated(r, u)
  PROVE  /\ request[r].at = "none" /\ overdrawn' = overdrawn
         /\ \E new \in Sent \cup Past :
              /\ request' = [request EXCEPT ![r] = new]
              /\ new.at = "sent" => new.url = u
              /\ \/ Mint(u)
                 \/ (new.at = "sent" => ~new.ticketed) /\ UNCHANGED <<fresh, spent>>
<1>1. CASE Issue(r, u)
  <2> DEFINE decision == Decision(u, Attribution)
             minted == decision.under # NoGeneration /\ CanMint(u)
             during == navigation # NoGeneration
             refused == [at |-> "refused", pending |-> during]
             sent == [at |-> "sent", url |-> u, pending |-> during, ticketed |-> minted]
  <2>1. /\ request[r].at = "none" /\ overdrawn' = overdrawn
        /\ request' = [request EXCEPT ![r] = IF decision.under = NoGeneration THEN refused ELSE sent]
        /\ \/ minted /\ Mint(u)
           \/ ~minted /\ UNCHANGED <<fresh, spent>>
    BY <1>1, Zenon DEF Issue, tickets
  <2>2. during \in BOOLEAN /\ minted \in BOOLEAN
    OBVIOUS
  <2>3. decision.under = NoGeneration => ~minted
    OBVIOUS
  <2> HIDE DEF during, minted, decision
  <2>4. /\ refused \in Past /\ refused.at # "sent"
        /\ sent \in Sent /\ sent.url = u /\ sent.ticketed = minted
    BY <2>2 DEF Past, Sent
  <2> HIDE DEF refused, sent
  <2> QED
    BY <2>1, <2>3, <2>4
<1>2. CASE IssueUngated(r, u)
  <2> DEFINE sent == [at |-> "sent", url |-> u, pending |-> FALSE, ticketed |-> FALSE]
  <2>1. sent \in Sent /\ sent.url = u /\ ~sent.ticketed
    BY DEF Sent
  <2>2. /\ request[r].at = "none" /\ request' = [request EXCEPT ![r] = sent]
        /\ UNCHANGED <<fresh, spent, overdrawn>>
    BY <1>2 DEF IssueUngated, tickets
  <2> HIDE DEF sent
  <2> QED
    BY <2>1, <2>2
<1> QED
  BY <1>1, <1>2

\* An admitted request comes with its ticket, or is known to have none.
LEMMA IssueLedger ==
  ASSUME Ledger, TicketedAreForwarded, NEW r \in Requests, NEW u \in Urls,
         Issue(r, u) \/ IssueUngated(r, u)
  PROVE  Ledger' /\ TicketedAreForwarded'
<1>1. /\ fresh \in [Urls -> Nat] /\ spent \in Nat
      /\ request \in [Requests -> Request] /\ overdrawn \subseteq Urls
  BY DEF Ledger
<1>2. request[r].at = "none" /\ overdrawn' = overdrawn
  BY IssueFacts
<1>3. PICK new \in Sent \cup Past :
         /\ request' = [request EXCEPT ![r] = new]
         /\ new.at = "sent" => new.url = u
         /\ \/ Mint(u)
            \/ (new.at = "sent" => ~new.ticketed) /\ UNCHANGED <<fresh, spent>>
  BY IssueFacts
<1>6. /\ request' \in [Requests -> Request] /\ request'[r] = new
      /\ \A s \in Requests \ {r} : request'[s] = request[s]
  BY <1>1, <1>3, Flights
<1>7. CASE Mint(u)
  <2>1. /\ fresh' = [fresh EXCEPT ![u] = fresh[u] + 1]
        /\ spent' = spent \/ (spent > 0 /\ spent' = spent - 1)
    BY <1>7 DEF Mint
  <2>2. fresh' \in [Urls -> Nat] /\ spent' \in Nat /\ fresh'[u] = fresh[u] + 1
        /\ \A v \in Urls \ {u} : fresh'[v] = fresh[v]
    BY <1>1, <2>1
  <2>3. TicketedAreForwarded'
    <3> SUFFICES ASSUME NEW v \in Urls \ overdrawn
                 PROVE  Cardinality(Ticketed(v)') <= fresh'[v]
      BY <1>2 DEF TicketedAreForwarded
    <3>1. Cardinality(Ticketed(v)) <= fresh[v] /\ fresh[v] \in Nat
      BY <1>1 DEF TicketedAreForwarded
    <3>2. CASE v = u
      <4>1. Ticketed(v)' \subseteq Ticketed(v) \cup {r}
        BY <1>6 DEF Ticketed
      <4>2. /\ IsFiniteSet(Ticketed(v) \cup {r})
            /\ Cardinality(Ticketed(v) \cup {r}) \in Nat
            /\ Cardinality(Ticketed(v) \cup {r}) <= Cardinality(Ticketed(v)) + 1
        <5>1. /\ IsFiniteSet(Ticketed(v) \cup {r})
              /\ Cardinality(Ticketed(v) \cup {r}) =
                    IF r \in Ticketed(v) THEN Cardinality(Ticketed(v)) ELSE Cardinality(Ticketed(v)) + 1
          BY TicketedFinite, FS_AddElement
        <5> QED
          BY <5>1, TicketedFinite
      <4>3. Cardinality(Ticketed(v)') <= Cardinality(Ticketed(v) \cup {r})
        BY <4>1, <4>2, FS_Subset
      <4> QED
        BY <2>2, <3>1, <3>2, <4>2, <4>3, TicketedFinite, TicketedFinitePrimed
    <3>3. CASE v # u
      <4>1. Ticketed(v)' \subseteq Ticketed(v)
        BY <1>3, <1>6, <3>3 DEF Ticketed
      <4>2. Cardinality(Ticketed(v)') <= Cardinality(Ticketed(v))
        BY <4>1, TicketedFinite, FS_Subset
      <4> QED
        BY <2>2, <3>1, <3>3, <4>2, TicketedFinite, TicketedFinitePrimed
    <3> QED
      BY <3>2, <3>3
  <2> QED
    BY <1>1, <1>2, <1>6, <2>2, <2>3 DEF Ledger
<1>8. CASE (new.at = "sent" => ~new.ticketed) /\ UNCHANGED <<fresh, spent>>
  <2>1. \A v \in Urls : Ticketed(v)' \subseteq Ticketed(v)
    BY <1>6, <1>8 DEF Ticketed
  <2> QED
    BY <1>1, <1>2, <1>6, <1>8, <2>1, FewerTicketed DEF Ledger
<1> QED
  BY <1>3, <1>7, <1>8

\* A request is forwarded on a ticket of its own, or overdraws the URL it takes from.
LEMMA ForwardLedger ==
  ASSUME Ledger, TicketedAreForwarded, NEW r \in Requests, Forward(r)
  PROVE  Ledger' /\ TicketedAreForwarded'
<1>1. /\ fresh \in [Urls -> Nat] /\ spent \in Nat
      /\ request \in [Requests -> Request] /\ overdrawn \subseteq Urls
  BY DEF Ledger
<1>2. request[r] \in Sent /\ request[r].at = "sent" /\ request[r].pending \in BOOLEAN
  <2>1. request[r] \in Sent /\ request[r].at = "sent"
    BY <1>1, Flights DEF Forward
  <2> QED
    BY <2>1 DEF Sent
<1>4. ASSUME NEW place \in {"upstream", "refused"},
             request' = [request EXCEPT ![r] = [at |-> place, pending |-> request[r].pending]]
      PROVE  /\ request' \in [Requests -> Request] /\ request'[r].at # "sent"
             /\ \A s \in Requests \ {r} : request'[s] = request[s]
  <2> DEFINE past == [at |-> place, pending |-> request[r].pending]
  <2>1. past \in Past
    BY <1>2 DEF Past
  <2>2. request' = [request EXCEPT ![r] = past]
    BY <1>4
  <2>3. past \in Request /\ past.at # "sent"
    BY <2>1, Flights
  <2> HIDE DEF past
  <2> QED
    BY <1>1, <2>2, <2>3
<1>5. ASSUME NEW u \in Fitting(request[r].url),
             fresh' = [fresh EXCEPT ![u] = @ - 1], spent' = spent + 1,
             request' = [request EXCEPT ![r] = [at |-> "upstream", pending |-> @.pending]],
             overdrawn' = IF request[r].ticketed /\ u = request[r].url
                          THEN overdrawn ELSE overdrawn \cup {u}
      PROVE  Ledger' /\ TicketedAreForwarded'
  <2>1. /\ request' \in [Requests -> Request] /\ request'[r].at # "sent"
        /\ \A s \in Requests \ {r} : request'[s] = request[s]
    BY <1>4, <1>5
  <2>2. u \in Urls /\ fresh[u] > 0
    BY <1>5 DEF Fitting
  <2>3. fresh' \in [Urls -> Nat] /\ spent' \in Nat /\ fresh'[u] = fresh[u] - 1
        /\ \A v \in Urls \ {u} : fresh'[v] = fresh[v]
    BY <1>1, <1>5, <2>2
  <2>4. overdrawn' \subseteq Urls /\ overdrawn \subseteq overdrawn'
    BY <1>1, <1>5, <2>2
  <2>5. TicketedAreForwarded'
    <3> SUFFICES ASSUME NEW v \in Urls \ overdrawn'
                 PROVE  Cardinality(Ticketed(v)') <= fresh'[v]
      BY DEF TicketedAreForwarded
    <3>1. v \in Urls \ overdrawn
      BY <2>4
    <3>2. Cardinality(Ticketed(v)) <= fresh[v] /\ fresh[v] \in Nat
      BY <1>1, <3>1 DEF TicketedAreForwarded
    <3>3. Ticketed(v)' \subseteq Ticketed(v) \ {r}
      BY <2>1 DEF Ticketed
    <3>4. /\ IsFiniteSet(Ticketed(v) \ {r}) /\ Cardinality(Ticketed(v) \ {r}) \in Nat
          /\ Cardinality(Ticketed(v)') <= Cardinality(Ticketed(v) \ {r})
          /\ Cardinality(Ticketed(v) \ {r}) =
                IF r \in Ticketed(v) THEN Cardinality(Ticketed(v)) - 1 ELSE Cardinality(Ticketed(v))
      BY <3>3, TicketedFinite, FS_RemoveElement, FS_Subset, FS_CardinalityType
    <3>5. v = u => r \in Ticketed(v)
      <4>1. v = u => request[r].ticketed /\ u = request[r].url
        BY <1>5
      <4> QED
        BY <1>2, <4>1 DEF Ticketed
    <3> QED
      BY <2>3, <3>1, <3>2, <3>4, <3>5, TicketedFinite, TicketedFinitePrimed
  <2> QED
    BY <2>1, <2>3, <2>4, <2>5 DEF Ledger
<1>6. CASE /\ request' = [request EXCEPT ![r] = [at |-> "refused", pending |-> @.pending]]
           /\ UNCHANGED tickets
  <2>1. /\ request' \in [Requests -> Request] /\ request'[r].at # "sent"
        /\ \A s \in Requests \ {r} : request'[s] = request[s]
    BY <1>4, <1>6
  <2>2. \A v \in Urls : Ticketed(v)' \subseteq Ticketed(v)
    BY <2>1 DEF Ticketed
  <2> QED
    BY <1>1, <1>6, <2>1, <2>2, FewerTicketed DEF Ledger, tickets
<1> QED
  BY <1>5, <1>6 DEF Forward

\* An answer and a navigation admit nothing.
LEMMA LedgerStep ==
  ASSUME Ledger, TicketedAreForwarded, [AdmissionNext]_admissionVars
  PROVE  Ledger' /\ TicketedAreForwarded'
<1>1. /\ fresh \in [Urls -> Nat] /\ spent \in Nat
      /\ request \in [Requests -> Request] /\ overdrawn \subseteq Urls
  BY DEF Ledger
<1>2. ASSUME UNCHANGED tickets, request' \in [Requests -> Request],
             \A r \in Requests : request'[r].at = "sent" =>
                /\ request[r].at = "sent"
                /\ request'[r].ticketed = request[r].ticketed /\ request'[r].url = request[r].url
      PROVE  Ledger' /\ TicketedAreForwarded'
  <2>1. \A v \in Urls : Ticketed(v)' \subseteq Ticketed(v)
    BY <1>2 DEF Ticketed
  <2> QED
    BY <1>1, <1>2, <2>1, FewerTicketed DEF Ledger, tickets
<1>3. ASSUME UNCHANGED <<tickets, request>>
      PROVE  Ledger' /\ TicketedAreForwarded'
  BY <1>1, <1>2, <1>3
<1>4. ASSUME NEW r \in Requests, Answered(r)
      PROVE  Ledger' /\ TicketedAreForwarded'
  <2>1. request' = [request EXCEPT ![r] = NoRequest] /\ UNCHANGED tickets
    BY <1>4 DEF Answered
  <2> QED
    BY <1>1, <1>2, <2>1, Flights
<1>5. ASSUME NEW p \in Pages, Navigate(p)
      PROVE  Ledger' /\ TicketedAreForwarded'
  <2>1. UNCHANGED tickets
    BY <1>5 DEF Navigate
  <2>2. request' = [r \in Requests |-> IF r \in Pending THEN [request[r] EXCEPT !.pending = FALSE]
                                                         ELSE request[r]]
    BY <1>5 DEF Navigate
  <2>3. ASSUME NEW r \in Requests
        PROVE  /\ request'[r] \in Request
               /\ request'[r].at = "sent" =>
                    /\ request[r].at = "sent"
                    /\ request'[r].ticketed = request[r].ticketed /\ request'[r].url = request[r].url
    <3>1. CASE r \in Pending
      <4>1. request[r] \in Sent \cup Past
        BY <1>1, <3>1, Flights DEF Pending
      <4> DEFINE late == [request[r] EXCEPT !.pending = FALSE]
      <4>2. request[r] \in Sent => late \in Sent /\ late.ticketed = request[r].ticketed
                                   /\ late.url = request[r].url /\ request[r].at = "sent"
        BY DEF Sent
      <4>3. request[r] \in Past => late \in Past
        BY DEF Past
      <4>4. request'[r] = late
        BY <2>2, <3>1
      <4> HIDE DEF late
      <4> QED
        BY <4>1, <4>2, <4>3, <4>4, Flights
    <3>2. CASE r \notin Pending
      BY <1>1, <2>2, <3>2
    <3> QED
      BY <3>1, <3>2
  <2>4. request' \in [Requests -> Request]
    BY <2>2, <2>3
  <2> QED
    BY <1>2, <2>1, <2>3, <2>4
<1>6. ASSUME NEW p \in Pages, Load(p) \/ ClosePage(p)
      PROVE  Ledger' /\ TicketedAreForwarded'
  BY <1>3, <1>6 DEF Load, ClosePage
<1>7. ASSUME NEW which \in 0..1, TimerFires(which)
      PROVE  Ledger' /\ TicketedAreForwarded'
  BY <1>3, <1>7 DEF TimerFires
<1>8. ASSUME NEW kind \in {"ACTION", "NAVIGATION"}, BeginIntent(kind)
      PROVE  Ledger' /\ TicketedAreForwarded'
  BY <1>3, <1>8 DEF BeginIntent
<1>9. CASE EndIntent
  BY <1>3, <1>9 DEF EndIntent
<1>10. CASE UNCHANGED admissionVars
  BY <1>3, <1>10 DEF admissionVars, tickets
<1> QED
  BY <1>4, <1>5, <1>6, <1>7, <1>8, <1>9, <1>10, IssueLedger, ForwardLedger
  DEF AdmissionNext, Window, Browser

------------------------------------------------------------------------------
\* A request is attributed to a generation of the registry, to none or to several.
LEMMA AttributionFacts ==
  ASSUME Registry
  PROVE  Attribution \in (DOMAIN generations) \cup {NoGeneration, Ambiguous}
<1>1. Opened \subseteq DOMAIN generations
  BY DEF Opened, OpenOf
<1>2. Cardinality(Opened) = 1 => Opened # {}
  BY FS_EmptySet
<1>3. Opened # {} => (CHOOSE g \in Opened : TRUE) \in Opened
  OBVIOUS
<1> QED
  BY <1>1, <1>3 DEF Registry, Attribution

\* The bootstrap units of a navigation are counted up to their limit.
LEMMA BudgetStep ==
  ASSUME Registry, Budget, [AdmissionNext]_admissionVars
  PROVE  Budget'
<1>1. units \in [Generations -> [Exempt -> 0..MaxUnits]] /\ MaxUnits \in Nat
  BY AdmissionAssumption DEF Budget
<1>2. ASSUME NEW r \in Requests, NEW u \in Urls, Issue(r, u)
      PROVE  Budget'
  <2>1. PICK takes : /\ takes = Decision(u, Attribution).takes
                     /\ units' = IF takes = NoGeneration THEN units
                                 ELSE [units EXCEPT ![takes][u] = @ + 1]
    BY <1>2 DEF Issue
  <2>2. takes # NoGeneration =>
          takes \in Generations /\ u \in Exempt /\ units[takes][u] < MaxUnits
    <3>1. PICK attribution : attribution = Attribution
      OBVIOUS
    <3>2. PICK scope : scope = IF generations[attribution].kind = "NAVIGATION"
                                 THEN attribution ELSE navigation
      OBVIOUS
    <3>3. takes = IF attribution \in {NoGeneration, Ambiguous} \/ u \in Proven THEN NoGeneration
                  ELSE IF scope # NoGeneration /\ units[scope][u] < MaxUnits THEN scope
                  ELSE NoGeneration
      BY <2>1, <3>1, <3>2 DEF Decision
    <3>4. attribution \notin {NoGeneration, Ambiguous} => scope \in Generations \cup {NoGeneration}
      <4>1. attribution \in (DOMAIN generations) \cup {NoGeneration, Ambiguous}
        BY <3>1, AttributionFacts
      <4>2. DOMAIN generations \subseteq Generations
        BY AdmissionAssumption DEF Registry, Generations
      <4> QED
        BY <3>2, <4>1, <4>2 DEF Registry
    <3> QED
      BY <3>3, <3>4 DEF Urls
  <2>3. CASE takes = NoGeneration
    BY <2>1, <2>3 DEF Budget
  <2>4. CASE takes # NoGeneration
    <3>1. units[takes][u] \in Nat /\ units[takes][u] + 1 \in 0..MaxUnits
      BY <1>1, <2>2, <2>4
    <3>2. [units[takes] EXCEPT ![u] = units[takes][u] + 1] \in [Exempt -> 0..MaxUnits]
      BY <1>1, <2>2, <2>4, <3>1
    <3>3. units' = [units EXCEPT ![takes] = [units[takes] EXCEPT ![u] = units[takes][u] + 1]]
      BY <2>1, <2>4
    <3> QED
      BY <1>1, <2>2, <2>4, <3>2, <3>3 DEF Budget
  <2> QED
    BY <2>3, <2>4
<1>3. ASSUME UNCHANGED units
      PROVE  Budget'
  BY <1>1, <1>3 DEF Budget
<1> QED
  BY <1>2, <1>3 DEF AdmissionNext, admissionVars, BeginIntent, EndIntent, Window, Navigate, Load,
                    ClosePage, TimerFires, Browser, IssueUngated, Forward, Answered

\* There is one timer; it is re-armed up to its limit, for pages that are open.
LEMMA TimingStep ==
  ASSUME Timing, [AdmissionNext]_admissionVars
  PROVE  Timing'
<1>1. /\ loaded \in BOOLEAN /\ loading \subseteq pages /\ pages \subseteq Pages
      /\ timer \in [armed : BOOLEAN, which : 0..1] /\ rearms \in 0..MaxRearms
      /\ MaxRearms \in Nat
  BY AdmissionAssumption DEF Timing
<1>2. /\ Cleared \in [armed : BOOLEAN, which : 0..1]
      /\ \A isLoaded \in BOOLEAN : Armed(isLoaded) \in [armed : BOOLEAN, which : 0..1]
  <2>1. Cleared \in [armed : BOOLEAN, which : 0..1]
    BY <1>1 DEF Cleared
  <2>2. [armed |-> TRUE, which |-> 1 - timer.which] \in [armed : BOOLEAN, which : 0..1]
    <3>1. 1 - timer.which \in 0..1
      BY <1>1
    <3> QED
      BY <3>1
  <2> QED
    BY <1>1, <2>1, <2>2 DEF Armed
<1>3. ASSUME UNCHANGED window
      PROVE  Timing'
  BY <1>1, <1>3 DEF Timing, window
<1>4. ASSUME NEW p \in Pages, Navigate(p) \/ Load(p) \/ ClosePage(p)
      PROVE  Timing'
  <2>1. CASE Navigate(p)
    <3>1. /\ loaded' = FALSE /\ rearms' = 0 /\ timer' = Cleared /\ p \in pages
          /\ loading' \in {loading, loading \cup {p}} /\ pages' = pages
      BY <2>1 DEF Navigate
    <3>2. 0 \in 0..MaxRearms
      BY <1>1
    <3> QED
      BY <1>1, <1>2, <3>1, <3>2 DEF Timing
  <2>2. CASE Load(p)
    BY <1>1, <1>2, <2>2 DEF Timing, Load
  <2>3. CASE ClosePage(p)
    BY <1>1, <1>2, <2>3 DEF Timing, ClosePage
  <2> QED
    BY <1>4, <2>1, <2>2, <2>3
<1>5. ASSUME NEW which \in 0..1, TimerFires(which)
      PROVE  Timing'
  <2>1. /\ UNCHANGED <<loaded, loading, pages>>
        /\ timer' = Armed(loaded) \/ timer' = Cleared
        /\ rearms' = rearms \/ (rearms < MaxRearms /\ rearms' = rearms + 1)
    BY <1>5 DEF TimerFires
  <2>2. rearms' \in 0..MaxRearms
    BY <1>1, <2>1
  <2> QED
    BY <1>1, <1>2, <2>1, <2>2 DEF Timing
<1>6. ASSUME NEW r \in Requests, Answered(r)
      PROVE  Timing'
  BY <1>1, <1>2, <1>6 DEF Timing, Answered
<1> QED
  BY <1>3, <1>4, <1>5, <1>6
  DEF AdmissionNext, admissionVars, BeginIntent, EndIntent, Window, Browser, Issue, IssueUngated, Forward, window

------------------------------------------------------------------------------
\* What beginJourneyIntent, a navigation, its timer, an admission and the proxy
\* do keeps AdmissionInv.
THEOREM AdmissionInvariant == AdmissionSpec => []AdmissionInv
<1>1. AdmissionInit => AdmissionInv
  <2> SUFFICES ASSUME AdmissionInit PROVE AdmissionInv
    OBVIOUS
  <2>0. MaxGenerations \in Nat /\ 0 \in 0..MaxRearms /\ 0 \in 0..MaxUnits
    BY AdmissionAssumption
  <2>1. /\ generations = <<>> /\ generations \in Seq(Generation)
        /\ Len(generations) = 0 /\ DOMAIN generations = {}
    BY DEF AdmissionInit
  <2>2. Registry
    <3>1. intent = FALSE /\ journey = NoGeneration /\ navigation = NoGeneration
      BY DEF AdmissionInit
    <3>2. generations \in Seq(Generation) /\ Len(generations) <= MaxGenerations
      BY <2>0, <2>1
    <3> QED
      BY <3>1, <3>2 DEF Registry
  <2>3. Causes
    BY <2>1 DEF AdmissionInit, Causes, Opened, OpenOf
  <2>4. Ledger
    BY Flights DEF AdmissionInit, Ledger
  <2>5. Timing
    <3>1. [armed |-> FALSE, which |-> 0] \in [armed : BOOLEAN, which : 0..1]
      OBVIOUS
    <3> QED
      BY <2>0, <3>1 DEF AdmissionInit, Timing
  <2>6. Budget
    BY <2>0 DEF AdmissionInit, Budget
  <2>7. TicketedAreForwarded
    <3>1. \A u \in Urls : Ticketed(u) = {} /\ fresh[u] = 0
      BY Flights DEF AdmissionInit, Ticketed
    <3> QED
      BY <3>1, FS_EmptySet DEF TicketedAreForwarded
  <2> QED
    BY <2>2, <2>3, <2>4, <2>5, <2>6, <2>7 DEF AdmissionInv
<1>2. AdmissionInv /\ [AdmissionNext]_admissionVars => AdmissionInv'
  BY CausesStep, LedgerStep, BudgetStep, TimingStep DEF AdmissionInv
<1> QED
  BY <1>1, <1>2, PTL DEF AdmissionSpec

\* The registry, the window, the budgets and the requests keep their shape; in
\* particular a navigation's bootstrap units never pass maxCountPerNavigation.
THEOREM AdmissionTypeCorrect == AdmissionSpec => []AdmissionTypeOK
<1>1. AdmissionInv => AdmissionTypeOK
  BY DEF AdmissionInv, Registry, Ledger, Timing, Budget, AdmissionTypeOK
<1> QED
  BY <1>1, AdmissionInvariant, PTL

\* Whatever supersedes, ends or is refused, a generation is open only as long as
\* its cause, and resolveAttribution is never ambiguous.
THEOREM AuthorityIsNotLeaked == AdmissionSpec => []NoLeakedAuthority
<1>1. AdmissionInv => NoLeakedAuthority
  <2> SUFFICES ASSUME AdmissionInv PROVE NoLeakedAuthority
    OBVIOUS
  <2>1. Registry /\ Causes
    BY DEF AdmissionInv
  <2>2. Attribution # Ambiguous
    <3>1. \A g \in (DOMAIN generations) \cup {NoGeneration} : g # Ambiguous
      BY <2>1 DEF Registry, NoGeneration, Ambiguous
    <3>2. ~(intent /\ journey # NoGeneration) => Opened \in {{}, {navigation}}
      BY <2>1 DEF Causes
    <3>3. Opened = {navigation} => Cardinality(Opened) = 1
      BY FS_Singleton
    <3>4. Opened # {} => (CHOOSE g \in Opened : TRUE) \in Opened
      OBVIOUS
    <3>5. Opened \subseteq DOMAIN generations
      BY DEF Opened, OpenOf
    <3>6. journey \in (DOMAIN generations) \cup {NoGeneration}
      BY <2>1 DEF Registry
    <3> QED
      BY <3>1, <3>2, <3>3, <3>4, <3>5, <3>6 DEF Attribution
  <2> QED
    BY <2>1, <2>2 DEF Causes, NoLeakedAuthority
<1> QED
  BY <1>1, AdmissionInvariant, PTL

\* The proxy finds a ticket for every ticketed request of a URL none of whose
\* tickets went to a request that had none of it, whatever patterns overlap.
THEOREM TicketsAreThere == AdmissionSpec => []TicketedAreForwarded
<1>1. AdmissionInv => TicketedAreForwarded
  BY DEF AdmissionInv
<1> QED
  BY <1>1, AdmissionInvariant, PTL

==============================================================================
