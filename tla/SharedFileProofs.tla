--------------------------- MODULE SharedFileProofs ---------------------------
(***************************************************************************)
(* Theorems about the two components whose state is files that processes   *)
(* share without a lock, for any number of processes.                      *)
(*                                                                         *)
(* The checkpoint store: one inductive invariant, StoreInv.  What is       *)
(* staged carries the generation after the observed one, the second look   *)
(* stays true until another process moves the slot, and documents in       *)
(* flight are unlike any document ever seen or refused.                    *)
(*                                                                         *)
(* The leases of the proxy's ports: one inductive invariant, LeaseInv.     *)
(* Until an unlink hits a file it was not meant for, the lease a process   *)
(* is making or counts on is the file at its path, or its line has         *)
(* released it.                                                            *)
(***************************************************************************)
EXTENDS CheckpointStore, PortLease, TLAPS

\* storedCheckpointGeneration returns a generation for every readable slot.
LEMMA GenerationIsNat ==
    ASSUME NEW s \in Doc \cup {Absent}
    PROVE  StoredGeneration(s) \in Nat
  BY SlotValuesAssumption DEF StoredGeneration, Doc

\* Sessions: what starting, ending and dying preserve.
LEMMA SessionPreserves ==
    ASSUME StoreInv, NEW p \in Procs, Session(p) \/ Crash(p)
    PROVE  StoreInv'
<1> USE DEF StoreInv, Goto, SlotMovedBy, history, Known, Places
<1>1. CASE StartFresh(p)
  <2> USE <1>1 DEF StartFresh
  <2>1. TypeOK' BY DEF TypeOK
  <2>2. StagedUnderNext' /\ IdleOwnsNoTemporary'
    BY DEF TypeOK, StagedUnderNext, IdleOwnsNoTemporary
  <2>3. SecondLookHolds'
    BY DEF TypeOK, SecondLookHolds, SameGeneration
  <2>4. NoDamageWhilePublishing'
    BY SlotValuesAssumption DEF TypeOK, NoDamageWhilePublishing, Readable
  <2>5. InFlightIsNew'
    BY SlotValuesAssumption DEF TypeOK, InFlightIsNew
  <2>6. RefusedNeverVisible'
    BY SlotValuesAssumption DEF TypeOK, RefusedNeverVisible
  <2>7. QED BY <2>1, <2>2, <2>3, <2>4, <2>5, <2>6
<1>2. CASE StartFreshUnmoved(p) \/ StartResume(p) \/ EndKeep(p)
  <2> USE <1>2 DEF StartFreshUnmoved, StartResume, EndKeep
  <2>1. TypeOK' BY DEF TypeOK
  <2>2. StagedUnderNext' /\ IdleOwnsNoTemporary'
    BY DEF TypeOK, StagedUnderNext, IdleOwnsNoTemporary
  <2>3. SecondLookHolds' /\ NoDamageWhilePublishing'
    BY DEF TypeOK, SecondLookHolds, SameGeneration, NoDamageWhilePublishing
  <2>4. InFlightIsNew' /\ RefusedNeverVisible'
    BY DEF TypeOK, InFlightIsNew, RefusedNeverVisible
  <2>5. QED BY <2>1, <2>2, <2>3, <2>4
<1>3. CASE EndDelete(p)
  <2> USE <1>3 DEF EndDelete
  <2>1. TypeOK' BY DEF TypeOK
  <2>2. StagedUnderNext' /\ IdleOwnsNoTemporary'
    BY DEF TypeOK, StagedUnderNext, IdleOwnsNoTemporary
  <2>3. SecondLookHolds'
    BY DEF TypeOK, SecondLookHolds, SameGeneration
  <2>4. NoDamageWhilePublishing'
    BY SlotValuesAssumption DEF TypeOK, NoDamageWhilePublishing, Readable
  <2>5. InFlightIsNew' /\ RefusedNeverVisible'
    BY SlotValuesAssumption DEF TypeOK, InFlightIsNew, RefusedNeverVisible
  <2>6. QED BY <2>1, <2>2, <2>3, <2>4, <2>5
<1>4. CASE Crash(p)
  <2> USE <1>4 DEF Crash
  <2>1. TypeOK' BY DEF TypeOK
  <2>2. StagedUnderNext' /\ IdleOwnsNoTemporary'
    BY DEF TypeOK, StagedUnderNext, IdleOwnsNoTemporary
  <2>3. SecondLookHolds' /\ NoDamageWhilePublishing'
    BY DEF TypeOK, SecondLookHolds, SameGeneration, NoDamageWhilePublishing
  <2>4. InFlightIsNew' /\ RefusedNeverVisible'
    BY SlotValuesAssumption DEF TypeOK, InFlightIsNew, RefusedNeverVisible
  <2>5. QED BY <2>1, <2>2, <2>3, <2>4
<1>5. QED BY <1>1, <1>2, <1>3, <1>4 DEF Session

\* Looking, staging and giving up.
LEMMA StagingPreserves ==
    ASSUME StoreInv, NEW p \in Procs, Open(p) \/ Stage(p) \/ StageFails(p) \/ Return(p)
    PROVE  StoreInv'
<1> USE DEF StoreInv, Goto, history, Known, Places
<1>1. CASE Open(p)
  <2> USE <1>1 DEF Open, Readable
  <2>0. slot \in Doc \cup {Absent} /\ StoredGeneration(slot) \in Nat
    BY GenerationIsNat DEF TypeOK
  <2>1. TypeOK' BY <2>0 DEF TypeOK
  <2>2. StagedUnderNext' /\ IdleOwnsNoTemporary'
    BY DEF TypeOK, StagedUnderNext, IdleOwnsNoTemporary
  <2>3. SecondLookHolds' /\ NoDamageWhilePublishing'
    BY DEF TypeOK, SecondLookHolds, SameGeneration, NoDamageWhilePublishing
  <2>4. InFlightIsNew' /\ RefusedNeverVisible'
    BY SlotValuesAssumption DEF TypeOK, InFlightIsNew, RefusedNeverVisible
  <2>5. QED BY <2>1, <2>2, <2>3, <2>4
<1>2. CASE Stage(p)
  <2> USE <1>2 DEF Stage
  <2> DEFINE d == [gen |-> observed[p] + 1, id |-> nextId]
  <2>0. d \in Doc /\ d.gen = observed[p] + 1 /\ d.id = nextId
    BY DEF TypeOK, Doc
  <2>1. TypeOK' BY <2>0 DEF TypeOK
  <2>2. StagedUnderNext' /\ IdleOwnsNoTemporary'
    BY <2>0 DEF TypeOK, StagedUnderNext, IdleOwnsNoTemporary
  <2>3. SecondLookHolds' /\ NoDamageWhilePublishing'
    BY DEF TypeOK, SecondLookHolds, SameGeneration, NoDamageWhilePublishing
  <2>4. InFlightIsNew'
    <3>1. \A e \in Doc : e.id \in Nat BY DEF Doc
    <3>2. d \notin Known BY <2>0, <3>1 DEF InFlightIsNew, TypeOK
    <3>3. \A q \in Procs : q # p => temp[q] # d
      BY <2>0, <3>1 DEF InFlightIsNew, TypeOK
    <3>4. temp'[p] = d /\ \A q \in Procs : q # p => temp'[q] = temp[q]
      BY DEF TypeOK
    <3> HIDE DEF d
    <3>5. QED BY <2>0, <3>1, <3>2, <3>3, <3>4 DEF TypeOK, InFlightIsNew
  <2>5. RefusedNeverVisible' BY DEF RefusedNeverVisible
  <2>6. QED BY <2>1, <2>2, <2>3, <2>4, <2>5
<1>3. CASE StageFails(p) \/ Return(p)
  <2> USE <1>3 DEF StageFails, Return, DropTemp
  <2>1. TypeOK' BY DEF TypeOK
  <2>2. StagedUnderNext' /\ IdleOwnsNoTemporary'
    BY DEF TypeOK, StagedUnderNext, IdleOwnsNoTemporary
  <2>3. SecondLookHolds' /\ NoDamageWhilePublishing'
    BY DEF TypeOK, SecondLookHolds, SameGeneration, NoDamageWhilePublishing
  <2>4. InFlightIsNew' /\ RefusedNeverVisible'
    BY SlotValuesAssumption DEF TypeOK, InFlightIsNew, RefusedNeverVisible
  <2>5. QED BY <2>1, <2>2, <2>3, <2>4
<1>4. QED BY <1>1, <1>2, <1>3

\* The second look and the rename.
LEMMA CommitPreserves ==
    ASSUME StoreInv, NEW p \in Procs, Compare(p) \/ Conflict(p) \/ Rename(p)
    PROVE  StoreInv'
<1> USE DEF StoreInv, Goto, SlotMovedBy, Known, Places
<1>1. CASE Compare(p)
  <2> USE <1>1 DEF Compare
  <2>1. TypeOK' BY DEF TypeOK
  <2>2. StagedUnderNext' /\ IdleOwnsNoTemporary'
    BY DEF TypeOK, StagedUnderNext, IdleOwnsNoTemporary
  <2>3. SecondLookHolds' /\ NoDamageWhilePublishing'
    BY DEF TypeOK, SecondLookHolds, SameGeneration, NoDamageWhilePublishing
  <2>4. InFlightIsNew' /\ RefusedNeverVisible'
    BY DEF TypeOK, InFlightIsNew, RefusedNeverVisible
  <2>5. QED BY <2>1, <2>2, <2>3, <2>4
<1>2. CASE Conflict(p)
  <2> USE <1>2 DEF Conflict, DropTemp
  <2>0. temp[p] \in Doc /\ temp[p] \notin Known BY DEF StagedUnderNext, InFlightIsNew
  <2>1. TypeOK' BY <2>0 DEF TypeOK
  <2>2. StagedUnderNext' /\ IdleOwnsNoTemporary'
    BY DEF TypeOK, StagedUnderNext, IdleOwnsNoTemporary
  <2>3. SecondLookHolds' /\ NoDamageWhilePublishing'
    BY DEF TypeOK, SecondLookHolds, SameGeneration, NoDamageWhilePublishing
  <2>4. InFlightIsNew'
    BY <2>0, SlotValuesAssumption DEF TypeOK, InFlightIsNew
  <2>5. RefusedNeverVisible' BY <2>0 DEF RefusedNeverVisible
  <2>6. QED BY <2>1, <2>2, <2>3, <2>4, <2>5
<1>3. CASE Rename(p)
  <2> USE <1>3 DEF Rename
  <2>0. temp[p] \in Doc /\ temp[p] \notin Known BY DEF StagedUnderNext, InFlightIsNew
  <2>1. TypeOK' BY <2>0 DEF TypeOK
  <2>2. StagedUnderNext' /\ IdleOwnsNoTemporary'
    BY DEF TypeOK, StagedUnderNext, IdleOwnsNoTemporary
  <2>3. SecondLookHolds'
    BY DEF TypeOK, SecondLookHolds, SameGeneration
  <2>4. NoDamageWhilePublishing'
    BY <2>0, SlotValuesAssumption DEF TypeOK, NoDamageWhilePublishing, Readable
  <2>5. InFlightIsNew'
    BY <2>0, SlotValuesAssumption DEF TypeOK, InFlightIsNew
  <2>6. RefusedNeverVisible' BY <2>0 DEF RefusedNeverVisible
  <2>7. QED BY <2>1, <2>2, <2>3, <2>4, <2>5, <2>6
<1>4. QED BY <1>1, <1>2, <1>3

LEMMA StutterPreserves ==
    ASSUME StoreInv, UNCHANGED vars
    PROVE  StoreInv'
  BY DEF StoreInv, vars, TypeOK, StagedUnderNext, SecondLookHolds, SameGeneration,
         StoredGeneration, Readable, NoDamageWhilePublishing, InFlightIsNew, Known,
         RefusedNeverVisible, IdleOwnsNoTemporary

\* The inductive invariant holds of every behaviour of the store.
THEOREM StoreInvariant == Spec => []StoreInv
<1>1. Init => StoreInv
  <2> SUFFICES ASSUME Init PROVE StoreInv OBVIOUS
  <2> USE SlotValuesAssumption DEF Init, LegacyDoc, Doc
  <2>1. TypeOK BY DEF TypeOK, Places
  <2>2. StagedUnderNext /\ SecondLookHolds /\ NoDamageWhilePublishing
    BY DEF StagedUnderNext, SecondLookHolds, NoDamageWhilePublishing
  <2>3. InFlightIsNew BY DEF InFlightIsNew, Known
  <2>4. RefusedNeverVisible /\ IdleOwnsNoTemporary
    BY DEF RefusedNeverVisible, IdleOwnsNoTemporary
  <2>5. QED BY <2>1, <2>2, <2>3, <2>4 DEF StoreInv
<1>2. StoreInv /\ [Next]_vars => StoreInv'
  BY SessionPreserves, StagingPreserves, CommitPreserves, StutterPreserves
  DEF Next, Publish
<1>3. QED BY <1>1, <1>2, PTL DEF Spec

\* Type correctness of the store (every operation of checkpointStore.ts).
THEOREM TypeCorrect == Spec => []TypeOK
<1>1. StoreInv => TypeOK BY DEF StoreInv
<1>2. QED BY <1>1, StoreInvariant, PTL

\* A document refused with CHECKPOINT_GENERATION_CONFLICT is never visible.
THEOREM RefusalIsFinal == Spec => []RefusedNeverVisible
<1>1. StoreInv => RefusedNeverVisible BY DEF StoreInv
<1>2. QED BY <1>1, StoreInvariant, PTL

\* A rename that nobody overtook since the second look advances the observed
\* generation by one.
THEOREM GenerationAdvances == Spec => UnracedRenameAdvances
<1>1. ASSUME StoreInv
      PROVE  [\A p \in Procs : Rename(p) /\ ~raced[p] => AdvancesObserved(p)]_vars
  BY <1>1 DEF StoreInv, Rename, SecondLookHolds, StagedUnderNext, SameGeneration,
              AdvancesObserved
<1>2. QED BY <1>1, StoreInvariant, PTL DEF UnracedRenameAdvances

\* The store implements the atomic slot: every step of every process is one of
\* the three atomic moves or leaves both files alone.
THEOREM StoreImplementsSlot == Spec => AtomicSlot
<1>1. Init => Slot!SlotInit
  BY DEF Init, Slot!SlotInit, LegacyDoc, Doc
<1>2. ASSUME StoreInv, [Next]_vars PROVE [Slot!SlotNext]_(Slot!slotVars)
  <2> USE DEF Slot!SlotNext, Slot!slotVars
  <2>1. ASSUME NEW p \in Procs, Rename(p) PROVE Slot!Install
    BY <1>2, <2>1 DEF StoreInv, Rename, StagedUnderNext, NoDamageWhilePublishing,
                      Readable, Slot!Install
  <2>2. ASSUME NEW p \in Procs, Session(p) \/ Crash(p) PROVE [Slot!SlotNext]_(Slot!slotVars)
    BY <2>2 DEF Session, StartFresh, StartFreshUnmoved, StartResume, EndKeep, EndDelete,
                Crash, Slot!Aside, Slot!Clear
  <2>3. ASSUME NEW p \in Procs, Open(p) \/ Stage(p) \/ StageFails(p) \/ Compare(p)
                                \/ Conflict(p) \/ Return(p)
        PROVE  UNCHANGED <<slot, superseded>>
    BY <2>3 DEF Open, Stage, StageFails, Compare, Conflict, Return
  <2>4. CASE UNCHANGED vars BY <2>4 DEF vars
  <2>5. QED BY <1>2, <2>1, <2>2, <2>3, <2>4 DEF Next, Publish
<1>3. QED BY <1>1, <1>2, StoreInvariant, PTL DEF Spec, AtomicSlot, Slot!SlotSpec

------------------------------------------------------------------------------
(* The leases of the proxy's ports *)

\* A process is where its life allows, and what it judged stale stays stale.
Lives == /\ \A p \in Processes \ alive : place[p] \in Ended
         /\ \A p \in Processes : place[p] = "stale" => seen[p].whole /\ seen[p].by \notin alive

\* A token is that of a process that reserved, and has it itself.
Lines == \A p \in Processes :
    /\ holds[p] # None => holds[holds[p]] = holds[p]
    /\ place[p] \in Reserving \cup {"idle"} => holds[p] = None
    /\ place[p] = "heir" => holds[p] # p
    /\ place[p] \in {"heir", "held", "serving", "closing", "unlink"} => holds[p] # None

\* The lease that a process is making, or counts on, is the file at its path;
\* or its line has released it.
Standing == \A t \in Processes :
    /\ place[t] = "write" => lease[at[t]] = Half(t)
    /\ place[t] \in {"probe", "drop"} => lease[at[t]] = Whole(t)
    /\ holds[t] = t /\ t \in alive =>
          \/ lease[at[t]] = Whole(t)
          \/ \E p \in Processes : holds[p] = t /\ place[p] = "released"

LeaseInv == LeaseTypeOK /\ Lives /\ Lines /\ (stolen \/ Standing)

------------------------------------------------------------------------------
\* The files of different processes differ, whole or half.
LEMMA Files ==
  /\ \A p \in Processes \cup {Ghost} :
        /\ Whole(p) \in File /\ Half(p) \in File
        /\ Whole(p).whole /\ ~Half(p).whole
        /\ Whole(p).by = p /\ Half(p).by = p
        /\ Whole(p) # NoFile /\ Half(p) # NoFile
  /\ ~NoFile.whole
  /\ \A f \in File : f.whole => f = Whole(f.by)
BY PortLeaseAssumption DEF File, Whole, Half, NoFile

\* A process changes its own place and candidate only.
LEMMA AdvanceFacts ==
  ASSUME LeaseTypeOK, NEW p \in Processes, Advance(p)
  PROVE  /\ at' \in [Processes -> Ports]
         /\ \E next \in {"read", "exhausted"} : place' = [place EXCEPT ![p] = next]
         /\ \A q \in Processes \ {p} : at'[q] = at[q]
<1>1. CASE at[p] < CandidateCount
  <2>1. at[p] + 1 \in Ports
    BY <1>1, PortLeaseAssumption DEF LeaseTypeOK, Ports
  <2>2. at' = [at EXCEPT ![p] = at[p] + 1] /\ place' = [place EXCEPT ![p] = "read"]
    BY <1>1 DEF Advance, Move
  <2> QED
    BY <2>1, <2>2 DEF LeaseTypeOK
<1>2. CASE ~(at[p] < CandidateCount)
  BY <1>2 DEF Advance, Move, LeaseTypeOK
<1> QED
  BY <1>1, <1>2

------------------------------------------------------------------------------
(* Every step keeps the invariant. *)

\* What a process does alone while it reserves keeps tokens and lives.
LEMMA ReservingStep ==
  ASSUME LeaseInv, NEW p \in Processes, p \in alive,
         place[p] \in Reserving \cup {"idle"},
         NEW next \in Reserving \cup {"exhausted", "failed"},
         place' = [place EXCEPT ![p] = next],
         at' \in [Processes -> Ports], seen' \in [Processes -> File \cup {NoFile}],
         \A q \in Processes \ {p} : at'[q] = at[q] /\ seen'[q] = seen[q],
         UNCHANGED <<alive, holds, bound, server>>,
         lease' \in [Ports -> File \cup {NoFile}], stolen' \in BOOLEAN,
         next = "stale" => seen'[p].whole /\ seen'[p].by \notin alive,
         stolen => stolen',
         ~stolen' =>
            /\ \A i \in Ports : \/ lease'[i] = lease[i]
                                \/ lease[i].by = p
                                \/ lease[i].by \notin alive
                                \/ lease[i] = NoFile
            /\ next = "write" => lease'[at'[p]] = Half(p)
            /\ next \in {"probe", "drop"} => lease'[at'[p]] = Whole(p)
  PROVE  LeaseInv'
<1>1. LeaseTypeOK /\ Lives /\ Lines
  BY DEF LeaseInv
<1>2. /\ place'[p] = next
      /\ \A q \in Processes \ {p} : place'[q] = place[q]
  BY <1>1 DEF LeaseTypeOK
<1>3. LeaseTypeOK'
  BY <1>1 DEF LeaseTypeOK, Reserving, Ended
<1>4. Lives'
  <2>1. \A q \in Processes \ alive' : place'[q] \in Ended
    BY <1>1, <1>2 DEF Lives
  <2>2. \A q \in Processes : place'[q] = "stale" => seen'[q].whole /\ seen'[q].by \notin alive'
    BY <1>1, <1>2 DEF Lives
  <2> QED
    BY <2>1, <2>2 DEF Lives
<1>5. holds[p] = None /\ holds' = holds
  BY <1>1 DEF Lines
<1>6. Lines'
  BY <1>1, <1>2, <1>5 DEF Lines, Reserving
<1>7. ASSUME ~stolen' PROVE Standing'
  <2>1. Standing
    BY <1>7 DEF LeaseInv
  <2> SUFFICES ASSUME NEW t \in Processes
               PROVE  /\ place'[t] = "write" => lease'[at'[t]] = Half(t)
                      /\ place'[t] \in {"probe", "drop"} => lease'[at'[t]] = Whole(t)
                      /\ holds'[t] = t /\ t \in alive' =>
                            \/ lease'[at'[t]] = Whole(t)
                            \/ \E q \in Processes : holds'[q] = t /\ place'[q] = "released"
    BY DEF Standing
  <2>2. CASE t = p
    <3>1. holds'[t] # t
      BY <1>5, <2>2, PortLeaseAssumption
    <3> QED
      BY <1>2, <1>7, <2>2, <3>1
  <2>3. CASE t # p
    <3>1. at'[t] = at[t] /\ place'[t] = place[t] /\ at[t] \in Ports /\ alive' = alive
      BY <1>1, <1>2, <2>3 DEF LeaseTypeOK
    <3>2. ASSUME t \in alive, lease[at[t]] \in {Half(t), Whole(t)}
          PROVE  lease'[at'[t]] = lease[at[t]]
      BY <1>7, <2>3, <3>1, <3>2, Files
    <3>3. place[t] \in {"write", "probe", "drop"} => t \in alive
      BY <1>1 DEF Lives, Ended
    <3>4. \A q \in Processes : holds[q] = t /\ place[q] = "released" => holds'[q] = t /\ place'[q] = "released"
      BY <1>2, <1>5 DEF Reserving
    <3> QED
      BY <1>5, <2>1, <3>1, <3>2, <3>3, <3>4 DEF Standing
  <2> QED
    BY <2>2, <2>3
<1> QED
  BY <1>3, <1>4, <1>6, <1>7 DEF LeaseInv

\* Removing a path takes away the file it was meant for, or is a theft.
LEMMA UnlinkFacts ==
  ASSUME LeaseTypeOK, NEW i \in Ports, NEW meant, Unlink(i, meant)
  PROVE  /\ lease' \in [Ports -> File \cup {NoFile}] /\ stolen' \in BOOLEAN
         /\ stolen => stolen'
         /\ ~stolen' => /\ ~stolen /\ lease[i] \in {meant, NoFile}
                        /\ lease'[i] = NoFile
                        /\ \A j \in Ports \ {i} : lease'[j] = lease[j]
BY DEF Unlink, LeaseTypeOK

\* Reserving a port, step by step.
LEMMA AllocateSteps ==
  ASSUME LeaseInv, NEW p \in Processes, Reserve(p) \/ Allocate(p)
  PROVE  LeaseInv'
<1>1. LeaseTypeOK /\ Lives /\ Lines
  BY DEF LeaseInv
<1>2. /\ lease \in [Ports -> File \cup {NoFile}] /\ at \in [Processes -> Ports]
      /\ seen \in [Processes -> File \cup {NoFile}] /\ at[p] \in Ports
      /\ stolen \in BOOLEAN
      /\ lease[at[p]] \in File \cup {NoFile} /\ seen[p] \in File \cup {NoFile}
  BY <1>1 DEF LeaseTypeOK, Reserving, Ended
<1>3. CASE Reserve(p)
  <2>1. p \in alive /\ place[p] = "idle" /\ place' = [place EXCEPT ![p] = "read"]
        /\ UNCHANGED <<lease, alive, at, seen, holds, bound, server, stolen>>
    BY <1>3 DEF Reserve, At, Move
  <2>2. "read" \in Reserving
    BY DEF Reserving
  <2> QED
    BY <1>2, <2>1, <2>2, ReservingStep
<1>4. CASE ReadLease(p)
  <2>1. p \in alive /\ place[p] = "read" /\ place' = [place EXCEPT ![p] = "judge"]
        /\ seen' = [seen EXCEPT ![p] = lease[at[p]]]
        /\ UNCHANGED <<lease, alive, at, holds, bound, server, stolen>>
    BY <1>4 DEF ReadLease, At, Move
  <2>2. "read" \in Reserving /\ "judge" \in Reserving
    BY DEF Reserving
  <2>3. seen' \in [Processes -> File \cup {NoFile}]
        /\ \A q \in Processes \ {p} : seen'[q] = seen[q]
    BY <1>2, <2>1
  <2> QED
    BY <1>2, <2>1, <2>2, <2>3, ReservingStep
<1>5. CASE Judge(p)
  <2>1. p \in alive /\ place[p] = "judge"
        /\ UNCHANGED <<lease, alive, seen, holds, bound, server, stolen>>
    BY <1>5 DEF Judge, At
  <2>2. "judge" \in Reserving /\ "stale" \in Reserving
        /\ "free" \in Reserving /\ "read" \in Reserving
    BY DEF Reserving
  <2>3. CASE seen[p].whole /\ seen[p].by \notin alive /\ place' = [place EXCEPT ![p] = "stale"]
             /\ UNCHANGED at
    BY <1>2, <2>1, <2>2, <2>3, ReservingStep
  <2>4. CASE place' = [place EXCEPT ![p] = "free"] /\ UNCHANGED at
    BY <1>2, <2>1, <2>2, <2>4, ReservingStep
  <2>5. CASE Advance(p)
    <3>1. PICK next \in {"read", "exhausted"} : place' = [place EXCEPT ![p] = next]
      BY <1>1, <2>5, AdvanceFacts
    <3>2. at' \in [Processes -> Ports] /\ \A q \in Processes \ {p} : at'[q] = at[q]
      BY <1>1, <2>5, AdvanceFacts
    <3> QED
      BY <1>2, <2>1, <2>2, <3>1, <3>2, ReservingStep
  <2> QED
    BY <1>5, <2>3, <2>4, <2>5 DEF Judge, Move
<1>6. CASE Reclaim(p)
  <2>1. p \in alive /\ place[p] = "stale" /\ Unlink(at[p], seen[p])
        /\ UNCHANGED <<alive, seen, holds, bound, server>>
    BY <1>6 DEF Reclaim, At
  <2>2. "stale" \in Reserving /\ "free" \in Reserving /\ "read" \in Reserving
    BY DEF Reserving
  <2>3. PICK next \in {"free", "read", "exhausted"} : place' = [place EXCEPT ![p] = next]
    BY <1>1, <1>6, AdvanceFacts DEF Reclaim, Move
  <2>4. at' \in [Processes -> Ports] /\ \A q \in Processes \ {p} : at'[q] = at[q]
    BY <1>1, <1>2, <1>6, AdvanceFacts DEF Reclaim
  <2>5. seen[p].by \notin alive
    BY <1>1, <2>1 DEF Lives
  <2>6. /\ lease' \in [Ports -> File \cup {NoFile}] /\ stolen' \in BOOLEAN
        /\ (stolen => stolen')
        /\ ~stolen' => \A i \in Ports : lease'[i] = lease[i] \/ lease[i].by \notin alive \/ lease[i] = NoFile
    BY <1>1, <1>2, <2>1, <2>5, UnlinkFacts
  <2> QED
    BY <1>2, <2>1, <2>2, <2>3, <2>4, <2>6, ReservingStep
<1>7. CASE Create(p)
  <2>1. p \in alive /\ place[p] = "free" /\ UNCHANGED <<alive, seen, holds, bound, server, stolen>>
    BY <1>7 DEF Create, At
  <2>2. "free" \in Reserving /\ "write" \in Reserving /\ "read" \in Reserving
    BY DEF Reserving
  <2>3. CASE lease[at[p]] = NoFile /\ lease' = [lease EXCEPT ![at[p]] = Half(p)]
             /\ place' = [place EXCEPT ![p] = "write"] /\ UNCHANGED at
    <3>1. /\ lease' \in [Ports -> File \cup {NoFile}] /\ lease'[at[p]] = Half(p)
          /\ \A i \in Ports : lease'[i] = lease[i] \/ lease[i] = NoFile
      BY <1>2, <2>3, Files
    <3> QED
      BY <1>2, <2>1, <2>2, <2>3, <3>1, ReservingStep
  <2>4. CASE Advance(p) /\ UNCHANGED lease
    <3>1. PICK next \in {"read", "exhausted"} : place' = [place EXCEPT ![p] = next]
      BY <1>1, <2>4, AdvanceFacts
    <3>2. at' \in [Processes -> Ports] /\ \A q \in Processes \ {p} : at'[q] = at[q]
      BY <1>1, <2>4, AdvanceFacts
    <3> QED
      BY <1>2, <2>1, <2>2, <2>4, <3>1, <3>2, ReservingStep
  <2> QED
    BY <1>7, <2>3, <2>4 DEF Create, Move
<1>8. CASE Write(p)
  <2>1. p \in alive /\ place[p] = "write"
        /\ UNCHANGED <<alive, at, seen, holds, bound, server, stolen>>
    BY <1>8 DEF Write, At
  <2>2. "write" \in Reserving /\ "probe" \in Reserving
    BY DEF Reserving
  <2>3. CASE /\ place' = [place EXCEPT ![p] = "probe"]
             /\ lease' = [lease EXCEPT ![at[p]] = IF lease[at[p]] = Half(p) THEN Whole(p)
                                                     ELSE lease[at[p]]]
    <3>1. /\ lease' \in [Ports -> File \cup {NoFile}]
          /\ \A i \in Ports : lease'[i] = lease[i] \/ lease[i].by = p
          /\ lease[at[p]] = Half(p) => lease'[at[p]] = Whole(p)
      BY <1>2, <2>3, Files
    <3>2. ~stolen => lease[at[p]] = Half(p)
      BY <2>1 DEF LeaseInv, Standing
    <3> QED
      BY <1>2, <2>1, <2>2, <2>3, <3>1, <3>2, ReservingStep
  <2>4. CASE place' = [place EXCEPT ![p] = "failed"] /\ UNCHANGED lease
    BY <1>2, <2>1, <2>2, <2>4, ReservingStep
  <2> QED
    BY <1>8, <2>3, <2>4 DEF Write, Move
<1>9. CASE Drop(p)
  <2>1. p \in alive /\ place[p] = "drop" /\ Unlink(at[p], Whole(p)) /\ Advance(p)
        /\ UNCHANGED <<alive, seen, holds, bound, server>>
    BY <1>9 DEF Drop, At
  <2>2. "drop" \in Reserving /\ "read" \in Reserving
    BY DEF Reserving
  <2>3. PICK next \in {"read", "exhausted"} : place' = [place EXCEPT ![p] = next]
    BY <1>1, <2>1, AdvanceFacts
  <2>4. at' \in [Processes -> Ports] /\ \A q \in Processes \ {p} : at'[q] = at[q]
    BY <1>1, <2>1, AdvanceFacts
  <2>5. /\ lease' \in [Ports -> File \cup {NoFile}] /\ stolen' \in BOOLEAN
        /\ (stolen => stolen')
        /\ ~stolen' => \A i \in Ports : lease'[i] = lease[i] \/ lease[i].by = p \/ lease[i] = NoFile
    BY <1>1, <1>2, <2>1, UnlinkFacts, Files
  <2> QED
    BY <1>2, <2>1, <2>2, <2>3, <2>4, <2>5, ReservingStep
<1>10. CASE Probe(p)
  <2>1. p \in alive /\ place[p] = "probe"
        /\ UNCHANGED <<lease, alive, at, seen, bound, server, stolen>>
    BY <1>10 DEF Probe, At
  <2>2. "drop" \in Reserving /\ "probe" \in Reserving
    BY DEF Reserving
  <2>3. ~stolen => lease[at[p]] = Whole(p)
    BY <2>1 DEF LeaseInv, Standing
  <2>4. CASE place' = [place EXCEPT ![p] = "drop"] /\ UNCHANGED holds
    BY <1>2, <2>1, <2>2, <2>3, <2>4, ReservingStep
  <2>5. CASE holds' = [holds EXCEPT ![p] = p] /\ place' = [place EXCEPT ![p] = "held"]
    <3>1. /\ holds'[p] = p /\ place'[p] = "held" /\ holds[p] = None
          /\ \A q \in Processes \ {p} : holds'[q] = holds[q] /\ place'[q] = place[q]
      BY <1>1, <2>1, <2>2, <2>5 DEF LeaseTypeOK, Lines
    <3>2. LeaseTypeOK'
      BY <1>1, <2>1, <2>5 DEF LeaseTypeOK
    <3>3. Lives'
      BY <1>1, <2>1, <3>1 DEF Lives
    <3>4. Lines'
      <4>1. \A q \in Processes : holds[q] # None => holds[q] \in Processes /\ holds[q] # p
        BY <1>1, <3>1, PortLeaseAssumption DEF LeaseTypeOK, Lines
      <4> QED
        BY <1>1, <3>1, <4>1, PortLeaseAssumption DEF Lines, Reserving
    <3>5. ASSUME ~stolen' PROVE Standing'
      <4>1. Standing /\ lease[at[p]] = Whole(p)
        BY <2>1, <2>3, <3>5 DEF LeaseInv
      <4>2. \A q \in Processes : place[q] = "released" => holds'[q] = holds[q] /\ place'[q] = place[q]
        BY <2>1, <3>1
      <4> QED
        BY <2>1, <3>1, <4>1, <4>2 DEF Standing
    <3> QED
      BY <3>2, <3>3, <3>4, <3>5 DEF LeaseInv
  <2> QED
    BY <1>10, <2>4, <2>5 DEF Probe, Move
<1> QED
  BY <1>3, <1>4, <1>5, <1>6, <1>7, <1>8, <1>9, <1>10 DEF Allocate

------------------------------------------------------------------------------
(* The steps of a line, and death. *)

\* A process of a line goes on with its lease in place.
LEMMA LineStep ==
  ASSUME LeaseInv, NEW p \in Processes, p \in alive,
         place[p] \notin Reserving \cup Ended \cup {"heir"},
         NEW next \in {"serving", "closing", "unlink", "released", "left"},
         place' = [place EXCEPT ![p] = next], holds[p] # None,
         server' \in [Ports -> Processes \cup {None}],
         UNCHANGED <<lease, alive, at, seen, holds, bound, stolen>>
  PROVE  LeaseInv'
<1>1. LeaseTypeOK /\ Lives /\ Lines
  BY DEF LeaseInv
<1>2. place'[p] = next /\ \A q \in Processes \ {p} : place'[q] = place[q]
  BY <1>1 DEF LeaseTypeOK
<1>3. LeaseTypeOK'
  BY <1>1 DEF LeaseTypeOK, Ended
<1>4. Lives'
  BY <1>1, <1>2 DEF Lives
<1>5. Lines'
  BY <1>1, <1>2 DEF Lines, Reserving
<1>6. Standing => Standing'
  <2>1. \A q \in Processes : place[q] = "released" => place'[q] = "released"
    BY <1>2 DEF Ended
  <2> QED
    BY <1>2, <2>1 DEF Standing
<1> QED
  BY <1>3, <1>4, <1>5, <1>6 DEF LeaseInv

\* Inheriting, serving and releasing a lease.
LEMMA LineSteps ==
  ASSUME LeaseInv, NEW p \in Processes, Line(p)
  PROVE  LeaseInv'
<1>1. LeaseTypeOK /\ Lives /\ Lines
  BY DEF LeaseInv
<1>2. /\ at \in [Processes -> Ports] /\ holds \in [Processes -> Processes \cup {None}]
      /\ server \in [Ports -> Processes \cup {None}]
      /\ holds[p] \in Processes \cup {None} /\ stolen \in BOOLEAN /\ bound \subseteq Processes
  BY <1>1 DEF LeaseTypeOK
<1>3. ASSUME NEW q \in Processes, Inherit(p, q)
      PROVE  LeaseInv'
  <2>1. /\ p \in alive /\ place[p] = "idle" /\ place[q] \in {"held", "serving"}
        /\ holds' = [holds EXCEPT ![p] = holds[q]] /\ place' = [place EXCEPT ![p] = "heir"]
        /\ bound' \in {bound, bound \cup {p}}
        /\ UNCHANGED <<lease, alive, at, seen, server, stolen>>
    BY <1>3 DEF Inherit, At, Held, Move
  <2>2. holds[p] = None /\ holds[q] # None /\ holds[q] \in Processes
        /\ holds[holds[q]] = holds[q] /\ p # q /\ p # None
    BY <1>1, <1>2, <2>1, PortLeaseAssumption DEF Lines
  <2>3. holds[q] # p
    BY <2>2
  <2>4. /\ place'[p] = "heir" /\ holds'[p] = holds[q]
        /\ \A r \in Processes \ {p} : place'[r] = place[r] /\ holds'[r] = holds[r]
    BY <1>1, <2>1 DEF LeaseTypeOK
  <2>5. LeaseTypeOK'
    BY <1>1, <1>2, <2>1, <2>2 DEF LeaseTypeOK
  <2>6. Lives'
    BY <1>1, <2>1, <2>4 DEF Lives
  <2>7. Lines'
    <3>1. \A r \in Processes : holds[r] # None => holds[r] \in Processes \ {p}
      BY <1>1, <1>2, <2>2 DEF Lines
    <3>2. \A r \in Processes \ {p} : holds'[r] # None => holds'[holds'[r]] = holds'[r]
      BY <1>1, <2>4, <3>1 DEF Lines
    <3>3. holds'[holds'[p]] = holds'[p]
      BY <2>2, <2>3, <2>4
    <3>4. place'[p] \notin Reserving \cup {"idle"}
      BY <2>4 DEF Reserving
    <3> QED
      BY <1>1, <2>2, <2>3, <2>4, <3>2, <3>3, <3>4 DEF Lines
  <2>8. Standing => Standing'
    <3>1. \A r \in Processes : place[r] = "released" => place'[r] = "released" /\ holds'[r] = holds[r]
      BY <2>1, <2>4
    <3> QED
      BY <2>1, <2>3, <2>4, <3>1 DEF Standing
  <2> QED
    BY <2>1, <2>5, <2>6, <2>7, <2>8 DEF LeaseInv
<1>4. CASE Adopt(p)
  <2>1. p \in alive /\ place[p] = "heir" /\ UNCHANGED <<lease, alive, seen, bound, server, stolen>>
    BY <1>4 DEF Adopt, At
  <2>2. holds[p] # None /\ holds[p] # p /\ holds[p] \in Processes /\ at[holds[p]] \in Ports
    BY <1>1, <1>2, <2>1 DEF Lines
  <2>3. \A r \in Processes : holds[r] # p
    BY <1>1, <2>2, PortLeaseAssumption DEF Lines
  <2>4. CASE place' = [place EXCEPT ![p] = "held"] /\ UNCHANGED <<holds, at>>
    <3>1. place'[p] = "held" /\ \A r \in Processes \ {p} : place'[r] = place[r]
      BY <1>1, <2>4 DEF LeaseTypeOK
    <3>2. LeaseTypeOK'
      BY <1>1, <2>1, <2>4 DEF LeaseTypeOK
    <3>3. Lives' /\ Lines'
      BY <1>1, <2>1, <2>2, <2>4, <3>1 DEF Lives, Lines, Reserving
    <3>4. Standing => Standing'
      <4>1. \A r \in Processes : place[r] = "released" => place'[r] = "released"
        BY <2>1, <3>1
      <4> QED
        BY <2>1, <2>4, <3>1, <4>1 DEF Standing
    <3> QED
      BY <2>1, <3>2, <3>3, <3>4 DEF LeaseInv
  <2>5. CASE /\ place' = [place EXCEPT ![p] = "read"] /\ holds' = [holds EXCEPT ![p] = None]
             /\ at' = [at EXCEPT ![p] = at[holds[p]]]
    <3>1. /\ place'[p] = "read" /\ holds'[p] = None
          /\ \A r \in Processes \ {p} : place'[r] = place[r] /\ holds'[r] = holds[r] /\ at'[r] = at[r]
      BY <1>1, <2>5 DEF LeaseTypeOK
    <3>2. LeaseTypeOK'
      BY <1>1, <2>1, <2>2, <2>5 DEF LeaseTypeOK, Reserving
    <3>3. Lives'
      BY <1>1, <2>1, <3>1 DEF Lives
    <3>4. Lines'
      <4>1. \A r \in Processes : holds[r] # None => holds[r] \in Processes \ {p}
        BY <1>2, <2>3
      <4>2. place'[p] \notin {"heir", "held", "serving", "closing", "unlink"}
        BY <3>1
      <4>3. \A r \in Processes \ {p} : holds'[r] # None => holds'[holds'[r]] = holds'[r]
        BY <1>1, <3>1, <4>1 DEF Lines
      <4> QED
        BY <1>1, <3>1, <4>2, <4>3 DEF Lines
    <3>5. Standing => Standing'
      <4>1. \A r \in Processes : place[r] = "released" => place'[r] = "released" /\ holds'[r] = holds[r]
        BY <2>1, <3>1
      <4>2. p # None
        BY PortLeaseAssumption
      <4> QED
        BY <2>1, <3>1, <4>1, <4>2 DEF Standing
    <3> QED
      BY <2>1, <3>2, <3>3, <3>4, <3>5 DEF LeaseInv
  <2> QED
    BY <1>4, <2>4, <2>5 DEF Adopt, Move, PortOf
<1>5. CASE Serve(p) \/ Close(p)
  <2>1. /\ p \in alive /\ place[p] \in {"held", "serving"}
        /\ UNCHANGED <<lease, alive, at, seen, holds, bound, stolen>>
        /\ \E next \in {"serving", "closing", "left"} : place' = [place EXCEPT ![p] = next]
        /\ \/ server' = server
           \/ \E s \in {p, None} : server' = [server EXCEPT ![PortOf(p)] = s]
    BY <1>5 DEF Serve, Close, At, GiveUp, Move
  <2>2. PICK next \in {"serving", "closing", "left"} : place' = [place EXCEPT ![p] = next]
    BY <2>1
  <2>3. server' \in [Ports -> Processes \cup {None}]
    BY <1>2, <2>1
  <2>4. holds[p] # None
    BY <1>1, <2>1 DEF Lines
  <2>5. place[p] \notin Reserving \cup Ended \cup {"heir"}
    BY <2>1 DEF Reserving, Ended
  <2> QED
    BY <2>1, <2>2, <2>3, <2>4, <2>5, LineStep
<1>6. CASE ReleaseRead(p)
  <2>1. /\ p \in alive /\ place[p] = "closing"
        /\ UNCHANGED <<lease, alive, at, seen, holds, bound, server, stolen>>
        /\ \E next \in {"unlink", "released"} : place' = [place EXCEPT ![p] = next]
    BY <1>6 DEF ReleaseRead, At, Move
  <2>2. PICK next \in {"unlink", "released"} : place' = [place EXCEPT ![p] = next]
    BY <2>1
  <2>3. holds[p] # None /\ place[p] \notin Reserving \cup Ended \cup {"heir"}
    BY <1>1, <2>1 DEF Lines, Reserving, Ended
  <2> QED
    BY <1>2, <2>1, <2>2, <2>3, LineStep
<1>7. CASE ReleaseUnlink(p)
  <2>1. /\ p \in alive /\ place[p] = "unlink" /\ Unlink(at[holds[p]], Whole(holds[p]))
        /\ place' = [place EXCEPT ![p] = "released"]
        /\ UNCHANGED <<alive, at, seen, holds, bound, server>>
    BY <1>7 DEF ReleaseUnlink, At, Move, PortOf
  <2>2. holds[p] \in Processes /\ at[holds[p]] \in Ports
    BY <1>1, <1>2, <2>1 DEF Lines
  <2>3. /\ lease' \in [Ports -> File \cup {NoFile}] /\ stolen' \in BOOLEAN
        /\ (stolen => stolen')
        /\ ~stolen' => /\ ~stolen
                       /\ \A i \in Ports : \/ lease'[i] = lease[i]
                                           \/ lease[i] \in {Whole(holds[p]), NoFile}
    BY <1>1, <2>1, <2>2, UnlinkFacts
  <2>4. place'[p] = "released" /\ \A q \in Processes \ {p} : place'[q] = place[q]
    BY <1>1, <2>1 DEF LeaseTypeOK
  <2>5. LeaseTypeOK'
    BY <1>1, <2>1, <2>3 DEF LeaseTypeOK, Ended
  <2>6. Lives' /\ Lines'
    BY <1>1, <2>1, <2>4 DEF Lives, Lines, Reserving
  <2>7. ASSUME ~stolen' PROVE Standing'
    <3>1. Standing
      BY <2>3, <2>7 DEF LeaseInv
    <3> SUFFICES ASSUME NEW t \in Processes
                 PROVE  /\ place'[t] = "write" => lease'[at[t]] = Half(t)
                        /\ place'[t] \in {"probe", "drop"} => lease'[at[t]] = Whole(t)
                        /\ holds[t] = t /\ t \in alive =>
                              \/ lease'[at[t]] = Whole(t)
                              \/ \E q \in Processes : holds[q] = t /\ place'[q] = "released"
      BY <2>1 DEF Standing
    <3>2. at[t] \in Ports
      BY <1>2
    <3>3. CASE t = holds[p]
      <4>1. holds[t] = t /\ place[t] \notin {"write", "probe", "drop"}
        BY <1>1, <2>2, <3>3, PortLeaseAssumption DEF Lines, Reserving
      <4>2. place'[t] \notin {"write", "probe", "drop"}
        BY <2>4, <4>1
      <4> QED
        BY <2>4, <3>3, <4>2
    <3>4. CASE t # holds[p]
      <4>1. lease[at[t]] \in {Half(t), Whole(t)} => lease'[at[t]] = lease[at[t]]
        <5>1. Half(t) \notin {Whole(holds[p]), NoFile}
              /\ Whole(t) \notin {Whole(holds[p]), NoFile}
          BY <2>2, <3>4, Files
        <5> QED
          BY <2>3, <2>7, <3>2, <5>1
      <4>2. \A q \in Processes : place[q] = "released" => place'[q] = "released"
        BY <2>4
      <4>3. place'[t] \in {"write", "probe", "drop"} => place'[t] = place[t]
        BY <2>4
      <4> QED
        BY <3>1, <4>1, <4>2, <4>3 DEF Standing
    <3> QED
      BY <3>3, <3>4
  <2> QED
    BY <2>3, <2>5, <2>6, <2>7 DEF LeaseInv
<1> QED
  BY <1>3, <1>4, <1>5, <1>6, <1>7 DEF Line

\* A death frees the ports the process served and leaves its lease behind.
LEMMA DieStep ==
  ASSUME LeaseInv, NEW p \in Processes, Die(p)
  PROVE  LeaseInv'
<1>1. LeaseTypeOK /\ Lives /\ Lines
  BY DEF LeaseInv
<1>2. /\ p \in alive /\ alive' = alive \ {p} /\ UNCHANGED <<lease, at, seen, holds, bound, stolen>>
      /\ place' = [place EXCEPT ![p] = IF place[p] \in Ended THEN place[p] ELSE "dead"]
      /\ server' = [i \in Ports |-> IF server[i] = p THEN None ELSE server[i]]
  BY DEF Die
<1>3. /\ place'[p] \in Ended /\ (place[p] = "released" => place'[p] = "released")
      /\ place'[p] \notin Reserving \cup {"idle", "heir", "held", "serving", "closing", "unlink"}
      /\ \A q \in Processes \ {p} : place'[q] = place[q]
  BY <1>1, <1>2 DEF LeaseTypeOK, Ended, Reserving
<1>4. LeaseTypeOK'
  BY <1>1, <1>2 DEF LeaseTypeOK, Ended
<1>5. Lives'
  <2>1. \A q \in Processes : place'[q] = "stale" => place[q] = "stale"
    BY <1>3 DEF Reserving
  <2> QED
    BY <1>1, <1>2, <1>3, <2>1 DEF Lives
<1>6. Lines'
  BY <1>1, <1>2, <1>3 DEF Lines
<1>7. Standing => Standing'
  <2>1. \A q \in Processes : place[q] = "released" => place'[q] = "released"
    BY <1>3
  <2>2. \A q \in Processes : place'[q] \in {"write", "probe", "drop"} => place'[q] = place[q]
    BY <1>3 DEF Reserving
  <2> QED
    BY <1>2, <2>1, <2>2 DEF Standing
<1> QED
  BY <1>2, <1>4, <1>5, <1>6, <1>7 DEF LeaseInv

------------------------------------------------------------------------------
\* reserveProxyPort, ensureProxyPortLease and releaseLease keep LeaseInv.
THEOREM LeaseInvariant ==
  LeaseSpec => []LeaseInv
<1>1. LeaseInit => LeaseInv
  <2> SUFFICES ASSUME LeaseInit PROVE LeaseInv
    OBVIOUS
  <2>1. LeaseTypeOK
    <3>1. 1 \in Ports /\ Half(Ghost) \in File /\ Whole(Ghost) \in File
      BY Files, PortLeaseAssumption DEF Ports
    <3> QED
      BY <3>1 DEF LeaseInit, LeaseTypeOK
  <2>2. Lives /\ Lines /\ Standing
    BY PortLeaseAssumption DEF LeaseInit, Lives, Lines, Standing, Reserving
  <2> QED
    BY <2>1, <2>2 DEF LeaseInv
<1>2. LeaseInv /\ [LeaseNext]_leaseVars => LeaseInv'
  <2>1. ASSUME LeaseInv, UNCHANGED leaseVars PROVE LeaseInv'
    BY <2>1 DEF LeaseInv, leaseVars, LeaseTypeOK, Lives, Lines, Standing
  <2> QED
    BY <2>1, AllocateSteps, LineSteps, DieStep DEF LeaseNext
<1> QED
  BY <1>1, <1>2, PTL DEF LeaseSpec

\* Leases, environments and servers keep their shape.
THEOREM LeaseTypeCorrect ==
  LeaseSpec => []LeaseTypeOK
<1>1. LeaseInv => LeaseTypeOK
  BY DEF LeaseInv
<1> QED
  BY <1>1, LeaseInvariant, PTL

\* Exclusive creation and the liveness test of reserveProxyPort are enough:
\* while no unlink has hit a file it was not meant for, two lines of processes
\* never count on one port.
THEOREM PortsAreNotShared ==
  LeaseSpec => []NoSharedPort
<1>1. LeaseInv => NoSharedPort
  <2> SUFFICES ASSUME LeaseInv, ~stolen, NEW p \in Processes, NEW q \in Processes,
                      CountsOn(p), CountsOn(q), PortOf(p) = PortOf(q)
               PROVE  holds[p] = holds[q]
    BY DEF NoSharedPort
  <2>1. LeaseTypeOK /\ Lines /\ Standing
    BY DEF LeaseInv
  <2>2. ASSUME NEW r \in Processes, CountsOn(r)
        PROVE  holds[r] \in Processes /\ lease[PortOf(r)] = Whole(holds[r])
    <3>1. place[r] \in {"held", "serving"} /\ holds[r] \in alive /\ holds[r] \in Processes
      BY <2>1, <2>2 DEF CountsOn, Held, At, LeaseTypeOK
    <3>2. holds[holds[r]] = holds[r]
      BY <2>1, <3>1 DEF Lines
    <3>3. ~\E s \in Processes : holds[s] = holds[r] /\ place[s] = "released"
      BY <2>2 DEF CountsOn, GivenUp
    <3> QED
      BY <2>1, <3>1, <3>2, <3>3 DEF Standing, PortOf
  <2> QED
    BY <2>2, Files
<1> QED
  BY <1>1, LeaseInvariant, PTL

\* The first unlink that hits another's file is a reclaim of reserveProxyPort,
\* or a releaseLease whose line was already given up or had lost its owner.
THEOREM TheftsStartAtReclaim ==
  LeaseSpec => TheftStartsAtReclaim
<1>1. ASSUME LeaseInv, [LeaseNext]_leaseVars, ~stolen, stolen'
      PROVE  \E p \in Processes :
                \/ Reclaim(p)
                \/ /\ ReleaseUnlink(p)
                   /\ \/ holds[p] \notin alive
                      \/ \E q \in Processes \ {p} : holds[q] = holds[p] /\ place[q] = "released"
  <2>1. LeaseTypeOK /\ Lines /\ Standing
    BY <1>1 DEF LeaseInv
  <2>2. PICK p \in Processes : Reclaim(p) \/ Drop(p) \/ ReleaseUnlink(p)
    <3>1. ~UNCHANGED leaseVars
      BY <1>1 DEF leaseVars
    <3> QED
      BY <1>1, <3>1
      DEF LeaseNext, Reserve, Allocate, Line, Die, ReadLease, Judge, Create, Write, Probe,
          Adopt, Serve, Close, ReleaseRead, Inherit
  <2>3. ~Drop(p)
    <3> SUFFICES ASSUME Drop(p) PROVE FALSE
      OBVIOUS
    <3>1. lease[at[p]] = Whole(p)
      BY <2>1 DEF Drop, At, Standing
    <3> QED
      BY <1>1, <3>1 DEF Drop, Unlink
  <2>4. ASSUME ReleaseUnlink(p), holds[p] \in alive
        PROVE  \E q \in Processes \ {p} : holds[q] = holds[p] /\ place[q] = "released"
    <3>1. place[p] = "unlink" /\ holds[p] \in Processes /\ holds[holds[p]] = holds[p]
      BY <2>1, <2>4 DEF ReleaseUnlink, At, LeaseTypeOK, Lines
    <3>2. lease[at[holds[p]]] # Whole(holds[p])
      BY <1>1, <2>4 DEF ReleaseUnlink, Unlink, PortOf
    <3>3. PICK q \in Processes : holds[q] = holds[p] /\ place[q] = "released"
      BY <2>1, <2>4, <3>1, <3>2 DEF Standing
    <3> QED
      BY <3>1, <3>3
  <2> QED
    BY <2>2, <2>3, <2>4
<1>2. LeaseInv /\ [LeaseNext]_leaseVars
        => [~stolen /\ stolen' =>
              \E p \in Processes :
                \/ Reclaim(p)
                \/ /\ ReleaseUnlink(p)
                   /\ \/ holds[p] \notin alive
                      \/ \E q \in Processes \ {p} : /\ holds[q] = holds[p]
                                                /\ place[q] = "released"]_leaseVars
  BY <1>1
<1> QED
  BY <1>2, LeaseInvariant, PTL DEF LeaseSpec, TheftStartsAtReclaim

==============================================================================
