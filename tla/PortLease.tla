------------------------------ MODULE PortLease ------------------------------
(***************************************************************************)
(* The leases of the proxy's loopback ports: one file per port in a        *)
(* directory all clones of the repository share, created exclusively and   *)
(* naming the process that reserved it.  A process reserves the first      *)
(* candidate port it can and hands the lease to its children; one of the   *)
(* line serves the port and releases the lease when it closes.  Processes  *)
(* die at any step, and a dead process' lease may be reclaimed.            *)
(*                                                                         *)
(* A process reserves at most once, so it stands for its lease's token.    *)
(* Foreign programs on a port, and probes that run out of time, are the    *)
(* probe's freedom to fail.                                                *)
(***************************************************************************)
EXTENDS Integers

CONSTANTS Processes,       \* processes of any number of sessions and clones
          Ghost,       \* a process that died before all of them
          CandidateCount,
          None

ASSUME PortLeaseAssumption ==
    CandidateCount \in Nat \ {0} /\ Ghost \notin Processes /\ None \notin Processes \cup {Ghost}

Ports == 1..CandidateCount   \* proxyPortCandidates of the one preferred port

\* A lease file, half written until its record is complete.
File == [by : Processes \cup {Ghost}, whole : BOOLEAN]
Whole(p) == [by |-> p, whole |-> TRUE]
Half(p) == [by |-> p, whole |-> FALSE]
NoFile == [by |-> None, whole |-> FALSE]

VARIABLES lease,    \* the file at each port's path
          alive,    \* processes that have not died
          place,       \* where each process is
          at,       \* the candidate a process is trying, or has reserved
          seen,     \* what it last read at that candidate
          holds,    \* the token in its environment: who reserved its port
          bound,    \* processes whose environment names another process as the
                    \* one that releases: its server started before they did
          server,   \* who listens on each port
          stolen    \* history: some unlink removed a file it was not meant for

leaseVars == <<lease, alive, place, at, seen, holds, bound, server, stolen>>

Reserving == {"read", "judge", "stale", "free", "write", "probe", "drop"}
Ended == {"exhausted", "failed", "released", "left", "dead"}

LeaseTypeOK ==
    /\ lease \in [Ports -> File \cup {NoFile}]
    /\ alive \subseteq Processes
    /\ place \in [Processes -> {"idle", "heir", "held", "serving", "closing", "unlink"}
                        \cup Reserving \cup Ended]
    /\ at \in [Processes -> Ports]
    /\ seen \in [Processes -> File \cup {NoFile}]
    /\ holds \in [Processes -> Processes \cup {None}]
    /\ bound \subseteq Processes
    /\ server \in [Ports -> Processes \cup {None}]
    /\ stolen \in BOOLEAN

LeaseInit ==
    /\ lease \in [Ports -> {NoFile, Half(Ghost), Whole(Ghost)}]
    /\ alive = Processes
    /\ place = [p \in Processes |-> "idle"]
    /\ at = [p \in Processes |-> 1]
    /\ seen = [p \in Processes |-> NoFile]
    /\ holds = [p \in Processes |-> None]
    /\ bound = {}
    /\ server = [i \in Ports |-> None]
    /\ stolen = FALSE

------------------------------------------------------------------------------
Move(p, where) == place' = [place EXCEPT ![p] = where]

At(p, where) == p \in alive /\ place[p] = where

\* continue: the next candidate, if there is one.
Advance(p) ==
    IF at[p] < CandidateCount
    THEN Move(p, "read") /\ at' = [at EXCEPT ![p] = @ + 1]
    ELSE Move(p, "exhausted") /\ UNCHANGED at

\* unlink(2) of a path removes whatever is there; it was meant for one file.
Unlink(i, meant) ==
    /\ lease' = [lease EXCEPT ![i] = NoFile]
    /\ stolen' = (stolen \/ lease[i] \notin {meant, NoFile})

Reserve(p) ==
    /\ At(p, "idle")
    /\ Move(p, "read")
    /\ UNCHANGED <<lease, alive, at, seen, holds, bound, server, stolen>>

ReadLease(p) ==
    /\ At(p, "read")
    /\ seen' = [seen EXCEPT ![p] = lease[at[p]]]
    /\ Move(p, "judge")
    /\ UNCHANGED <<lease, alive, at, holds, bound, server, stolen>>

\* Mutant: a lease is reclaimed whoever owns it.
JudgeAnyStale(p) ==
    /\ At(p, "judge")
    /\ \/ seen[p].whole /\ Move(p, "stale") /\ UNCHANGED at
       \/ ~seen[p].whole /\ lease[at[p]] = NoFile /\ Move(p, "free") /\ UNCHANGED at
       \/ ~seen[p].whole /\ lease[at[p]] # NoFile /\ Advance(p)
    /\ UNCHANGED <<lease, alive, seen, holds, bound, server, stolen>>

\* Only the lease of a dead process is reclaimed; a file that does not parse
\* is left to whoever wrote it.
Judge(p) ==
    /\ At(p, "judge")
    /\ \/ seen[p].whole /\ seen[p].by \notin alive /\ Move(p, "stale") /\ UNCHANGED at
       \/ seen[p].whole /\ seen[p].by \in alive /\ Advance(p)
       \/ ~seen[p].whole /\ lease[at[p]] = NoFile /\ Move(p, "free") /\ UNCHANGED at
       \/ ~seen[p].whole /\ lease[at[p]] # NoFile /\ Advance(p)
    /\ UNCHANGED <<lease, alive, seen, holds, bound, server, stolen>>

Reclaim(p) ==
    /\ At(p, "stale")
    /\ IF lease[at[p]] = NoFile THEN Advance(p) ELSE Move(p, "free") /\ UNCHANGED at
    /\ Unlink(at[p], seen[p])
    /\ UNCHANGED <<alive, seen, holds, bound, server>>

\* Mutant: the clean-up after a failed creation removes the file.
CreateCleansUp(p) ==
    /\ At(p, "free")
    /\ \/ lease[at[p]] = NoFile /\ lease' = [lease EXCEPT ![at[p]] = Half(p)] /\ Move(p, "write")
       \/ lease[at[p]] # NoFile /\ Move(p, "drop") /\ UNCHANGED lease
    /\ UNCHANGED <<alive, at, seen, holds, bound, server, stolen>>

\* open with O_EXCL.
Create(p) ==
    /\ At(p, "free")
    /\ \/ /\ lease[at[p]] = NoFile
          /\ lease' = [lease EXCEPT ![at[p]] = Half(p)]
          /\ Move(p, "write") /\ UNCHANGED at
       \/ lease[at[p]] # NoFile /\ Advance(p) /\ UNCHANGED lease
    /\ UNCHANGED <<alive, seen, holds, bound, server, stolen>>

\* The record goes to the file that was created, wherever its path now leads.
Write(p) ==
    /\ At(p, "write")
    /\ \/ /\ Move(p, "probe")
          /\ lease' = [lease EXCEPT ![at[p]] = IF @ = Half(p) THEN Whole(p) ELSE @]
       \/ Move(p, "failed") /\ UNCHANGED lease      \* the disk refuses
    /\ UNCHANGED <<alive, at, seen, holds, bound, server, stolen>>

Probe(p) ==
    /\ At(p, "probe")
    /\ \/ /\ server[at[p]] = None
          /\ holds' = [holds EXCEPT ![p] = p] /\ Move(p, "held")
       \/ Move(p, "drop") /\ UNCHANGED holds
    /\ UNCHANGED <<lease, alive, at, seen, bound, server, stolen>>

Drop(p) ==
    /\ At(p, "drop")
    /\ Unlink(at[p], Whole(p))
    /\ Advance(p)
    /\ UNCHANGED <<alive, seen, holds, bound, server>>

------------------------------------------------------------------------------
(* The line of processes that share a lease through their environment. *)

Held(p) == At(p, "held") \/ At(p, "serving")

PortOf(p) == at[holds[p]]

\* q is started by p, which has a lease.
Inherit(q, p) ==
    /\ At(q, "idle") /\ Held(p)
    /\ holds' = [holds EXCEPT ![q] = holds[p]]
    /\ bound' = IF place[p] = "serving" \/ p \in bound THEN bound \cup {q} ELSE bound
    /\ Move(q, "heir")
    /\ UNCHANGED <<lease, alive, at, seen, server, stolen>>

\* ensureProxyPortLease: the lease still stands and its owner lives, or the
\* process reserves a port for itself, from the inherited one on.
Adopt(q) ==
    /\ At(q, "heir")
    /\ \/ /\ lease[PortOf(q)] = Whole(holds[q]) /\ holds[q] \in alive
          /\ Move(q, "held") /\ UNCHANGED <<holds, bound, at>>
       \/ /\ ~(lease[PortOf(q)] = Whole(holds[q]) /\ holds[q] \in alive)
          /\ Move(q, "read")
          /\ holds' = [holds EXCEPT ![q] = None]
          /\ at' = [at EXCEPT ![q] = PortOf(q)]
    /\ UNCHANGED <<lease, alive, seen, bound, server, stolen>>

\* What becomes of the lease when p no longer serves its port.
GiveUp(p) == Move(p, IF p \in bound THEN "left" ELSE "closing")

\* startProxy: the port is bound, or the start fails and the lease is given up.
Serve(p) ==
    /\ At(p, "held")
    /\ \/ /\ server[PortOf(p)] = None
          /\ server' = [server EXCEPT ![PortOf(p)] = p]
          /\ Move(p, "serving")
       \/ GiveUp(p) /\ UNCHANGED server
    /\ UNCHANGED <<lease, alive, at, seen, holds, bound, stolen>>

Close(p) ==
    /\ At(p, "serving")
    /\ server' = [server EXCEPT ![PortOf(p)] = None]
    /\ GiveUp(p)
    /\ UNCHANGED <<lease, alive, at, seen, holds, bound, stolen>>

\* releaseLease: the token is compared, then the path is unlinked.
ReleaseRead(p) ==
    /\ At(p, "closing")
    /\ Move(p, IF lease[PortOf(p)] = Whole(holds[p]) THEN "unlink" ELSE "released")
    /\ UNCHANGED <<lease, alive, at, seen, holds, bound, server, stolen>>

ReleaseUnlink(p) ==
    /\ At(p, "unlink")
    /\ Unlink(PortOf(p), Whole(holds[p]))
    /\ Move(p, "released")
    /\ UNCHANGED <<alive, at, seen, holds, bound, server>>

Die(p) ==
    /\ p \in alive
    /\ alive' = alive \ {p}
    /\ place' = [place EXCEPT ![p] = IF @ \in Ended THEN @ ELSE "dead"]
    /\ server' = [i \in Ports |-> IF server[i] = p THEN None ELSE server[i]]
    /\ UNCHANGED <<lease, at, seen, holds, bound, stolen>>

Allocate(p) == \/ ReadLease(p) \/ Judge(p) \/ Reclaim(p) \/ Create(p)
               \/ Write(p) \/ Probe(p) \/ Drop(p)

Line(p) == \/ Adopt(p) \/ Serve(p) \/ Close(p) \/ ReleaseRead(p) \/ ReleaseUnlink(p)
           \/ \E q \in Processes : Inherit(p, q)

LeaseNext == \E p \in Processes : Reserve(p) \/ Allocate(p) \/ Line(p) \/ Die(p)

LeaseSpec == LeaseInit /\ [][LeaseNext]_leaseVars

------------------------------------------------------------------------------
\* The line of token t has begun to give its lease up.
GivenUp(t) == \E p \in Processes : holds[p] = t /\ place[p] \in {"closing", "unlink", "released"}

\* p counts on its port: its line has not given the lease up, and the process
\* the lease names is still there to be found alive.
CountsOn(p) == Held(p) /\ holds[p] \in alive /\ ~GivenUp(holds[p])

\* While no unlink has hit a file it was not meant for, two lines never count
\* on one port: exclusive creation and the liveness test are enough, whatever
\* dies, and however often a port changes hands.
NoSharedPort ==
    stolen \/ \A p, q \in Processes :
        CountsOn(p) /\ CountsOn(q) /\ PortOf(p) = PortOf(q) => holds[p] = holds[q]

\* The first such unlink is a reclaim, which judged a lease that another
\* process has replaced since, or the release of a line that was already given
\* up by another of its processes or whose owner had died: neither the
\* release of a sound line nor the drop of a busy port begins the trouble.
TheftStartsAtReclaim ==
    [][~stolen /\ stolen' =>
        \E p \in Processes :
            \/ Reclaim(p)
            \/ /\ ReleaseUnlink(p)
               /\ \/ holds[p] \notin alive
                  \/ \E q \in Processes \ {p} : /\ holds[q] = holds[p]
                                            /\ place[q] = "released"]_leaseVars
==============================================================================
