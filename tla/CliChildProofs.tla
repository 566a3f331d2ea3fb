---------------------------- MODULE CliChildProofs ----------------------------
(***************************************************************************)
(* Proofs about one call of the CLI reasoner, for any number of timers and *)
(* any order of the child's events, the timers and the caller's signal.    *)
(***************************************************************************)
EXTENDS CliChild, TLAPS

Stopped == outcome.aborted \/ outcome.oversize \/ outcome.timedOut

\* Before the call nothing was set; while it runs it is not answered.
Begun ==
    /\ running => ~Answered
    /\ ~running /\ ~Answered => /\ outcome = NoOutcome /\ timers = {}
                                /\ armed = [k \in Kinds |-> 0] /\ signals = 0

\* The deadline and the grace for the pipes are set once, and no timer of
\* theirs outlives the call: their handlers do not look whether it runs.
OneShot ==
    /\ armed["deadline"] <= 1 /\ armed["stdio"] <= 1
    /\ running => /\ armed["deadline"] = 1
                  /\ armed["stdio"] = IF Exited(outcome) THEN 1 ELSE 0
    /\ <<"deadline", 1>> \in timers => running /\ ~Exited(outcome) /\ ~Stopped
    /\ <<"stdio", 1>> \in timers => running

\* The kill grace is set by a flood, and by the first of a deadline or an abort.
KillTwice ==
    armed["kill"] <= (IF outcome.oversize THEN 1 ELSE 0)
                     + (IF outcome.timedOut \/ outcome.aborted THEN 1 ELSE 0)

\* Why a signal was sent, and what a timer that runs has behind it.
Causes ==
    /\ running => /\ ~outcome.closed /\ (outcome.aborted <=> cancelled)
                  /\ signals # 0 => Stopped
                  /\ (\E n \in Nat : <<"kill", n>> \in timers) => Stopped
                  /\ (\E n \in Nat : <<"hard", n>> \in timers) => outcome.escalated

CallInv == TypeOK /\ Begun /\ OneShot /\ KillTwice /\ Causes
                  /\ BoundedWait /\ NothingLeftAlive /\ ReadUndisturbed

------------------------------------------------------------------------------
LEMMA LatestTimers ==
    /\ Latest({}) = {}
    /\ Latest({"deadline"}) = {<<"deadline", armed["deadline"]>>}
    /\ Latest(Kinds) = {<<"deadline", armed["deadline"]>>, <<"kill", armed["kill"]>>,
                        <<"stdio", armed["stdio"]>>, <<"hard", armed["hard"]>>}
  BY DEF Latest, Kinds

\* A timer is numbered by how often its kind was set.
LEMMA TimerNumbered ==
  ASSUME TypeOK, NEW k, NEW n, <<k, n>> \in timers
  PROVE  k \in Kinds /\ n \in 1..armed[k] /\ n \in Nat
  BY DEF TypeOK

\* Setting a timer of kind k.
LEMMA Arming ==
  ASSUME TypeOK, NEW k \in Kinds, NEW cleared \in {{}, {"deadline"}}, NEW fired, Arm(k, cleared, fired)
  PROVE  /\ armed' \in [Kinds -> Nat]
         /\ armed'[k] = armed[k] + 1 /\ \A j \in Kinds \ {k} : armed'[j] = armed[j]
         /\ timers' \subseteq Kinds \X Nat
         /\ \A j \in Kinds, n \in Nat : <<j, n>> \in timers' => n \in 1..armed'[j]
         /\ timers' \subseteq timers \cup {<<k, armed[k] + 1>>}
         /\ <<k, armed[k] + 1>> \in timers'
         /\ cleared # {} => <<"deadline", armed["deadline"]>> \notin timers' \/ k = "deadline"
<1>1. armed' \in [Kinds -> Nat] /\ armed'[k] = armed[k] + 1
      /\ \A j \in Kinds \ {k} : armed'[j] = armed[j]
  BY DEF Arm, TypeOK
<1>2. timers' = ((timers \ Latest(cleared)) \ fired) \cup {<<k, armed[k] + 1>>}
  BY DEF Arm
<1>3. ASSUME NEW j \in Kinds, NEW n \in Nat, <<j, n>> \in timers'
      PROVE  n \in 1..armed'[j]
  <2>1. CASE <<j, n>> = <<k, armed[k] + 1>>
    BY <2>1, <1>1 DEF TypeOK
  <2>2. CASE <<j, n>> \in timers
    BY <2>2, <1>1 DEF TypeOK
  <2> QED
    BY <2>1, <2>2, <1>2, <1>3
<1>4. Latest(cleared) \subseteq {<<"deadline", armed["deadline"]>>}
  BY LatestTimers
<1>5. cleared # {} => Latest(cleared) = {<<"deadline", armed["deadline"]>>}
  BY LatestTimers
<1>6. timers' \subseteq Kinds \X Nat
  BY <1>2, k \in Kinds DEF TypeOK
<1>7. cleared # {} => <<"deadline", armed["deadline"]>> \notin timers' \/ k = "deadline"
  BY <1>2, <1>5
<1>8. /\ timers' \subseteq timers \cup {<<k, armed[k] + 1>>} /\ <<k, armed[k] + 1>> \in timers'
  BY <1>2
<1> QED
  BY <1>1, <1>3, <1>6, <1>7, <1>8

\* The classes of an answer.
LEMMA Classes ==
  ASSUME NEW o \in Outcome, NEW a \in Classify(o)
  PROVE  /\ a \in (IF o.aborted THEN {"CANCELLED"} ELSE Faults \cup Read)
         /\ a \in Read => /\ ~o.aborted /\ ~o.oversize /\ ~o.timedOut
                          /\ o.exit = "zero" /\ o.closed
  BY DEF Classify, Outcome, Faults, Read, Exited

LEMMA InitCall == Init => CallInv
<1> SUFFICES ASSUME Init PROVE CallInv
  OBVIOUS
<1>1. TypeOK
  <2>1. armed \in [Kinds -> Nat] /\ armed["kill"] = 0
    BY DEF Init, Kinds
  <2>2. outcome \in Outcome
    BY DEF Init, Outcome, NoOutcome
  <2>3. /\ cancelled \in BOOLEAN /\ running \in BOOLEAN /\ timers = {} /\ signals \in Nat
        /\ answer = "none"
    BY DEF Init
  <2> QED
    BY <2>1, <2>2, <2>3 DEF TypeOK
<1>2. /\ ~running /\ ~Answered /\ timers = {} /\ answer \notin Read
      /\ armed["deadline"] = 0 /\ armed["stdio"] = 0 /\ armed["kill"] = 0
  BY DEF Init, Answered, Kinds, Read
<1>3. Begun /\ OneShot /\ KillTwice
  BY <1>2 DEF Init, Begun, OneShot, KillTwice, NoOutcome
<1> QED
  BY <1>1, <1>2, <1>3 DEF CallInv, Causes, BoundedWait, NothingLeftAlive, ReadUndisturbed

\* An answer ends the call: what finish leaves keeps the invariant.
LEMMA Finishing ==
  ASSUME CallInv, NEW o \in Outcome, NEW fired, Finish(o, fired),
         running, armed["deadline"] = 1, cancelled' = cancelled, o.aborted = cancelled,
         o.oversize = outcome.oversize, o.timedOut = outcome.timedOut,
         o.closed \/ o.escalated, o.closed => signals' = signals, signals' \in Nat
  PROVE  CallInv'
<1>1. /\ running' = FALSE /\ answer' \in Classify(o) /\ outcome' = o /\ armed' = armed
      /\ timers' \subseteq timers \ Latest(Kinds)
  BY DEF Finish
<1>2. answer' # "none" /\ answer' \in {"CANCELLED"} \cup Faults \cup Read
  BY <1>1, Classes DEF Faults, Read
<1>3. TypeOK'
  BY <1>1, <1>2 DEF CallInv, TypeOK
<1>4. Begun' /\ BoundedWait' /\ Causes'
  BY <1>1, <1>2 DEF Begun, BoundedWait, Causes, Answered
<1>5. OneShot'
  <2>1. <<"deadline", 1>> \notin timers'
    BY <1>1, LatestTimers
  <2>2. <<"stdio", 1>> \notin timers'
    <3>1. CASE armed["stdio"] = 1
      BY <3>1, <1>1, LatestTimers
    <3>2. CASE armed["stdio"] # 1
      <4>1. armed["stdio"] < 1
        BY <3>2 DEF CallInv, OneShot, TypeOK, Kinds
      <4> QED
        BY <4>1, <1>1, TimerNumbered DEF CallInv, TypeOK, Kinds
    <3> QED
      BY <3>1, <3>2
  <2> QED
    BY <1>1, <2>1, <2>2 DEF CallInv, OneShot
<1>6. KillTwice'
  BY <1>1 DEF CallInv, KillTwice, Causes, Outcome
<1>7. NothingLeftAlive'
  BY <1>1 DEF NothingLeftAlive
<1>8. ReadUndisturbed'
  <2> SUFFICES ASSUME answer' \in Read PROVE signals' = 0 /\ outcome'.exit = "zero" /\ outcome'.closed
    BY DEF ReadUndisturbed
  <2>1. ~o.aborted /\ ~o.oversize /\ ~o.timedOut /\ o.exit = "zero" /\ o.closed
    BY <1>1, Classes
  <2>2. signals = 0
    BY <2>1 DEF CallInv, Causes, Stopped
  <2> QED
    BY <1>1, <2>1, <2>2
<1> QED
  BY <1>3, <1>4, <1>5, <1>6, <1>7, <1>8 DEF CallInv

\* A step of a running call that arms a timer and answers nothing keeps the
\* invariant, when it keeps what the flags say of the timers.
LEMMA Continuing ==
  ASSUME CallInv, running, UNCHANGED <<answer, running>>, outcome' \in Outcome,
         cancelled' \in BOOLEAN, signals' \in Nat,
         outcome'.aborted = cancelled', ~outcome'.closed,
         NEW k \in {"kill", "stdio", "hard"}, NEW cleared \in {{}, {"deadline"}}, NEW fired,
         Arm(k, cleared, fired), <<"deadline", 1>> \notin timers',
         Stopped => Stopped', outcome.escalated => outcome'.escalated,
         signals' # signals \/ k = "kill" => Stopped',
         k = "hard" => outcome'.escalated,
         k = "stdio" => ~Exited(outcome) /\ Exited(outcome'),
         k # "stdio" => (Exited(outcome') <=> Exited(outcome)),
         KillTwice'
  PROVE  CallInv'
<1> USE DEF CallInv
<1>0. k \in Kinds /\ TypeOK
  BY DEF Kinds
<1>1. /\ armed' \in [Kinds -> Nat]
      /\ armed'[k] = armed[k] + 1 /\ \A j \in Kinds \ {k} : armed'[j] = armed[j]
      /\ timers' \subseteq Kinds \X Nat
      /\ \A j \in Kinds, n \in Nat : <<j, n>> \in timers' => n \in 1..armed'[j]
      /\ timers' \subseteq timers \cup {<<k, armed[k] + 1>>} /\ <<k, armed[k] + 1>> \in timers'
  <2> HIDE DEF CallInv
  <2> QED
    BY <1>0, Arming, ZenonT(60)
<1>2. TypeOK'
  <2>1. armed'["kill"] <= 2
    BY <1>1 DEF KillTwice, Kinds
  <2> QED
    BY <1>1, <2>1 DEF TypeOK
<1>3. ~Answered /\ ~Answered' /\ answer' \notin Read
  BY DEF Begun, Answered, Read
<1>4. OneShot'
  <2>1. armed'["deadline"] = armed["deadline"]
    BY <1>1 DEF Kinds
  <2>2. armed'["stdio"] = IF Exited(outcome') THEN 1 ELSE 0
    <3>1. CASE k = "stdio"
      BY <3>1, <1>1 DEF OneShot
    <3>2. CASE k # "stdio"
      BY <3>2, <1>1 DEF OneShot, Kinds
    <3> QED
      BY <3>1, <3>2
  <2> QED
    BY <2>1, <2>2 DEF OneShot
<1>5. Causes'
  <2>1. ASSUME NEW n \in Nat, <<"kill", n>> \in timers' PROVE Stopped'
    BY <2>1, <1>1 DEF Causes
  <2>2. ASSUME NEW n \in Nat, <<"hard", n>> \in timers' PROVE outcome'.escalated
    BY <2>2, <1>1 DEF Causes
  <2>3. signals' # 0 => Stopped'
    BY DEF Causes
  <2> QED
    BY <2>1, <2>2, <2>3 DEF Causes
<1>6. BoundedWait'
  <2>1. k \in Kinds /\ armed[k] + 1 \in 1..armed'[k] /\ <<k, armed[k] + 1>> \in timers'
    BY <1>1 DEF Kinds, TypeOK
  <2> QED
    BY <2>1 DEF BoundedWait
<1> QED
  BY <1>2, <1>3, <1>4, <1>5, <1>6 DEF Begun, NothingLeftAlive, ReadUndisturbed

\* While no call runs, timers may only go and the caller may only give up.
LEMMA Resting ==
  ASSUME CallInv, ~running, UNCHANGED <<answer, running, outcome, armed, signals>>,
         timers' \subseteq timers, cancelled' \in BOOLEAN
  PROVE  CallInv'
<1>1. TypeOK'
  BY DEF CallInv, TypeOK
<1>2. Begun' /\ OneShot' /\ KillTwice'
  BY DEF CallInv, Begun, OneShot, KillTwice, Answered, Stopped
<1> QED
  BY <1>1, <1>2 DEF CallInv, Causes, BoundedWait, NothingLeftAlive, ReadUndisturbed, Answered

LEMMA StepCall == CallInv /\ [Next]_vars => CallInv'
<1> SUFFICES ASSUME CallInv, [Next]_vars PROVE CallInv'
  OBVIOUS
<1>0. /\ TypeOK /\ outcome \in Outcome /\ signals \in Nat
      /\ signals + 1 \in Nat /\ signals + 1 # signals
  BY DEF CallInv, TypeOK
<1>d. running => /\ armed["deadline"] = 1 /\ ~Answered
                 /\ ~outcome.closed /\ outcome.aborted = cancelled
  BY <1>0 DEF CallInv, OneShot, Begun, Causes, TypeOK, Outcome
<1>1. CASE Call
  <2>1. /\ ~running /\ ~Answered /\ outcome = NoOutcome /\ timers = {} /\ signals = 0
        /\ armed = [k \in Kinds |-> 0] /\ cancelled' = cancelled /\ signals' = signals
    BY <1>1 DEF Call, CallInv, Begun, Answered
  <2>2. CASE cancelled /\ answer' = "CANCELLED" /\ UNCHANGED <<running, outcome, timers, armed>>
    <3>1. TypeOK'
      BY <1>0, <2>1, <2>2 DEF TypeOK
    <3>2. Begun' /\ OneShot' /\ KillTwice'
      BY <2>1, <2>2 DEF CallInv, Begun, OneShot, KillTwice, Answered
    <3>3. armed'["deadline"] = 0 /\ answer' \notin Read
      BY <2>1, <2>2 DEF Kinds, Read
    <3> QED
      BY <2>1, <2>2, <3>1, <3>2, <3>3
      DEF CallInv, Causes, BoundedWait, NothingLeftAlive, ReadUndisturbed
  <2>3. CASE Finish([outcome EXCEPT !.spawnError = TRUE], {})
    <3> DEFINE o == [outcome EXCEPT !.spawnError = TRUE]
    <3>1. o \in Outcome /\ o.exit = "no" /\ ~o.aborted /\ ~o.timedOut /\ ~o.oversize
      BY <2>1, <1>0 DEF Outcome, NoOutcome
    <3>2. /\ running' = FALSE /\ answer' \in Classify(o) /\ outcome' = o /\ armed' = armed
          /\ timers' = {}
      BY <2>1, <2>3 DEF Finish
    <3> HIDE DEF o
    <3>3. answer' \notin Read /\ answer' \in Faults \cup Read
      BY <3>1, <3>2, Classes
    <3>4. /\ armed'["deadline"] = 0 /\ armed'["stdio"] = 0 /\ armed'["kill"] = 0
          /\ answer' # "none"
      BY <2>1, <3>2, <3>3 DEF Kinds, Faults, Read
    <3>5. TypeOK'
      BY <1>0, <2>1, <3>1, <3>2, <3>3 DEF TypeOK
    <3>6. Begun' /\ OneShot' /\ KillTwice'
      BY <2>1, <3>1, <3>2, <3>4 DEF Begun, OneShot, KillTwice, Answered
    <3> QED
      BY <3>2, <3>3, <3>4, <3>5, <3>6
      DEF CallInv, Causes, BoundedWait, NothingLeftAlive, ReadUndisturbed
  <2>4. CASE ~cancelled /\ running' = TRUE /\ Arm("deadline", {}, {}) /\ UNCHANGED <<answer, outcome>>
    <3>1. /\ armed' = [armed EXCEPT !["deadline"] = @ + 1] /\ timers' = {<<"deadline", 1>>}
      BY <2>1, <2>4 DEF Arm, Latest, Kinds
    <3>2. /\ armed' \in [Kinds -> Nat] /\ armed'["deadline"] = 1 /\ armed'["stdio"] = 0
          /\ armed'["kill"] = 0 /\ armed'["hard"] = 0
      BY <2>1, <3>1 DEF Kinds
    <3>3. TypeOK'
      <4>1. timers' \subseteq Kinds \X Nat
        BY <3>1 DEF Kinds
      <4>2. ASSUME NEW k \in Kinds, NEW n \in Nat, <<k, n>> \in timers' PROVE n \in 1..armed'[k]
        BY <4>2, <3>1, <3>2
      <4> QED
        BY <1>0, <2>1, <2>4, <3>2, <4>1, <4>2 DEF TypeOK
    <3>4. /\ ~Exited(outcome') /\ ~Stopped' /\ ~outcome'.closed /\ ~outcome'.aborted
          /\ ~cancelled' /\ signals' = 0 /\ ~Answered' /\ answer' \notin Read
      BY <2>1, <2>4 DEF NoOutcome, Exited, Stopped, Answered, Read
    <3>5. OneShot' /\ KillTwice'
      BY <2>4, <3>1, <3>2, <3>4 DEF OneShot, KillTwice, Stopped
    <3>6. Causes' /\ BoundedWait' /\ Begun'
      BY <2>4, <3>1, <3>2, <3>4 DEF Causes, BoundedWait, Begun
    <3> QED
      BY <3>3, <3>4, <3>5, <3>6 DEF CallInv, NothingLeftAlive, ReadUndisturbed
  <2> QED
    BY <1>1, <2>2, <2>3, <2>4 DEF Call
<1>2. CASE Abort
  <2>1. ~cancelled /\ cancelled' = TRUE /\ UNCHANGED <<answer, running>>
    BY <1>2 DEF Abort
  <2>2. CASE ~running
    BY <1>2, <2>1, <2>2, Resting DEF Abort
  <2>3. CASE running /\ outcome.timedOut
    <3>1. /\ outcome' = [outcome EXCEPT !.aborted = TRUE] /\ signals' = signals + 1
          /\ UNCHANGED <<timers, armed>>
      BY <1>2, <2>3 DEF Abort, Signal
    <3>2. /\ outcome' \in Outcome /\ outcome'.aborted /\ Stopped'
          /\ \A f \in {"oversize", "timedOut", "escalated", "closed", "exit"} : outcome'[f] = outcome[f]
      BY <1>0, <3>1 DEF Outcome, Stopped
    <3>3. TypeOK'
      BY <1>0, <2>1, <3>1, <3>2 DEF TypeOK
    <3>4. OneShot' /\ KillTwice'
      BY <2>1, <2>3, <3>1, <3>2 DEF CallInv, OneShot, KillTwice, Exited, Stopped
    <3>5. Causes' /\ BoundedWait' /\ Begun'
      BY <1>d, <2>1, <2>3, <3>1, <3>2 DEF CallInv, Causes, BoundedWait, Begun, Answered, Exited
    <3> QED
      BY <1>d, <2>1, <2>3, <3>3, <3>4, <3>5
      DEF CallInv, NothingLeftAlive, ReadUndisturbed, Answered, Read
  <2>4. CASE running /\ ~outcome.timedOut
    <3>1. /\ outcome' = [outcome EXCEPT !.aborted = TRUE] /\ signals' = signals + 1
          /\ Arm("kill", {"deadline"}, {})
      BY <1>2, <2>4 DEF Abort, Signal
    <3>2. /\ outcome' \in Outcome /\ outcome'.aborted /\ Stopped'
          /\ \A f \in {"oversize", "timedOut", "escalated", "closed", "exit"} : outcome'[f] = outcome[f]
      BY <1>0, <3>1 DEF Outcome, Stopped
    <3>3. <<"deadline", 1>> \notin timers' /\ armed'["kill"] = armed["kill"] + 1
      BY <1>0, <1>d, <2>4, <3>1, Arming DEF Kinds
    <3>4. KillTwice'
      BY <1>0, <1>d, <2>1, <2>4, <3>2, <3>3 DEF CallInv, KillTwice, TypeOK, Kinds
    <3> QED
      BY <1>0, <1>d, <2>1, <2>4, <3>1, <3>2, <3>3, <3>4, Continuing DEF Exited
  <2> QED
    BY <2>2, <2>3, <2>4
<1>3. CASE Oversize
  <2>1. /\ running /\ ~outcome.oversize /\ outcome' = [outcome EXCEPT !.oversize = TRUE]
        /\ signals' = signals + 1 /\ Arm("kill", {"deadline"}, {})
        /\ UNCHANGED <<cancelled, answer, running>>
    BY <1>3 DEF Oversize, Signal
  <2>2. /\ outcome' \in Outcome /\ outcome'.oversize /\ Stopped'
        /\ \A f \in {"aborted", "timedOut", "escalated", "closed", "exit"} : outcome'[f] = outcome[f]
    BY <1>0, <2>1 DEF Outcome, Stopped
  <2>3. <<"deadline", 1>> \notin timers' /\ armed'["kill"] = armed["kill"] + 1
    BY <1>0, <1>d, <2>1, Arming DEF Kinds
  <2>4. KillTwice'
    BY <1>0, <2>1, <2>2, <2>3 DEF CallInv, KillTwice, TypeOK, Kinds
  <2> QED
    BY <1>0, <1>d, <2>1, <2>2, <2>3, <2>4, Continuing DEF Exited, TypeOK
<1>4. CASE Fires
  <2>1. ASSUME NEW n \in Nat, Deadline(n) PROVE CallInv'
    <3>1. /\ <<"deadline", n>> \in timers /\ outcome' = [outcome EXCEPT !.timedOut = TRUE]
          /\ signals' = signals + 1 /\ Arm("kill", {}, {<<"deadline", n>>})
          /\ UNCHANGED <<cancelled, answer, running>>
      BY <2>1 DEF Deadline, Signal
    <3>2. n = 1
      BY <1>0, <3>1 DEF CallInv, OneShot, TypeOK, Kinds
    <3>3. running /\ ~Stopped
      BY <3>1, <3>2 DEF CallInv, OneShot
    <3>4. /\ outcome' \in Outcome /\ outcome'.timedOut /\ Stopped'
          /\ \A f \in {"aborted", "oversize", "escalated", "closed", "exit"} : outcome'[f] = outcome[f]
      BY <1>0, <3>1 DEF Outcome, Stopped
    <3>5. <<"deadline", 1>> \notin timers' /\ armed'["kill"] = armed["kill"] + 1
      BY <1>0, <3>1, <3>2 DEF Arm, TypeOK, Kinds
    <3>6. KillTwice'
      BY <1>0, <3>3, <3>4, <3>5 DEF CallInv, KillTwice, TypeOK, Kinds, Stopped
    <3> QED
      BY <1>0, <1>d, <3>1, <3>3, <3>4, <3>5, <3>6, Continuing DEF Exited, TypeOK
  <2>2. ASSUME NEW n \in Nat, KillGrace(n) PROVE CallInv'
    <3>1. <<"kill", n>> \in timers /\ cancelled' = cancelled
      BY <2>2 DEF KillGrace
    <3>2. CASE ~running
      BY <1>0, <2>2, <3>1, <3>2, Resting DEF KillGrace, Elapse, TypeOK
    <3>3. CASE running
      <4>1. /\ outcome' = [outcome EXCEPT !.escalated = TRUE] /\ signals' = signals + 1
            /\ Arm("hard", {}, {<<"kill", n>>}) /\ UNCHANGED <<answer, running>>
        BY <2>2, <3>3 DEF KillGrace, Signal
      <4>2. Stopped
        BY <3>1, <3>3 DEF CallInv, Causes
      <4>3. /\ outcome' \in Outcome /\ outcome'.escalated /\ Stopped'
            /\ \A f \in {"aborted", "oversize", "timedOut", "closed", "exit"} : outcome'[f] = outcome[f]
        BY <1>0, <4>1, <4>2 DEF Outcome, Stopped
      <4>4. /\ timers' \subseteq timers \cup {<<"hard", armed["hard"] + 1>>}
            /\ armed'["kill"] = armed["kill"]
        BY <1>0, <4>1 DEF Arm, TypeOK, Kinds
      <4>5. <<"deadline", 1>> \notin timers'
        BY <4>2, <4>4 DEF CallInv, OneShot
      <4>6. KillTwice'
        BY <4>3, <4>4 DEF CallInv, KillTwice
      <4> QED
        BY <1>0, <1>d, <3>1, <3>3, <4>1, <4>3, <4>5, <4>6, Continuing DEF Exited, TypeOK
    <3> QED
      BY <3>2, <3>3
  <2>3. ASSUME NEW n \in Nat, StdioGrace(n) PROVE CallInv'
    <3> DEFINE o == [outcome EXCEPT !.escalated = TRUE]
    <3>1. /\ <<"stdio", n>> \in timers /\ Finish(o, {<<"stdio", n>>})
          /\ cancelled' = cancelled /\ signals' = signals + 1
      BY <2>3 DEF StdioGrace, Signal
    <3>2. n = 1
      BY <1>0, <3>1 DEF CallInv, OneShot, TypeOK, Kinds
    <3>3. running
      BY <3>1, <3>2 DEF CallInv, OneShot
    <3>4. /\ o \in Outcome /\ o.aborted = outcome.aborted /\ o.oversize = outcome.oversize
          /\ o.timedOut = outcome.timedOut /\ o.escalated /\ o.closed = outcome.closed
      BY <1>0 DEF Outcome
    <3> HIDE DEF o
    <3> QED
      BY <1>0, <1>d, <3>1, <3>3, <3>4, Finishing
  <2>4. ASSUME NEW n \in Nat, HardCeiling(n) PROVE CallInv'
    <3>1. <<"hard", n>> \in timers /\ cancelled' = cancelled
      BY <2>4 DEF HardCeiling
    <3>2. CASE ~running
      BY <1>0, <2>4, <3>1, <3>2, Resting DEF HardCeiling, Elapse, TypeOK
    <3>3. CASE running
      <4>1. Finish(outcome, {<<"hard", n>>}) /\ signals' = signals
        BY <2>4, <3>3 DEF HardCeiling
      <4>2. outcome.escalated
        BY <3>1, <3>3 DEF CallInv, Causes
      <4> QED
        BY <1>0, <1>d, <3>1, <3>3, <4>1, <4>2, Finishing
    <3> QED
      BY <3>2, <3>3
  <2> QED
    BY <1>4, <2>1, <2>2, <2>3, <2>4 DEF Fires
<1>5. CASE Child
  <2>1. CASE ChildError
    <3>1. /\ running /\ outcome' = [outcome EXCEPT !.spawnError = TRUE]
          /\ UNCHANGED <<cancelled, answer, running, timers, armed, signals>>
      BY <2>1 DEF ChildError
    <3>2. /\ outcome' \in Outcome
          /\ \A f \in {"aborted", "oversize", "timedOut", "escalated", "closed", "exit"} :
                outcome'[f] = outcome[f]
      BY <1>0, <3>1 DEF Outcome
    <3>3. TypeOK' /\ Begun' /\ OneShot' /\ KillTwice'
      BY <1>0, <1>d, <3>1, <3>2 DEF CallInv, TypeOK, Begun, OneShot, KillTwice, Answered, Exited, Stopped
    <3>4. Causes' /\ BoundedWait'
      BY <3>1, <3>2 DEF CallInv, Causes, BoundedWait, Stopped, Exited
    <3> QED
      BY <1>d, <3>1, <3>3, <3>4 DEF CallInv, NothingLeftAlive, ReadUndisturbed, Answered, Read
  <2>2. CASE ChildClose
    <3> DEFINE o == [outcome EXCEPT !.closed = TRUE]
    <3>1. /\ running /\ Finish(o, {}) /\ cancelled' = cancelled /\ signals' = signals
      BY <2>2 DEF ChildClose
    <3>2. /\ o \in Outcome /\ o.aborted = outcome.aborted /\ o.oversize = outcome.oversize
          /\ o.timedOut = outcome.timedOut /\ o.closed
      BY <1>0 DEF Outcome
    <3> HIDE DEF o
    <3> QED
      BY <1>0, <1>d, <3>1, <3>2, Finishing
  <2>3. ASSUME NEW how \in {"zero", "nonzero", "signal"}, ChildExit(how) PROVE CallInv'
    <3>1. /\ running /\ ~Exited(outcome) /\ outcome' = [outcome EXCEPT !.exit = how]
          /\ Arm("stdio", {"deadline"}, {}) /\ UNCHANGED <<cancelled, answer, running, signals>>
      BY <2>3 DEF ChildExit
    <3>2. /\ outcome' \in Outcome /\ Exited(outcome')
          /\ \A f \in {"aborted", "oversize", "timedOut", "escalated", "closed"} : outcome'[f] = outcome[f]
      BY <1>0, <3>1 DEF Outcome, Exited
    <3>3. <<"deadline", 1>> \notin timers' /\ armed'["kill"] = armed["kill"]
      BY <1>0, <1>d, <3>1, Arming DEF Kinds
    <3>4. KillTwice' /\ (Stopped => Stopped')
      BY <3>2, <3>3 DEF CallInv, KillTwice, Stopped
    <3> QED
      BY <1>0, <1>d, <3>1, <3>2, <3>3, <3>4, Continuing DEF TypeOK
  <2> QED
    BY <1>5, <2>1, <2>2, <2>3 DEF Child
<1>6. CASE UNCHANGED vars
  BY <1>6 DEF vars, CallInv, TypeOK, Begun, OneShot, KillTwice, Causes, BoundedWait, NothingLeftAlive,
              ReadUndisturbed, Answered, Stopped
<1> QED
  BY <1>1, <1>2, <1>3, <1>4, <1>5, <1>6 DEF Next

\* CallInv, the inductive invariant of one call.
THEOREM CallInvariant == Spec => []CallInv
<1> QED
  BY InitCall, StepCall, PTL DEF Spec

\* Every variable of the call keeps its type: no kind of timer but the last
\* is set more than twice.
THEOREM TypeCorrect == Spec => []TypeOK
<1>1. CallInv => TypeOK
  BY DEF CallInv
<1> QED
  BY <1>1, CallInvariant, PTL

\* However timers, signals and the child's events fall, some timer leads the
\* running call on to its answer: the safety half of its bounded wait.
THEOREM WaitIsBounded == Spec => []BoundedWait
<1>1. CallInv => BoundedWait
  BY DEF CallInv
<1> QED
  BY <1>1, CallInvariant, PTL

\* An answered call leaves no process it has not killed.
THEOREM NothingIsLeftAlive == Spec => []NothingLeftAlive
<1>1. CallInv => NothingLeftAlive
  BY DEF CallInv
<1> QED
  BY <1>1, CallInvariant, PTL

\* A response is read only of a child that ended by itself with its output.
THEOREM ReadsAreUndisturbed == Spec => []ReadUndisturbed
<1>1. CallInv => ReadUndisturbed
  BY DEF CallInv
<1> QED
  BY <1>1, CallInvariant, PTL

\* A call that is answered signals its child's group no more.
THEOREM AnswerIsQuiet == Spec => AnsweredIsQuiet
<1>1. CallInv /\ [Next]_vars => [Answered => signals' = signals]_vars
  <2> SUFFICES ASSUME CallInv, Next, Answered PROVE signals' = signals
    BY DEF vars
  <2>1. ~running
    BY DEF CallInv, Begun
  <2>2. ASSUME NEW n \in Nat PROVE ~Deadline(n) /\ ~StdioGrace(n)
    BY <2>1 DEF CallInv, OneShot, TypeOK, Kinds, Deadline, StdioGrace
  <2>3. CASE Call \/ Abort \/ Oversize \/ Child
    BY <2>1, <2>3 DEF Call, Abort, Oversize, Child, ChildError, ChildClose, ChildExit
  <2>4. ASSUME NEW n \in Nat, KillGrace(n) \/ HardCeiling(n) PROVE signals' = signals
    BY <2>1, <2>4 DEF KillGrace, HardCeiling, Elapse
  <2>5. CASE Fires
    BY <2>2, <2>4, <2>5 DEF Fires
  <2> QED
    BY <2>3, <2>5 DEF Next
<1> QED
  BY <1>1, CallInvariant, PTL DEF AnsweredIsQuiet, Spec

\* The safety of the promise made to the agent runtime: one answer, CANCELLED
\* exactly when the caller gave up before it.
THEOREM PromiseIsKept == Spec => Promise!Init /\ [][Promise!Next]_<<cancelled, answer>>
<1>1. Init => Promise!Init
  BY DEF Init, Promise!Init
<1>2. ASSUME CallInv, [Next]_vars PROVE [Promise!Next]_<<cancelled, answer>>
  <2>1. running => ~Answered /\ (outcome.aborted <=> cancelled)
    BY <1>2 DEF CallInv, Begun, Causes
  <2>2. ASSUME NEW o \in Outcome, NEW fired, Finish(o, fired), running, UNCHANGED cancelled,
               o.aborted = outcome.aborted
        PROVE  Promise!Answer
    <3>1. answer' \in IF cancelled THEN {"CANCELLED"} ELSE Faults \cup Read
      BY <2>1, <2>2, Classes DEF Finish
    <3> QED
      BY <2>1, <2>2, <3>1 DEF Promise!Answer, Answered
  <2>3. outcome \in Outcome
    BY <1>2 DEF CallInv, TypeOK
  <2>4. CASE Call
    <3>1. ASSUME ~cancelled, ~running, ~Answered, Finish([outcome EXCEPT !.spawnError = TRUE], {})
          PROVE  answer' \in Faults \cup Read
      <4> DEFINE o == [outcome EXCEPT !.spawnError = TRUE]
      <4>0. outcome = NoOutcome
        BY <1>2, <3>1 DEF CallInv, Begun
      <4>1. o \in Outcome /\ ~o.aborted
        BY <4>0, <2>3 DEF Outcome, NoOutcome
      <4>2. answer' \in Classify(o)
        BY <3>1 DEF Finish
      <4> HIDE DEF o
      <4> QED
        BY <4>1, <4>2, Classes
    <3>2. answer = "none" /\ ~running /\ UNCHANGED cancelled
      BY <2>4 DEF Call
    <3>3. \/ cancelled /\ answer' = "CANCELLED"
          \/ ~cancelled /\ answer' \in Faults \cup Read
          \/ UNCHANGED answer
      BY <2>4, <3>1, <3>2 DEF Call, Answered
    <3> QED
      BY <3>2, <3>3 DEF Promise!Next, Promise!Answer
  <2>5. CASE Abort
    BY <2>5 DEF Abort, Promise!Next, Promise!Cancel
  <2>6. CASE Oversize
    BY <2>6 DEF Oversize
  <2>7. CASE Fires
    <3>1. ASSUME NEW n \in Nat, Deadline(n) \/ KillGrace(n) PROVE UNCHANGED <<cancelled, answer>>
      BY <3>1 DEF Deadline, KillGrace, Elapse
    <3>2. ASSUME NEW n \in Nat, StdioGrace(n) PROVE Promise!Answer
      <4> DEFINE o == [outcome EXCEPT !.escalated = TRUE]
      <4>1. o \in Outcome /\ o.aborted = outcome.aborted
        BY <2>3 DEF Outcome
      <4>2. n = 1 /\ running
        BY <1>2, <3>2 DEF CallInv, TypeOK, OneShot, Kinds, StdioGrace
      <4>3. Finish(o, {<<"stdio", n>>}) /\ UNCHANGED cancelled
        BY <3>2 DEF StdioGrace
      <4> HIDE DEF o
      <4> QED
        BY <2>2, <4>1, <4>2, <4>3
    <3>3. ASSUME NEW n \in Nat, HardCeiling(n) PROVE Promise!Answer \/ UNCHANGED <<cancelled, answer>>
      BY <2>2, <2>3, <3>3 DEF HardCeiling, Elapse
    <3> QED
      BY <2>7, <3>1, <3>2, <3>3 DEF Fires, Promise!Next
  <2>8. CASE Child
    <3>1. ASSUME ChildClose PROVE Promise!Answer
      <4> DEFINE o == [outcome EXCEPT !.closed = TRUE]
      <4>1. o \in Outcome /\ o.aborted = outcome.aborted
        BY <2>3 DEF Outcome
      <4>2. running /\ Finish(o, {}) /\ UNCHANGED cancelled
        BY <3>1 DEF ChildClose
      <4> HIDE DEF o
      <4> QED
        BY <2>2, <4>1, <4>2
    <3> QED
      BY <2>8, <3>1 DEF Child, ChildError, ChildExit, Promise!Next
  <2>9. CASE UNCHANGED vars
    BY <2>9 DEF vars
  <2> QED
    BY <1>2, <2>4, <2>5, <2>6, <2>7, <2>8, <2>9 DEF Next
<1> QED
  BY <1>1, <1>2, CallInvariant, PTL DEF Spec

===============================================================================
