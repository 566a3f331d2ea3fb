------------------------------- MODULE CliChild -------------------------------
(***************************************************************************)
(* One call of the CLI reasoner: a child process in a group of its own,    *)
(* bounded by a deadline, a kill grace, a grace for the pipes and a hard   *)
(* ceiling.  The caller may raise its signal at any time, the child may    *)
(* exit, fail, flood its pipes, ignore a signal or leave a grandchild that *)
(* keeps the pipes open; an unkillable child never exits.                  *)
(*                                                                         *)
(* A variable of the code that holds a timer forgets the timer it held:    *)
(* timers are numbered, clearTimeout reaches the latest of a kind, and an  *)
(* overwritten timer still fires.  Timers fire in any order.               *)
(***************************************************************************)
EXTENDS Integers

VARIABLES cancelled,  \* signal.aborted
          answer,     \* the class complete() returned, or "none"
          running,    \* the child was spawned and its promise is unsettled
          outcome,    \* the flags of CliLifecycleOutcome
          timers,     \* the timers that will fire
          armed,      \* how many timers of a kind were set
          signals     \* history: how often the child's group was signalled

vars == <<cancelled, answer, running, outcome, timers, armed, signals>>

\* The classes of an answer that was read.  classifyRawOutput and the
\* validation of the response distinguish more, and look only at the bytes.
Read == {"OK", "SECRET_ECHO", "MALFORMED_OUTPUT"}

Faults == {"OVERSIZE_OUTPUT", "TIMEOUT", "HUNG_CHILD", "HUNG_GRANDCHILD",
           "CLI_CRASH", "NONZERO_EXIT"}

Kinds == {"deadline", "kill", "stdio", "hard"}

Outcome == [spawnError : BOOLEAN, aborted : BOOLEAN, oversize : BOOLEAN,
            timedOut : BOOLEAN, escalated : BOOLEAN, closed : BOOLEAN,
            exit : {"no", "zero", "nonzero", "signal"}]

NoOutcome == [spawnError |-> FALSE, aborted |-> FALSE, oversize |-> FALSE,
              timedOut |-> FALSE, escalated |-> FALSE, closed |-> FALSE,
              exit |-> "no"]

Exited(o) == o.exit # "no"

\* The order of the tests is the precedence of the classes.
Classify(o) ==
    IF o.aborted THEN {"CANCELLED"}
    ELSE IF o.oversize THEN {"OVERSIZE_OUTPUT"}
    ELSE IF o.timedOut THEN IF o.escalated THEN {"HUNG_CHILD"} ELSE {"TIMEOUT"}
    ELSE IF Exited(o) /\ ~o.closed THEN {"HUNG_GRANDCHILD"}
    ELSE IF o.spawnError \/ o.exit \in {"no", "signal"} \/ ~o.closed THEN {"CLI_CRASH"}
    ELSE IF o.exit = "nonzero" THEN {"NONZERO_EXIT"}
    ELSE Read

TypeOK ==
    /\ cancelled \in BOOLEAN /\ running \in BOOLEAN
    /\ answer \in {"none", "CANCELLED"} \cup Faults \cup Read
    /\ outcome \in Outcome
    /\ armed \in [Kinds -> Nat] /\ armed["kill"] <= 2
    /\ timers \subseteq Kinds \X Nat
    /\ \A k \in Kinds, n \in Nat : <<k, n>> \in timers => n \in 1..armed[k]
    /\ signals \in Nat

Init ==
    /\ cancelled \in BOOLEAN
    /\ answer = "none" /\ running = FALSE
    /\ outcome = NoOutcome
    /\ timers = {} /\ armed = [k \in Kinds |-> 0]
    /\ signals = 0

------------------------------------------------------------------------------
Latest(kinds) == {<<k, armed[k]>> : k \in kinds}

\* setTimeout into the variable of kind k, after clearing the cleared kinds
\* and with the timer that fired gone.
Arm(k, cleared, fired) ==
    /\ armed' = [armed EXCEPT ![k] = @ + 1]
    /\ timers' = ((timers \ Latest(cleared)) \ fired) \cup {<<k, armed[k] + 1>>}

\* killTree signals the group and then the child; once here.
Signal == signals' = signals + 1

\* finish: the four variables are cleared and the promise resolves; complete()
\* classifies the outcome before anything else can run.
Finish(o, fired) ==
    /\ running' = FALSE
    /\ answer' \in Classify(o)
    /\ outcome' = o
    /\ timers' = (timers \ Latest(Kinds)) \ fired
    /\ UNCHANGED armed

\* complete: nothing is spawned for a caller that has already given up.
Call ==
    /\ answer = "none" /\ ~running
    /\ \/ /\ cancelled
          /\ answer' = "CANCELLED"
          /\ UNCHANGED <<running, outcome, timers, armed>>
       \/ /\ ~cancelled
          /\ Finish([outcome EXCEPT !.spawnError = TRUE], {})   \* spawn threw
       \/ /\ ~cancelled
          /\ running' = TRUE
          /\ Arm("deadline", {}, {})
          /\ UNCHANGED <<answer, outcome>>
    /\ UNCHANGED <<cancelled, signals>>

\* The caller's signal: onAbort is still listening while the call runs.
Abort ==
    /\ ~cancelled /\ cancelled' = TRUE
    /\ \/ /\ running
          /\ outcome' = [outcome EXCEPT !.aborted = TRUE]
          /\ Signal
          /\ IF outcome.timedOut THEN UNCHANGED <<timers, armed>>
                                 ELSE Arm("kill", {"deadline"}, {})
       \/ ~running /\ UNCHANGED <<outcome, timers, armed, signals>>
    /\ UNCHANGED <<answer, running>>

\* A chunk passes the cap of stdout or of stderr: noteOversize.
Oversize ==
    /\ running /\ ~outcome.closed /\ ~outcome.oversize
    /\ outcome' = [outcome EXCEPT !.oversize = TRUE]
    /\ Signal
    /\ Arm("kill", {"deadline"}, {})
    /\ UNCHANGED <<cancelled, answer, running>>

------------------------------------------------------------------------------
(* The timers. *)

\* onDeadline.  The handlers of exit, abort and oversize clear this timer, so
\* its own tests of those find nothing.
Deadline(n) ==
    /\ <<"deadline", n>> \in timers
    /\ outcome' = [outcome EXCEPT !.timedOut = TRUE]
    /\ Signal
    /\ Arm("kill", {}, {<<"deadline", n>>})
    /\ UNCHANGED <<cancelled, answer, running>>

Elapse(timer) ==
    /\ timers' = timers \ {timer}
    /\ UNCHANGED <<answer, running, outcome, armed, signals>>

\* Mutant: a grace that elapses after the answer still kills.
KillGraceUnguarded(n) ==
    /\ <<"kill", n>> \in timers
    /\ outcome' = [outcome EXCEPT !.escalated = TRUE]
    /\ Signal
    /\ Arm("hard", {}, {<<"kill", n>>})
    /\ UNCHANGED <<cancelled, answer, running>>

\* Mutant: SIGKILL is trusted to end the child.
KillGraceTrusting(n) ==
    /\ <<"kill", n>> \in timers
    /\ outcome' = [outcome EXCEPT !.escalated = @ \/ running]
    /\ signals' = signals + (IF running THEN 1 ELSE 0)
    /\ timers' = timers \ {<<"kill", n>>}
    /\ UNCHANGED <<cancelled, answer, running, armed>>

\* onKillGrace.  A timer that was overwritten may come after the answer.
KillGrace(n) ==
    /\ <<"kill", n>> \in timers
    /\ \/ /\ running
          /\ outcome' = [outcome EXCEPT !.escalated = TRUE]
          /\ Signal
          /\ Arm("hard", {}, {<<"kill", n>>})
          /\ UNCHANGED <<answer, running>>
       \/ ~running /\ Elapse(<<"kill", n>>)
    /\ UNCHANGED cancelled

\* Mutant: the pipes are dropped and the grandchild is left alone.
StdioGraceGentle(n) ==
    /\ <<"stdio", n>> \in timers
    /\ Finish(outcome, {<<"stdio", n>>})
    /\ UNCHANGED <<cancelled, signals>>

\* The grace for the pipes of a child that has exited.
StdioGrace(n) ==
    /\ <<"stdio", n>> \in timers
    /\ Finish([outcome EXCEPT !.escalated = TRUE], {<<"stdio", n>>})
    /\ Signal
    /\ UNCHANGED cancelled

\* onHardCeiling: the pipes are dropped and the child is given up.
HardCeiling(n) ==
    /\ <<"hard", n>> \in timers
    /\ \/ running /\ Finish(outcome, {<<"hard", n>>}) /\ UNCHANGED signals
       \/ ~running /\ Elapse(<<"hard", n>>)
    /\ UNCHANGED cancelled

Fires == \E n \in 1..(armed["deadline"] + armed["kill"] + armed["stdio"] + armed["hard"]) :
            Deadline(n) \/ KillGrace(n) \/ StdioGrace(n) \/ HardCeiling(n)

------------------------------------------------------------------------------
(* The child. *)

\* spawn reports a failure, or a signal could not be sent.
ChildError ==
    /\ running /\ ~Exited(outcome)
    /\ outcome' = [outcome EXCEPT !.spawnError = TRUE]
    /\ UNCHANGED <<cancelled, answer, running, timers, armed, signals>>

\* The exit event; the pipes have a grace to close.
ChildExit(how) ==
    /\ running /\ ~Exited(outcome)
    /\ outcome' = [outcome EXCEPT !.exit = how]
    /\ Arm("stdio", {"deadline"}, {})
    /\ UNCHANGED <<cancelled, answer, running, signals>>

\* The close event follows the exit, or the error of a child that never was.
ChildClose ==
    /\ running
    /\ Exited(outcome) \/ outcome.spawnError
    /\ Finish([outcome EXCEPT !.closed = TRUE], {})
    /\ UNCHANGED <<cancelled, signals>>

Child == ChildError \/ ChildClose \/ \E how \in {"zero", "nonzero", "signal"} : ChildExit(how)

Next == Call \/ Abort \/ Oversize \/ Fires \/ Child

Spec == Init /\ [][Next]_vars

\* complete() runs on, and a timer that was set fires.  Nothing is assumed of
\* the child, which may never exit, nor of the caller.
FairSpec == Spec /\ WF_vars(Call) /\ WF_vars(Fires)

------------------------------------------------------------------------------
Answered == answer # "none"

\* While the call runs some timer leads on to an answer: every handler that
\* clears the deadline, or lets it pass, leaves another timer behind it.
BoundedWait ==
    running => \/ <<"deadline", armed["deadline"]>> \in timers /\ ~Exited(outcome)
               \/ \E n \in 1..armed["kill"] : <<"kill", n>> \in timers
               \/ \E n \in 1..armed["stdio"] : <<"stdio", n>> \in timers
               \/ \E n \in 1..armed["hard"] : <<"hard", n>> \in timers

\* An answered call leaves no process it has not killed: the child is gone
\* with its pipes closed, or its group was sent SIGKILL, or there is none.
NothingLeftAlive ==
    Answered => outcome.closed \/ outcome.escalated \/ armed["deadline"] = 0

\* A response is read only of a child that ended by itself: its group was
\* never signalled, it exited with 0 and all of its output had arrived.
ReadUndisturbed ==
    answer \in Read => signals = 0 /\ outcome.exit = "zero" /\ outcome.closed

\* Once the call is answered the group is not signalled again, though an
\* overwritten timer still fires: the group's number may be another's by then.
AnsweredIsQuiet == [][Answered => signals' = signals]_vars

\* The call keeps the promise made to the agent runtime.
Promise == INSTANCE ReasonerCall WITH Classes <- Faults \cup Read
KeepsPromise == Promise!Spec
===============================================================================
