---------------------------- MODULE MCAgentRuntime ----------------------------
(* Instances of AgentRuntime for TLC. *)
EXTENDS AgentRuntime

Ample == [d \in Dims |-> 100]

\* Failures, actions and candidates run out within a few turns.
Tight == [Ample EXCEPT !.calls = 4, !.tools = 3, !.candidates = 2,
                       !.failures = 3, !.consecutive = 3, !.provider = 2, !.wall = 6]

\* A response has as many tokens as bytes, or fewer, or says nothing.
Lengthy == {[bytes |-> 2, tokens |-> 1], [bytes |-> 1, tokens |-> 1]}
Silent  == {[bytes |-> 0, tokens |-> 0]}

AllCommands == {"PAUSE", "RESUME", "CANCEL", "CHECKPOINT", "RESTORE"}

=============================================================================
