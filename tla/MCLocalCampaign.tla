---------------------------- MODULE MCLocalCampaign ----------------------------
(* Instances of LocalCampaign for TLC. *)
EXTENDS LocalCampaign

\* Three good runs pass the input ceiling, which ends the campaign's process.
Ceilings == [[d \in Dims |-> 100] EXCEPT !.calls = 3, !.provider = 2,
                                          !.candidates = 2, !.input = 5, !.wall = 5]

\* A run stopped before its first call, one that worked and one whose call failed.
Idle   == NoUsage
Good   == [NoUsage EXCEPT !.calls = 1, !.tools = 1, !.candidates = 1, !.input = 2, !.wall = 1]
Outage == [NoUsage EXCEPT !.calls = 1, !.provider = 1, !.failures = 1, !.consecutive = 1]

Every == {Idle, Good, Outage}
Clear == {Idle, Good}

=============================================================================
