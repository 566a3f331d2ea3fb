----------------------- MODULE MCCampaignOrchestrator -----------------------
(* A small campaign: two work items, two clusters of which one is promoted at *)
(* a time, and a budget that attempts and replays exhaust in several orders.  *)
EXTENDS CampaignOrchestrator
MCItems == 1..2
MCClusters == 1..2
=============================================================================
