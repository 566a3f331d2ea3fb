SPECIFICATION OrchestratorSpec
CONSTANTS
  Items <- MCItems
  Clusters <- MCClusters
  MaxAttempts = 3
  MaxReplays = 3
  MaxContexts = 5
  CollectContexts = 4
  MaxPromoted = 1
INVARIANTS EntriesAreReserved CleanIsClean
PROPERTY RecordedWorkIsNotRepeated
