SPECIFICATION FairSpec
CONSTANTS
    None = None
    Candidates = {c}
    Policy <- Ceilings
    Plans = {0, 2}
    StagnationLimit = 2
    Costs <- Every
    Endings = {"COMPLETE_WITH_FINDING", "COMPLETE_NO_FINDING", "CANCELLED", "PAUSED", "SAFETY_BLOCKED", "REASONER_FAILURE"}
    Delays = {0}
    MaxStarts = 2
INVARIANTS UsageCountedOnce CountsWithinPolicy ProgressIsDurable CompletionIsEarned
PROPERTIES CleanupKeepsFindings PauseStopsCampaign CampaignEnds
CHECK_DEADLOCK FALSE
