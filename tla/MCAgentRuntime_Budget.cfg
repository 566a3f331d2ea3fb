SPECIFICATION Spec
CONSTANTS
    None = None
    Calls = {a}
    Candidates = {c}
    Policy <- Tight
    MaxTurns = 3
    MaxIntents = 2
    MaxLives = 3
    Requests = {1}
    Responses <- Lengthy
    Payloads = {1}
    Elapsed = {1}
    Metered = TRUE
    MaxSpend = 10
    OutputBound = 1
    TokensPerByte = 1
    InputPrice = 1
    OutputPrice = 2
    Commands = {"PAUSE", "RESTORE"}
    CallOutcomes = {"TRANSIENT", "CANCELLED", "ACCEPTED"}
    Intents = {a, "PROPOSE_CANDIDATE", "REJECT_CANDIDATE", "REPLAN"}
    Verdicts = {}
    ToolOutcomes = {"OK", "TRANSIENT", "TERMINAL"}
INVARIANT CountsWithinCeiling
INVARIANT BytesChargedOnce
INVARIANT BilledWithinCeiling
INVARIANT FailedCallsNotRepeated
