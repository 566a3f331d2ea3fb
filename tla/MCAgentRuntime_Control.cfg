SPECIFICATION FairSpec
CONSTANTS
    None = None
    Calls = {a}
    Candidates = {c}
    Policy <- Tight
    MaxTurns = 2
    MaxIntents = 1
    MaxLives = 3
    Requests = {1}
    Responses <- Silent
    Payloads = {1}
    Elapsed = {1}
    Metered = FALSE
    MaxSpend = 0
    OutputBound = 1
    TokensPerByte = 1
    InputPrice = 1
    OutputPrice = 1
    Commands <- AllCommands
    CallOutcomes = {"THROW", "PERMANENT", "CANCELLED", "UNSAFE", "MALFORMED", "ACCEPTED"}
    Intents = {a, "PAUSE", "CANCEL", "TERMINATE", "FORM_HYPOTHESIS"}
    Verdicts = {"PAUSED", "COMPLETE_NO_FINDING"}
    ToolOutcomes = {"OK", "THROW"}
PROPERTY PausedIsKept
PROPERTY KeepsContract
PROPERTY RunEnds
