CONSTANTS
    Applies = {a1, a2}
    MaxRuns = 4
    MaxStrays = 1
    Referable = {1}
    KeepRecent = 2
    NoRecord = NoRecord
SPECIFICATION Spec
SYMMETRY Symmetry
INVARIANTS
    NewestAreKept
    RemovalsAreRecorded
    ReceiptsAreTrue
