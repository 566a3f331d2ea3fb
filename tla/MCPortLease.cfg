CONSTANTS
    Processes = {p1, p2, p3}
    Ghost = ghost
    CandidateCount = 2
    None = none
SPECIFICATION LeaseSpec
CHECK_DEADLOCK FALSE
SYMMETRY Symmetry
INVARIANTS
    NoSharedPort
PROPERTIES
    TheftStartsAtReclaim
