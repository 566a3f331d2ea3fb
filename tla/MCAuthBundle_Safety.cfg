CONSTANTS
    Captures = {c1, c2}
    Prior = prior
    None = none
SPECIFICATION Spec
SYMMETRY Symmetry
INVARIANTS VerdictOfOnePair PairOrPending
PROPERTY RecoveredPairIsWhole
