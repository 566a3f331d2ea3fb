SPECIFICATION Spec
INVARIANTS
    RefusedNeverVisible
PROPERTIES
    AtomicSlot
    UnracedRenameAdvances
CONSTANTS
    Procs = {p1, p2}
    MaxDocs = 3
    Absent = Absent
    Partial = Partial
    Damaged = Damaged
