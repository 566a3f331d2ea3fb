SPECIFICATION Spec
CONSTANTS
    Procs = {p1, p2}
    Tasks = {t1, t2}
    MaxRuns = 4
    MaxOwn = 2
    MaxForeign = 1
    None = None
SYMMETRY Symmetry
INVARIANTS OwnerIsRecorded
PROPERTIES ComparedBeforeReplaced LostWorkWasAbandoned IntegratedIsIntended
