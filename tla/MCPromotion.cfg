CONSTANTS
    c1 = c1
    c2 = c2
    k1 = k1
    k2 = k2
    k3 = k3
    Cases = {c1, c2}
    Candidates = {k1, k2, k3}
    CaseOf <- MCCaseOf
    Roots = {r1, r2}
    Appliers = {a1, a2}
    MaxCommits = 2
    Nobody = nobody
SPECIFICATION Spec
SYMMETRY Symmetry
INVARIANTS
    OneWrite
    DirtIsApproved
