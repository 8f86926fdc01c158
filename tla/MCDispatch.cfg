CONSTANTS
    s1 = s1 s2 = s2 s3 = s3 s4 = s4
    Slots = {s1, s2, s3, s4}
    Direct = {s1, s2}
    Ids = {i1}
    None = None
    MaxConcurrency = 1
    HasPolicy = FALSE
SPECIFICATION Spec
SYMMETRY Interchangeable
INVARIANTS
    PermitsConserved
CHECK_DEADLOCK FALSE
