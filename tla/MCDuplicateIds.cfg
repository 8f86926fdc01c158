CONSTANTS
    s1 = s1 s2 = s2 s3 = s3
    Slots = {s1, s2, s3}
    Direct = {s1, s2}
    Ids = {i1}
    None = None
    MaxConcurrency = 2
    HasPolicy = FALSE
SPECIFICATION Spec
SYMMETRY Interchangeable
INVARIANTS
    UniqueExecution
CHECK_DEADLOCK FALSE
