CONSTANTS
    s1 = s1 s2 = s2 s3 = s3
    Slots = {s1, s2, s3}
    Direct = {s3}
    Ids = {i1, i2}
    None = None
    MaxConcurrency = 2
    HasPolicy = TRUE
SPECIFICATION Spec
SYMMETRY Interchangeable
INVARIANTS
    TableIsExact
    ReturnsQuiet
    NoResultLost
PROPERTIES
    NoStartAfterStop
CHECK_DEADLOCK FALSE
