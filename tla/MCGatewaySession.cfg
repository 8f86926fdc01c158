CONSTANTS
    Requests = {r1, r2}
    MaxInFlight = 1
SPECIFICATION FairSpec
INVARIANTS
    InFlightBounded
    CauseIsKnown
    NoCallerForgotten
PROPERTIES
    RequestsResolve
    CloseCompletes
CHECK_DEADLOCK FALSE
