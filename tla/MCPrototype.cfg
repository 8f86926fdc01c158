SPECIFICATION FairSpec
CONSTANTS
    None = None
    Callers = {"c1", "c2"}
    MaxInFlight = 1
    MaxRequests = 2
    Sizes = {"narrow", "wide"}
    MaxInvocations <- MCMaxInvocations
    RuntimeIds <- MCRuntimeIds
    MaxConcurrency <- MCMaxConcurrency
    DeliveryCapacity = 1
    Errors <- MCErrors
    Hints = {0, 9}
    Tokens = {"t1", "t2"}
    Configured = Configured
    RuntimeFailure = RuntimeFailure
    InitialDelay = 1
    MaximumDelay = 6
    FixedDelay = 1
    Capacity = 2
    MaxStreak = 4
INVARIANTS
    SessionIsSound
    RuntimeIsSound
    HostIsSound
PROPERTY
    PrototypeWaitsEnd
CHECK_DEADLOCK FALSE
