SPECIFICATION FairSpec
CONSTANTS
    None = None
    Invocations = {"i1"}
    Commands = {"c1"}
    Nonces = {"n1", "n2"}
    Millis = {0, 1, 2, 4}
    Graces = {0, 1, 2}
    HostGrace = 1
    MaxTime = 6
    EventIds = {"i1", "i2"}
    Clients = {"c1", "c2", "c3"}
    MaxConnections = 2
    MaxErrors = 3
    MaxNames = 3
    MaxFrames = 4
    Slots = {"s1", "s2", "s3"}
    Direct = {"s2", "s3"}
    RuntimeIds = {"i1"}
    MaxConcurrency = 1
INVARIANTS
    ConnectIsSound
    DeadlineIsFair
    ProgressIsSound
    HandlersCannotEndRun
    HealthIsBounded
    RegistrationIsExact
PROPERTIES
    BridgeIsSound
    NodeWaitsEnd
CHECK_DEADLOCK FALSE
