SPECIFICATION FairSpec
CONSTANTS
    InitialDelay = 1
    MaximumDelay = 6
    TokenRetryDelay = 1
    DurationMax = 7
    Hints = {0, 9}
    NoHint = NoHint
    Errors <- MCErrors
    Tokens = {t1, t2}
    Configured = Configured
    RestartDelay = 1
    RetiredSessionDelay = 1
    DeliverySaturated = DeliverySaturated
    ResultTask = ResultTask
    None = None
    MaxStreak = 4
CHECK_DEADLOCK FALSE
INVARIANT
    ReadyWhileServing
