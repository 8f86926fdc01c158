CONSTANTS
    MaximumBytes = 3
    Sizes = {1, 2}
    Seqs = {0, 1, 2, 3}
    SeqMax = 3
    Receivers = {main}
    Main = main
    MaxPushes = 4
SPECIFICATION FairSpec
INVARIANTS
    OverflowForcesFailure
CHECK_DEADLOCK FALSE
