CONSTANTS
    EventCapacity = 2
    MaxBufferBytes = 3
    Readers = {r1, r2}
    Initial = r1
    FrameSizes = {1, 2, 4}
    MaxEvents = 3
SPECIFICATION FairSpec
INVARIANTS
    BufferBounded
    NoSilentLoss
    DeliveredInOrder
    EndingIsComplete
PROPERTIES
    LagSkipsOnlyLost
    ImplementsLog
    ReadersCatchUp
