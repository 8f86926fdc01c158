CONSTANTS
    a = a b = b sys = sys None = None
    ProtocolMinor = 1
    MinFrame = 3
    MaxPortable = 3
    PortableBits = {0, 1}
    Names = {a, b, sys}
    ReservedNames = {sys}
    MinOutput = 2
    Offers <- MCOffers
    Configurations <- MCConfigurations
    Ceilings = {8}
    LowerTo = {4}
    FrameBytes <- MCFrameBytes
    MinSession = 3
    MaxSequence = 4
    MaxGeneration = 2
SPECIFICATION Spec
INVARIANTS
    FramesInOrder
    PeersAgree
    StatusAlwaysFits
