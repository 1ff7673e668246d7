SPECIFICATION Spec
CONSTANTS
    MaxLines = 5
    MaxShown = 2
    BatchSize = 2
    MaxTroubles = 2
    Slots = {r1, r2}
    Searches = 2
    Servers = {s1, s2}
    MaxRequests = 2
    MaxAdverts = 2
    MaxQueue = 3
    MaxTexts = 3
    MaxPackets = 3
    MaxReaders = 2
    MaxUnflushed = 1
INVARIANTS
    IndexedInOrder
    PartsAreOrdered
    NoEcho
    WrittenInOrder
    CaptureIsReadable
PROPERTIES
    CatchesUp
    FallsSilent
    ThreadEnds
CHECK_DEADLOCK FALSE
