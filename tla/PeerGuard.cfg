SPECIFICATION FairSpec
CONSTANTS
    Peers = {p1}
    p1 = p1
    Kinds <- GetAndPost
    TableSize = 1
    Modulus = 8
    WindowMs <- Windows
    BlockMs = 3
    FailsToBlock = 2
    Limit <- Limits
    Traffic = {"malformed", "bad_header", "other", "request", "post"}
INVARIANTS
    TypeOK
    BurstBound
    NoStaleThrottle
    BlockHolds
    BlockExpires
PROPERTIES
    RefusalIsTemporary
