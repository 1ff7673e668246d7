SPECIFICATION Spec
CONSTANTS
    Addresses = {a1}
    a1 = a1
    a2 = a2
    NoAddress = NoAddress
    Broadcast = Broadcast
    SenderId = 7
    Provisioned = 1
    MaxAttempts = 2
    RefreshAfter = 2
    FlashFaults = FALSE
    MaxIssued = 2
    Capacity = 1
    Kinds <- AllKinds
    TableSize = 1
    Modulus = 2
    WindowMs <- NoTime
    BlockMs = 1
    FailsToBlock = 3
    Limit <- AmpleLimits
    MaxMessages = 0
    CacheSize = 1
    NoNonce = NoNonce
    MaxKeys = 1
    MaxForgotten = 2
    SenderAddress = SenderAddress
    Peers = {SenderAddress}
    Datagrams <- AllPosts
    AllowedSender = 7
    Horizon = 0
    MaxMoves = 0
INVARIANTS
    FallbackKept
