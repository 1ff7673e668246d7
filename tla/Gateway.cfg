SPECIFICATION Spec
CONSTANTS
    n1 = n1
    n2 = n2
    n3 = n3
    other = other
    NoNonce = NoNonce
    Peers = {p1}
    p1 = p1
    Kinds <- AllKinds
    TableSize = 1
    Modulus = 16
    WindowMs <- Windows
    BlockMs = 1
    FailsToBlock = 1
    Limit <- MixedLimits
    Datagrams <- Traffic
    AllowedSender = 7
    MaxMessages = 3
    CacheSize = 2
    MaxKeys = 2
    MaxForgotten = 1
    Horizon = 1
SYMMETRY Alike
INVARIANTS
    TypeOK
    AtMostOncePerBoot
    NonceWindow
    KeyAccount
    KeyBudget
PROPERTIES
    SpentKeyStaysSpent
