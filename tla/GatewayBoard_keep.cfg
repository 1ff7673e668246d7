SPECIFICATION FairSpec
CONSTANTS
    MaxKeys = 2
    MaxCount = 1
    Hosts = {"router", "laptop"}
    NoHost = "none"
    Router = "router"
    Tries = 2
    MaxFails = 2
    MaxMoves = 1
PROPERTIES
    ExistingKeyKept
