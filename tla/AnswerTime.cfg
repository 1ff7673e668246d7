SPECIFICATION Spec
CONSTANTS
    Hosts = {"router", "laptop"}
    NoHost = "none"
    Router = "router"
    Tries = 3
    MaxFails = 5
    MaxMoves = 1
    DiscoverTimeout = 3
    ConnTimeout = 4
INVARIANTS
    AnsweredInTime
