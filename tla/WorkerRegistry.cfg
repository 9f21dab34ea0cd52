SPECIFICATION FairSpec
CONSTANTS
    Worker = {w1}
    NoWorker = NoWorker
    Handler = {h1, h2}
    Attempts = 2
    Threshold = 2
    FaultKinds = {"lost", "timeout", "late", "redis", "killed", "crash"}
    MaxFaults = 3
    Restarts = TRUE
    w1 = w1
    h1 = h1
    h2 = h2
INVARIANTS
    UntimedIsHeld
PROPERTIES
    ServingIsListed
    GoneIsDropped
CHECK_DEADLOCK FALSE
