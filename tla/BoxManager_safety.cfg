SPECIFICATION Spec
CONSTANTS
    Id = {i1, i2, i3}
    Box = {b1, b2, b3}
    GitBox = {b3}
    NoBox = NoBox
    NoId = NoId
    MaxSandboxes = 2
    MaxRunning = 1
    ReuseIds = TRUE
    GracefulDrain = FALSE
    b1 = b1
    b2 = b2
    b3 = b3
    i1 = i1
    i2 = i2
    i3 = i3
SYMMETRY Symmetry
INVARIANTS
    PooledIsLive
    NoStuckSlot
PROPERTIES
    StoppedOnce
    ImplementsSlots
CHECK_DEADLOCK FALSE
