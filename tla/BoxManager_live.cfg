SPECIFICATION FairSpec
CONSTANTS
    Id = {i1, i2}
    Box = {b1, b2}
    GitBox = {b2}
    NoBox = NoBox
    NoId = NoId
    MaxSandboxes = 2
    MaxRunning = 2
    ReuseIds = TRUE
    GracefulDrain = TRUE
    b1 = b1
    b2 = b2
    i1 = i1
    i2 = i2
PROPERTIES
    SlotsComeBack
    StopEmpties
CHECK_DEADLOCK FALSE
