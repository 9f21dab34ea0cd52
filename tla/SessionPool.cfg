SPECIFICATION FairSpec
CONSTANTS
    MaxCreated = 3
    Call = {c1, c2}
    Cleaner = Cleaner
    MaxSessions = 2
    MaxBroken = 1
    c1 = c1
    c2 = c2
INVARIANTS
    CapacityBound
    PooledIsOpen
    OpenIsOwned
    ReturnedIsRouted
PROPERTIES
    IdleIsClosed
    StopTerminates
CHECK_DEADLOCK FALSE
