SPECIFICATION Spec
CONSTANTS
    Sandbox = {s1, s2}
    Worker = {w1, w2}
    NoWorker = NoWorker
    NoSandbox = NoSandbox
    Creator = {c1, c2}
    Destroyer = {d1, d2}
    Capacity = 1
    Kinds = {"user", "grace", "expired"}
    FaultKinds = {"timeout", "abort", "crash", "lapse", "oldroute"}
    MaxFaults = 1
    s1 = s1
    s2 = s2
    w1 = w1
    w2 = w2
    c1 = c1
    c2 = c2
    d1 = d1
    d2 = d2
SYMMETRY Symmetry
INVARIANTS
    OnlyLooseRunOn
    ReturnedIsReachable
PROPERTY
    ImplementsLife
CHECK_DEADLOCK FALSE
