SPECIFICATION Spec
CONSTANTS
    Call = {c1, c2, c3}
    Box = {b1, b2, b3}
    Ops = {"execute", "write", "reset", "close", "run"}
    c1 = c1
    c2 = c2
    c3 = c3
    b1 = b1
    b2 = b2
    b3 = b3
SYMMETRY Symmetry
INVARIANTS
    OneTarget
    OnlyHeldIsLive
CHECK_DEADLOCK FALSE
