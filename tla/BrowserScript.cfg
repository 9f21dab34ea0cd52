SPECIFICATION FairSpec
CONSTANTS
    Exec = {c1, c2}
    Task = {c1, c2}
    Page = {p1}
    Kinds = {"unknown", "solve_captcha"}
    MaxConns = 2
    MaxCommands = 2
    MaxProgress = 1
    MaxStretches = 2
    c1 = c1
    c2 = c2
    p1 = p1
    p2 = p2
INVARIANTS
    OwnAnswer
    OutputOnce
    AloneIsExact
PROPERTIES
    ExecutionsEnd
CHECK_DEADLOCK FALSE
