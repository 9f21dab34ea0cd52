SPECIFICATION Spec
CONSTANTS
    Box = {b1, a1}
    AgentCore = {a1}
    Commit = {c1, c2}
    Branch = Branch
    PushRef = PushRef
    Absent = Absent
    MaxTransfers = 5
    MaxFaults = 1
    b1 = b1
    a1 = a1
    c1 = c1
    c2 = c2
SYMMETRY Symmetry
INVARIANTS
    SkippedPullIsHere
PROPERTIES
    ImplementsRepo
    RecordedIsStored
    BranchAfterCommits
CHECK_DEADLOCK FALSE
