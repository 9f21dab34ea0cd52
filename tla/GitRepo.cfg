SPECIFICATION Spec
CONSTANTS
    main = main
    topic = topic
    c1 = c1
    c2 = c2
    f1 = f1
    f2 = f2
    Files = {f1, f2}
    Contents = {1, 2}
    Branches <- MCBranches
    Main = main
    Starts <- MCStarts
    Callers = {c1, c2}
    None = None
    Marked = Marked
    Unmerged = Unmerged
    MaxCommits = 7
    MaxCalls = 6
SYMMETRY MCSymmetry
INVARIANTS StagedByHand MergedIsRecorded
PROPERTIES HistoryGrows
CHECK_DEADLOCK FALSE
