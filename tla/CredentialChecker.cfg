SPECIFICATION CheckerFairSpec
CONSTANTS
    Sandbox = {s1, s2}
    NoSandbox = NoSandbox
    Hooked = {s1}
    Orchestrator = {o1}
    Patcher = {p1}
    LeadTime = 3
    GracePeriod = 1
    Window = 1
    Given = {TRUE, FALSE}
    MinLife = 3
    MaxTime = 5
    MaxPatches = 1
    CheckerFaultKinds = {"redis", "restart", "patch"}
    MaxCheckerFaults = 1
    s1 = s1
    s2 = s2
    o1 = o1
    p1 = p1
INVARIANTS
    TimerMatches
PROPERTIES
    NoDuplicateWebhook
    AskedBeforeClosed
    AnnouncedBeforeShutdown
    RefreshThenScanSurvives
    ExpiredIsClosed
CHECK_DEADLOCK FALSE
