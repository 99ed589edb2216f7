\* One name, three calls, failing steps and sessions that end amid a call; a
\* wait of ten units, polled every two; three messages with two completions;
\* two sessions with a widget that is poked once.
SPECIFICATION RegistrySpec
CONSTANTS
    Name = {x}
    Call = {a, b, c}
    None = None
    Faults = {"fail", "crash"}
    TimeoutMs = 10
    PollMs = 2
    StabilityMs = 10
    StartupMs = 5
    WaitFaults = {"unknown"}
    Panel = {p, q}
    Completion = {i, j}
    Old = Old
    Text = {u, v}
    MaxMessages = 3
    Timer = {t1, t2}
    Tick = {k1, k2, k3}
    MaxSessions = 2
    MaxEpoch = 1
SYMMETRY Symmetry
CHECK_DEADLOCK FALSE
INVARIANTS HoldersAreRegistered WorkIsPreserved  WaitIsHonest ReportsStayReadable WidgetHasOneTimer
PROPERTY FollowsOwnership
