SPECIFICATION Spec
CONSTANTS
    Name = {x, y, z}
    Arm = {a}
    None = None
    Settled = Settled
    PendingLimit = 1
    BatchId = {1}
    Calls = {"dismiss", "shutdown", "arms"}
    MaxTime = 1
    MaxResult = 2
SYMMETRY Symmetry
CHECK_DEADLOCK FALSE
INVARIANTS ReportedOnce MembersAreAwaited
PROPERTIES HeldReportIsKept FollowsLedger
