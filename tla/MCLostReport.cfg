SPECIFICATION Spec
CONSTANTS
    Name = {x, y}
    Arm = {}
    None = None
    Settled = Settled
    PendingLimit = 1
    BatchId = {1, 2}
    Calls = {"rearm"}
    MaxTime = 0
    MaxResult = 2
SYMMETRY Symmetry
CHECK_DEADLOCK FALSE
PROPERTIES HeldReportIsKept
