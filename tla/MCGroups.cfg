SPECIFICATION FairSpec
CONSTANTS
    Name = {x, y, z}
    Arm = {}
    None = None
    Settled = Settled
    PendingLimit = 1
    BatchId = {1}
    Calls = {"watch"}
    MaxTime = 0
    MaxResult = 2
CHECK_DEADLOCK FALSE
INVARIANTS TypeOK HeldReportIsTimed
PROPERTIES HeldReportIsSent
