SPECIFICATION Spec
CONSTANTS
    Name = {x, y, z}
    Arm = {}
    None = None
    Settled = Settled
    PendingLimit = 1
    BatchId = {1}
    Calls = {"dismiss"}
    MaxTime = 0
    MaxResult = 2
SYMMETRY Symmetry
CHECK_DEADLOCK FALSE
INVARIANTS HeldReportIsTimed
