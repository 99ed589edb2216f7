SPECIFICATION Spec
CONSTANTS
    Name = {x, y}
    Arm = {a, b}
    None = None
    Settled = Settled
    PendingLimit = 2
    BatchId = {1, 2}
    Faults = {"input", "restart"}
    MaxTime = 1
    MaxResult = 2
SYMMETRY Symmetry
CHECK_DEADLOCK FALSE
INVARIANTS ReturnedCallIsWatched DeliveredAtRest DurableArmIsLatest
