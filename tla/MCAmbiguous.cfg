SPECIFICATION Spec
CONSTANTS
    Name = {x}
    Arm = {a, b}
    None = None
    Settled = Settled
    PendingLimit = 2
    BatchId = {1, 2, 3}
    Faults = {"input"}
    MaxTime = 0
    MaxResult = 2
SYMMETRY Symmetry
CHECK_DEADLOCK FALSE
INVARIANTS AttemptStaysAccepted
