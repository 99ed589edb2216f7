SPECIFICATION Spec
CONSTANTS
    Name = {x}
    Arm = {a, b}
    None = None
    Settled = Settled
    PendingLimit = 2
    BatchId = {1, 2}
    Faults = {"input", "rpc", "blocked", "quiet", "respawn", "restart", "abort", "misread"}
    MaxTime = 1
    MaxResult = 2
SYMMETRY Symmetry
CHECK_DEADLOCK FALSE
INVARIANTS NoFutileWatcher NoStrandedResult
