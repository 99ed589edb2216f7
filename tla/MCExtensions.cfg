\* Each extension on the least instance in which its steps overlap.
SPECIFICATION Spec
CONSTANTS
    Caller = {c1, c2}
    Pi = {p, q}
    Server = {s, t}
    PermissionFaults = {}
    MaxEntries = 5
    MaxRequests = 2
    ContextFaults = {}
    NoSnapshot = NoSnapshot
    MaxArchive = 3
    MaxLimit = 2
    MaxLength = 2
    Process = {v, w}
    Depth = 2
    Instructions = {"x"}
    LayoutFaults = {}
    MaxRedirects = 2
    MaxBody = 2
    WebFaults = {}
INVARIANTS
    FilesAreKept
    PagesAreWhole
    RequestsAreBounded
PROPERTIES
    ResetsAreWarranted
    WaitsEnd
CHECK_DEADLOCK FALSE
