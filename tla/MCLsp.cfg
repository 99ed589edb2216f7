\* One root and server, three calls, and the faults the runtime handles; two
\* calls that open a document; two files with two edits; three directories;
\* a call of the tool on two servers.
SPECIFICATION LspSpec
CONSTANTS
    Call = {a, b, c}
    None = None
    Faults = {"crash", "spawn", "abort"}
    Opener = {d, e}
    MaxRevision = 2
    ClientFaults = {}
    File = {f, g}
    NL = NL
    X = X
    Y = Y
    MaxEdits = 2
    MaxAnswer = 2
    EditFaults = {}
    Depth = 2
    LookupFaults = {}
    MaxServers = 2
    ToolFaults = {}
CHECK_DEADLOCK FALSE
INVARIANTS NoForgottenServer OneServer ShutdownIsFinal FilesAreServed EditsAreExact
PROPERTIES NoSpontaneousRestart EveryCallReturns
