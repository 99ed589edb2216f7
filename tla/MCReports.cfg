\* Two sessions, two commands, one write; connections break at any time.  A
\* conversation of four entries, where snapshots have room for two messages.
\* Three reports to herdr and one reload.  Two branches, changed twice, while
\* the two loops and a turn ask; a response with three events.
\* Two sessions of three prompts each.
SPECIFICATION ReportsSpec
CONSTANTS
    Op = {o1, o2}
    Write = {w}
    MaxGeneration = 3
    Faults = {}
    Tool = {t, u}
    Writes = {t}
    None = None
    MaxText = 1
    MaxMessages = 2
    MaxTools = 1
    Base = 2
    MaxBytes = 8
    MaxTime = 4
    MaxSeq = 3
    MaxLoads = 2
    ReportFaults = {}
    Branch = {"a", "b"}
    Turn = {"t"}
    MaxSwitches = 2
    MaxRuntimes = 1
    MaxStream = 3
    RouteFaults = {}
    MaxSessions = 2
    MaxPrompts = 3
    TitleFaults = {}
CHECK_DEADLOCK FALSE
INVARIANTS OnePursuit ViewIsCurrent WritesAgree SnapshotsAreCurrent StateIsReported
PROPERTIES Reconnects CommandsEnd ShownIsTrue
