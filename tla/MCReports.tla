----------------------------- MODULE MCReports ------------------------------
(* What a session tells of itself, on small instances: to a browser through *)
(* the web relay, whose snapshots are modelled beside its connection; to    *)
(* herdr; and to the user, by its title and in the status line.  A          *)
(* behaviour is one of the part in focus; the others stay as they begin.    *)
EXTENDS WebRelay, Sequences

CONSTANTS
    Tool, Writes, None, MaxText, MaxMessages, MaxTools, Base, MaxBytes, MaxTime,
    MaxSeq, MaxLoads, ReportFaults,             \* of AgentState
    Branch, Turn, MaxSwitches, MaxRuntimes,     \* of StatusLine
    MaxStream, RouteFaults,                     \* of FableRouting
    MaxSessions, MaxPrompts, TitleFaults        \* of SessionTitle

\* The bounds are numbers, and there is a first instance of the extension.
ASSUME ReportSizesAssumption == MaxSeq \in Nat /\ MaxLoads \in Nat \ {0}

VARIABLES
    focus,
    entries,
    running, settled, prompts, load, root, agentActive, blockedCount, lastState,
    reportSeq, queuedState, sending, late, herdr,
    head, switches, runtime, repository, fiber,
    status, request, said,
    session, name, attempted, given, asked

herdrVars == <<running, settled, prompts, load, root, agentActive, blockedCount, lastState,
               reportSeq, queuedState, sending, late, herdr>>
lineVars == <<head, switches, runtime, repository, fiber>>
routeVars == <<status, request, said>>
titleVars == <<session, name, attempted, given, asked>>

Snapshot == INSTANCE RelaySnapshot
Herdr == INSTANCE AgentState
Line == INSTANCE StatusLine
Route == INSTANCE FableRouting
Naming == INSTANCE SessionTitle

ReportsInit ==
    /\ focus \in {"relay", "snapshot", "herdr", "line", "route", "title"}
    /\ Init /\ Snapshot!SnapshotInit /\ Herdr!AgentInit /\ Route!RouteInit /\ Naming!TitleInit
    /\ Line!LineInit /\ (focus # "line" => head = CHOOSE b \in Branch : TRUE)

ReportsNext ==
    /\ UNCHANGED focus
    /\ \/ /\ focus = "relay" /\ Next
          /\ UNCHANGED <<entries, herdrVars, lineVars, routeVars, titleVars>>
       \/ /\ focus = "snapshot" /\ Snapshot!SnapshotNext
          /\ UNCHANGED <<vars, herdrVars, lineVars, routeVars, titleVars>>
       \/ /\ focus = "herdr" /\ Herdr!AgentNext
          /\ UNCHANGED <<vars, entries, lineVars, routeVars, titleVars>>
       \/ /\ focus = "line" /\ Line!LineNext
          /\ UNCHANGED <<vars, entries, herdrVars, routeVars, titleVars>>
       \/ /\ focus = "route" /\ Route!RouteNext
          /\ UNCHANGED <<vars, entries, herdrVars, lineVars, titleVars>>
       \/ /\ focus = "title" /\ Naming!TitleNext
          /\ UNCHANGED <<vars, entries, herdrVars, lineVars, routeVars>>

\* The fair actions of the relay and of the status line are disabled before a
\* session starts, so that they ask nothing when the part is not in focus.
ReportsSpec ==
    /\ ReportsInit /\ [][ReportsNext]_<<focus, vars, entries, herdrVars, lineVars, routeVars, titleVars>>
    /\ RelayFairness /\ Line!LineFairness

\* A snapshot fits its limits, and shows the newest messages, and of each tool
\* the state that the conversation has reached (normalizeActiveBranch,
\* boundSnapshot).  The variables have their types.
SnapshotsAreCurrent ==
    /\ TypeOK /\ Snapshot!SnapshotTypeOK /\ Herdr!AgentTypeOK /\ Line!LineTypeOK /\ Route!RouteTypeOK
    /\ Naming!TitleTypeOK
    /\ focus = "snapshot" => Snapshot!SnapshotsAreCurrent

\* At rest herdr shows what pi does (drainStateQueue).
StateIsReported == focus = "herdr" => Herdr!StateIsReported

\* What the user is shown: the status line does not keep the pull request of a
\* branch that was left (refreshPullRequest), nor misstates the route of a
\* response that has ended (consumeServerSentEvents); a session has the name the
\* user gave it, or a title of its own (before_agent_start of session-title.ts).
ShownIsTrue ==
    /\ Line!StatusCatchesUp
    /\ [](focus = "route" => Route!RouteIsTold)
    /\ []Naming!TitleIsOwn /\ Naming!UserNameStands
=============================================================================
