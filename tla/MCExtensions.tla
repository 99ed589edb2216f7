---------------------------- MODULE MCExtensions ----------------------------
(* Instances of the extensions that share no state with each other.  A     *)
(* behaviour is one of the extension in focus; the others stay as they     *)
(* begin, so that the extensions are checked one after the other.          *)
EXTENDS Naturals, Sequences

CONSTANTS
    Caller, Pi, Server, PermissionFaults,               \* of LspPermissions
    MaxEntries, MaxRequests, ContextFaults,             \* of SmartContext
    NoSnapshot, MaxArchive, MaxLimit, MaxLength,        \* of ContextHistory
    Process, Depth, Instructions, LayoutFaults,         \* of ProjectInstructions
    MaxRedirects, MaxBody, WebFaults                    \* of WebRequests

VARIABLES
    focus,
    stored, cache, lock, change, decided,
    branch, pending, tools, turn, aborted, requests, reset, coordinator,
    command, compaction, waiting,
    archive, made, listing, reading,
    marker, metadata, saved, temporary, process,
    tool, at, timer, cancelled, hops, agent, fetches, body, kind, outcome

permissionsVars == <<stored, cache, lock, change, decided>>
contextVars == <<branch, pending, tools, turn, aborted, requests, reset, coordinator,
                 command, compaction, waiting>>
historyVars == <<archive, made, listing, reading>>
instructionsVars == <<marker, metadata, saved, temporary, process>>
webVars == <<tool, at, timer, cancelled, hops, agent, fetches, body, kind, outcome>>
vars == <<focus, permissionsVars, contextVars, historyVars, instructionsVars, webVars>>

Permissions == INSTANCE LspPermissions
Context == INSTANCE SmartContext
History == INSTANCE ContextHistory
Project == INSTANCE ProjectInstructions
Web == INSTANCE WebRequests

\* What the instances are given: the limits are numbers, no entry is the
\* snapshot that is not supplied, and no text is one of the two words that say
\* what a file is when it holds no text.
ExtensionsAssumption ==
    /\ MaxEntries \in Nat /\ MaxRequests \in Nat
    /\ MaxArchive \in Nat /\ MaxLimit \in Nat /\ MaxLength \in Nat \ {0}
    /\ NoSnapshot \notin 1..MaxArchive
    /\ Depth \in Nat
    /\ Project!Absent \notin Instructions /\ Project!Partial \notin Instructions
    /\ MaxRedirects \in Nat /\ MaxBody \in Nat
ASSUME ExtensionsAssumption

\* Project!InstructionsInit for a repository and, in it, any layout that
\* shares or does not share the repository's metadata.
Layouts == metadata.common = 1 /\ marker[1] \in {"directory", "file"} /\ \A x \in Process : process[x].cwd = 2

Init ==
    /\ focus \in {"permissions", "context", "history", "project", "web"}
    /\ Context!ContextInit /\ History!HistoryInit
    /\ Permissions!PermissionsInit
    /\ Web!WebInit /\ (focus # "web" => tool = "webfetch")
    /\ focus # "permissions" => \A c \in Caller : change[c].at = CHOOSE p \in Pi : TRUE
    /\ Project!InstructionsInit /\ Layouts
    /\ focus # "project" =>
        /\ marker = [d \in 1..Depth |-> "directory"]
        /\ metadata = [separate |-> FALSE, backlink |-> 0, common |-> 1, inside |-> FALSE]

Next ==
    /\ UNCHANGED focus
    /\ \/ /\ focus = "permissions" /\ Permissions!PermissionsNext
          /\ UNCHANGED <<contextVars, historyVars, instructionsVars, webVars>>
       \/ /\ focus = "context" /\ Context!ContextNext
          /\ UNCHANGED <<permissionsVars, historyVars, instructionsVars, webVars>>
       \/ /\ focus = "history" /\ History!HistoryNext
          /\ UNCHANGED <<permissionsVars, contextVars, instructionsVars, webVars>>
       \/ /\ focus = "project" /\ Project!InstructionsNext
          /\ UNCHANGED <<permissionsVars, contextVars, historyVars, webVars>>
       \/ /\ focus = "web" /\ Web!WebNext
          /\ UNCHANGED <<permissionsVars, contextVars, historyVars, instructionsVars>>

\* The fair actions are disabled in the initial states, so that they ask nothing
\* of a part that is not in focus.
Spec == Init /\ [][Next]_vars /\ Context!ContextFairness /\ Web!WebFairness

\* The variables have their types.
TypesOK ==
    CASE focus = "permissions" -> Permissions!PermissionsTypeOK
      [] focus = "context" -> Context!ContextTypeOK
      [] focus = "history" -> History!HistoryTypeOK
      [] focus = "project" -> Project!InstructionsTypeOK
      [] focus = "web" -> Web!WebTypeOK

\* No permission is lost to another kept at the same time
\* (permissionWriteLock); the instructions of a project are whole, and told to
\* no other project (writeProjectInstructions, resolveGitIdentityPath).
FilesAreKept ==
    /\ TypesOK
    /\ focus = "permissions" => Permissions!PermissionsKept
    /\ focus = "project" => Project!InstructionsAreKept

\* A context is reset only to a checkpoint that covers all input, and nothing
\* goes on that Escape has stopped (requireCheckpoint and the command).
ResetsAreWarranted == Context!ResetsAreWarranted

\* What waits comes to its end: the settlement that waits for a reset
\* (coordinator.completed), and a call of a web tool (createOperationSignal).
\* One of the two is in focus, so that this is Context!SettlementReturns and
\* Web!RequestEnds in one formula.
Waiting == Context!SettlementWaits \/ Web!CallRuns
WaitsEnd == Waiting ~> ~Waiting

\* Requests and responses keep their limits, and a call ends as it says
\* (fetchWithRedirects, readBodyWithLimit).
RequestsAreBounded == focus = "web" => Web!RequestsAreBounded

\* The pages of a list show every item of its snapshot once, while the branch
\* grows; an item is read whole (queryHistory).
PagesAreWhole == focus = "history" => History!PagesAreWhole
=============================================================================
