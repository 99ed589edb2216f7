------------------------------ MODULE LspTool ------------------------------
(***************************************************************************)
(* One call of the lsp tool (lsp/tool.ts): it locates the servers of the   *)
(* file, asks those that support the operation, all for a query and the    *)
(* first for an edit, and reports what they answer; an edit is approved,   *)
(* written file by file and told to the servers that run.                  *)
(*                                                                         *)
(* The servers are numbered in the order of the registry.                  *)
(***************************************************************************)
EXTENDS Naturals, FiniteSets, FiniteSetsExt

CONSTANTS
    MaxServers,     \* servers that match the file
    ToolFaults      \* a subset of {"null"}: a server answers null

Servers == 1..MaxServers

VARIABLES
    ask,        \* the parameters
    support,    \* the servers that support the operation
    alive,      \* the servers that run
    stage,
    found,      \* the clients located
    response,   \* of each server
    dialog,     \* the question to the user
    auto,       \* autoAuthorize
    session,    \* the runtime of the call is not shut down
    written,    \* a file has been written, or a part of it
    reported    \* the servers whose answers the result shows

toolVars == <<ask, support, alive, stage, found, response, dialog, auto, session,
              written, reported>>

Locating == {"definition", "prepareCallHierarchy"}  \* and references, implementation
Calls == {"incomingCalls"}                          \* and outgoingCalls
Mutations == {"rename", "formatting", "codeAction", "organizeImports"}
NeedsPosition == Locating \cup Calls \cup {"hover", "rename"}
NeedsFile == NeedsPosition \cup Mutations \cup {"documentSymbol"}
Operations == NeedsFile \cup {"workspaceSymbol", "diagnostics", "status"}

Answers == {"some", "empty", "malformed", "bare"}
           \cup IF "null" \in ToolFaults THEN {"null"} ELSE {}
Ended == {"done", "failed", "aborted"}

ToolTypeOK ==
    /\ ask \in [operation : Operations, file : BOOLEAN, position : BOOLEAN, named : BOOLEAN]
    /\ stage \in {"idle", "locating", "asking", "asked", "answered", "confirming", "applying", "touching"} \cup Ended
    /\ support \subseteq Servers /\ alive \subseteq Servers /\ found \subseteq Servers
    /\ response \in [Servers -> {"none", "wanted", "items", "failed"} \cup Answers]
    /\ dialog \in {"none", "open", "yes", "no"}
    /\ auto \in BOOLEAN /\ session \in BOOLEAN /\ written \in BOOLEAN
    /\ reported \subseteq Servers

ToolInit ==
    /\ ask = [operation |-> "status", file |-> FALSE, position |-> FALSE, named |-> FALSE]
    /\ support = {} /\ alive = {} /\ stage = "idle" /\ found = {}
    /\ response = [s \in Servers |-> "none"]
    /\ dialog = "none" /\ auto = FALSE /\ session = TRUE
    /\ written = FALSE /\ reported = {}

-----------------------------------------------------------------------------
(* The parameters, and the clients                                         *)

\* requireFile, requirePosition and the name a rename requires.
Refused(a) ==
    \/ a.operation \in NeedsFile /\ ~a.file
    \/ a.operation \in NeedsPosition /\ ~a.position
    \/ a.operation = "rename" /\ ~a.named

Execute(a, supporting, running, authorized) ==
    /\ stage = "idle"
    /\ ask' = a /\ support' = supporting /\ alive' = running /\ auto' = authorized
    /\ IF Refused(a) THEN stage' = "failed" ELSE stage' = "locating"
    /\ UNCHANGED <<found, response, dialog, session, written, reported>>

\* Of the running clients or their diagnostics: nothing is started.
UsesRunning == ask.operation = "status" \/ (~ask.file /\ ask.operation \in {"workspaceSymbol", "diagnostics"})

\* clientsForFileProgram: a client that runs or has been started.  The calls
\* that wait for it are of LspRuntime.
LocateServer(s) ==
    /\ stage = "locating" /\ session /\ ~UsesRunning
    /\ s \notin found
    /\ found' = found \cup {s} /\ alive' = alive \cup {s}
    /\ UNCHANGED <<ask, support, stage, response, dialog, auto, session, written, reported>>

\* ensureClients: without a client the call fails.
EnsureClients ==
    /\ stage = "locating" /\ ~UsesRunning
    /\ stage' = IF found = {} \/ ~session THEN "failed" ELSE "asking"
    /\ UNCHANGED <<ask, support, alive, found, response, dialog, auto, session, written, reported>>

\* The tool asks the runtime for the clients that run.
RunningClients ==
    /\ stage = "locating" /\ ask.operation = "workspaceSymbol" /\ ~ask.file
    /\ found' = alive /\ stage' = "asking"
    /\ UNCHANGED <<ask, support, alive, response, dialog, auto, session, written, reported>>

Status ==
    /\ stage = "locating" /\ ask.operation = "status"
    /\ stage' = "done"
    /\ UNCHANGED <<ask, support, alive, found, response, dialog, auto, session, written, reported>>

\* The diagnostics known of the file, which its clients have waited for, or of
\* all files.
Diagnostics ==
    /\ ask.operation = "diagnostics"
    /\ stage = IF ask.file THEN "asking" ELSE "locating"
    /\ stage' = "done"
    /\ UNCHANGED <<ask, support, alive, found, response, dialog, auto, session, written, reported>>

-----------------------------------------------------------------------------
(* Requests and answers                                                    *)

\* requireOperationSupport
Supporting == found \cap support

\* firstMutationClient, or all
Asked == IF ask.operation \in Mutations THEN {Min(Supporting)} ELSE Supporting

\* requestEffect: a broken client fails at once.
Request ==
    /\ stage = "asking" /\ ask.operation # "diagnostics"
    /\ \/ /\ Supporting = {} /\ stage' = "failed"
          /\ UNCHANGED response
       \/ /\ Supporting # {} /\ stage' = "asked"
          /\ response' = [s \in Servers |->
                IF s \notin Asked THEN "none" ELSE IF s \in alive THEN "wanted" ELSE "failed"]
    /\ UNCHANGED <<ask, support, alive, found, dialog, auto, session, written, reported>>

\* The document range of a code action cannot be read.
NoRange ==
    /\ stage = "asking" /\ ask.operation \in {"codeAction", "organizeImports"}
    /\ stage' = "failed"
    /\ UNCHANGED <<ask, support, alive, found, response, dialog, auto, session, written, reported>>

\* A server answers, to the call hierarchy's first request with its items.
Answer(s, a) ==
    /\ stage = "asked" /\ s \in alive
    /\ \/ response[s] = "wanted" /\ ask.operation \notin Calls
       \/ response[s] = "wanted" /\ a \in {"empty", "null"}
       \/ response[s] = "items"
    /\ response' = [response EXCEPT ![s] = IF @ = "wanted" /\ ask.operation \in Calls /\ a = "null" THEN "failed" ELSE a]
    /\ UNCHANGED <<ask, support, alive, stage, found, dialog, auto, session, written, reported>>

\* The first item's calls are requested.
RequestCalls(s) ==
    /\ stage = "asked" /\ ask.operation \in Calls /\ response[s] = "wanted"
    /\ response' = [response EXCEPT ![s] = IF s \in alive THEN "items" ELSE "failed"]
    /\ UNCHANGED <<ask, support, alive, stage, found, dialog, auto, session, written, reported>>

\* An error, or no answer in time.
Timeout(s) ==
    /\ stage = "asked" /\ response[s] \in {"wanted", "items"}
    /\ response' = [response EXCEPT ![s] = "failed"]
    /\ UNCHANGED <<ask, support, alive, stage, found, dialog, auto, session, written, reported>>

\* Effect.forEach: one request that fails ends the call; or all are answered.
RunAcrossClients ==
    /\ stage = "asked"
    /\ \/ (\E s \in Asked : response[s] = "failed") /\ stage' = "failed"
       \/ (\A s \in Asked : response[s] \in Answers) /\ stage' = "answered"
    /\ UNCHANGED <<ask, support, alive, found, response, dialog, auto, session, written, reported>>

-----------------------------------------------------------------------------
(* What comes of the answers                                               *)

Any(a) == \E s \in Asked : response[s] = a

LocationsOutcome == IF Any("malformed") \/ Any("bare") \/ Any("null") THEN "failed" ELSE "done"
CallsOutcome == "done"              \* what is malformed is left out
HoverOutcome == "done"
DocumentSymbolOutcome == "done"
WorkspaceSymbolOutcome == "done"

\* An edit is looked at only when it is applied.
RenameOutcome == "confirming"
FormattingOutcome == "confirming"
CodeActionOutcome ==
    IF Any("null") THEN "failed"
    ELSE IF ~ask.named THEN "done"
    ELSE IF Any("some") \/ Any("malformed") THEN "confirming"
    ELSE "failed"                   \* no such action, or one without an edit
OrganizeImportsOutcome == IF Any("some") \/ Any("malformed") THEN "confirming" ELSE "failed"

Outcome ==
    CASE ask.operation \in Locating -> LocationsOutcome
      [] ask.operation \in Calls -> CallsOutcome
      [] ask.operation = "hover" -> HoverOutcome
      [] ask.operation = "documentSymbol" -> DocumentSymbolOutcome
      [] ask.operation = "workspaceSymbol" -> WorkspaceSymbolOutcome
      [] ask.operation = "rename" -> RenameOutcome
      [] ask.operation = "formatting" -> FormattingOutcome
      [] ask.operation = "codeAction" -> CodeActionOutcome
      [] ask.operation = "organizeImports" -> OrganizeImportsOutcome

Report ==
    /\ stage = "answered"
    /\ stage' = Outcome
    /\ reported' = IF stage' = "failed" THEN {} ELSE {s \in Asked : response[s] # "failed"}
    /\ UNCHANGED <<ask, support, alive, found, response, dialog, auto, session, written>>

-----------------------------------------------------------------------------
(* Edits                                                                   *)

\* mutationApproval: without a question, without a user, or with an answer.
Authorize ==
    /\ stage = "confirming" /\ dialog = "none" /\ auto
    /\ stage' = "applying"
    /\ UNCHANGED <<ask, support, alive, found, response, dialog, auto, session, written, reported>>

Confirm(hasUI) ==
    /\ stage = "confirming" /\ dialog = "none" /\ ~auto
    /\ IF hasUI THEN dialog' = "open" /\ UNCHANGED stage ELSE stage' = "failed" /\ UNCHANGED dialog
    /\ UNCHANGED <<ask, support, alive, found, response, auto, session, written, reported>>

UserAnswers(answer) ==
    /\ dialog = "open" /\ dialog' = answer
    /\ UNCHANGED <<ask, support, alive, stage, found, response, auto, session, written, reported>>

Confirmed ==
    /\ stage = "confirming" /\ dialog \in {"yes", "no"}
    /\ stage' = IF dialog = "yes" THEN "applying" ELSE "failed"
    /\ UNCHANGED <<ask, support, alive, found, response, dialog, auto, session, written, reported>>

\* applyWorkspaceEdit, file by file: an answer without edits is refused before any
\* is made, but ranges that overlap, a URI of no file, and a file that cannot be
\* read or written are met on the way.  What is written is of LspEdits.
ApplyWorkspaceEdit ==
    /\ stage = "applying"
    /\ \/ Any("some") /\ written' = TRUE /\ UNCHANGED stage
       \/ /\ Any("some") \/ Any("malformed") \/ Any("bare") \/ Any("null")
          /\ stage' = "failed" /\ UNCHANGED written
       \/ (Any("some") \/ Any("empty")) /\ stage' = "touching" /\ UNCHANGED written
    /\ UNCHANGED <<ask, support, alive, found, response, dialog, auto, session, reported>>

\* touchChangedFiles: each server that runs is sent the text of each file; one that
\* cannot be is passed over (openClientEffect).
TouchChangedFiles ==
    /\ stage = "touching"
    /\ stage' = IF written /\ ~session THEN "failed" ELSE "done"
    /\ UNCHANGED <<ask, support, alive, found, response, dialog, auto, session, written, reported>>

-----------------------------------------------------------------------------
(* Around the call                                                         *)

\* The signal of the call interrupts it where it stands.
Abort ==
    /\ stage \notin Ended \cup {"idle"}
    /\ stage' = "aborted"
    /\ UNCHANGED <<ask, support, alive, found, response, dialog, auto, session, written, reported>>

ServerDies(s) ==
    /\ s \in alive /\ stage \notin Ended \cup {"idle"}
    /\ alive' = alive \ {s}
    /\ UNCHANGED <<ask, support, stage, found, response, dialog, auto, session, written, reported>>

\* shutdownProgram; an edit that is under way goes on.
SessionEnds ==
    /\ session /\ stage \notin Ended
    /\ session' = FALSE /\ alive' = {}
    /\ UNCHANGED <<ask, support, stage, found, response, dialog, auto, written, reported>>

ToolNext ==
    \/ \E a \in [operation : Operations, file : BOOLEAN, position : BOOLEAN, named : BOOLEAN],
          supporting, running \in SUBSET Servers, authorized \in BOOLEAN :
        /\ a.position => a.file
        /\ authorized \/ a.named => a.operation \in Mutations
        /\ Execute(a, supporting, running, authorized)
    \/ \E s \in Servers :
        \/ LocateServer(s) \/ RequestCalls(s) \/ Timeout(s) \/ ServerDies(s)
        \/ \E a \in Answers : Answer(s, a)
    \/ EnsureClients \/ RunningClients \/ Status \/ Diagnostics \/ Request \/ NoRange
    \/ RunAcrossClients \/ Report
    \/ Authorize \/ (\E hasUI \in BOOLEAN : Confirm(hasUI))
    \/ (\E answer \in {"yes", "no"} : UserAnswers(answer)) \/ Confirmed
    \/ ApplyWorkspaceEdit \/ TouchChangedFiles
    \/ Abort \/ SessionEnds

-----------------------------------------------------------------------------
(* Properties                                                              *)

\* A query that succeeds shows the answer of every client that supports it, so
\* that none is missing because its server failed (runAcrossClients).  Files
\* are written only as one server would have it and with the user's leave, be
\* the call aborted, a server dead or the session ended in between.  A search
\* fails only when a server does, or answers with what is no location
\* (firstMutationClient, mutationApproval, requireNormalizedLocations).
CallsAreHonest ==
    /\ stage = "done" /\ ask.operation \in NeedsFile \ Mutations =>
        \A s \in found \cap support : s \in reported /\ response[s] \in Answers
    /\ written =>
        /\ auto \/ dialog = "yes"
        /\ Cardinality({s \in Servers : response[s] # "none"}) = 1
    /\ stage = "failed" /\ session /\ ask.operation \in Locating /\ ~Refused(ask) /\ Supporting # {} =>
        \E s \in Supporting : response[s] \in {"failed", "malformed", "bare"}
=============================================================================
