------------------------------- MODULE MCLsp -------------------------------
(* The LSP extension on small instances: the runtime with its servers, and *)
(* beside it the parts that share no state with it.  A behaviour is one of *)
(* the part in focus; the others stay as they begin.                       *)
EXTENDS LspRuntime, Sequences, SequencesExt

CONSTANTS
    Opener, MaxRevision, ClientFaults,      \* of LspClient
    File, NL, X, Y, MaxEdits, MaxAnswer, EditFaults,    \* of LspEdits
    Depth, LookupFaults,                    \* of LspServers
    MaxServers, ToolFaults                  \* of LspTool

Texts == BoundedSeq({X, NL}, 2)
NewTexts == {<<>>, <<Y>>}

VARIABLES
    focus,
    file, opening, openDocument, pipe, process, reports, diagnostics, lifecycle,
    content, answered, workspaceEdit, operation, applied, next, changedFiles,
    dirs, config, marked, installed,
    ask, support, alive, stage, found, response, dialog, auto, session, written, reported

clientVars == <<file, opening, openDocument, pipe, process, reports, diagnostics, lifecycle>>
editsVars == <<content, answered, workspaceEdit, operation, applied, next, changedFiles>>
serversVars == <<dirs, config, marked, installed>>
toolVars == <<ask, support, alive, stage, found, response, dialog, auto, session,
              written, reported>>

Client == INSTANCE LspClient WITH server <- process
Edits == INSTANCE LspEdits
Servers == INSTANCE LspServers
Tool == INSTANCE LspTool

LspInit ==
    /\ focus \in {"runtime", "client", "edits", "servers", "tool"}
    /\ Init /\ Client!ClientInit /\ Tool!ToolInit
    /\ Edits!EditsInit /\ (focus # "edits" => content[CHOOSE f \in File : TRUE] = <<>>)
    /\ Servers!ServersInit /\ (focus # "servers" => dirs.cwd = 0 /\ dirs.file = 0)

LspNext ==
    /\ UNCHANGED focus
    /\ \/ /\ focus = "runtime" /\ Next
          /\ UNCHANGED <<clientVars, editsVars, serversVars, toolVars>>
       \/ /\ focus = "client" /\ Client!ClientNext
          /\ UNCHANGED <<vars, editsVars, serversVars, toolVars>>
       \/ /\ focus = "edits" /\ Edits!EditsNext
          /\ UNCHANGED <<vars, clientVars, serversVars, toolVars>>
       \/ /\ focus = "servers" /\ Servers!ServersNext
          /\ UNCHANGED <<vars, clientVars, editsVars, toolVars>>
       \/ /\ focus = "tool" /\ Tool!ToolNext
          /\ UNCHANGED <<vars, clientVars, editsVars, serversVars>>

\* The fair actions of the runtime are disabled before a call, and so ask
\* nothing when the runtime is not in focus.
LspSpec ==
    /\ LspInit /\ [][LspNext]_<<focus, vars, clientVars, editsVars, serversVars, toolVars>>
    /\ RuntimeFairness

\* The bounds are numbers, and None is no directory and no place of a program.
LspSizesAssumption ==
    /\ MaxRevision \in Nat \ {0} /\ Depth \in Nat
    /\ None \notin 0..(Depth + 2)
ASSUME LspSizesAssumption

\* The variables have their types.
FilesTypeOK == TypeOK /\ Client!ClientTypeOK /\ Servers!ServersTypeOK
EditsTypeOK == Edits!EditsTypeOK /\ Tool!ToolTypeOK

\* A file is served from the root around it by the program nearest to it, and
\* however calls overlap, that server is sent the document once and then its
\* changes in order, and ends with the text of the client (findServerRoot,
\* findExecutable, openEffect).
FilesAreServed ==
    /\ FilesTypeOK
    /\ focus = "client" => Client!ServerFollows
    /\ focus = "servers" => Servers!RootIsNearest

\* Files get exactly the edits that the one server asked meant and the user
\* approved, or none, up to the file at which the operation stops; a query leaves
\* out no server's answer (applyTextEdits, applyWorkspaceEdit, execute).
EditsAreExact ==
    /\ EditsTypeOK
    /\ focus = "edits" => Edits!EditsAreExact
    /\ focus = "tool" => Tool!CallsAreHonest
=============================================================================
