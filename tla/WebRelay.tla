------------------------------ MODULE WebRelay ------------------------------
(***************************************************************************)
(* The connection of an interactive session to the local web relay         *)
(* (web-herdr-relay/index.ts, reload-runtime.ts): credentials are asked    *)
(* for until they come, a client connects and reconnects, the browser is   *)
(* sent a snapshot and then every change, its commands run one at a time,  *)
(* and the contents of written files are staged at the relay.              *)
(*                                                                         *)
(* A session has the generation under which it started; a client, a        *)
(* command and a write have that of their session.  Pi makes a new         *)
(* instance of the extension for each session, unless Faults says that it  *)
(* reuses the old one.                                                     *)
(***************************************************************************)
EXTENDS Naturals

CONSTANTS
    Op,             \* the browser's commands
    Write,          \* the calls of the write tool
    MaxGeneration,  \* a bound on connectionGeneration
    Faults          \* see RelayFaults

ASSUME MaxGenerationIsNat == MaxGeneration \in Nat

ASSUME RelayFaults ==
    Faults \subseteq {"reused",         \* an instance serves several sessions
                      "compact_fails",  \* pi's own compaction fails, not aborted
                      "reload_fails"}   \* a requested reload does not happen

Generation == 1..MaxGeneration
NoClient == 0

VARIABLES
    connectionGeneration,
    interactive,        \* a TUI session runs
    asking,             \* the generations whose bootstrap request is open
    bootstrapTimer,     \* a retry is scheduled
    client,             \* client: the generation of its session
    conn,               \* what became of each generation's last connection
    op,                 \* the commands: what each does, and for which session
    commandInFlight,
    requested,          \* ReloadRuntime: requested
    compactionInFlight,
    compacts,           \* pi compacts the conversation
    idle,               \* pi is idle
    streaming,          \* an assistant message is being written
    write,              \* writeInputs, with the tool's progress
    heard,              \* what the relay was told of each write
    view                \* what the browser was last told

linkVars == <<connectionGeneration, interactive, asking, bootstrapTimer, client, conn>>
commandVars == <<op, commandInFlight, requested>>
agentVars == <<compactionInFlight, compacts, idle, streaming>>
writeVars == <<write, heard>>
vars == <<linkVars, commandVars, agentVars, writeVars, view>>

WriteState == {"none", "pending", "available", "unavailable"}
Blank == [session |-> 0, busy |-> FALSE, compacting |-> FALSE, fresh |-> TRUE,
          write |-> [w \in Write |-> "none"]]
View == [session : Generation \cup {0}, busy : BOOLEAN, compacting : BOOLEAN,
         fresh : BOOLEAN, write : [Write -> WriteState]]

\* The command o holds commandInFlight.
Runs(o) ==
    /\ op[o].does \notin {"new", "done"}
    /\ op[o].session = connectionGeneration \/ "reused" \in Faults

\* The types; the flag commandInFlight stands for the one command that runs.
TypeOK ==
    /\ connectionGeneration \in 0..MaxGeneration
    /\ interactive \in BOOLEAN
    /\ asking \subseteq Generation
    /\ bootstrapTimer \in BOOLEAN
    /\ client \in Generation \cup {NoClient}
    /\ conn \in [Generation -> {"none", "connecting", "ready", "ended"}]
    /\ op \in [Op -> [does : {"new", "message", "snapshot", "compact", "compacted", "done"},
                      session : Generation \cup {0}]]
    /\ commandInFlight \in BOOLEAN /\ requested \in BOOLEAN
    /\ compactionInFlight \in BOOLEAN /\ compacts \in BOOLEAN
    /\ idle \in BOOLEAN /\ streaming \in BOOLEAN
    /\ write \in [Write -> [tool : {"new", "running", "ok", "settled"},
                            transfer : {"none", "sending", "stored", "failed"},
                            state : WriteState, session : Generation \cup {0}]]
    /\ heard \in [Write -> SUBSET {"complete", "discard"}]
    /\ view \in View
    /\ commandInFlight <=> requested \/ \E o \in Op : Runs(o)
    /\ \A o, p \in Op : Runs(o) /\ Runs(p) => o = p

Init ==
    /\ connectionGeneration = 0
    /\ interactive = FALSE
    /\ asking = {}
    /\ bootstrapTimer = FALSE
    /\ client = NoClient
    /\ conn = [g \in Generation |-> "none"]
    /\ op = [o \in Op |-> [does |-> "new", session |-> 0]]
    /\ commandInFlight = FALSE /\ requested = FALSE
    /\ compactionInFlight = FALSE /\ compacts = FALSE
    /\ idle = TRUE /\ streaming = FALSE
    /\ write = [w \in Write |-> [tool |-> "new", transfer |-> "none",
                                 state |-> "none", session |-> 0]]
    /\ heard = [w \in Write |-> {}]
    /\ view = Blank

-----------------------------------------------------------------------------
(* Publishing: what a client that is not ready is told is dropped          *)

Ready == client # NoClient /\ conn[client] = "ready"

States == [w \in Write |-> write[w].state]

PublishSnapshot(session) ==
    view' = IF Ready' THEN [session |-> session, busy |-> ~idle',
                            compacting |-> compactionInFlight',
                            fresh |-> ~streaming', write |-> States']
            ELSE view

PublishRuntime(session) ==
    view' = IF Ready THEN [view EXCEPT !.session = session, !.busy = ~idle',
                                       !.compacting = compactionInFlight']
            ELSE view

PublishTool(w) ==
    view' = IF Ready THEN [view EXCEPT !.write[w] = write'[w].state] ELSE view

Tell(w, action) ==
    heard' = [heard EXCEPT ![w] = IF Ready THEN @ \cup {action} ELSE @]

-----------------------------------------------------------------------------
(* The connection                                                          *)

\* A half-closed connection is followed where it can still do something.
Released == IF "reused" \in Faults THEN "ended" ELSE "none"

\* Mutant: the retry of an earlier session is not cleared.
Drop_KeepsTimer ==
    /\ client' = NoClient
    /\ conn' = IF client = NoClient THEN conn ELSE [conn EXCEPT ![client] = Released]
    /\ view' = Blank
    /\ write' = [w \in Write |-> [write[w] EXCEPT !.state = "none",
                    !.transfer = IF @ = "sending" THEN "failed" ELSE @]]
    /\ UNCHANGED bootstrapTimer

\* The client of the session that ends releases its uploads: its connection is
\* half closed.  The retry and the writes are forgotten.
Drop ==
    /\ client' = NoClient
    /\ conn' = IF client = NoClient THEN conn ELSE [conn EXCEPT ![client] = Released]
    /\ view' = Blank
    /\ write' = [w \in Write |-> [write[w] EXCEPT !.state = "none",
                    !.transfer = IF @ = "sending" THEN "failed" ELSE @]]
    /\ bootstrapTimer' = FALSE

SessionStart ==
    /\ connectionGeneration < MaxGeneration
    /\ ~interactive \/ "reused" \in Faults
    /\ connectionGeneration' = connectionGeneration + 1
    /\ Drop
    /\ interactive' \in BOOLEAN
    /\ asking' = IF interactive' THEN asking \cup {connectionGeneration'} ELSE asking
    /\ compactionInFlight' = FALSE /\ compacts' = FALSE
    /\ idle' = TRUE /\ streaming' = FALSE
    /\ UNCHANGED <<commandVars, heard>>

SessionShutdown ==
    /\ interactive
    /\ connectionGeneration < MaxGeneration
    /\ connectionGeneration' = connectionGeneration + 1
    /\ Drop
    /\ interactive' = FALSE
    /\ requested' = FALSE
    /\ commandInFlight' = (commandInFlight /\ ~requested /\ "reused" \in Faults)
    /\ UNCHANGED <<asking, op, agentVars, heard>>

\* The request for credentials of session g fails, or they make a client.
Credentials(g, given) ==
    /\ g \in asking
    /\ asking' = asking \ {g}
    /\ IF g # connectionGeneration THEN UNCHANGED <<client, conn, bootstrapTimer>>
       ELSE IF given
       THEN /\ client' = g
            /\ conn' = [conn EXCEPT ![g] = "connecting"]
            /\ UNCHANGED bootstrapTimer
       ELSE bootstrapTimer' = TRUE /\ UNCHANGED <<client, conn>>
    /\ UNCHANGED <<connectionGeneration, interactive, commandVars, agentVars,
                   writeVars, view>>

\* Mutant: the retry schedules a retry.
BootstrapRetry_Later ==
    /\ bootstrapTimer
    /\ bootstrapTimer' = TRUE
    /\ UNCHANGED <<connectionGeneration, interactive, asking, client, conn,
                   commandVars, agentVars, writeVars, view>>

BootstrapRetry ==
    /\ bootstrapTimer
    /\ bootstrapTimer' = FALSE
    /\ asking' = asking \cup {connectionGeneration}
    /\ UNCHANGED <<connectionGeneration, interactive, client, conn,
                   commandVars, agentVars, writeVars, view>>

\* Mutant: the browser of a new connection is sent changes only.
Accepted_NoSnapshot(g) ==
    /\ conn[g] = "connecting"
    /\ conn' = [conn EXCEPT ![g] = "ready"]
    /\ UNCHANGED <<connectionGeneration, interactive, asking, bootstrapTimer,
                   client, commandVars, agentVars, writeVars, view>>

\* The relay answers the hello.  A half-closed connection is still read.
Accepted(g) ==
    /\ conn[g] = "connecting" \/ (conn[g] = "ended" /\ "reused" \in Faults)
    /\ conn' = IF conn[g] = "ended" THEN conn ELSE [conn EXCEPT ![g] = "ready"]
    /\ UNCHANGED <<connectionGeneration, interactive, asking, bootstrapTimer,
                   client, commandVars, agentVars, writeVars>>
    /\ PublishSnapshot(g)

\* The connection breaks, or the relay sent what is no command.
Disconnect(g) ==
    /\ conn[g] # "none"
    /\ conn' = [conn EXCEPT ![g] = "none"]
    /\ IF conn[g] = "ended" THEN UNCHANGED <<client, bootstrapTimer, view>>
       ELSE client' = NoClient /\ bootstrapTimer' = TRUE /\ view' = Blank
    /\ UNCHANGED <<connectionGeneration, interactive, asking, commandVars,
                   agentVars, writeVars>>

-----------------------------------------------------------------------------
(* Commands                                                                *)

Answered(o) == op' = [op EXCEPT ![o] = [does |-> "done", session |-> 0]]

CanReceive(o, g) ==
    /\ op[o].does = "new"
    /\ conn[g] = "ready" \/ (conn[g] = "ended" /\ "reused" \in Faults)

\* A second command, images for a model without, or a reload now refused.
Refuse(o, g) ==
    /\ CanReceive(o, g)
    /\ Answered(o)
    /\ UNCHANGED <<linkVars, commandInFlight, requested, agentVars, writeVars, view>>

\* The reload is answered before it is dispatched.
AcceptReload(o, g) ==
    /\ CanReceive(o, g) /\ ~commandInFlight
    /\ ~requested /\ idle /\ ~compactionInFlight
    /\ connectionGeneration < MaxGeneration
    /\ requested' = TRUE /\ commandInFlight' = TRUE
    /\ Answered(o)
    /\ UNCHANGED <<linkVars, agentVars, writeVars, view>>

Begin(o, g, does) ==
    /\ CanReceive(o, g) /\ ~commandInFlight
    /\ op' = [op EXCEPT ![o] = [does |-> does, session |-> g]]
    /\ commandInFlight' = TRUE
    /\ UNCHANGED <<linkVars, requested, agentVars, writeVars>>
    /\ IF does = "snapshot" THEN PublishSnapshot(g) ELSE UNCHANGED view

\* Mutant: a command whose compaction has failed is not finished.
Finish_NotFailed(o) ==
    /\ op[o].does \in {"message", "snapshot", "compacted"}
    /\ op[o].session = connectionGeneration /\ ~compactionInFlight
    /\ Answered(o)
    /\ commandInFlight' = FALSE
    /\ UNCHANGED <<linkVars, requested, agentVars, writeVars>>
    /\ PublishRuntime(op[o].session)

\* What the command awaited has come, or has failed: it is answered.  What an
\* instance of the past publishes goes nowhere.
Finish(o) ==
    /\ op[o].does \in {"message", "snapshot", "compact", "compacted"}
    /\ op[o].does = "compact" => ~compacts
    /\ Answered(o)
    /\ UNCHANGED <<linkVars, requested, compacts, idle, streaming, writeVars>>
    /\ IF op[o].session = connectionGeneration \/ "reused" \in Faults
       THEN /\ compactionInFlight' = (compactionInFlight /\ op[o].does \notin {"compact", "compacted"})
            /\ commandInFlight' = FALSE
            /\ PublishRuntime(op[o].session)
       ELSE UNCHANGED <<compactionInFlight, commandInFlight, view>>

-----------------------------------------------------------------------------
(* The agent                                                               *)

Agent == interactive /\ ~requested

AgentStart ==
    /\ Agent /\ idle /\ ~compacts
    /\ idle' = FALSE
    /\ UNCHANGED <<linkVars, commandVars, compactionInFlight, compacts, streaming, writeVars>>
    /\ PublishRuntime(connectionGeneration)

\* agent_settled
AgentSettled ==
    /\ Agent /\ ~idle /\ ~compacts /\ ~streaming
    /\ idle' = TRUE /\ compactionInFlight' = FALSE
    /\ UNCHANGED <<linkVars, commandVars, compacts, streaming, writeVars>>
    /\ PublishSnapshot(connectionGeneration)

MessageStart ==
    /\ Agent /\ ~idle /\ ~streaming /\ ~compacts
    /\ streaming' = TRUE
    /\ UNCHANGED <<linkVars, commandVars, compactionInFlight, compacts, idle, writeVars>>
    /\ PublishRuntime(connectionGeneration)

\* message_update: an update less than 75 ms after the last is not published.
MessageUpdate ==
    /\ Agent /\ streaming
    /\ \E fresh \in BOOLEAN :
           view' = IF Ready THEN [view EXCEPT !.fresh = fresh] ELSE view
    /\ UNCHANGED <<linkVars, commandVars, agentVars, writeVars>>

MessageEnd ==
    /\ Agent /\ streaming
    /\ streaming' = FALSE
    /\ UNCHANGED <<linkVars, commandVars, compactionInFlight, compacts, idle, writeVars>>
    /\ PublishSnapshot(connectionGeneration)

\* session_before_compact, by a command or by pi itself
CompactionStart ==
    /\ Agent /\ ~compacts /\ ~streaming
    /\ \A o \in Op : op[o].does # "compacted"
    /\ compacts' = TRUE /\ compactionInFlight' = TRUE
    /\ UNCHANGED <<linkVars, commandVars, idle, streaming, writeVars>>
    /\ IF compactionInFlight THEN UNCHANGED view
       ELSE PublishRuntime(connectionGeneration)

\* It ends, or is aborted; a failure is not noted before the callback of its
\* command or the end of the agent's run.
CompactionEnd ==
    /\ Agent /\ compacts
    /\ compacts' = FALSE
    /\ op' = [o \in Op |-> [op[o] EXCEPT !.does = IF @ = "compact" THEN "compacted" ELSE @]]
    /\ UNCHANGED <<linkVars, commandInFlight, requested, idle, streaming, writeVars>>
    /\ \/ compactionInFlight' = FALSE /\ PublishSnapshot(connectionGeneration)
       \/ /\ \/ ~idle \/ "compact_fails" \in Faults
             \/ \E o \in Op : op[o] = [does |-> "compact", session |-> connectionGeneration]
          /\ UNCHANGED <<compactionInFlight, view>>

-----------------------------------------------------------------------------
(* Writes                                                                  *)

\* tool_execution_start: the contents go to the relay while the tool runs.
ToolStart(w) ==
    /\ Agent /\ ~idle /\ write[w].tool = "new"
    /\ write' = [write EXCEPT ![w] = [tool |-> "running", state |-> "pending",
                    transfer |-> IF Ready THEN "sending" ELSE "failed",
                    session |-> connectionGeneration]]
    /\ UNCHANGED <<linkVars, commandVars, agentVars, heard>>
    /\ PublishTool(w)

TransferEnd(w) ==
    /\ write[w].transfer = "sending"
    /\ \E outcome \in {"stored", "failed"} :
           write' = [write EXCEPT ![w].transfer = outcome]
    /\ UNCHANGED <<linkVars, commandVars, agentVars, heard, view>>

\* tool_execution_end with an error.  Its session's end forgets a write.
ToolFails(w) ==
    /\ write[w].tool = "running"
    /\ UNCHANGED <<linkVars, commandVars, agentVars>>
    /\ IF write[w].state = "none"
       THEN write' = [write EXCEPT ![w].tool = "settled"] /\ UNCHANGED <<heard, view>>
       ELSE /\ write' = [write EXCEPT ![w] =
                           [write[w] EXCEPT !.tool = "settled", !.state = "unavailable",
                                !.transfer = IF @ = "sending" THEN "failed" ELSE @]]
            /\ Tell(w, "discard")
            /\ PublishTool(w)

ToolSucceeds(w) ==
    /\ write[w].tool = "running"
    /\ write' = [write EXCEPT ![w].tool = IF write[w].state = "none" THEN "settled" ELSE "ok"]
    /\ UNCHANGED <<linkVars, commandVars, agentVars, heard, view>>

\* Mutant: the end of the tool is enough.
WriteCompletion_Early(w) ==
    /\ write[w].tool = "ok" /\ write[w].state = "pending"
    /\ write' = [write EXCEPT ![w].tool = "settled", ![w].state = "available"]
    /\ UNCHANGED <<linkVars, commandVars, agentVars>>
    /\ Tell(w, "complete")
    /\ PublishTool(w)

\* scheduleWriteCompletion: tool and transfer have ended.
WriteCompletion(w) ==
    /\ write[w].tool = "ok" /\ write[w].transfer # "sending"
    /\ UNCHANGED <<linkVars, commandVars, agentVars>>
    /\ IF write[w].session # connectionGeneration \/ write[w].state = "none"
       THEN write' = [write EXCEPT ![w].tool = "settled"] /\ UNCHANGED <<heard, view>>
       ELSE LET stored == write[w].transfer = "stored" IN
            /\ write' = [write EXCEPT ![w] =
                            [write[w] EXCEPT !.tool = "settled",
                                 !.state = IF stored THEN "available" ELSE "unavailable"]]
            /\ Tell(w, IF stored THEN "complete" ELSE "discard")
            /\ PublishTool(w)

Next ==
    \/ SessionStart \/ SessionShutdown \/ BootstrapRetry
    \/ \E g \in Generation :
        \/ \E given \in BOOLEAN : Credentials(g, given)
        \/ Accepted(g) \/ Disconnect(g)
        \/ \E o \in Op :
            \/ Refuse(o, g) \/ AcceptReload(o, g)
            \/ \E does \in {"message", "snapshot", "compact"} : Begin(o, g, does)
    \/ \E o \in Op : Finish(o)
    \/ AgentStart \/ AgentSettled \/ MessageStart \/ MessageUpdate \/ MessageEnd
    \/ CompactionStart \/ CompactionEnd
    \/ \E w \in Write :
        \/ ToolStart(w) \/ TransferEnd(w) \/ ToolFails(w) \/ ToolSucceeds(w)
        \/ WriteCompletion(w)

Spec == Init /\ [][Next]_vars

\* Timers fire and callbacks are called; the relay, asked again and again,
\* gives credentials and accepts in the end; a reload happens.
RelayFairness ==
    /\ WF_vars(BootstrapRetry) /\ WF_vars(CompactionEnd)
    /\ WF_vars(\E g \in Generation, given \in BOOLEAN : Credentials(g, given))
    /\ SF_vars(interactive /\ Credentials(connectionGeneration, TRUE))
    /\ SF_vars(\E g \in Generation : Accepted(g))
    /\ \A o \in Op : WF_vars(Finish(o))
    /\ WF_vars("reload_fails" \notin Faults /\ requested /\ SessionShutdown)
FairSpec == Spec /\ RelayFairness

-----------------------------------------------------------------------------
(* Properties                                                              *)

\* An interactive session is after the relay in exactly one way: it has a
\* client, asks for credentials, or waits to ask again.  Nothing of an earlier
\* session connects (index.ts connectionGeneration, scheduleBootstrap).
OnePursuit ==
    /\ IF interactive
       THEN \E pursuit \in {"client", "asking", "timer"} :
                /\ client # NoClient <=> pursuit = "client"
                /\ connectionGeneration \in asking <=> pursuit = "asking"
                /\ bootstrapTimer <=> pursuit = "timer"
       ELSE client = NoClient /\ ~bootstrapTimer
    /\ \A g \in Generation :
        conn[g] \in {"connecting", "ready"} =>
            g = client /\ g = connectionGeneration

\* A connected browser shows its own session, as it is: busy or not,
\* compacting or not, each write in its state and, between messages, all text.
\* A compaction is shown only while pi is at work.
ViewIsCurrent ==
    Ready =>
        /\ view.session = connectionGeneration
        /\ view.busy = ~idle
        /\ view.compacting = compactionInFlight
        /\ compacts => compactionInFlight
        /\ compactionInFlight =>
               \/ compacts \/ ~idle
               \/ \E o \in Op : op[o].does \in {"compact", "compacted"}
        /\ view.write = States
        /\ ~streaming => view.fresh

\* A write is said to be available only if its contents are at the relay, and
\* the relay is told to complete a write or to discard it, never both
\* (scheduleWriteCompletion, tool_execution_end).
WritesAgree ==
    \A w \in Write :
        /\ write[w].state = "available" => write[w].transfer = "stored" /\ heard[w] \subseteq {"complete"}
        /\ write[w].state = "unavailable" => "complete" \notin heard[w]
        /\ heard[w] # {"complete", "discard"}

\* A session that lasts is connected again and again, whatever breaks.
Reconnects == []<>(Ready \/ ~interactive)

\* A command in flight ends: the next one is not refused for ever.
CommandsEnd == commandInFlight ~> ~commandInFlight
=============================================================================
