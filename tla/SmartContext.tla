---------------------------- MODULE SmartContext ----------------------------
(***************************************************************************)
(* Context resets (smart-context/index.ts): the model saves a checkpoint   *)
(* and asks for a new context; when the run has settled the host runs a    *)
(* command that compacts the session down to the checkpoint and continues. *)
(* Everything may happen in between: input, Escape, pi's own compactions,  *)
(* another branch, tools switched off.  The id of an entry is its place.   *)
(***************************************************************************)
EXTENDS Naturals, Sequences, FiniteSetsExt

CONSTANTS
    MaxEntries,     \* a bound on the entries of the branch
    MaxRequests,    \* a bound on the calls of new_context
    ContextFaults   \* a subset of {"late_messages", "lost_command"}: other
                    \* extensions add messages after the call of new_context;
                    \* pi does not run the command

VARIABLES
    branch,         \* the active branch of the session
    pending,        \* hasPendingMessages
    tools,          \* enabled: the three tools are active
    turn,           \* where the run of the agent stands
    aborted,        \* Escape has been pressed in the last run
    requests,       \* the calls of new_context
    reset,          \* the state of the reset
    coordinator,    \* the coordinator, by the request it started with; 0: none
    command,        \* the command of each coordinator
    compaction,     \* pi's compaction; aborted: Escape was pressed in the last
    waiting         \* coordinators that a settlement waits for

contextVars == <<branch, pending, tools, turn, aborted, requests, reset, coordinator,
                 command, compaction, waiting>>

Request == 1..MaxRequests
Idle == [phase |-> "idle", id |-> 0]
NoCommand == [pc |-> "none", request |-> 0, signal |-> FALSE, outcome |-> "none"]
NoCompaction == [phase |-> "none", request |-> 0, aborted |-> FALSE]

ContextTypeOK ==
    /\ branch \in Seq([kind : {"input", "checkpoint", "boundary", "compaction"}, of : Nat])
    /\ pending \in BOOLEAN /\ tools \in BOOLEAN /\ aborted \in BOOLEAN
    /\ turn \in {"none", "open", "asked", "ended", "terminated"}
    /\ requests \in 0..MaxRequests
    /\ reset \in [phase : {"idle", "requested", "running"}, id : 0..MaxRequests]
    /\ coordinator \in 0..MaxRequests
    /\ command \in [Request -> [
            pc : {"none", "dispatched", "loop", "compacting", "outcome", "continuing"},
            request : 0..MaxRequests, signal : BOOLEAN,
            outcome : {"none", "compacted", "other", "cancelled", "unavailable"}]]
    /\ compaction \in [phase : {"none", "started", "seeded"}, request : 0..MaxRequests,
                       aborted : BOOLEAN]
    /\ waiting \subseteq Request

ContextInit ==
    /\ branch = <<>> /\ pending = FALSE /\ tools = TRUE /\ turn = "none" /\ aborted = FALSE
    /\ requests = 0 /\ reset = Idle /\ coordinator = 0
    /\ command = [r \in Request |-> NoCommand]
    /\ compaction = NoCompaction
    /\ waiting = {}

-----------------------------------------------------------------------------
(* checkpoint.ts                                                           *)

LastOf(kind) == Max({0} \cup {i \in DOMAIN branch : branch[i].kind = kind})
CurrentWindow == LastOf("compaction")
\* requireCheckpoint: the last checkpoint is of this window, and no input (of
\* the user, of another extension, or the summary of a branch) came after it.
HasCheckpoint ==
    /\ LastOf("checkpoint") # 0
    /\ branch[LastOf("checkpoint")].of = CurrentWindow
    /\ \A i \in DOMAIN branch : i > LastOf("checkpoint") => branch[i].kind # "input"

\* A bound: the last request has one entry less.
Room == IF requests = MaxRequests THEN MaxEntries - 1 ELSE MaxEntries

Add(kind, of) ==
    /\ Len(branch) < Room
    /\ branch' = Append(branch, [kind |-> kind, of |-> of])

-----------------------------------------------------------------------------
(* The run of the agent                                                    *)

IsIdle == turn = "none" /\ compaction.phase = "none"
Quiet == compaction.phase = "none"

\* A command that is called back goes on before another run or compaction ends.
Resuming == \E c \in Request : command[c].pc = "outcome"

\* turn_start: input that keeps the run alive is newer than the checkpoint.
\* Mutant: the request stays.
TurnStart_Keeps == turn' = "open" /\ UNCHANGED reset

TurnStart ==
    /\ turn' = "open"
    /\ reset' = IF reset.phase = "requested" THEN Idle ELSE reset

RunStarts ==
    /\ IsIdle
    /\ Add("input", 0) /\ pending' = FALSE /\ aborted' = FALSE
    /\ TurnStart
    /\ UNCHANGED <<tools, requests, coordinator, command, compaction, waiting>>

QueueInput ==
    /\ ~IsIdle /\ ~pending
    /\ pending' = TRUE
    /\ UNCHANGED <<branch, tools, turn, aborted, requests, reset, coordinator, command, compaction, waiting>>

NextTurn ==
    /\ Quiet /\ ~aborted
    /\ \/ turn \in {"ended", "terminated"} /\ pending /\ Add("input", 0)
       \/ turn = "ended" /\ ~pending /\ UNCHANGED branch
    /\ pending' = FALSE
    /\ TurnStart
    /\ UNCHANGED <<tools, aborted, requests, coordinator, command, compaction, waiting>>

CustomMessage ==
    /\ turn = "open" \/ "late_messages" \in ContextFaults
    /\ Add("input", 0)
    /\ UNCHANGED <<pending, tools, turn, aborted, requests, reset, coordinator, command, compaction, waiting>>

\* context_notes
WriteCheckpoint ==
    /\ turn = "open" /\ branch # <<>>
    /\ Add("checkpoint", CurrentWindow)
    /\ UNCHANGED <<pending, tools, turn, aborted, requests, reset, coordinator, command, compaction, waiting>>

NewContext(alone) ==
    /\ turn = "open" /\ requests < MaxRequests
    /\ tools /\ alone /\ ~pending
    /\ HasCheckpoint
    /\ turn' = "asked" /\ requests' = requests + 1
    /\ UNCHANGED <<branch, pending, tools, aborted, reset, coordinator, command, compaction, waiting>>

TurnEnd ==
    /\ turn \in {"open", "asked"}
    /\ turn' = IF turn = "asked" THEN "terminated" ELSE "ended"
    /\ reset' = IF turn = "asked" /\ ~aborted /\ ~pending
                THEN [phase |-> "requested", id |-> requests] ELSE reset
    /\ UNCHANGED <<branch, pending, tools, aborted, requests, coordinator, command, compaction, waiting>>

\* Escape aborts the compaction, or else the run.
Escape ==
    /\ ~IsIdle
    /\ IF Quiet THEN aborted' = TRUE /\ UNCHANGED compaction
       ELSE compaction' = [compaction EXCEPT !.aborted = TRUE] /\ UNCHANGED aborted
    /\ UNCHANGED <<branch, pending, tools, turn, requests, reset, coordinator, command, waiting>>

SwitchTools ==
    /\ tools' = ~tools
    /\ UNCHANGED <<branch, pending, turn, aborted, requests, reset, coordinator, command, compaction, waiting>>

\* agent_settled: the outermost settlement waits for the coordinator.
AgentSettled ==
    /\ turn \in {"ended", "terminated"} /\ Quiet /\ ~Resuming
    /\ turn' = "none"
    /\ IF reset.phase # "requested" \/ coordinator # 0
       THEN UNCHANGED <<reset, coordinator, command, waiting>>
       ELSE IF aborted \/ pending
            THEN reset' = Idle /\ UNCHANGED <<coordinator, command, waiting>>
            ELSE /\ coordinator' = reset.id
                 /\ command' = [command EXCEPT ![reset.id].pc = "dispatched"]
                 /\ waiting' = waiting \cup {reset.id}
                 /\ UNCHANGED reset
    /\ aborted' = (aborted /\ reset'.phase = "requested")
    /\ UNCHANGED <<branch, pending, tools, requests, compaction>>

-----------------------------------------------------------------------------
(* The command smart-context-reset                                         *)

\* Effect.ensuring, at the end of the command.
Finish(c) ==
    /\ command' = [command EXCEPT ![c] = NoCommand]
    /\ coordinator' = IF coordinator = c THEN 0 ELSE coordinator
    /\ waiting' = waiting \ {c}

FinishIdle(c) == Finish(c) /\ reset' = IF coordinator = c /\ reset.phase = "running" THEN Idle ELSE reset

CommandStart(c) ==
    /\ command[c].pc = "dispatched" /\ "lost_command" \notin ContextFaults
    /\ command' = [command EXCEPT ![c].pc = IF coordinator = c THEN "loop" ELSE "none"]
    /\ UNCHANGED <<branch, pending, tools, turn, aborted, requests, reset, coordinator, compaction, waiting>>

CommandLoop(c) ==
    /\ command[c].pc = "loop"
    /\ IF reset.phase # "requested" \/ coordinator # c
       THEN FinishIdle(c) /\ UNCHANGED compaction
       ELSE IF ~tools \/ aborted \/ ~IsIdle \/ pending
            THEN Finish(c) /\ reset' = Idle /\ UNCHANGED compaction
            ELSE /\ reset' = [reset EXCEPT !.phase = "running"]
                 /\ command' = [command EXCEPT ![c] = [NoCommand EXCEPT
                        !.pc = "compacting", !.request = reset.id]]
                 /\ compaction' = [phase |-> "started", request |-> reset.id, aborted |-> FALSE]
                 /\ UNCHANGED <<coordinator, waiting>>
    /\ UNCHANGED <<branch, pending, tools, turn, aborted, requests>>

\* pi compacts by itself, or for the user.
OwnCompaction ==
    /\ Quiet /\ ~Resuming /\ turn \in {"none", "ended", "terminated"}
    /\ compaction' = [phase |-> "started", request |-> 0, aborted |-> FALSE]
    /\ UNCHANGED <<branch, pending, tools, turn, aborted, requests, reset, coordinator, command, waiting>>

Compacting(c) == command[c].pc = "compacting" /\ command[c].request = compaction.request

CompactionEnd(outcome) ==
    /\ compaction' = [NoCompaction EXCEPT !.aborted =
            compaction.aborted /\ \E c \in Request : Compacting(c)]
    /\ command' = [c \in Request |-> IF Compacting(c)
            THEN [command[c] EXCEPT !.pc = "outcome", !.outcome = outcome] ELSE command[c]]

\* session_before_compact cancels what is not the reset in progress, adds the
\* boundary and exposes the signal.  The compaction may end before, without a
\* word that Escape was pressed, and the boundary may not be saved.
SessionBeforeCompact ==
    LET ours == reset.phase = "running" /\ reset.id = compaction.request
        cancel == IF tools THEN reset.phase # "idle" /\ ~ours ELSE reset.phase # "idle"
        seen == [c \in Request |-> IF Compacting(c) /\ tools /\ ours
                    THEN [command[c] EXCEPT !.signal = TRUE] ELSE command[c]] IN
    /\ compaction.phase = "started"
    /\ \/ /\ \E outcome \in {"cancelled", "unavailable"} : CompactionEnd(outcome)
          /\ UNCHANGED branch
       \/ /\ cancel \/ compaction.aborted
          /\ CompactionEnd("cancelled")
          /\ UNCHANGED branch
       \/ /\ ~cancel /\ ~compaction.aborted
          /\ IF tools THEN Add("boundary", 0) ELSE UNCHANGED branch
          /\ compaction' = [compaction EXCEPT !.phase = "seeded"]
          /\ command' = seen
    /\ UNCHANGED <<pending, tools, turn, aborted, requests, reset, coordinator, waiting>>

\* pi stores the compaction, unless it was aborted; another extension may have
\* handled it.
Compacted ==
    /\ compaction.phase = "seeded"
    /\ \/ ~compaction.aborted /\ Add("compaction", compaction.request) /\ CompactionEnd("compacted")
       \/ ~compaction.aborted /\ Add("compaction", 0) /\ CompactionEnd("other")
       \/ UNCHANGED branch /\ CompactionEnd("cancelled")
       \/ UNCHANGED branch /\ CompactionEnd("unavailable")
    /\ UNCHANGED <<pending, tools, turn, aborted, requests, reset, coordinator, waiting>>

\* The run goes on only when nothing has come in between.  Without a signal
\* Escape may have been pressed without notice.
\* Mutant: a failure without a signal is taken for a session too small.
Outcome_Unsignalled(c) ==
    LET done == command[c] IN
    /\ done.pc = "outcome"
    /\ IF \/ coordinator # c \/ ~tools
          \/ reset # [phase |-> "running", id |-> done.request]
          \/ done.signal /\ compaction.aborted
          \/ ~IsIdle \/ pending
          \/ done.outcome \in {"cancelled", "other"}
       THEN FinishIdle(c) /\ UNCHANGED <<turn, aborted>>
       ELSE /\ reset' = Idle
            /\ command' = [command EXCEPT ![c] = [NoCommand EXCEPT !.pc = "continuing"]]
            /\ turn' = "open" /\ aborted' = FALSE
            /\ UNCHANGED <<coordinator, waiting>>
    /\ compaction' = IF Quiet THEN NoCompaction ELSE compaction
    /\ UNCHANGED <<branch, pending, tools, requests>>

Outcome(c) ==
    LET done == command[c] IN
    /\ done.pc = "outcome"
    /\ IF \/ coordinator # c \/ ~tools
          \/ reset # [phase |-> "running", id |-> done.request]
          \/ done.signal /\ compaction.aborted
          \/ ~IsIdle \/ pending
          \/ done.outcome \in {"cancelled", "other"}
          \/ done.outcome = "unavailable" /\ ~done.signal
       THEN FinishIdle(c) /\ UNCHANGED <<turn, aborted>>
       ELSE /\ reset' = Idle
            /\ command' = [command EXCEPT ![c] = [NoCommand EXCEPT !.pc = "continuing"]]
            /\ turn' = "open" /\ aborted' = FALSE
            /\ UNCHANGED <<coordinator, waiting>>
    /\ compaction' = IF Quiet THEN NoCompaction ELSE compaction
    /\ UNCHANGED <<branch, pending, tools, requests>>

\* waitForIdle
Continued(c) ==
    /\ command[c].pc = "continuing" /\ turn = "none"
    /\ command' = [command EXCEPT ![c].pc = "loop"]
    /\ UNCHANGED <<branch, pending, tools, turn, aborted, requests, reset, coordinator, compaction, waiting>>

-----------------------------------------------------------------------------
(* session_start, session_tree and session_shutdown                        *)

ClearReset(kept) ==
    /\ waiting' = waiting \ {coordinator}
    /\ coordinator' = 0 /\ reset' = Idle
    /\ branch' = SubSeq(branch, 1, kept)
    /\ UNCHANGED <<pending, tools, turn, aborted, requests, command, compaction>>

\* The user goes to another point of the tree, of which a summary may be kept.
SessionTree ==
    /\ IsIdle
    /\ \E kept \in 0..Len(branch) : ClearReset(kept)

CommandStep(c) == CommandStart(c) \/ CommandLoop(c) \/ Outcome(c) \/ Continued(c)

ContextNext ==
    \/ RunStarts \/ QueueInput \/ NextTurn \/ CustomMessage \/ WriteCheckpoint
    \/ \E alone \in BOOLEAN : NewContext(alone)
    \/ TurnEnd \/ Escape \/ SwitchTools \/ AgentSettled
    \/ OwnCompaction \/ SessionBeforeCompact \/ Compacted \/ SessionTree \/ ClearReset(Len(branch))
    \/ \E c \in Request : CommandStep(c)

\* pi runs its callbacks and commands, and every run of the agent ends.
ContextFairness ==
    /\ WF_contextVars(TurnEnd) /\ SF_contextVars(AgentSettled)
    /\ WF_contextVars(SessionBeforeCompact \/ Compacted)
    /\ \A c \in Request : WF_contextVars(CommandStep(c))

-----------------------------------------------------------------------------
(* Properties                                                              *)

\* A reset drops nothing that the checkpoint does not cover: at the compaction
\* of a request the last checkpoint is of the window that ends and no input
\* has come after it (requireCheckpoint, checked long before).  And no run is
\* continued that Escape has stopped, whenever it was pressed.
ResetsAreWarranted ==
    [][/\ Len(branch') > Len(branch) /\ compaction.request # 0 /\ compaction'.phase = "none"
            /\ branch'[Len(branch')] = [kind |-> "compaction", of |-> compaction.request]
                => HasCheckpoint
       /\ \A c \in Request :
            command[c].pc = "outcome" /\ command'[c].pc = "continuing" =>
                ~aborted /\ ~compaction.aborted /\ ~pending]_contextVars

\* A settlement that waits for a reset ends, whatever becomes of the reset, so
\* that sooner or later none waits: requests are numbered, and bounded here.
SettlementWaits == waiting # {}
SettlementReturns == SettlementWaits ~> ~SettlementWaits
=============================================================================
