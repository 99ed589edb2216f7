----------------------------- MODULE Completion -----------------------------
(***************************************************************************)
(* Completion delivery from end to end (ADR 0002): the coordinator of      *)
(* herdr-subagent/completion.ts runs spawn, send, wait and close as        *)
(* interleaved asynchronous calls around the notification manager; the     *)
(* durable arm file tells a subagent which call it answers; a settled      *)
(* subagent leaves its result in the outbox, pushes it over RPC, and       *)
(* removes the outbox copy when the push is acknowledged                   *)
(* (subagent-rpc.ts, index.ts).                                            *)
(*                                                                         *)
(* A spawn or send call is identified with the arm id it draws, so the     *)
(* constant Arm of the manager is the set of calls a behaviour may make.   *)
(***************************************************************************)
EXTENDS NotificationManager

CONSTANTS
    Faults,         \* see FaultsAssumption
    MaxTime,        \* bound on the clock
    MaxResult       \* bound on the number of completions

ASSUME BoundsAssumption == MaxTime \in Nat /\ MaxResult \in Nat

ASSUME FaultsAssumption ==
    Faults \subseteq {"input",    \* sending input or writing the arm fails
                      "rpc",      \* a push is not acknowledged in time
                      "blocked",  \* a pane watch sees its subagent blocked
                      "quiet",    \* a spawn or send asks for no report
                      "busy",     \* a subagent of an earlier session is at work
                      "respawn",  \* a name is spawned while it is in use
                      "closing",  \* a pane is closed before its spawn has returned
                      "abort",    \* the call's signal interrupts it
                      "misread",  \* a subagent reads an arm out of step, see InStep
                      "restart"}  \* the orchestrator restarts

VARIABLES
    mgr,            \* the notification manager
    direct,         \* directResultNames
    sendQueue,      \* the sends, in order; the first one runs
    call,           \* where each spawn and send stands
    entry,          \* the registry: "none", "reserved" or "active" per name
    durable,        \* the completion arm file of each subagent
    subagent,       \* each subagent: running or not, and its latest arm
    typed,          \* the inputs in each pane that its subagent has yet to take
    transit,        \* results being pushed, and whether they have arrived
    outbox,         \* results persisted on disk
    results,        \* history: all results ever sent
    latest,         \* history: the last call whose arm was to stay durable
    waived,         \* history: calls whose report is no longer wanted
    turn,           \* history: the calls whose input a run has taken
    answers,        \* history: the calls that each result answers
    clock,
    nextId

manager == <<mgr, direct>>
pane == <<subagent, typed, turn>>
world == <<entry, durable, pane>>
wire == <<transit, outbox, results, answers, nextId>>
history == <<latest, waived>>
vars == <<manager, sendQueue, call, world, wire, history, clock>>

Call == [kind : {"spawn", "send"}, name : Name, notify : BOOLEAN, since : Nat,
         stage : {"queued", "started", "armed", "written", "reached",
                  "returned", "rollback", "done", "failed"},
         prev : Arm \cup {None}, provisional : BOOLEAN]

ASSUME CallsAssumption == None \notin Call

InQueue(c) == \E i \in DOMAIN sendQueue : sendQueue[i] = c

IsPendingSend(c) ==
    call[c] # None /\ call[c].kind = "send" /\ call[c].stage \notin {"done", "failed"}

\* Type invariant.  A send is in the queue exactly while it is pending.
TypeOK ==
    /\ mgr \in Manager
    /\ direct \subseteq Name
    /\ sendQueue \in Seq(Arm)
    /\ \A c \in Arm : InQueue(c) <=> IsPendingSend(c)
    /\ call \in [Arm -> Call \cup {None}]
    /\ entry \in [Name -> {"none", "reserved", "active"}]
    /\ durable \in [Name -> Arm \cup {None}]
    /\ subagent \in [Name -> [running : BOOLEAN, arm : Arm \cup {None}]]
    /\ typed \in [Name -> Seq(Arm)]
    /\ turn \in [Name -> SUBSET Arm]
    /\ transit \subseteq [result : Result, arrived : BOOLEAN]
    /\ outbox \subseteq Result
    /\ results \subseteq Result
    /\ answers \in [1..MaxResult -> SUBSET Arm]
    /\ latest \in [Name -> Arm \cup {None}]
    /\ waived \subseteq Arm
    /\ clock \in 0..MaxTime
    /\ nextId \in 0..MaxResult

\* Subagents of an earlier session may be there; session_start adopts them.
\* One that was asked for no report may still be at work.
Init ==
    /\ mgr = EmptyManager
    /\ direct \in SUBSET Name
    /\ sendQueue = << >>
    /\ call = [c \in Arm |-> None]
    /\ entry = [k \in Name |-> IF k \in direct THEN "active" ELSE "none"]
    /\ durable = [k \in Name |-> None]
    /\ \E busy \in SUBSET (IF "busy" \in Faults THEN direct ELSE {}) :
         subagent = [k \in Name |-> [running |-> k \in busy, arm |-> None]]
    /\ typed = [k \in Name |-> << >>]
    /\ turn = [k \in Name |-> {}]
    /\ transit = {}
    /\ outbox = {}
    /\ results = {}
    /\ answers = [i \in 1..MaxResult |-> {}]
    /\ latest = [k \in Name |-> None]
    /\ waived = {}
    /\ clock = 0
    /\ nextId = 0

----------------------------------------------------------------------------
(* Calls in general.                                                       *)

NewCall(kind, k, notify, stage) ==
    [kind |-> kind, name |-> k, notify |-> notify, since |-> clock,
     stage |-> stage, prev |-> None, provisional |-> FALSE]

At(c, kind, stage) == call[c] # None /\ call[c].kind = kind /\ call[c].stage = stage

Goto(c, stage) == call' = [call EXCEPT ![c].stage = stage]

CallsOn(k) == {c \in Arm : call[c] # None /\ call[c].name = k}

Over(k) == \A c \in CallsOn(k) : call[c].stage \in {"done", "failed"}

Underway(k) == {c \in CallsOn(k) : call[c].stage # "queued"}

\* Reports of what the pane was asked before are no longer wanted.
Waive(k) == waived' = waived \cup Underway(k)

CancelPane(k) == mgr' = Cancel(mgr, k, FALSE)

\* runInPane: the text is in the pane; pi there takes it when it gets to it.
TypeInput(k, c) ==
    /\ typed' = [typed EXCEPT ![k] = Append(@, c)]
    /\ UNCHANGED <<subagent, turn>>

\* The pane goes, and its subagent with it.
EndPane(k) ==
    /\ subagent' = [subagent EXCEPT ![k].running = FALSE]
    /\ typed' = [typed EXCEPT ![k] = << >>]
    /\ turn' = [turn EXCEPT ![k] = {}]

----------------------------------------------------------------------------
(* Spawn.                                                                  *)

StartSpawn(c, k, notify) ==
    /\ call[c] = None
    /\ notify \/ "quiet" \in Faults
    /\ (entry[k] = "none" /\ Over(k)) \/ "respawn" \in Faults
    /\ MayOpenBatch(mgr)
    /\ call' = [call EXCEPT ![c] = NewCall("spawn", k, notify, "queued")]
    /\ mgr' = IF notify THEN BeginMember(mgr, k) ELSE mgr
    /\ UNCHANGED <<direct, sendQueue, world, wire, history, clock>>

ReserveName(c) ==
    /\ At(c, "spawn", "queued")
    /\ entry[call[c].name] = "none"
    /\ entry' = [entry EXCEPT ![call[c].name] = "reserved"]
    /\ Goto(c, "started")
    /\ UNCHANGED <<manager, sendQueue, durable, pane, wire, history, clock>>

WriteSpawnArm(c) ==
    /\ At(c, "spawn", "started")
    /\ durable' = [durable EXCEPT ![call[c].name] = IF call[c].notify THEN c ELSE @]
    /\ latest' = [latest EXCEPT ![call[c].name] = durable'[call[c].name]]
    /\ Goto(c, "written")
    /\ UNCHANGED <<manager, sendQueue, entry, pane, wire, waived, clock>>

LaunchPane(c) ==
    /\ At(c, "spawn", "written")
    /\ TypeInput(call[c].name, c)
    /\ Goto(c, "reached")
    /\ UNCHANGED <<manager, sendQueue, entry, durable, wire, history, clock>>

FinalizeEntry(c) ==
    /\ At(c, "spawn", "reached")
    /\ entry' = [entry EXCEPT ![call[c].name] = "active"]
    /\ Goto(c, "returned")
    /\ UNCHANGED <<manager, sendQueue, durable, pane, wire, history, clock>>

ReconcileSpawn(c) ==
    LET k == call[c].name
    IN  /\ At(c, "spawn", "returned")
        /\ MayOpenBatch(mgr)
        /\ direct' = direct \cup {k}
        /\ mgr' = IF call[c].notify
                  THEN ArmWatcher(mgr, k, call[c].since, {c}, "rpc")
                  ELSE mgr
        /\ waived' = waived \cup (Underway(k) \ {c})
        /\ Goto(c, "done")
        /\ UNCHANGED <<sendQueue, world, wire, latest, clock>>

\* The name is taken, or a step after the reservation fails or is interrupted
\* (onError): the tab is closed, the entry removed, the batch membership released.
FailSpawn(c) ==
    LET k == call[c].name
        reserved == call[c].stage # "queued"
    IN  /\ \/ At(c, "spawn", "queued") /\ entry[k] # "none"
           \/ "input" \in Faults /\ \E s \in {"started", "written", "reached"} : At(c, "spawn", s)
           \/ "abort" \in Faults /\ \E s \in {"queued", "started", "written", "reached"} : At(c, "spawn", s)
        /\ mgr' = IF call[c].notify THEN ReleaseMember(mgr, k) ELSE mgr
        /\ entry' = IF reserved THEN [entry EXCEPT ![k] = "none"] ELSE entry
        /\ IF reserved THEN EndPane(k) ELSE UNCHANGED pane
        /\ waived' = waived \cup {c}
        /\ Goto(c, "failed")
        /\ UNCHANGED <<direct, sendQueue, durable, wire, latest, clock>>

----------------------------------------------------------------------------
(* Send.                                                                   *)

StartSend(c, k, notify) ==
    /\ call[c] = None
    /\ notify \/ "quiet" \in Faults
    /\ call' = [call EXCEPT ![c] = NewCall("send", k, notify, "queued")]
    /\ sendQueue' = Append(sendQueue, c)
    /\ UNCHANGED <<manager, world, wire, history, clock>>

\* Mutant: a send starts without waiting for those before it.
Running_AtOnce(c) == InQueue(c)

Running(c) == sendQueue # << >> /\ Head(sendQueue) = c

Watched(k, c) == mgr.watchers[k] # None /\ c \in mgr.watchers[k].arms

\* resolvePane succeeds; with notify, the arm is read and acceptance prepared.
PrepareSend(c) ==
    LET k == call[c].name
        provisional == mgr.watchers[k] = None /\ k \in direct
    IN  /\ At(c, "send", "queued")
        /\ Running(c)
        /\ entry[k] = "active"
        /\ IF call[c].notify
           THEN /\ provisional => MayOpenBatch(mgr)
                /\ mgr' = IF provisional
                          THEN ArmWatcher(mgr, k, call[c].since, {c}, "rpc")
                          ELSE AcceptArm(mgr, k, c)
                /\ call' = [call EXCEPT ![c].stage = "armed", ![c].prev = durable[k],
                                        ![c].provisional = provisional]
           ELSE /\ mgr' = mgr
                /\ Goto(c, "written")
        /\ UNCHANGED <<direct, sendQueue, world, wire, history, clock>>

WriteSendArm(c) ==
    /\ At(c, "send", "armed")
    /\ durable' = [durable EXCEPT ![call[c].name] = c]
    /\ Goto(c, "written")
    /\ UNCHANGED <<manager, sendQueue, entry, pane, wire, history, clock>>

\* What the pane was asked before is asked no more.
SendInput(c) ==
    LET k == call[c].name
    IN  /\ At(c, "send", "written")
        /\ entry[k] = "active"
        /\ TypeInput(k, c)
        /\ waived' = IF call[c].notify THEN waived \cup (Underway(k) \ {c}) ELSE waived
        /\ Goto(c, "reached")
        /\ UNCHANGED <<manager, sendQueue, entry, durable, wire, latest, clock>>

SendReturns(c) ==
    /\ At(c, "send", "reached")
    /\ latest' = IF call[c].notify THEN [latest EXCEPT ![call[c].name] = c] ELSE latest
    /\ Goto(c, "returned")
    /\ UNCHANGED <<manager, sendQueue, world, wire, waived, clock>>

Dequeue(c, stage) == Goto(c, stage) /\ sendQueue' = Tail(sendQueue)

\* Mutant: reconciliation does not ask for completions that came early.
ArrivedDuringAction_Never(c) == FALSE

\* hasDeliveredArm: the completion came before the send returned.
ArrivedDuringAction(c) == c \in mgr.doneArms

ReconcileSend(c) ==
    LET k == call[c].name
    IN  /\ At(c, "send", "returned")
        /\ Dequeue(c, "done")
        /\ IF ~call[c].notify \/ k \notin direct
           THEN CancelPane(k) /\ Waive(k)
           ELSE IF call[c].provisional \/ ArrivedDuringAction(c)
           THEN mgr' = mgr /\ waived' = waived
           ELSE /\ MayOpenBatch(mgr)
                /\ mgr' = ArmWatcher(mgr, k, call[c].since, {c}, "rpc")
                /\ waived' = waived
        /\ UNCHANGED <<direct, world, wire, latest, clock>>

\* The pane is unknown, or the arm could not be written: nothing to restore.
FailSend(c) ==
    /\ \/ At(c, "send", "queued") /\ Running(c) /\ entry[call[c].name] # "active"
       \/ "input" \in Faults /\ At(c, "send", "armed")
       \/ At(c, "send", "written") /\ ~call[c].notify /\ entry[call[c].name] # "active"
    /\ Dequeue(c, "failed")
    /\ waived' = waived \cup {c}
    /\ UNCHANGED <<manager, world, wire, latest, clock>>

\* The input call fails, whether or not the text reached the pane.
InputFails(c) ==
    /\ \/ At(c, "send", "written") /\ (entry[call[c].name] = "active" => "input" \in Faults)
       \/ At(c, "send", "reached") /\ "input" \in Faults
    /\ call[c].notify
    /\ Goto(c, "rollback")
    /\ UNCHANGED <<manager, sendQueue, world, wire, history, clock>>

RestoreArm(c) ==
    /\ At(c, "send", "rollback")
    /\ durable' = [durable EXCEPT ![call[c].name] = call[c].prev]
    /\ Dequeue(c, "failed")
    /\ waived' = waived \cup {c}
    /\ UNCHANGED <<manager, entry, pane, wire, latest, clock>>

\* The call's signal interrupts it (completion.ts:219): Effect.result does not
\* catch this, so an arm that has been written stays, now the latest.
AbortSend(c) ==
    /\ "abort" \in Faults
    /\ \/ At(c, "send", "queued") /\ Running(c)
       \/ \E s \in {"armed", "written", "reached", "rollback"} : At(c, "send", s)
    /\ latest' = IF call[c].notify /\ call[c].stage \in {"written", "reached", "rollback"}
                 THEN [latest EXCEPT ![call[c].name] = c]
                 ELSE latest
    /\ Dequeue(c, "failed")
    /\ waived' = waived \cup {c}
    /\ UNCHANGED <<manager, world, wire, clock>>

----------------------------------------------------------------------------
(* Wait, close and restart.                                                *)

\* A wait that saw the subagent finish consumes its notification.
WaitReturns(k) ==
    /\ entry[k] = "active"
    /\ CancelPane(k)
    /\ Waive(k)
    /\ UNCHANGED <<direct, sendQueue, call, world, wire, latest, clock>>

ClosePane(k) ==
    /\ entry[k] = "active"
    /\ "closing" \in Faults \/ \A c \in CallsOn(k) : ~At(c, "spawn", "returned")
    /\ entry' = [entry EXCEPT ![k] = "none"]
    /\ EndPane(k)
    /\ CancelPane(k)
    /\ direct' = direct \ {k}
    /\ Waive(k)
    /\ UNCHANGED <<sendQueue, call, durable, wire, latest, clock>>

\* session_shutdown, and session_start of the next orchestrator process.
Restart ==
    /\ "restart" \in Faults
    /\ clock < MaxTime
    /\ clock' = clock + 1
    /\ mgr' = CancelAll(mgr)
    /\ direct' = {k \in Name : entry[k] = "active"}
    /\ sendQueue' = << >>
    /\ call' = [c \in Arm |-> IF call[c] = None THEN None
                              ELSE [call[c] EXCEPT !.stage = "failed"]]
    /\ entry' = [k \in Name |-> IF entry[k] = "reserved" THEN "none" ELSE entry[k]]
    /\ latest' = durable
    /\ waived' = waived \cup {c \in Arm : call[c] # None}
    /\ transit' = {}
    /\ UNCHANGED <<durable, pane, outbox, results, answers, nextId>>

----------------------------------------------------------------------------
(* The subagent's side.  Another process, it reads the arm file in its own *)
(* time: at each input (index.ts:232) and each start of the agent (233),   *)
(* which a run that goes on makes again.                                   *)

\* The arm read is that of an input the subagent has taken, or of none but older
\* calls: not of a send that is being made or undone, whose text may never come,
\* nor of an input that still waits.  A read that finds no arm is out of step too:
\* it is made again when the run settles.
InStep(k, waiting) ==
    /\ durable[k] # None
    /\ \A i \in DOMAIN waiting : waiting[i] # durable[k]
    /\ \A c \in Arm : durable[k] = c /\ call[c] # None
                          => call[c].stage \notin {"written", "rollback"}

MayRead(k, waiting) == "misread" \in Faults \/ InStep(k, waiting)

\* "input": the next n inputs begin a run or join the one under way.  Each is
\* followed by a read; of reads with no settlement between them the last counts.
TakeInput(k, n) ==
    LET waiting == SubSeq(typed[k], n + 1, Len(typed[k]))
    IN  /\ n \in 1..Len(typed[k])
        /\ MayRead(k, waiting)
        /\ typed' = [typed EXCEPT ![k] = waiting]
        /\ subagent' = [subagent EXCEPT ![k] = [running |-> TRUE, arm |-> durable[k]]]
        /\ turn' = [turn EXCEPT ![k] = @ \cup {typed[k][i] : i \in 1..n}]
        /\ UNCHANGED <<manager, sendQueue, call, entry, durable, wire, history, clock>>

\* "agent_start"
StartRun(k) ==
    /\ subagent[k].running
    /\ MayRead(k, typed[k])
    /\ subagent' = [subagent EXCEPT ![k].arm = durable[k]]
    /\ UNCHANGED <<manager, sendQueue, call, entry, durable, typed, turn, wire, history, clock>>

Settle(k) ==
    LET arm == IF subagent[k].arm = None THEN durable[k] ELSE subagent[k].arm
        r == [id |-> nextId + 1, name |-> k, arm |-> arm, at |-> clock, final |-> TRUE]
    IN  /\ subagent[k].running
        /\ nextId < MaxResult
        /\ subagent' = [subagent EXCEPT ![k] = [running |-> FALSE, arm |-> arm]]
        /\ outbox' = outbox \cup {r}
        /\ transit' = transit \cup {[result |-> r, arrived |-> FALSE]}
        /\ results' = results \cup {r}
        /\ answers' = [answers EXCEPT ![nextId + 1] = turn[k]]
        /\ turn' = [turn EXCEPT ![k] = {}]
        /\ nextId' = nextId + 1
        /\ UNCHANGED <<manager, sendQueue, call, entry, durable, typed, history, clock>>

PushArrives(p) ==
    /\ ~p.arrived
    /\ mgr' = ProcessExternalResult(mgr, p.result)
    /\ transit' = (transit \ {p}) \cup {[p EXCEPT !.arrived = TRUE]}
    /\ UNCHANGED <<direct, sendQueue, call, world, outbox, results, answers, nextId, history, clock>>

PushAcknowledged(p) ==
    /\ p.arrived
    /\ transit' = transit \ {p}
    /\ outbox' = outbox \ {p.result}
    /\ UNCHANGED <<manager, sendQueue, call, world, results, answers, nextId, history, clock>>

\* The timeout may beat the push, or only its acknowledgement.
PushTimesOut(p) ==
    /\ "rpc" \in Faults
    /\ transit' = transit \ {p}
    /\ UNCHANGED <<manager, sendQueue, call, world, outbox, results, answers, nextId, history, clock>>

----------------------------------------------------------------------------
(* Pane watches.                                                           *)

SetFound(m, k, found) == [m EXCEPT !.watchers[k].found = found]

\* takePersistedSubagentCompletion removes the file; an old result is dropped.
WatchTakes(r) ==
    LET slot == mgr.watchers[r.name]
    IN  /\ slot # None
        /\ slot.found = None
        /\ outbox' = outbox \ {r}
        /\ mgr' = IF r.at >= slot.since THEN SetFound(mgr, r.name, r) ELSE mgr
        /\ UNCHANGED <<direct, sendQueue, call, world, transit, results, answers, nextId, history, clock>>

WatchSeesBlocked(k) ==
    /\ "blocked" \in Faults
    /\ subagent[k].running
    /\ mgr.watchers[k] # None
    /\ mgr.watchers[k].found = None
    /\ mgr' = SetFound(mgr, k, Settled)
    /\ UNCHANGED <<direct, sendQueue, call, world, wire, history, clock>>

\* The input of the call is in the pane.
HasReached(c) == call[c].stage \in {"reached", "returned", "done"}

WatchCallback(k) ==
    /\ mgr.watchers[k] # None
    /\ mgr.watchers[k].found # None
    /\ nextId' = IF mgr.watchers[k].found = Settled THEN nextId + 1 ELSE nextId
    /\ nextId' <= MaxResult
    /\ mgr' = WatchResolved(mgr, k, nextId')
    /\ waived' = IF mgr.watchers[k].found = Settled
                 THEN waived \cup {c \in CallsOn(k) : HasReached(c)}
                 ELSE waived
    /\ UNCHANGED <<direct, sendQueue, call, world, transit, outbox, results, answers, latest, clock>>

BatchWindowEnds ==
    /\ mgr.batch # None
    /\ mgr' = FinalizeBatch(mgr)
    /\ UNCHANGED <<direct, sendQueue, call, world, wire, history, clock>>

GroupTimerFires(g) ==
    /\ g \in OpenGroups(mgr)
    /\ mgr.groups[g].timer = "running"
    /\ mgr' = OnGroupTimeout(mgr, g)
    /\ UNCHANGED <<direct, sendQueue, call, world, wire, history, clock>>

Tick ==
    /\ clock < MaxTime
    /\ clock' = clock + 1
    /\ UNCHANGED <<manager, sendQueue, call, world, wire, history>>

----------------------------------------------------------------------------
Advance(c) ==
    \/ ReserveName(c)
    \/ WriteSpawnArm(c)
    \/ LaunchPane(c)
    \/ FinalizeEntry(c)
    \/ ReconcileSpawn(c)
    \/ FailSpawn(c)
    \/ PrepareSend(c)
    \/ WriteSendArm(c)
    \/ SendInput(c)
    \/ SendReturns(c)
    \/ ReconcileSend(c)
    \/ FailSend(c)
    \/ InputFails(c)
    \/ RestoreArm(c)
    \/ AbortSend(c)

Next ==
    \/ \E c \in Arm, k \in Name, notify \in BOOLEAN :
         \/ StartSpawn(c, k, notify)
         \/ StartSend(c, k, notify)
    \/ \E c \in Arm : Advance(c)
    \/ \E k \in Name :
         \/ WaitReturns(k)
         \/ ClosePane(k)
         \/ \E n \in 1..Len(typed[k]) : TakeInput(k, n)
         \/ StartRun(k)
         \/ Settle(k)
         \/ WatchSeesBlocked(k)
         \/ WatchCallback(k)
    \/ \E p \in transit :
         \/ PushArrives(p)
         \/ PushAcknowledged(p)
         \/ PushTimesOut(p)
    \/ \E r \in outbox : WatchTakes(r)
    \/ \E g \in BatchId : GroupTimerFires(g)
    \/ BatchWindowEnds
    \/ Restart
    \/ Tick

Spec == Init /\ [][Next]_vars

----------------------------------------------------------------------------
(* What the coordinator promises.                                          *)

\* The report of a run that took the call's input was sent, whatever its arm.
Answered(c) == \E r \in results : c \in answers[r.id] /\ r.id \in SentIds(mgr)

OnItsWay(c) == \E d \in Held(mgr), r \in results : d.id = r.id /\ c \in answers[r.id]

\* A send or spawn that returned is never left alone: its watcher is there, or
\* its report is in a group or sent, or something else made it unwanted.
ReturnedCallIsWatched ==
    \A c \in Arm :
        (call[c] # None /\ call[c].stage = "done" /\ call[c].notify /\ c \notin waived)
        => Watched(call[c].name, c) \/ OnItsWay(c) \/ Answered(c)

\* ADR 0002: an ambiguous send failure "preserves acceptance of the attempted
\* arm: transport failure does not prove that input was rejected".
AttemptStaysAccepted ==
    \A c \in Arm :
        (At(c, "send", "rollback") /\ call[c].name \in direct /\ c \notin waived)
        => Watched(call[c].name, c) \/ OnItsWay(c) \/ Answered(c)

\* ADR 0002: a completion that arrives before its send returns arms no second
\* watcher; no watcher waits for nothing but arms that were delivered.
NoFutileWatcher ==
    \A k \in Name :
        mgr.watchers[k] # None => ~(mgr.watchers[k].arms \subseteq mgr.doneArms)

\* completion.ts: sends are serialized so that follow-ups cannot race the
\* durable arm.  Between calls it names the last call that succeeded, or was
\* interrupted once its arm was written.
Idle(k) == \A c \in CallsOn(k) : call[c].stage \in {"queued", "done", "failed"}

DurableArmIsLatest == \A k \in Name : Idle(k) => durable[k] = latest[k]

\* No watcher waits while a result it would take sits in the early buffer.
NoStrandedResult ==
    \A k \in Name : mgr.watchers[k] # None =>
        \A i \in DOMAIN mgr.early[k] : ~Consumes(mgr, mgr.early[k][i])

\* No completion is reported twice, however it came and after any restart.
ReportedOnce ==
    \A i, j \in DOMAIN mgr.sent :
        i # j => IdsOf(mgr.sent[i].reports) \cap IdsOf(mgr.sent[j].reports) = {}

\* Every call is over, every push and watch has ended, every timer has run.
AtRest ==
    /\ \A k \in Name : Over(k) /\ ~subagent[k].running
    /\ \A p \in transit : p.arrived
    /\ \A r \in outbox : mgr.watchers[r.name] = None
    /\ \A k \in Name : mgr.watchers[k] # None => mgr.watchers[k].found = None
    /\ \A g \in OpenGroups(mgr) : mgr.groups[g].timer = "unset"

\* The tool's promise: the result of a spawn or send that asked for a report is
\* reported by the time all is quiet, unless a wait, a close, a restart or a
\* later call has made it unwanted.
DeliveredAtRest ==
    AtRest => \A r \in results : \A c \in answers[r.id] :
                  call[c].notify => Answered(c) \/ c \in waived
=============================================================================
