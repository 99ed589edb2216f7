---------------------------- MODULE Notifications ----------------------------
(***************************************************************************)
(* The notification manager among its callers: tool calls that reserve,    *)
(* arm, cancel and inspect, results that arrive by RPC any number of times *)
(* and in any order, asynchronous pane watches, and the two timers.  The   *)
(* callers are as free as the code lets them be; the constant Calls says   *)
(* which of the optional ones a run includes.                              *)
(***************************************************************************)
EXTENDS NotificationManager

CONSTANTS
    Calls,          \* see CallsAssumption
    MaxTime,        \* bound on the clock
    MaxResult       \* bound on the number of results

ASSUME CallsAssumption ==
    Calls \subseteq {"dismiss",  \* cancel, and inspections that read a report
                     "rearm",    \* arm a subagent whose report is still held
                     "respawn",  \* spawn under a name that is still in use
                     "watch",    \* pane watches resolve and fail
                     "arms",     \* results and watchers carry arm ids
                     "samples",  \* a report is too long to be sent whole
                     "shutdown"} \* the session ends

ASSUME BoundsAssumption == MaxTime \in Nat /\ MaxResult \in Nat

VARIABLES
    mgr,            \* the manager
    clock,          \* milliseconds, as Date.now() returns them
    results,        \* every result a subagent has sent
    spawning,       \* spawns whose pane is still being created
    inspecting,     \* per pane, the report that was ready when inspect began
    session,        \* when this session began
    nextId          \* completion ids used so far

vars == <<mgr, clock, results, spawning, inspecting, session, nextId>>

\* Type invariant.  The early buffer of a subagent never outgrows its limit
\* (PENDING_SUBAGENT_RESULT_LIMIT), and no session begins in the future.
TypeOK ==
    /\ mgr \in Manager
    /\ \A k \in Name : Len(mgr.early[k]) <= PendingLimit
    /\ clock \in 0..MaxTime
    /\ results \subseteq Result
    /\ spawning \subseteq Name
    /\ inspecting \in [Name -> Delivery \cup {None}]
    /\ session \in 0..clock
    /\ nextId \in 0..MaxResult

Init ==
    /\ mgr = EmptyManager
    /\ clock = 0
    /\ results = {}
    /\ spawning = {}
    /\ inspecting = [k \in Name |-> None]
    /\ session = 0
    /\ nextId = 0

InUse(k) == mgr.watchers[k] # None \/ mgr.groupOf[k] # None

Holds(k) == Named(Held(mgr), k) # {}

ArmChoices == IF "arms" \in Calls THEN {{a} : a \in Arm} ELSE {{}}

SourceChoices == IF "watch" \in Calls THEN {"rpc", "poll"} ELSE {"rpc"}

Caller(m) == mgr' = m /\ UNCHANGED <<clock, results, inspecting, session, nextId>>

----------------------------------------------------------------------------
(* Tool calls.                                                             *)

\* A spawn reserves its membership before its first await.
BeginBatchMember(k) ==
    /\ k \notin spawning
    /\ MayOpenBatch(mgr)
    /\ InUse(k) => "respawn" \in Calls
    /\ Caller(BeginMember(mgr, k))
    /\ spawning' = spawning \cup {k}

\* The spawn is over: it failed, or it will arm with ArmSpawn.
ReleaseBatchMember(k) ==
    /\ k \in spawning
    /\ Caller(ReleaseMember(mgr, k))
    /\ spawning' = spawning \ {k}

ArmSpawn(k) ==
    /\ k \in spawning
    /\ MayOpenBatch(mgr)
    /\ \E since \in session..clock, arms \in ArmChoices, source \in SourceChoices :
         Caller(ArmWatcher(mgr, k, since, arms, source))
    /\ spawning' = spawning \ {k}

\* A follow-up, with or without a watcher that is still waiting.
ArmSend(k) ==
    /\ k \notin spawning
    /\ MayOpenBatch(mgr)
    /\ Holds(k) => "rearm" \in Calls
    /\ \E since \in session..clock, arms \in ArmChoices :
         Caller(ArmWatcher(mgr, k, since, arms, "rpc"))
    /\ UNCHANGED spawning

AcceptSend(k) ==
    /\ "arms" \in Calls
    /\ mgr.watchers[k] # None
    /\ \E a \in Arm : Caller(AcceptArm(mgr, k, a))
    /\ UNCHANGED spawning

CancelTarget(k) ==
    /\ "dismiss" \in Calls
    /\ \E byName \in BOOLEAN : Caller(Cancel(mgr, k, byName))
    /\ UNCHANGED spawning

Inspect(k) == inspecting' = [inspecting EXCEPT ![k] = mgr.ready[k]]

BeginInspection(k) ==
    /\ "dismiss" \in Calls
    /\ mgr.ready[k] # None
    /\ inspecting[k] = None
    /\ Inspect(k)
    /\ UNCHANGED <<mgr, clock, results, spawning, session, nextId>>

\* The pane's text may have scrolled past the report, or may show it.
EndInspection(k) ==
    /\ inspecting[k] # None
    /\ inspecting' = [inspecting EXCEPT ![k] = None]
    /\ \/ mgr' = mgr
       \/ inspecting[k].final /\ mgr' = AcknowledgeInspection(mgr, inspecting[k])
    /\ UNCHANGED <<clock, results, spawning, session, nextId>>

SessionShutdown ==
    /\ "shutdown" \in Calls
    /\ clock < MaxTime
    /\ mgr # CancelAll(mgr)
    /\ mgr' = CancelAll(mgr)
    /\ clock' = clock + 1
    /\ session' = clock'
    /\ spawning' = {}
    /\ inspecting' = [k \in Name |-> None]
    /\ UNCHANGED <<results, nextId>>

----------------------------------------------------------------------------
(* Results, watches and timers.                                            *)

Settle(k) ==
    /\ nextId < MaxResult
    /\ nextId' = nextId + 1
    /\ \E arm \in IF "arms" \in Calls THEN Arm \cup {None} ELSE {None},
          final \in IF "samples" \in Calls THEN BOOLEAN ELSE {TRUE} :
         results' = results \cup
            {[id |-> nextId', name |-> k, arm |-> arm, at |-> clock, final |-> final]}
    /\ UNCHANGED <<mgr, clock, spawning, inspecting, session>>

\* By RPC, once or again after a sender that had given up waiting.
DeliverExternal(r) ==
    /\ Caller(ProcessExternalResult(mgr, r))
    /\ mgr' # mgr
    /\ UNCHANGED spawning

Watching(k) ==
    /\ "watch" \in Calls
    /\ mgr.watchers[k] # None

WatchFinds(k, found) ==
    /\ Watching(k)
    /\ mgr.watchers[k].found = None
    /\ Caller([mgr EXCEPT !.watchers[k].found = found])
    /\ UNCHANGED spawning

\* An RPC watcher takes results a subagent left in the outbox.
WatchTakes(r) ==
    /\ Watching(r.name)
    /\ mgr.watchers[r.name].source = "rpc"
    /\ r.at >= mgr.watchers[r.name].since
    /\ WatchFinds(r.name, r)

\* done, idle or blocked; a watcher with an RPC source only heeds blocked.
WatchSettles(k) == WatchFinds(k, Settled)

WatchCallback(k) ==
    /\ Watching(k)
    /\ mgr.watchers[k].found # None
    /\ nextId' = IF mgr.watchers[k].found = Settled THEN nextId + 1 ELSE nextId
    /\ nextId' <= MaxResult
    /\ mgr' = WatchResolved(mgr, k, nextId')
    /\ UNCHANGED <<clock, results, spawning, inspecting, session>>

WatchFails(k) ==
    /\ Watching(k)
    /\ Caller(WatchRejected(mgr, k))
    /\ UNCHANGED spawning

BatchWindowEnds ==
    /\ mgr.batch # None
    /\ Caller(FinalizeBatch(mgr))
    /\ UNCHANGED spawning

GroupTimerFires(g) ==
    /\ g \in OpenGroups(mgr)
    /\ mgr.groups[g].timer = "running"
    /\ Caller(OnGroupTimeout(mgr, g))
    /\ UNCHANGED spawning

Tick ==
    /\ clock < MaxTime
    /\ clock' = clock + 1
    /\ UNCHANGED <<mgr, results, spawning, inspecting, session, nextId>>

Next ==
    \/ \E k \in Name :
         \/ BeginBatchMember(k)
         \/ ReleaseBatchMember(k)
         \/ ArmSpawn(k)
         \/ ArmSend(k)
         \/ AcceptSend(k)
         \/ CancelTarget(k)
         \/ BeginInspection(k)
         \/ EndInspection(k)
         \/ Settle(k)
         \/ WatchSettles(k)
         \/ WatchCallback(k)
         \/ WatchFails(k)
    \/ \E r \in results :
         \/ DeliverExternal(r)
         \/ WatchTakes(r)
    \/ \E g \in BatchId : GroupTimerFires(g)
    \/ BatchWindowEnds
    \/ SessionShutdown
    \/ Tick

\* Timers that are running fire.
Fairness ==
    /\ WF_vars(BatchWindowEnds)
    /\ \A g \in BatchId : WF_vars(GroupTimerFires(g))

Spec == Init /\ [][Next]_vars

FairSpec == Spec /\ Fairness

----------------------------------------------------------------------------
(* What the manager promises.                                              *)

\* A completion is reported in at most one message, however often it is
\* delivered and whatever happens to its watcher and its group
\* (deliveredCompletionIds, and the groups' hand-over to sendMessage).
ReportedOnce ==
    \A i, j \in DOMAIN mgr.sent :
        i # j => IdsOf(mgr.sent[i].reports) \cap IdsOf(mgr.sent[j].reports) = {}

\* Where a completion stands.  A pane watch's own completion has an id that
\* no result has; a result of an earlier session can no longer be accepted.
Ids == 1..MaxResult

IsPolled(i) == i <= nextId /\ ~\E r \in results : r.id = i

IsExpired(i) == \E r \in results : r.id = i /\ r.at < session

StandingOf(i) ==
    IF i \in SentIds(mgr) THEN "told"
    ELSE IF i \in IdsOf(Held(mgr)) THEN "held"
    ELSE IF i \in mgr.seen \/ IsPolled(i) \/ IsExpired(i) THEN "dismissed"
    ELSE "open"

Ledger == INSTANCE ReportLedger WITH Id <- Ids, ledger <- [i \in Ids |-> StandingOf(i)]

\* The manager implements the life of a report: every accepted completion is
\* held or told at once, and once told or dismissed it stays so.
FollowsLedger == Ledger!Spec

\* A group never waits for a ghost: each member it still waits for is keyed to
\* it and has a watcher, or a spawn that will arm or release it.
MembersAreAwaited ==
    \A g \in OpenGroups(mgr) :
        \A k \in mgr.groups[g].members \ NamesOf(mgr.groups[g].completed) :
            /\ mgr.groupOf[k] = g
            /\ mgr.watchers[k] # None \/ k \in spawning

\* A group that holds a report has a running timer to send it with.
HeldReportIsTimed ==
    \A g \in OpenGroups(mgr) :
        mgr.groups[g].completed # {} => mgr.groups[g].timer = "running"

\* A held report goes nowhere but to the model, unless its subagent is cancelled,
\* or this very report was read in its pane, or the session ends.
HeldReportIsKept ==
    [][\A d \in Held(mgr) :
          \/ d \in Held(mgr')
          \/ d.id \in SentIds(mgr')
          \/ CancelTarget(d.name)
          \/ EndInspection(d.name) /\ inspecting[d.name].id = d.id
          \/ SessionShutdown]_vars

\* A held report is sent sooner or later, even if its mates never finish.
HeldReportIsSent ==
    \A k \in Name : Holds(k) ~> ~Holds(k)
=============================================================================
