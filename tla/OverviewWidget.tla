--------------------------- MODULE OverviewWidget ---------------------------
(***************************************************************************)
(* The refresh loop of the overview widget (herdr-subagent/                *)
(* overview-widget.ts): a tick lists the subagents, draws them and sets    *)
(* the timer of the next tick; a poke starts a tick at once; sessions      *)
(* start and end while ticks are under way.                                *)
(***************************************************************************)
EXTENDS Naturals, FiniteSets

CONSTANTS
    Timer,          \* the timers of the process
    Tick,           \* the ticks under way
    MaxSessions,    \* a bound on the sessions
    MaxEpoch        \* a bound on the pokes of a session

VARIABLES
    currentToken,   \* the session, 0 when there is none
    sessions,       \* the sessions so far
    epoch,          \* of each session
    timers,         \* what each timer that is set will tick for, or 0
    timer,          \* the timer that stopTimer clears, if it is set
    ticks,          \* the session and the epoch of each tick, and where it stands
    shown           \* the session whose widget is shown, 0 when it is hidden

widgetVars == <<currentToken, sessions, epoch, timers, timer, ticks, shown>>

Session == 1..MaxSessions
NoTick == [token |-> 0, epoch |-> 0, pc |-> "none"]

WidgetTypeOK ==
    /\ currentToken \in 0..MaxSessions /\ sessions \in 0..MaxSessions
    /\ epoch \in [Session -> 0..MaxEpoch]
    /\ timers \in [Timer -> 0..MaxSessions]
    /\ timer \subseteq Timer /\ Cardinality(timer) <= 1
    /\ ticks \in [Tick -> [token : 0..MaxSessions, epoch : 0..MaxEpoch, pc : {"none", "listing", "drawn"}]]
    /\ shown \in 0..MaxSessions

WidgetInit ==
    /\ currentToken = 0 /\ sessions = 0
    /\ epoch = [s \in Session |-> 0]
    /\ timers = [t \in Timer |-> 0] /\ timer = {}
    /\ ticks = [k \in Tick |-> NoTick]
    /\ shown = 0

StoppedTimers == [t \in Timer |-> IF t \in timer THEN 0 ELSE timers[t]]

\* tick, of a session that is the current one
NewTick(token, e) ==
    \E k \in Tick :
        /\ ticks[k] = NoTick
        /\ ticks' = [ticks EXCEPT ![k] = [token |-> token, epoch |-> e, pc |-> "listing"]]

\* session_start
SessionStart ==
    /\ sessions < MaxSessions
    /\ sessions' = sessions + 1 /\ currentToken' = sessions'
    /\ timers' = StoppedTimers /\ timer' = {}
    /\ NewTick(currentToken', 0)
    /\ UNCHANGED <<epoch, shown>>

\* session_shutdown
SessionShutdown ==
    /\ currentToken # 0
    /\ currentToken' = 0
    /\ timers' = StoppedTimers /\ timer' = {}
    /\ shown' = 0
    /\ UNCHANGED <<sessions, epoch, ticks>>

\* pokeActive: whatever tick is under way will not set a timer.
\* Mutant: it will.
Poke_SameEpoch ==
    /\ currentToken # 0 /\ epoch[currentToken] < MaxEpoch
    /\ timers' = StoppedTimers /\ timer' = {}
    /\ NewTick(currentToken, epoch[currentToken])
    /\ UNCHANGED <<currentToken, sessions, epoch, shown>>

Poke ==
    /\ currentToken # 0 /\ epoch[currentToken] < MaxEpoch
    /\ epoch' = [epoch EXCEPT ![currentToken] = @ + 1]
    /\ timers' = StoppedTimers /\ timer' = {}
    /\ NewTick(currentToken, epoch'[currentToken])
    /\ UNCHANGED <<currentToken, sessions, shown>>

TimerFires(t) ==
    /\ timers[t] # 0
    /\ timers' = [timers EXCEPT ![t] = 0]
    /\ IF timers[t] = currentToken THEN NewTick(currentToken, epoch[currentToken]) ELSE UNCHANGED ticks
    /\ UNCHANGED <<currentToken, sessions, epoch, timer, shown>>

\* The listing has come back, or has failed.  Without subagents the widget is
\* hidden; without success it stays as it is.
Draw(k) ==
    /\ ticks[k].pc = "listing"
    /\ ticks' = [ticks EXCEPT ![k].pc = "drawn"]
    /\ shown' \in IF ticks[k].token = currentToken THEN {currentToken, 0, shown} ELSE {shown}
    /\ UNCHANGED <<currentToken, sessions, epoch, timers, timer>>

\* schedule
Schedule(k) ==
    /\ ticks[k].pc = "drawn"
    /\ ticks' = [ticks EXCEPT ![k] = NoTick]
    /\ IF ticks[k].token = currentToken /\ ticks[k].epoch = epoch[currentToken]
       THEN \E t \in Timer :
            /\ timers[t] = 0
            /\ timers' = [timers EXCEPT ![t] = currentToken]
            /\ timer' = {t}
       ELSE UNCHANGED <<timers, timer>>
    /\ UNCHANGED <<currentToken, sessions, epoch, shown>>

WidgetNext ==
    \/ SessionStart \/ SessionShutdown \/ Poke
    \/ \E t \in Timer : TimerFires(t)
    \/ \E k \in Tick : Draw(k) \/ Schedule(k)

-----------------------------------------------------------------------------
(* Properties                                                              *)

\* However pokes, ticks and sessions overlap there is one chain of ticks: a
\* session has either one timer or one tick that will set it, so that it is
\* neither polled twice nor forgotten; without a session there is no timer and
\* no widget.
WidgetHasOneTimer ==
    LET due == {t \in Timer : timers[t] # 0}
        coming == {k \in Tick : /\ ticks[k].pc # "none"
                                /\ ticks[k].token = currentToken
                                /\ ticks[k].epoch = epoch[currentToken]} IN
    IF currentToken = 0 THEN due = {} /\ shown = 0
    ELSE /\ Cardinality(due) + Cardinality(coming) = 1
         /\ \A t \in due : timers[t] = currentToken
=============================================================================
