---------------------------- MODULE SubagentWait -----------------------------
(***************************************************************************)
(* Waiting until a subagent has finished (herdr-subagent/actions.ts,       *)
(* waitForFinished): herdr says done for a finished pane nobody has looked *)
(* at and idle for one that was viewed, but also for one that has not yet  *)
(* begun, and nothing when it cannot be asked.  Time is counted in units   *)
(* of a fraction of the timeout.                                           *)
(***************************************************************************)
EXTENDS Naturals

CONSTANTS
    TimeoutMs, PollMs,      \* the timeout, and the time between two polls
    StabilityMs,            \* what startupIdleStabilityMs is at most, 10 s in the code
    StartupMs,              \* how long a subagent is idle before it begins
    WaitFaults              \* a subset of {"unknown", "pause", "resend"}: a poll finds
                            \* no status; the subagent is idle within a turn; herdr
                            \* shows the last turn when it has a new one

Confirmations == 2          \* WAIT_IDLE_CONFIRMATIONS

\* startupIdleStabilityMs: three fifths of the timeout, and no more than the maximum
NeverWorkedIdleMs ==
    LET share == (6 * TimeoutMs) \div 10 IN
    IF share < StabilityMs THEN share ELSE StabilityMs

VARIABLES
    phase, viewed,          \* the subagent's turn, and whether its end was seen
    wait                    \* the call: its clock, its next poll, what it knows

waitVars == <<phase, viewed, wait>>

WaitTypeOK ==
    /\ phase \in {"starting", "resent", "working", "blocked", "paused", "finished"}
    /\ viewed \in BOOLEAN
    /\ wait \in [now : 0..(TimeoutMs + 1), next : 0..(TimeoutMs + 1), consecutive : Nat,
                 firstIdle : 0..(TimeoutMs + 1), observedWorking : BOOLEAN, finishedBefore : BOOLEAN,
                 unseen : 0..(TimeoutMs + 2),   \* history: one more than the time of the last
                                                \* poll that found no status, or 0
                 outcome : {"waiting", "done", "idle", "expired"}]

WaitInit ==
    /\ phase \in {"starting", "working", "finished"} \cup
                 (IF "resend" \in WaitFaults THEN {"resent"} ELSE {})
    /\ viewed = FALSE
    /\ wait = [now |-> 0, next |-> 0, consecutive |-> 0, firstIdle |-> 0, observedWorking |-> FALSE,
               finishedBefore |-> phase = "finished", unseen |-> 0, outcome |-> "waiting"]

-----------------------------------------------------------------------------
(* The pane, as herdr reports it                                           *)

AgentStatus ==
    CASE phase \in {"starting", "paused"} -> "idle"
      [] phase = "resent" -> "done"
      [] phase = "finished" -> IF viewed THEN "idle" ELSE "done"
      [] OTHER -> phase

Begins ==
    /\ phase \in {"starting", "resent", "paused"} /\ phase' = "working"
    /\ UNCHANGED <<viewed, wait>>

Blocks ==
    /\ phase \in {"working", "blocked"}
    /\ phase' = IF phase = "working" THEN "blocked" ELSE "working"
    /\ UNCHANGED <<viewed, wait>>

Finishes ==
    /\ phase = "working"
    /\ phase' \in {"finished"} \cup (IF "pause" \in WaitFaults THEN {"paused"} ELSE {})
    /\ viewed' \in BOOLEAN
    /\ UNCHANGED wait

Viewed ==
    /\ phase = "finished" /\ ~viewed /\ viewed' = TRUE
    /\ UNCHANGED <<phase, wait>>

-----------------------------------------------------------------------------
(* waitForFinished                                                         *)

TimePasses ==
    /\ wait.outcome = "waiting" /\ wait.now < wait.next
    /\ phase = "starting" => wait.now < StartupMs
    /\ wait' = [wait EXCEPT !.now = @ + 1]
    /\ UNCHANGED <<phase, viewed>>

\* Is the subagent, idle once more, taken to have finished?  Mutant: without the
\* time that it must be idle when it was never seen to work.
Confirmed_Unstable(consecutive, firstIdle) == consecutive >= Confirmations

Confirmed(consecutive, firstIdle) ==
    /\ consecutive >= Confirmations
    /\ wait.observedWorking \/ wait.now - firstIdle >= NeverWorkedIdleMs

\* What a poll finds: liveAgent turns an error into no agent, and the status of
\* none is "unknown".
Statuses == {AgentStatus} \cup (IF "unknown" \in WaitFaults THEN {"unknown"} ELSE {})

\* A poll; the next one follows after PollMs, not after the deadline, and may be
\* late by one unit.
Poll(status) ==
    LET idle == status = "idle"
        consecutive == IF ~idle THEN 0
                       ELSE IF wait.consecutive < Confirmations THEN wait.consecutive + 1 ELSE Confirmations
        firstIdle == IF idle /\ wait.consecutive > 0 THEN wait.firstIdle ELSE wait.now
        pause == IF TimeoutMs - wait.now < PollMs THEN TimeoutMs - wait.now ELSE PollMs IN
    /\ wait.outcome = "waiting" /\ wait.now = wait.next
    /\ \E late \in 0..1 :
        wait' = [wait EXCEPT
            !.consecutive = consecutive, !.firstIdle = firstIdle,
            !.observedWorking = @ \/ status = "working",
            !.unseen = IF status = "unknown" THEN wait.now + 1 ELSE @,
            !.next = IF wait.now < TimeoutMs THEN @ + pause + late ELSE @,
            !.outcome = IF status = "done" THEN "done"
                        ELSE IF idle /\ Confirmed(consecutive, firstIdle) THEN "idle"
                        ELSE IF wait.now >= TimeoutMs THEN "expired" ELSE "waiting"]
    /\ UNCHANGED <<phase, viewed>>

WaitNext == Begins \/ Blocks \/ Finishes \/ Viewed \/ TimePasses \/ \E status \in Statuses : Poll(status)

-----------------------------------------------------------------------------
(* Properties                                                              *)

\* A wait says that the subagent has finished only when it has, however briefly
\* it is idle before it begins.  When it had finished before, the wait says so and
\* does not time out, unless a poll found no status and was followed by less than
\* the time that an idle subagent must be watched.
WaitIsHonest ==
    /\ wait.outcome \in {"done", "idle"} => phase = "finished"
    /\ wait.outcome = "expired" /\ wait.finishedBefore =>
           wait.unseen > 0 /\ wait.unseen + PollMs + NeverWorkedIdleMs > TimeoutMs
=============================================================================
