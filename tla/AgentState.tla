----------------------------- MODULE AgentState -----------------------------
(***************************************************************************)
(* The state of the agent as reported to herdr (herdr-agent-state.ts):     *)
(* events of pi set what is to be shown, a queue of one sends the newest,  *)
(* each with a second attempt; a reload starts a new instance while the    *)
(* old one still sends.                                                    *)
(***************************************************************************)
EXTENDS Naturals

CONSTANTS
    MaxSeq,         \* a bound on the reports
    MaxLoads,       \* a bound on the instances of the extension
    ReportFaults    \* a subset of {"lost", "prompt_reload"}: no attempt gets
                    \* through; a reload while a prompt is open

VARIABLES
    running,        \* pi runs an agent
    settled,        \* agent_settled handlers that have not been called yet
    prompts,        \* prompts that are open: herdr:blocked
    load,           \* the current instance
    root,           \* rootSession, or "starting" while the session is reported
    agentActive, blockedCount, lastState,
    reportSeq,
    queuedState,    \* of each instance
    sending,        \* drainStateQueue of each instance: the report and the attempt
    late,           \* reports given up that herdr may still read
    herdr           \* what herdr shows: a report with a lower seq is ignored

agentVars == <<running, settled, prompts, load, root, agentActive, blockedCount, lastState,
               reportSeq, queuedState, sending, late, herdr>>

State == {"working", "blocked", "idle"}
Instance == 1..MaxLoads
NoReport == [state |-> "none", seq |-> 0]
Report == [state : State, seq : 1..MaxSeq]
NotSending == [report |-> NoReport, attempt |-> 0]

AgentTypeOK ==
    /\ running \in BOOLEAN /\ settled \in 0..2 /\ prompts \in 0..2
    /\ load \in Instance
    /\ root \in {"no", "starting", "yes"}
    /\ agentActive \in BOOLEAN /\ blockedCount \in 0..2 /\ lastState \in State \cup {"none"}
    /\ reportSeq \in 0..MaxSeq
    /\ queuedState \in [Instance -> Report \cup {NoReport}]
    /\ sending \in [Instance -> [report : Report, attempt : 1..2] \cup {NotSending}]
    /\ late \subseteq Report
    /\ herdr \in Report \cup {NoReport}

AgentInit ==
    /\ running = FALSE /\ settled = 0 /\ prompts = 0 /\ load = 1 /\ root = "no"
    /\ agentActive = FALSE /\ blockedCount = 0 /\ lastState = "none" /\ reportSeq = 0
    /\ queuedState = [i \in Instance |-> NoReport]
    /\ sending = [i \in Instance |-> NotSending]
    /\ late = {} /\ herdr = NoReport

-----------------------------------------------------------------------------
(* publishState, queueState, drainStateQueue                               *)

Desired(count, active) ==
    IF count > 0 THEN "blocked" ELSE IF active THEN "working" ELSE "idle"

QueueState(state) ==
    /\ reportSeq < MaxSeq
    /\ reportSeq' = reportSeq + 1
    /\ LET report == [state |-> state, seq |-> reportSeq'] IN
       IF sending[load] = NotSending
       THEN /\ sending' = [sending EXCEPT ![load] = [report |-> report, attempt |-> 1]]
            /\ UNCHANGED queuedState
       ELSE queuedState' = [queuedState EXCEPT ![load] = report] /\ UNCHANGED sending

PublishState(force) ==
    LET next == Desired(blockedCount', agentActive') IN
    /\ lastState' = next
    /\ IF ~force /\ next = lastState
       THEN UNCHANGED <<reportSeq, queuedState, sending>>
       ELSE QueueState(next)

Newer(report) == IF report.seq > herdr.seq THEN report ELSE herdr

\* The end of sendRequest: the newest state goes next, if there is one.
\* Mutant: a state that was queued meanwhile is taken for sent.
Sent_Clears(i) ==
    /\ sending' = [sending EXCEPT ![i] = NotSending]
    /\ queuedState' = [queuedState EXCEPT ![i] = NoReport]

Sent(i) ==
    /\ sending' = [sending EXCEPT ![i] = IF queuedState[i] = NoReport THEN NotSending
                        ELSE [report |-> queuedState[i], attempt |-> 1]]
    /\ queuedState' = [queuedState EXCEPT ![i] = NoReport]

\* sendRequestAttempt: herdr answers.
Answered(i) ==
    /\ sending[i] # NotSending
    /\ herdr' = Newer(sending[i].report)
    /\ Sent(i)
    /\ UNCHANGED <<running, settled, prompts, load, root, agentActive, blockedCount, lastState,
                   reportSeq, late>>

\* No answer in time: herdr may read the request later, or never.
Unanswered(i, written) ==
    LET report == sending[i].report IN
    /\ sending[i] # NotSending
    /\ late' = IF written THEN late \cup {report} ELSE late
    /\ IF sending[i].attempt = 1
       THEN sending' = [sending EXCEPT ![i].attempt = 2] /\ UNCHANGED queuedState
       ELSE /\ \/ report \in late' \/ herdr.seq >= report.seq
               \/ "lost" \in ReportFaults
            /\ Sent(i)
    /\ UNCHANGED <<running, settled, prompts, load, root, agentActive, blockedCount, lastState,
                   reportSeq, herdr>>

HerdrReads(report) ==
    /\ report \in late
    /\ late' = late \ {report}
    /\ herdr' = Newer(report)
    /\ UNCHANGED <<running, settled, prompts, load, root, agentActive, blockedCount, lastState,
                   reportSeq, queuedState, sending>>

-----------------------------------------------------------------------------
(* The events of pi                                                        *)

\* session_start: the session is reported first.
SessionStart ==
    /\ root = "no"
    /\ root' = "starting"
    /\ UNCHANGED <<running, settled, prompts, load, agentActive, blockedCount, lastState, reportSeq,
                   queuedState, sending, late, herdr>>

SessionReported ==
    /\ root = "starting"
    /\ root' = "yes"
    /\ agentActive' = running
    /\ UNCHANGED blockedCount
    /\ PublishState(TRUE)
    /\ UNCHANGED <<running, settled, prompts, load, late, herdr>>

\* agent_start
AgentStart ==
    /\ ~running
    /\ running' = TRUE
    /\ IF root = "no" THEN UNCHANGED <<agentActive, blockedCount, lastState, reportSeq, queuedState, sending>>
       ELSE agentActive' = TRUE /\ UNCHANGED blockedCount /\ PublishState(FALSE)
    /\ UNCHANGED <<settled, prompts, load, root, late, herdr>>

RunSettles ==
    /\ running /\ settled < 2
    /\ running' = FALSE
    /\ settled' = settled + 1
    /\ UNCHANGED <<prompts, load, root, agentActive, blockedCount, lastState, reportSeq, queuedState,
                   sending, late, herdr>>

\* agent_settled: the handlers of other extensions go first, and may have
\* started another run.
AgentSettled ==
    /\ settled > 0
    /\ settled' = settled - 1
    /\ IF root = "no" \/ running
       THEN UNCHANGED <<agentActive, blockedCount, lastState, reportSeq, queuedState, sending>>
       ELSE agentActive' = FALSE /\ UNCHANGED blockedCount /\ PublishState(FALSE)
    /\ UNCHANGED <<running, prompts, load, root, late, herdr>>

\* herdr:blocked
Blocked(active) ==
    /\ root # "no"
    /\ prompts' = IF active THEN prompts + 1 ELSE prompts - 1
    /\ prompts' \in 0..2
    /\ blockedCount' = IF active THEN blockedCount + 1
                       ELSE IF blockedCount = 0 THEN 0 ELSE blockedCount - 1
    /\ UNCHANGED agentActive
    /\ PublishState(FALSE)
    /\ UNCHANGED <<running, settled, load, root, late, herdr>>

\* A new instance; what the old one sends is under way.
Reload ==
    /\ root = "yes" /\ load < MaxLoads
    /\ prompts = 0 \/ "prompt_reload" \in ReportFaults
    /\ load' = load + 1
    /\ root' = "no" /\ agentActive' = FALSE /\ blockedCount' = 0 /\ lastState' = "none"
    /\ settled' = 0
    /\ UNCHANGED <<running, prompts, reportSeq, queuedState, sending, late, herdr>>

AgentNext ==
    \/ SessionStart \/ SessionReported \/ AgentStart \/ RunSettles \/ AgentSettled
    \/ (\E active \in BOOLEAN : Blocked(active)) \/ Reload
    \/ \E i \in Instance : Answered(i) \/ \E written \in BOOLEAN : Unanswered(i, written)
    \/ \E report \in late : HerdrReads(report)

-----------------------------------------------------------------------------
(* Properties                                                              *)

\* When nothing is under way any more herdr shows what pi does, however the
\* events, the attempts and the reports of an old instance were interleaved
\* (drainStateQueue, the seq of a report, isIdle in the handlers).
StateIsReported ==
    /\ root = "yes" /\ settled = 0 /\ late = {}
    /\ \A i \in Instance : sending[i] = NotSending
    => herdr.state = Desired(prompts, running)
=============================================================================
