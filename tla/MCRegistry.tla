----------------------------- MODULE MCRegistry -----------------------------
(* The subagents' registry on a small instance, and beside it what is done  *)
(* with the subagents that run: a wait for one, their reports in the        *)
(* context, the widget that shows them.  A behaviour is one of the part in  *)
(* focus; the others stay as they begin.                                    *)
EXTENDS Registry, Sequences, TLC

CONSTANTS
    TimeoutMs, PollMs, StabilityMs, StartupMs, WaitFaults,  \* of SubagentWait
    Panel, Completion, Old, Text, MaxMessages,              \* of ResultContext
    Timer, Tick, MaxSessions, MaxEpoch                      \* of OverviewWidget

\* Times are whole numbers, and so are the bounds.
ASSUME SizesAssumption ==
    /\ TimeoutMs \in Nat /\ PollMs \in Nat /\ StabilityMs \in Nat /\ StartupMs \in Nat
    /\ MaxMessages \in Nat /\ MaxSessions \in Nat /\ MaxEpoch \in Nat

VARIABLES
    focus,
    phase, viewed, wait,
    messages, start,
    currentToken, sessions, epoch, timers, timer, ticks, shown

waitVars == <<phase, viewed, wait>>
resultVars == <<messages, start>>
widgetVars == <<currentToken, sessions, epoch, timers, timer, ticks, shown>>

Wait == INSTANCE SubagentWait
Results == INSTANCE ResultContext WITH branch <- messages
Widget == INSTANCE OverviewWidget

RegistryInit ==
    /\ focus \in {"registry", "wait", "results", "widget"}
    /\ Init /\ Results!ResultInit /\ Widget!WidgetInit
    /\ Wait!WaitInit /\ (focus # "wait" => phase = "finished")

RegistryNext ==
    /\ UNCHANGED focus
    /\ \/ focus = "registry" /\ Next /\ UNCHANGED <<waitVars, resultVars, widgetVars>>
       \/ focus = "wait" /\ Wait!WaitNext /\ UNCHANGED <<vars, resultVars, widgetVars>>
       \/ focus = "results" /\ Results!ResultNext /\ UNCHANGED <<vars, waitVars, widgetVars>>
       \/ focus = "widget" /\ Widget!WidgetNext /\ UNCHANGED <<vars, waitVars, resultVars>>

RegistrySpec == RegistryInit /\ [][RegistryNext]_<<focus, vars, waitVars, resultVars, widgetVars>>

Symmetry == Permutations(Call) \cup Permutations(Panel) \cup Permutations(Completion) \cup Permutations(Text)

\* A wait ends well only when the subagent has finished (waitForFinished).  The
\* variables have their types.
WaitIsHonest ==
    /\ TypeOK /\ Wait!WaitTypeOK /\ Results!ResultTypeOK /\ Widget!WidgetTypeOK
    /\ focus = "wait" => Wait!WaitIsHonest

\* No report of a subagent is lost from the context, or told twice, when those
\* that were read are left out (refreshSubagentResultGuidance).
ReportsStayReadable == focus = "results" => Results!ReportsStayReadable

\* The widget is refreshed by one chain of ticks (schedule, poke).
WidgetHasOneTimer == focus = "widget" => Widget!WidgetHasOneTimer
=============================================================================
