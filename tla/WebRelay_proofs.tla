-------------------------- MODULE WebRelay_proofs --------------------------
(***************************************************************************)
(* Proofs about the connection of a session to the web relay, for every    *)
(* number of sessions, commands and writes.  The pursuit of the relay, the *)
(* command in flight and the writes hold whatever the faults, in an        *)
(* instance that serves several sessions too; what the browser is shown    *)
(* holds where each session has an instance of its own and pi's own        *)
(* compactions do not fail.  Beside it the state that herdr shows of the   *)
(* agent, for any number of instances of the extension and of reports.     *)
(***************************************************************************)
EXTENDS MCReports, TLAPS

-----------------------------------------------------------------------------
(* The pursuit of the relay                                                *)

Flagged == interactive \in BOOLEAN /\ bootstrapTimer \in BOOLEAN

LinkTyped ==
    /\ connectionGeneration \in 0..MaxGeneration
    /\ client \in Generation \cup {NoClient}
    /\ conn \in [Generation -> {"none", "connecting", "ready", "ended"}]

\* OnePursuit, with the three pursuits apart, and what makes it inductive: a
\* request for credentials and a connection are of a session that has started,
\* and a client has a connection.
Linked ==
    /\ LinkTyped
    /\ asking \subseteq 1..connectionGeneration
    /\ interactive => connectionGeneration # 0
    /\ client # NoClient => conn[client] \in {"connecting", "ready"}
    /\ \A g \in Generation : g > connectionGeneration => conn[g] = "none"
    /\ \A g \in Generation : conn[g] \in {"connecting", "ready"} =>
           g = client /\ g = connectionGeneration
    /\ interactive =>
           \/ client # NoClient /\ connectionGeneration \notin asking /\ ~bootstrapTimer
           \/ client = NoClient /\ connectionGeneration \in asking /\ ~bootstrapTimer
           \/ client = NoClient /\ connectionGeneration \notin asking /\ bootstrapTimer
    /\ ~interactive =>
           client = NoClient /\ connectionGeneration \notin asking /\ ~bootstrapTimer

LEMMA PursuitCases ==
    ASSUME NEW pursuing \in BOOLEAN, NEW asks \in BOOLEAN, NEW waits \in BOOLEAN,
           \/ pursuing /\ ~asks /\ ~waits
           \/ ~pursuing /\ asks /\ ~waits
           \/ ~pursuing /\ ~asks /\ waits
    PROVE  \E pursuit \in {"client", "asking", "timer"} :
               /\ pursuing <=> pursuit = "client"
               /\ asks <=> pursuit = "asking"
               /\ waits <=> pursuit = "timer"
  OBVIOUS

LEMMA LinkedIsOnePursuit == Flagged /\ Linked => OnePursuit
<1> SUFFICES ASSUME Flagged, Linked PROVE OnePursuit OBVIOUS
<1>1. interactive \in BOOLEAN /\ bootstrapTimer \in BOOLEAN BY DEF Flagged
<1>2. ASSUME interactive
      PROVE  \E pursuit \in {"client", "asking", "timer"} :
                 /\ client # NoClient <=> pursuit = "client"
                 /\ connectionGeneration \in asking <=> pursuit = "asking"
                 /\ bootstrapTimer <=> pursuit = "timer"
  BY <1>1, <1>2, PursuitCases DEF Linked
<1>3. QED BY <1>1, <1>2 DEF OnePursuit, Linked

LEMMA LinkedInit == Init => Linked
<1> SUFFICES ASSUME Init PROVE Linked OBVIOUS
<1>1. /\ connectionGeneration = 0 /\ interactive = FALSE /\ asking = {}
      /\ bootstrapTimer = FALSE /\ client = NoClient
      /\ conn = [g \in Generation |-> "none"]
  BY DEF Init
<1>2. LinkTyped BY <1>1, MaxGenerationIsNat DEF LinkTyped, NoClient
<1>3. QED BY <1>1, <1>2 DEF Linked, NoClient

\* The steps that change the connection.
LinkChange ==
    \/ SessionStart \/ SessionShutdown \/ BootstrapRetry
    \/ \E g \in Generation, issued \in BOOLEAN : Credentials(g, issued)
    \/ \E g \in Generation : Accepted(g)
    \/ \E g \in Generation : Disconnect(g)

LEMMA LinkSteps == Next => LinkChange \/ UNCHANGED linkVars
<1> SUFFICES ASSUME Next, ~LinkChange PROVE UNCHANGED linkVars
  OBVIOUS
<1>1. CASE \E g \in Generation, o \in Op :
              \/ Refuse(o, g) \/ AcceptReload(o, g)
              \/ \E does \in {"message", "snapshot", "compact"} : Begin(o, g, does)
  BY <1>1 DEF Refuse, AcceptReload, Begin
<1>2. ASSUME NEW o \in Op, Finish(o) PROVE UNCHANGED linkVars
  BY <1>2, Zenon DEF Finish
<1>3. CASE \/ AgentStart \/ AgentSettled \/ MessageStart \/ MessageUpdate \/ MessageEnd
           \/ CompactionStart \/ CompactionEnd
  <2>1. CASE AgentStart BY <2>1, Zenon DEF AgentStart
  <2>2. CASE AgentSettled BY <2>2, Zenon DEF AgentSettled
  <2>3. CASE MessageStart BY <2>3, Zenon DEF MessageStart
  <2>4. CASE MessageUpdate BY <2>4, Zenon DEF MessageUpdate
  <2>5. CASE MessageEnd BY <2>5, Zenon DEF MessageEnd
  <2>6. CASE CompactionStart BY <2>6, Zenon DEF CompactionStart
  <2>7. CASE CompactionEnd BY <2>7, Zenon DEF CompactionEnd
  <2>8. QED BY <1>3, <2>1, <2>2, <2>3, <2>4, <2>5, <2>6, <2>7
<1>4. ASSUME NEW w \in Write,
             \/ ToolStart(w) \/ TransferEnd(w) \/ ToolFails(w) \/ ToolSucceeds(w)
             \/ WriteCompletion(w)
      PROVE  UNCHANGED linkVars
  <2>1. CASE ToolStart(w) BY <2>1, Zenon DEF ToolStart
  <2>2. CASE TransferEnd(w) BY <2>2, Zenon DEF TransferEnd
  <2>3. CASE ToolFails(w) BY <2>3, Zenon DEF ToolFails
  <2>4. CASE ToolSucceeds(w) BY <2>4, Zenon DEF ToolSucceeds
  <2>5. CASE WriteCompletion(w) BY <2>5, Zenon DEF WriteCompletion
  <2>6. QED BY <1>4, <2>1, <2>2, <2>3, <2>4, <2>5
<1>5. QED BY <1>1, <1>2, <1>3, <1>4 DEF Next, LinkChange

LEMMA FlaggedStep == Flagged /\ [Next]_vars => Flagged'
<1> SUFFICES ASSUME Flagged, [Next]_vars PROVE Flagged' OBVIOUS
<1> USE DEF Flagged
<1>1. CASE SessionStart BY <1>1, Zenon DEF SessionStart, Drop
<1>2. CASE SessionShutdown BY <1>2, Zenon DEF SessionShutdown, Drop
<1>3. CASE BootstrapRetry BY <1>3, Zenon DEF BootstrapRetry
<1>4. ASSUME NEW g \in Generation, NEW issued \in BOOLEAN, Credentials(g, issued) PROVE Flagged'
  BY <1>4, Zenon DEF Credentials
<1>5. ASSUME NEW g \in Generation, Accepted(g) PROVE Flagged'
  BY <1>5, Zenon DEF Accepted
<1>6. ASSUME NEW g \in Generation, Disconnect(g) PROVE Flagged'
  BY <1>6, Zenon DEF Disconnect
<1>7. CASE UNCHANGED linkVars BY <1>7 DEF linkVars
<1>8. UNCHANGED vars => UNCHANGED linkVars BY DEF vars
<1>9. QED BY <1>1, <1>2, <1>3, <1>4, <1>5, <1>6, <1>7, <1>8, LinkSteps DEF LinkChange

\* The end of a session closes the connection of its client.
LEMMA DropCloses ==
    ASSUME Linked, Drop
    PROVE  /\ client' = NoClient /\ ~bootstrapTimer'
           /\ conn' \in [Generation -> {"none", "connecting", "ready", "ended"}]
           /\ \A g \in Generation : conn'[g] \notin {"connecting", "ready"}
           /\ \A g \in Generation : conn[g] = "none" => conn'[g] = "none"
<1> USE DEF Linked, LinkTyped, NoClient, Generation
<1>1. client' = NoClient /\ ~bootstrapTimer' BY DEF Drop
<1>2. CASE client = NoClient
  <2>1. conn' = conn BY <1>2, Zenon DEF Drop
  <2>2. QED BY <1>1, <1>2, <2>1, MaxGenerationIsNat
<1>3. CASE client # NoClient BY <1>3, <1>1 DEF Drop, Released
<1>4. QED BY <1>2, <1>3

LEMMA LinkedStep == Linked /\ [Next]_vars => Linked'
<1> SUFFICES ASSUME Linked, [Next]_vars PROVE Linked' OBVIOUS
<1> USE MaxGenerationIsNat DEF Linked, LinkTyped, NoClient, Generation
<1>1. CASE SessionStart
  <2>1. Drop /\ connectionGeneration < MaxGeneration
        /\ connectionGeneration' = connectionGeneration + 1
        /\ asking' = IF interactive' THEN asking \cup {connectionGeneration'} ELSE asking
    BY <1>1 DEF SessionStart
  <2>2. QED BY <2>1, DropCloses
<1>2. CASE SessionShutdown
  <2>1. Drop /\ connectionGeneration < MaxGeneration /\ ~interactive'
        /\ connectionGeneration' = connectionGeneration + 1 /\ asking' = asking
    BY <1>2 DEF SessionShutdown
  <2>2. QED BY <2>1, DropCloses
<1>3. CASE BootstrapRetry
  BY <1>3 DEF BootstrapRetry
<1>4. ASSUME NEW g \in Generation, NEW issued \in BOOLEAN, Credentials(g, issued) PROVE Linked'
  <2>1. CASE g # connectionGeneration BY <1>4, <2>1 DEF Credentials
  <2>2. CASE g = connectionGeneration
    <3>1. /\ g \in asking /\ asking' = asking \ {g} /\ interactive' = interactive
          /\ connectionGeneration' = connectionGeneration
      BY <1>4, Zenon DEF Credentials
    <3>2. \/ /\ client' = g /\ conn' = [conn EXCEPT ![g] = "connecting"]
             /\ bootstrapTimer' = bootstrapTimer
          \/ /\ client' = client /\ conn' = conn /\ bootstrapTimer'
      BY <1>4, <2>2, Zenon DEF Credentials
    <3>3. QED BY <2>2, <3>1, <3>2
  <2>3. QED BY <2>1, <2>2
<1>5. ASSUME NEW g \in Generation, Accepted(g) PROVE Linked'
  BY <1>5 DEF Accepted
<1>6. ASSUME NEW g \in Generation, Disconnect(g) PROVE Linked'
  <2>1. CASE conn[g] = "ended" BY <1>6, <2>1 DEF Disconnect
  <2>2. CASE conn[g] # "ended" BY <1>6, <2>2 DEF Disconnect
  <2>3. QED BY <2>1, <2>2
<1>7. CASE UNCHANGED linkVars
  BY <1>7 DEF linkVars
<1>8. UNCHANGED vars => UNCHANGED linkVars BY DEF vars
<1>9. QED BY <1>1, <1>2, <1>3, <1>4, <1>5, <1>6, <1>7, <1>8, LinkSteps DEF LinkChange

LEMMA AlwaysLinked == Spec => [](Flagged /\ Linked)
<1>1. Init => Flagged BY DEF Init, Flagged
<1>2. QED BY <1>1, FlaggedStep, LinkedInit, LinkedStep, PTL DEF Spec

\* An interactive session is after the relay in exactly one way, and nothing of
\* an earlier session connects, even in an instance that serves several
\* sessions (index.ts connectionGeneration, scheduleBootstrap).
THEOREM PursuitIsOne == Spec => []OnePursuit
  BY LinkedIsOnePursuit, AlwaysLinked, PTL

-----------------------------------------------------------------------------
(* The command in flight                                                   *)

Does == {"new", "message", "snapshot", "compact", "compacted", "done"}

\* The flag commandInFlight stands for the reload that was requested or for the
\* one command that runs.  A command is of a session that has started, and the
\* session of an instance that serves no other takes its commands along.
Commanded ==
    /\ op \in [Op -> [does : Does, session : Generation \cup {0}]]
    /\ \A o \in Op : op[o].does \notin {"new", "done"} => op[o].session <= connectionGeneration
    /\ commandInFlight <=> requested \/ \E o \in Op : Runs(o)
    /\ \A o, p \in Op : Runs(o) /\ Runs(p) => o = p
    /\ requested => \A o \in Op : ~Runs(o)
    /\ "reused" \notin Faults /\ ~interactive => ~commandInFlight

\* The steps that change a command.
CommandChange ==
    \/ SessionStart \/ SessionShutdown \/ CompactionEnd
    \/ \E g \in Generation, o \in Op : Refuse(o, g) \/ AcceptReload(o, g)
    \/ \E g \in Generation, o \in Op, does \in {"message", "snapshot", "compact"} : Begin(o, g, does)
    \/ \E o \in Op : Finish(o)

Session == <<connectionGeneration, interactive>>

LEMMA CommandSteps == Next => CommandChange \/ UNCHANGED <<Session, commandVars>>
<1> SUFFICES ASSUME Next, ~CommandChange PROVE UNCHANGED <<Session, commandVars>>
  OBVIOUS
<1> USE DEF Session, linkVars
<1>1. CASE BootstrapRetry BY <1>1, Zenon DEF BootstrapRetry
<1>2. ASSUME NEW g \in Generation,
             \/ \E issued \in BOOLEAN : Credentials(g, issued)
             \/ Accepted(g) \/ Disconnect(g)
      PROVE  UNCHANGED <<Session, commandVars>>
  <2>1. ASSUME NEW issued \in BOOLEAN, Credentials(g, issued) PROVE UNCHANGED <<Session, commandVars>>
    BY <2>1, Zenon DEF Credentials
  <2>2. CASE Accepted(g) BY <2>2, Zenon DEF Accepted
  <2>3. CASE Disconnect(g) BY <2>3, Zenon DEF Disconnect
  <2>4. QED BY <1>2, <2>1, <2>2, <2>3
<1>3. CASE \/ AgentStart \/ AgentSettled \/ MessageStart \/ MessageUpdate \/ MessageEnd
           \/ CompactionStart
  <2>1. CASE AgentStart BY <2>1 DEF AgentStart
  <2>2. CASE AgentSettled BY <2>2 DEF AgentSettled
  <2>3. CASE MessageStart BY <2>3 DEF MessageStart
  <2>4. CASE MessageUpdate BY <2>4 DEF MessageUpdate
  <2>5. CASE MessageEnd BY <2>5 DEF MessageEnd
  <2>6. CASE CompactionStart BY <2>6 DEF CompactionStart
  <2>7. QED BY <1>3, <2>1, <2>2, <2>3, <2>4, <2>5, <2>6
<1>4. ASSUME NEW w \in Write,
             \/ ToolStart(w) \/ TransferEnd(w) \/ ToolFails(w) \/ ToolSucceeds(w)
             \/ WriteCompletion(w)
      PROVE  UNCHANGED <<Session, commandVars>>
  <2>1. CASE ToolStart(w) BY <2>1, Zenon DEF ToolStart
  <2>2. CASE TransferEnd(w) BY <2>2, Zenon DEF TransferEnd
  <2>3. CASE ToolFails(w) BY <2>3, Zenon DEF ToolFails
  <2>4. CASE ToolSucceeds(w) BY <2>4, Zenon DEF ToolSucceeds
  <2>5. CASE WriteCompletion(w) BY <2>5, Zenon DEF WriteCompletion
  <2>6. QED BY <1>4, <2>1, <2>2, <2>3, <2>4, <2>5
<1>5. QED BY <1>1, <1>2, <1>3, <1>4 DEF Next, CommandChange

\* The relay's commands come over the client's connection, or over one that an
\* instance serving several sessions has half closed.
LEMMA ReceivedInSession ==
    ASSUME Linked, NEW o \in Op, NEW g \in Generation, CanReceive(o, g)
    PROVE  /\ g <= connectionGeneration
           /\ "reused" \notin Faults => g = connectionGeneration /\ interactive
  BY DEF Linked, LinkTyped, CanReceive, Generation, NoClient

LEMMA CommandedInit == Init => Commanded
<1> SUFFICES ASSUME Init PROVE Commanded OBVIOUS
<1>1. /\ op = [o \in Op |-> [does |-> "new", session |-> 0]]
      /\ commandInFlight = FALSE /\ requested = FALSE
  BY DEF Init
<1>2. \A o \in Op : op[o].does = "new" BY <1>1
<1>3. \A o \in Op : ~Runs(o) BY <1>2 DEF Runs
<1>4. QED BY <1>1, <1>2, <1>3 DEF Commanded, Does

LEMMA CommandedStep == Linked /\ Commanded /\ [Next]_vars => Commanded'
<1> SUFFICES ASSUME Linked, Commanded, [Next]_vars PROVE Commanded' OBVIOUS
<1>1. connectionGeneration \in 0..MaxGeneration /\ MaxGeneration \in Nat
  BY MaxGenerationIsNat DEF Linked, LinkTyped
<1> USE DEF Commanded, Runs, Does, Generation
<1>2. CASE SessionStart
  <2>1. connectionGeneration' = connectionGeneration + 1 /\ UNCHANGED <<op, commandInFlight, requested>>
        /\ (~interactive \/ "reused" \in Faults)
    BY <1>2 DEF SessionStart, commandVars
  <2>2. QED BY <1>1, <2>1
<1>3. CASE SessionShutdown
  <2>1. connectionGeneration' = connectionGeneration + 1 /\ op' = op /\ ~requested'
        /\ commandInFlight' = (commandInFlight /\ ~requested /\ "reused" \in Faults)
    BY <1>3 DEF SessionShutdown
  <2>2. \A o \in Op : op'[o] = op[o] BY <2>1
  <2>3. CASE "reused" \in Faults
    <3>1. \A o \in Op : Runs(o)' <=> Runs(o) BY <2>1, <2>3
    <3>2. commandInFlight' <=> requested' \/ \E o \in Op : Runs(o)'
      BY <2>1, <2>3, <3>1
    <3>3. QED BY <1>1, <2>1, <2>3, <3>1, <3>2
  <2>4. CASE "reused" \notin Faults
    <3>1. \A o \in Op : ~Runs(o)' BY <1>1, <2>1, <2>4
    <3>2. ~commandInFlight' BY <2>1, <2>4
    <3>3. QED BY <1>1, <2>1, <3>1, <3>2
  <2>5. QED BY <2>3, <2>4
<1>4. CASE CompactionEnd
  <2>1. op' = [o \in Op |-> [op[o] EXCEPT !.does = IF @ = "compact" THEN "compacted" ELSE @]]
        /\ UNCHANGED <<connectionGeneration, interactive, commandInFlight, requested>>
    BY <1>4, Zenon DEF CompactionEnd, linkVars
  <2>2. \A o \in Op :
            /\ op'[o] \in [does : Does, session : Generation \cup {0}]
            /\ op'[o].session = op[o].session
            /\ op'[o].does \in {"new", "done"} <=> op[o].does \in {"new", "done"}
    BY <2>1
  <2>3. op' \in [Op -> [does : Does, session : Generation \cup {0}]] BY <2>1, <2>2
  <2>4. \A o \in Op : Runs(o)' <=> Runs(o) BY <2>1, <2>2
  <2>5. \A o \in Op : op'[o].does \notin {"new", "done"} => op'[o].session <= connectionGeneration'
    <3>1. connectionGeneration' = connectionGeneration BY <2>1
    <3>2. QED BY <2>2, <3>1
  <2> HIDE DEF Runs
  <2>6. commandInFlight' <=> requested' \/ \E o \in Op : Runs(o)' BY <2>1, <2>4
  <2>7. QED BY <2>1, <2>3, <2>4, <2>5, <2>6
<1>5. ASSUME NEW g \in Generation, NEW o \in Op, Refuse(o, g) PROVE Commanded'
  BY <1>5 DEF Refuse, Answered, CanReceive, linkVars
<1>6. ASSUME NEW g \in Generation, NEW o \in Op, AcceptReload(o, g) PROVE Commanded'
  <2>1. CanReceive(o, g) /\ ~commandInFlight /\ commandInFlight' /\ requested' /\ Answered(o)
        /\ UNCHANGED <<connectionGeneration, interactive>>
    BY <1>6 DEF AcceptReload, linkVars
  <2>2. QED BY <2>1, ReceivedInSession DEF Answered
<1>7. ASSUME NEW g \in Generation, NEW o \in Op, NEW does \in {"message", "snapshot", "compact"},
             Begin(o, g, does)
      PROVE  Commanded'
  <2>1. CanReceive(o, g) /\ ~commandInFlight /\ commandInFlight'
        /\ op' = [op EXCEPT ![o] = [does |-> does, session |-> g]]
        /\ UNCHANGED <<connectionGeneration, interactive, requested>>
    BY <1>7 DEF Begin, linkVars
  <2>2. QED BY <2>1, ReceivedInSession
<1>8. ASSUME NEW o \in Op, Finish(o) PROVE Commanded'
  <2>1. op[o].does \in {"message", "snapshot", "compact", "compacted"} /\ Answered(o)
        /\ UNCHANGED <<connectionGeneration, interactive, requested>>
        /\ IF op[o].session = connectionGeneration \/ "reused" \in Faults
           THEN commandInFlight' = FALSE ELSE commandInFlight' = commandInFlight
    BY <1>8, Zenon DEF Finish, linkVars
  <2>2. QED BY <2>1 DEF Answered
<1>9. CASE UNCHANGED <<Session, commandVars>>
  BY <1>9 DEF Session, commandVars
<1>10. UNCHANGED vars => UNCHANGED <<Session, commandVars>> BY DEF vars, Session, linkVars
<1>11. QED
  BY <1>2, <1>3, <1>4, <1>5, <1>6, <1>7, <1>8, <1>9, <1>10, CommandSteps DEF CommandChange

-----------------------------------------------------------------------------
(* The writes                                                              *)

Tools == {"new", "running", "ok", "settled"}
Transfers == {"none", "sending", "stored", "failed"}
Words == {"complete", "discard"}
WriteRecord == [tool : Tools, transfer : Transfers, state : WriteState,
                session : Generation \cup {0}]

\* WritesAgree, with why the relay is told once: it is told as the tool is
\* settled, and a tool settles once.
Written ==
    /\ write \in [Write -> WriteRecord]
    /\ heard \in [Write -> SUBSET Words]
    /\ \A w \in Write :
        /\ write[w].tool # "settled" => heard[w] = {} /\ write[w].state \in {"none", "pending"}
        /\ write[w].state = "available" => write[w].transfer = "stored" /\ "discard" \notin heard[w]
        /\ write[w].state = "unavailable" => "complete" \notin heard[w]
        /\ heard[w] # {"complete", "discard"}

LEMMA WrittenIsWritesAgree == Written => WritesAgree
  BY DEF Written, WritesAgree, Words

\* The steps that change a write.
WriteChange ==
    \/ SessionStart \/ SessionShutdown
    \/ \E w \in Write : ToolStart(w)
    \/ \E w \in Write : TransferEnd(w)
    \/ \E w \in Write : ToolFails(w)
    \/ \E w \in Write : ToolSucceeds(w)
    \/ \E w \in Write : WriteCompletion(w)

LEMMA WriteSteps == Next => WriteChange \/ UNCHANGED writeVars
<1> SUFFICES ASSUME Next, ~WriteChange PROVE UNCHANGED writeVars
  OBVIOUS
<1>1. CASE BootstrapRetry BY <1>1, Zenon DEF BootstrapRetry
<1>2. ASSUME NEW g \in Generation,
             \/ \E issued \in BOOLEAN : Credentials(g, issued)
             \/ Accepted(g) \/ Disconnect(g)
      PROVE  UNCHANGED writeVars
  BY <1>2, Zenon DEF Credentials, Accepted, Disconnect
<1>3. ASSUME NEW g \in Generation, NEW o \in Op,
             \/ Refuse(o, g) \/ AcceptReload(o, g)
             \/ \E does \in {"message", "snapshot", "compact"} : Begin(o, g, does)
      PROVE  UNCHANGED writeVars
  BY <1>3, Zenon DEF Refuse, AcceptReload, Begin
<1>4. ASSUME NEW o \in Op, Finish(o) PROVE UNCHANGED writeVars
  BY <1>4, Zenon DEF Finish
<1>5. CASE \/ AgentStart \/ AgentSettled \/ MessageStart \/ MessageUpdate \/ MessageEnd
           \/ CompactionStart \/ CompactionEnd
  <2>1. CASE AgentStart BY <2>1 DEF AgentStart
  <2>2. CASE AgentSettled BY <2>2 DEF AgentSettled
  <2>3. CASE MessageStart BY <2>3 DEF MessageStart
  <2>4. CASE MessageUpdate BY <2>4 DEF MessageUpdate
  <2>5. CASE MessageEnd BY <2>5 DEF MessageEnd
  <2>6. CASE CompactionStart BY <2>6 DEF CompactionStart
  <2>7. CASE CompactionEnd BY <2>7, Zenon DEF CompactionEnd
  <2>8. QED BY <1>5, <2>1, <2>2, <2>3, <2>4, <2>5, <2>6, <2>7
<1>6. QED BY <1>1, <1>2, <1>3, <1>4, <1>5 DEF Next, WriteChange

\* A step that leaves the other writes as they are keeps Written if it leaves
\* this one right.
LEMMA WrittenOne ==
    ASSUME Written, NEW w \in Write, NEW record \in WriteRecord, NEW words \in SUBSET Words,
           write' = [write EXCEPT ![w] = record], heard' = [heard EXCEPT ![w] = words],
           record.tool # "settled" => words = {} /\ record.state \in {"none", "pending"},
           record.state = "available" => record.transfer = "stored" /\ "discard" \notin words,
           record.state = "unavailable" => "complete" \notin words,
           words # {"complete", "discard"}
    PROVE  Written'
<1>1. write' \in [Write -> WriteRecord] /\ heard' \in [Write -> SUBSET Words] BY DEF Written
<1>2. \A v \in Write : IF v = w THEN write'[v] = record /\ heard'[v] = words
                       ELSE write'[v] = write[v] /\ heard'[v] = heard[v]
  BY DEF Written
<1>3. QED BY <1>1, <1>2 DEF Written

LEMMA WrittenDrop ==
    ASSUME Written, Drop, heard' = heard
    PROVE  Written'
<1>1. write' = [w \in Write |-> [write[w] EXCEPT !.state = "none",
                    !.transfer = IF @ = "sending" THEN "failed" ELSE @]]
  BY DEF Drop
<1>2. ASSUME NEW w \in Write
      PROVE  /\ write'[w] \in WriteRecord
             /\ write'[w].state = "none" /\ write'[w].tool = write[w].tool
  <2>1. write[w] \in WriteRecord BY DEF Written
  <2>2. write'[w] = [write[w] EXCEPT !.state = "none",
                        !.transfer = IF @ = "sending" THEN "failed" ELSE @]
    BY <1>1
  <2>3. QED BY <2>1, <2>2 DEF WriteRecord, Tools, Transfers, WriteState
<1>3. write' \in [Write -> WriteRecord] BY <1>1, <1>2
<1>4. QED BY <1>2, <1>3 DEF Written

LEMMA WrittenInit == Init => Written
<1> SUFFICES ASSUME Init PROVE Written OBVIOUS
<1>1. /\ write = [w \in Write |-> [tool |-> "new", transfer |-> "none",
                                   state |-> "none", session |-> 0]]
      /\ heard = [w \in Write |-> {}]
  BY DEF Init
<1>2. QED BY <1>1 DEF Written, WriteRecord, Tools, Transfers, WriteState, Words

LEMMA WrittenStep == LinkTyped /\ Written /\ [Next]_vars => Written'
<1> SUFFICES ASSUME LinkTyped, Written, [Next]_vars PROVE Written' OBVIOUS
<1> USE DEF WriteRecord, Tools, Transfers, WriteState, Words
<1>1. CASE SessionStart BY <1>1, WrittenDrop DEF SessionStart
<1>2. CASE SessionShutdown BY <1>2, WrittenDrop DEF SessionShutdown
<1>3. ASSUME NEW w \in Write, ToolStart(w) PROVE Written'
  <2> DEFINE record == [tool |-> "running", state |-> "pending",
                        transfer |-> IF Ready THEN "sending" ELSE "failed",
                        session |-> connectionGeneration]
  <2>1. write[w].tool = "new" /\ write' = [write EXCEPT ![w] = record] /\ heard' = heard
    BY <1>3 DEF ToolStart
  <2>2. record \in WriteRecord BY MaxGenerationIsNat DEF LinkTyped, Generation
  <2>3. heard' = [heard EXCEPT ![w] = {}] BY <2>1 DEF Written
  <2>4. QED BY <2>1, <2>2, <2>3, WrittenOne
<1>4. ASSUME NEW w \in Write, TransferEnd(w) PROVE Written'
  <2>1. PICK outcome \in {"stored", "failed"} : write' = [write EXCEPT ![w].transfer = outcome]
    BY <1>4 DEF TransferEnd
  <2>2. write[w].transfer = "sending" /\ heard' = heard BY <1>4 DEF TransferEnd
  <2>3. QED BY <2>1, <2>2 DEF Written
<1>5. ASSUME NEW w \in Write, ToolFails(w) PROVE Written'
  <2>1. write[w].tool = "running" BY <1>5 DEF ToolFails
  <2>2. CASE write[w].state = "none"
    <3>1. write' = [write EXCEPT ![w].tool = "settled"] /\ heard' = heard
      BY <1>5, <2>2 DEF ToolFails
    <3>2. QED BY <2>1, <2>2, <3>1 DEF Written
  <2>3. CASE write[w].state # "none"
    <3> DEFINE record == [write[w] EXCEPT !.tool = "settled", !.state = "unavailable",
                              !.transfer = IF @ = "sending" THEN "failed" ELSE @]
               words == IF Ready THEN {"discard"} ELSE {}
    <3>1. write' = [write EXCEPT ![w] = record]
          /\ heard' = [heard EXCEPT ![w] = IF Ready THEN @ \cup {"discard"} ELSE @]
      BY <1>5, <2>3, Zenon DEF ToolFails, Tell
    <3>2. heard' = [heard EXCEPT ![w] = words] BY <2>1, <3>1 DEF Written
    <3>3. record \in WriteRecord /\ record.state = "unavailable" /\ record.tool = "settled"
      <4>1. write[w] \in WriteRecord BY DEF Written
      <4>2. QED BY <4>1
    <3>4. words \in SUBSET Words /\ "complete" \notin words /\ words # {"complete", "discard"}
      OBVIOUS
    <3> HIDE DEF words, record
    <3>5. QED BY <3>1, <3>2, <3>3, <3>4, WrittenOne
  <2>4. QED BY <2>2, <2>3
<1>6. ASSUME NEW w \in Write, ToolSucceeds(w) PROVE Written'
  BY <1>6 DEF ToolSucceeds, Written
<1>7. ASSUME NEW w \in Write, WriteCompletion(w) PROVE Written'
  <2>1. write[w].tool = "ok" BY <1>7 DEF WriteCompletion
  <2>2. CASE write[w].session # connectionGeneration \/ write[w].state = "none"
    <3>1. write' = [write EXCEPT ![w].tool = "settled"] /\ heard' = heard
      BY <1>7, <2>2, Zenon DEF WriteCompletion
    <3>2. QED BY <2>1, <3>1 DEF Written
  <2>3. CASE ~(write[w].session # connectionGeneration \/ write[w].state = "none")
    <3> DEFINE stored == write[w].transfer = "stored"
               record == [write[w] EXCEPT !.tool = "settled",
                              !.state = IF stored THEN "available" ELSE "unavailable"]
               words == IF Ready THEN {IF stored THEN "complete" ELSE "discard"} ELSE {}
    <3>1. write' = [write EXCEPT ![w] = record]
          /\ heard' = [heard EXCEPT ![w] = IF Ready
                         THEN @ \cup {IF stored THEN "complete" ELSE "discard"} ELSE @]
      BY <1>7, <2>3, Zenon DEF WriteCompletion, Tell
    <3>2. heard' = [heard EXCEPT ![w] = words] BY <2>1, <3>1 DEF Written
    <3>3. /\ record \in WriteRecord /\ record.tool = "settled"
          /\ record.state = IF stored THEN "available" ELSE "unavailable"
          /\ record.transfer = write[w].transfer
      <4>1. write[w] \in WriteRecord BY DEF Written
      <4>2. QED BY <4>1
    <3>4. /\ words \in SUBSET Words /\ words # {"complete", "discard"}
          /\ stored => "discard" \notin words
          /\ ~stored => "complete" \notin words
      OBVIOUS
    <3> HIDE DEF words, record
    <3>5. QED BY <3>1, <3>2, <3>3, <3>4, WrittenOne
  <2>4. QED BY <2>2, <2>3
<1>8. CASE UNCHANGED writeVars BY <1>8 DEF writeVars, Written
<1>9. UNCHANGED vars => UNCHANGED writeVars BY DEF vars
<1>10. QED
  BY <1>1, <1>2, <1>3, <1>4, <1>5, <1>6, <1>7, <1>8, <1>9, WriteSteps DEF WriteChange

LEMMA LinkedIsTyped == Linked => LinkTyped
  BY DEF Linked

\* A write is said to be available only if its contents are at the relay, and
\* the relay is told to complete a write or to discard it, never both, whatever
\* sessions begin and end (scheduleWriteCompletion, tool_execution_end).
THEOREM WritesAlwaysAgree == Spec => []WritesAgree
<1>1. Spec => []Written
  BY WrittenInit, WrittenStep, AlwaysLinked, LinkedIsTyped, PTL DEF Spec
<1>2. QED BY <1>1, WrittenIsWritesAgree, PTL

-----------------------------------------------------------------------------
(* The types                                                               *)

AgentTyped ==
    /\ commandInFlight \in BOOLEAN /\ requested \in BOOLEAN
    /\ compactionInFlight \in BOOLEAN /\ compacts \in BOOLEAN
    /\ idle \in BOOLEAN /\ streaming \in BOOLEAN

LEMMA AgentTypedStep == AgentTyped /\ [Next]_vars => AgentTyped'
<1> SUFFICES ASSUME AgentTyped, [Next]_vars PROVE AgentTyped' OBVIOUS
<1> USE DEF AgentTyped, commandVars, agentVars
<1>1. CASE SessionStart BY <1>1, Zenon DEF SessionStart
<1>2. CASE SessionShutdown BY <1>2, Zenon DEF SessionShutdown
<1>3. CASE BootstrapRetry BY <1>3, Zenon DEF BootstrapRetry
<1>4. ASSUME NEW g \in Generation,
             \/ \E issued \in BOOLEAN : Credentials(g, issued)
             \/ Accepted(g) \/ Disconnect(g)
      PROVE  AgentTyped'
  BY <1>4, Zenon DEF Credentials, Accepted, Disconnect
<1>5. ASSUME NEW g \in Generation, NEW o \in Op,
             \/ Refuse(o, g) \/ AcceptReload(o, g)
             \/ \E does \in {"message", "snapshot", "compact"} : Begin(o, g, does)
      PROVE  AgentTyped'
  BY <1>5, Zenon DEF Refuse, AcceptReload, Begin
<1>6. ASSUME NEW o \in Op, Finish(o) PROVE AgentTyped' BY <1>6, Zenon DEF Finish
<1>7. CASE AgentStart BY <1>7, Zenon DEF AgentStart
<1>8. CASE AgentSettled BY <1>8, Zenon DEF AgentSettled
<1>9. CASE MessageStart BY <1>9, Zenon DEF MessageStart
<1>10. CASE MessageUpdate BY <1>10, Zenon DEF MessageUpdate
<1>11. CASE MessageEnd BY <1>11, Zenon DEF MessageEnd
<1>12. CASE CompactionStart BY <1>12, Zenon DEF CompactionStart
<1>13. CASE CompactionEnd BY <1>13, Zenon DEF CompactionEnd
<1>14. ASSUME NEW w \in Write,
              \/ ToolStart(w) \/ TransferEnd(w) \/ ToolFails(w) \/ ToolSucceeds(w)
              \/ WriteCompletion(w)
       PROVE  AgentTyped'
  BY <1>14, Zenon DEF ToolStart, TransferEnd, ToolFails, ToolSucceeds, WriteCompletion
<1>15. CASE UNCHANGED vars BY <1>15 DEF vars
<1>16. QED
  BY <1>1, <1>2, <1>3, <1>4, <1>5, <1>6, <1>7, <1>8, <1>9, <1>10, <1>11, <1>12, <1>13,
     <1>14, <1>15
  DEF Next

LEMMA BlankType == Blank \in View
  BY DEF Blank, View, WriteState

\* What is published has the type of a view.
LEMMA SnapshotType ==
    ASSUME view \in View, Written', AgentTyped',
           NEW own \in Generation \cup {0}, PublishSnapshot(own)
    PROVE  view' \in View
<1>1. States' \in [Write -> WriteState]
  BY DEF Written, WriteRecord, States
<1>2. compactionInFlight' \in BOOLEAN BY DEF AgentTyped
<1>3. [session |-> own, busy |-> ~idle', compacting |-> compactionInFlight',
       fresh |-> ~streaming', write |-> States'] \in View
  BY <1>1, <1>2 DEF View
<1>4. QED BY <1>3, Zenon DEF PublishSnapshot

LEMMA RuntimeType ==
    ASSUME view \in View, AgentTyped',
           NEW own \in Generation \cup {0}, PublishRuntime(own)
    PROVE  view' \in View
<1>1. compactionInFlight' \in BOOLEAN BY DEF AgentTyped
<1>2. [view EXCEPT !.session = own, !.busy = ~idle', !.compacting = compactionInFlight']
          \in View
  BY <1>1 DEF View
<1>3. QED BY <1>2, Zenon DEF PublishRuntime

LEMMA ToolType ==
    ASSUME view \in View, Written', NEW w \in Write, PublishTool(w)
    PROVE  view' \in View
<1>1. write'[w].state \in WriteState BY DEF Written, WriteRecord
<1>2. [view EXCEPT !.write[w] = write'[w].state] \in View BY <1>1 DEF View
<1>3. QED BY <1>2, Zenon DEF PublishTool

ViewTyped == view \in View

LEMMA ViewTypedStep ==
    ASSUME LinkTyped, Commanded, Written, Written', AgentTyped', ViewTyped, [Next]_vars
    PROVE  ViewTyped'
<1> USE DEF ViewTyped
<1>1. connectionGeneration \in Generation \cup {0}
  BY MaxGenerationIsNat DEF LinkTyped, Generation
<1>2. CASE SessionStart BY <1>2, BlankType, Zenon DEF SessionStart, Drop
<1>3. CASE SessionShutdown BY <1>3, BlankType, Zenon DEF SessionShutdown, Drop
<1>4. CASE BootstrapRetry BY <1>4, Zenon DEF BootstrapRetry
<1>5. ASSUME NEW g \in Generation, \E issued \in BOOLEAN : Credentials(g, issued)
      PROVE  ViewTyped'
  BY <1>5, Zenon DEF Credentials
<1>6. ASSUME NEW g \in Generation, Accepted(g) PROVE ViewTyped'
  BY <1>6, SnapshotType, Zenon DEF Accepted
<1>7. ASSUME NEW g \in Generation, Disconnect(g) PROVE ViewTyped'
  BY <1>7, BlankType, Zenon DEF Disconnect
<1>8. ASSUME NEW g \in Generation, NEW o \in Op, Refuse(o, g) \/ AcceptReload(o, g)
      PROVE  ViewTyped'
  BY <1>8, Zenon DEF Refuse, AcceptReload
<1>9. ASSUME NEW g \in Generation, NEW o \in Op,
             NEW does \in {"message", "snapshot", "compact"}, Begin(o, g, does)
      PROVE  ViewTyped'
  BY <1>9, SnapshotType, Zenon DEF Begin
<1>10. ASSUME NEW o \in Op, Finish(o) PROVE ViewTyped'
  <2>1. op[o].session \in Generation \cup {0} BY DEF Commanded
  <2>2. PublishRuntime(op[o].session) \/ view' = view BY <1>10, Zenon DEF Finish
  <2>3. QED BY <2>1, <2>2, RuntimeType
<1>11. CASE AgentStart BY <1>11, <1>1, RuntimeType DEF AgentStart
<1>12. CASE AgentSettled BY <1>12, <1>1, SnapshotType DEF AgentSettled
<1>13. CASE MessageStart BY <1>13, <1>1, RuntimeType DEF MessageStart
<1>14. CASE MessageUpdate BY <1>14 DEF MessageUpdate, View
<1>15. CASE MessageEnd BY <1>15, <1>1, SnapshotType DEF MessageEnd
<1>16. CASE CompactionStart BY <1>16, <1>1, RuntimeType DEF CompactionStart
<1>17. CASE CompactionEnd BY <1>17, <1>1, SnapshotType, Zenon DEF CompactionEnd
<1>18. ASSUME NEW w \in Write,
              \/ ToolStart(w) \/ TransferEnd(w) \/ ToolFails(w) \/ ToolSucceeds(w)
              \/ WriteCompletion(w)
       PROVE  ViewTyped'
  <2>1. PublishTool(w) \/ view' = view
    BY <1>18, Zenon DEF ToolStart, TransferEnd, ToolFails, ToolSucceeds, WriteCompletion
  <2>2. QED BY <2>1, ToolType
<1>19. CASE UNCHANGED vars BY <1>19 DEF vars
<1>20. QED
  BY <1>2, <1>3, <1>4, <1>5, <1>6, <1>7, <1>8, <1>9, <1>10, <1>11, <1>12, <1>13, <1>14,
     <1>15, <1>16, <1>17, <1>18, <1>19
  DEF Next

RelayInv ==
    /\ Flagged /\ Linked /\ Commanded /\ Written
    /\ AgentTyped /\ ViewTyped

LEMMA RelayInvariant == Spec => []RelayInv
<1>1. Init => RelayInv
  <2>1. Init => Flagged BY DEF Init, Flagged
  <2>2. Init => AgentTyped BY DEF Init, AgentTyped
  <2>3. Init => ViewTyped BY BlankType DEF Init, ViewTyped
  <2>4. QED BY <2>1, <2>2, <2>3, LinkedInit, CommandedInit, WrittenInit DEF RelayInv
<1>2. RelayInv /\ [Next]_vars => RelayInv'
  <2> SUFFICES ASSUME RelayInv, [Next]_vars PROVE RelayInv' OBVIOUS
  <2>1. Flagged /\ Linked /\ Commanded /\ Written /\ AgentTyped /\ ViewTyped /\ LinkTyped
    BY LinkedIsTyped DEF RelayInv
  <2>2. Flagged' /\ Linked' /\ Commanded' /\ Written' /\ AgentTyped'
    BY <2>1, FlaggedStep, LinkedStep, CommandedStep, WrittenStep, AgentTypedStep
  <2>3. ViewTyped' BY <2>1, <2>2, ViewTypedStep
  <2>4. QED BY <2>2, <2>3 DEF RelayInv
<1>3. QED BY <1>1, <1>2, PTL DEF Spec

\* The variables have their types, and commandInFlight is set exactly while a
\* reload is awaited or one command runs (index.ts commandInFlight,
\* ReloadRuntime), whatever the faults.
THEOREM RelayTypeCorrect == Spec => []TypeOK
<1>1. RelayInv => TypeOK
  <2> SUFFICES ASSUME RelayInv PROVE TypeOK OBVIOUS
  <2>1. asking \subseteq Generation
    BY MaxGenerationIsNat DEF RelayInv, Linked, LinkTyped, Generation
  <2>2. op \in [Op -> [does : {"new", "message", "snapshot", "compact", "compacted", "done"},
                       session : Generation \cup {0}]]
    BY DEF RelayInv, Commanded, Does
  <2>3. /\ write \in [Write -> [tool : {"new", "running", "ok", "settled"},
                                transfer : {"none", "sending", "stored", "failed"},
                                state : WriteState, session : Generation \cup {0}]]
        /\ heard \in [Write -> SUBSET {"complete", "discard"}]
    BY DEF RelayInv, Written, WriteRecord, Tools, Transfers, Words
  <2>4. /\ commandInFlight <=> requested \/ \E o \in Op : Runs(o)
        /\ \A o, p \in Op : Runs(o) /\ Runs(p) => o = p
    BY DEF RelayInv, Commanded
  <2>5. /\ connectionGeneration \in 0..MaxGeneration
        /\ interactive \in BOOLEAN /\ bootstrapTimer \in BOOLEAN
        /\ client \in Generation \cup {NoClient}
        /\ conn \in [Generation -> {"none", "connecting", "ready", "ended"}]
        /\ commandInFlight \in BOOLEAN /\ requested \in BOOLEAN
        /\ compactionInFlight \in BOOLEAN /\ compacts \in BOOLEAN
        /\ idle \in BOOLEAN /\ streaming \in BOOLEAN
        /\ view \in View
    BY DEF RelayInv, Flagged, Linked, LinkTyped, AgentTyped, ViewTyped
  <2>6. QED BY <2>1, <2>2, <2>3, <2>4, <2>5, Zenon DEF TypeOK
<1>2. QED BY <1>1, RelayInvariant, PTL

-----------------------------------------------------------------------------
(* What the browser is shown                                               *)

Compacted(o) == op[o].session = connectionGeneration /\ op[o].does \in {"compact", "compacted"}

\* While a session runs, compactionInFlight is set by a compaction, and kept
\* after it only until a command or the agent's run notices its end.
AtWork ==
    interactive =>
        /\ compacts => compactionInFlight
        /\ compacts => \A o \in Op : op[o].does # "compacted"
        /\ compactionInFlight => compacts \/ ~idle \/ \E o \in Op : Compacted(o)

LEMMA AtWorkInit == Init => AtWork
  BY DEF Init, AtWork

workVars == <<connectionGeneration, interactive, op, compactionInFlight, compacts, idle>>

\* The steps that change what pi is at.
WorkChange ==
    \/ SessionStart \/ SessionShutdown
    \/ \E g \in Generation, o \in Op : Refuse(o, g) \/ AcceptReload(o, g)
    \/ \E g \in Generation, o \in Op, does \in {"message", "snapshot", "compact"} : Begin(o, g, does)
    \/ \E o \in Op : Finish(o)
    \/ AgentStart \/ AgentSettled \/ CompactionStart \/ CompactionEnd

LEMMA WorkSteps == Next => WorkChange \/ UNCHANGED workVars
<1> SUFFICES ASSUME Next, ~WorkChange PROVE UNCHANGED workVars
  OBVIOUS
<1> USE DEF workVars, linkVars, commandVars, agentVars
<1>1. CASE BootstrapRetry BY <1>1, Zenon DEF BootstrapRetry
<1>2. ASSUME NEW g \in Generation, NEW issued \in BOOLEAN, Credentials(g, issued)
      PROVE  UNCHANGED workVars
  BY <1>2, Zenon DEF Credentials
<1>3. ASSUME NEW g \in Generation, Accepted(g) PROVE UNCHANGED workVars
  BY <1>3, Zenon DEF Accepted
<1>4. ASSUME NEW g \in Generation, Disconnect(g) PROVE UNCHANGED workVars
  BY <1>4, Zenon DEF Disconnect
<1>5. CASE MessageStart \/ MessageUpdate \/ MessageEnd
  BY <1>5, Zenon DEF MessageStart, MessageUpdate, MessageEnd
<1>6. ASSUME NEW w \in Write,
             \/ ToolStart(w) \/ TransferEnd(w) \/ ToolFails(w) \/ ToolSucceeds(w)
             \/ WriteCompletion(w)
      PROVE  UNCHANGED workVars
  BY <1>6, Zenon DEF ToolStart, TransferEnd, ToolFails, ToolSucceeds, WriteCompletion
<1>7. QED BY <1>1, <1>2, <1>3, <1>4, <1>5, <1>6 DEF Next, WorkChange

LEMMA AtWorkStep ==
    ASSUME "compact_fails" \notin Faults, Linked, Commanded, AgentTyped, AtWork, [Next]_vars
    PROVE  AtWork'
<1> USE DEF AtWork, Compacted
<1>1. CASE SessionStart BY <1>1 DEF SessionStart
<1>2. CASE SessionShutdown BY <1>2 DEF SessionShutdown
<1>3. ASSUME NEW g \in Generation, NEW o \in Op, Refuse(o, g) \/ AcceptReload(o, g)
      PROVE  AtWork'
  <2>1. /\ op[o].does = "new" /\ Answered(o)
        /\ UNCHANGED <<connectionGeneration, interactive, compactionInFlight, compacts, idle>>
    BY <1>3, Zenon DEF Refuse, AcceptReload, CanReceive, linkVars, agentVars
  <2>2. /\ \A p \in Op : p # o => op'[p] = op[p]
        /\ op'[o].does = "done"
    BY <2>1 DEF Answered, Commanded
  <2>3. QED BY <2>1, <2>2
<1>4. ASSUME NEW g \in Generation, NEW o \in Op,
             NEW does \in {"message", "snapshot", "compact"}, Begin(o, g, does)
      PROVE  AtWork'
  <2>1. /\ op[o].does = "new" /\ op' = [op EXCEPT ![o] = [does |-> does, session |-> g]]
        /\ UNCHANGED <<connectionGeneration, interactive, compactionInFlight, compacts, idle>>
    BY <1>4, Zenon DEF Begin, CanReceive, linkVars, agentVars
  <2>2. /\ \A p \in Op : p # o => op'[p] = op[p]
        /\ op'[o].does = does
    BY <2>1 DEF Commanded
  <2>3. QED BY <2>1, <2>2
<1>5. ASSUME NEW o \in Op, Finish(o) PROVE AtWork'
  <2>1. /\ op[o].does = "compact" => ~compacts
        /\ Answered(o)
        /\ UNCHANGED <<connectionGeneration, interactive, compacts, idle>>
    BY <1>5, Zenon DEF Finish, linkVars
  <2>2. /\ \A p \in Op : p # o => op'[p] = op[p]
        /\ op'[o].does = "done"
    BY <2>1 DEF Answered, Commanded
  <2>3. CASE op[o].session = connectionGeneration \/ "reused" \in Faults
    <3>1. compactionInFlight' = (compactionInFlight /\ op[o].does \notin {"compact", "compacted"})
      BY <1>5, <2>3, Zenon DEF Finish
    <3>2. CASE op[o].does \in {"compact", "compacted"}
      <4>1. ~compactionInFlight' BY <3>1, <3>2
      <4>2. interactive => ~compacts BY <2>1, <3>2
      <4>3. QED BY <2>1, <4>1, <4>2
    <3>3. CASE op[o].does \notin {"compact", "compacted"}
      <4>1. compactionInFlight' <=> compactionInFlight BY <3>1, <3>3
      <4>2. \A p \in Op : Compacted(p) => Compacted(p)' BY <2>1, <2>2, <3>3
      <4>3. \A p \in Op : op'[p].does = "compacted" => op[p].does = "compacted" BY <2>2
      <4> HIDE DEF Compacted
      <4>4. QED BY <2>1, <4>1, <4>2, <4>3
    <3>4. QED BY <3>2, <3>3
  <2>4. CASE ~(op[o].session = connectionGeneration \/ "reused" \in Faults)
    <3>1. compactionInFlight' = compactionInFlight
      BY <1>5, <2>4, Zenon DEF Finish
    <3>2. \A p \in Op : Compacted(p) => Compacted(p)' BY <2>1, <2>2, <2>4
    <3>3. \A p \in Op : op'[p].does = "compacted" => op[p].does = "compacted" BY <2>2
    <3> HIDE DEF Compacted
    <3>4. QED BY <2>1, <3>1, <3>2, <3>3
  <2>5. QED BY <2>3, <2>4
<1>6. CASE AgentStart BY <1>6 DEF AgentStart, linkVars, commandVars
<1>7. CASE AgentSettled BY <1>7 DEF AgentSettled, linkVars, commandVars
<1>8. CASE CompactionStart BY <1>8 DEF CompactionStart, linkVars, commandVars
<1>9. CASE CompactionEnd
  <2>1. /\ ~compacts'
        /\ op' = [o \in Op |-> [op[o] EXCEPT !.does = IF @ = "compact" THEN "compacted" ELSE @]]
        /\ UNCHANGED <<connectionGeneration, interactive, idle>>
    BY <1>9, Zenon DEF CompactionEnd, linkVars
  <2>2. \/ ~compactionInFlight'
        \/ ~idle
        \/ \E o \in Op : op[o] = [does |-> "compact", session |-> connectionGeneration]
    BY <1>9, Zenon DEF CompactionEnd
  <2>3. ASSUME NEW o \in Op, op[o] = [does |-> "compact", session |-> connectionGeneration]
        PROVE  Compacted(o)'
    <3>1. op'[o] = [op[o] EXCEPT !.does = IF @ = "compact" THEN "compacted" ELSE @] BY <2>1
    <3>2. op'[o].does = "compacted" /\ op'[o].session = connectionGeneration BY <2>3, <3>1
    <3>3. QED BY <2>1, <3>2
  <2> HIDE DEF Compacted
  <2>4. QED BY <2>1, <2>2, <2>3
<1>10. CASE UNCHANGED workVars
  BY <1>10 DEF workVars
<1>11. UNCHANGED vars => UNCHANGED workVars
  BY DEF vars, workVars, linkVars, commandVars, agentVars
<1>12. QED
  BY <1>1, <1>2, <1>3, <1>4, <1>5, <1>6, <1>7, <1>8, <1>9, <1>10, <1>11, WorkSteps
  DEF WorkChange


\* ViewIsCurrent, as far as it is about the view.
Current ==
    Ready =>
        /\ view.session = connectionGeneration
        /\ view.busy = ~idle
        /\ view.compacting = compactionInFlight
        /\ view.write = States
        /\ ~streaming => view.fresh

\* One lemma for each way of publishing, and for a step that publishes nothing.
LEMMA CurrentBySnapshot ==
    ASSUME Written', PublishSnapshot(connectionGeneration),
           connectionGeneration' = connectionGeneration
    PROVE  Current'
<1> DEFINE snapshot == [session |-> connectionGeneration, busy |-> ~idle',
                        compacting |-> compactionInFlight', fresh |-> ~streaming',
                        write |-> States']
<1> SUFFICES ASSUME Ready'
             PROVE  /\ view'.session = connectionGeneration
                    /\ view'.busy = ~idle'
                    /\ view'.compacting = compactionInFlight'
                    /\ view'.write = States'
                    /\ ~streaming' => view'.fresh
  BY DEF Current
<1>1. view' = snapshot BY DEF PublishSnapshot
<1>2. QED BY <1>1

LEMMA CurrentByRuntime ==
    ASSUME Current, ViewTyped, Written, PublishRuntime(connectionGeneration),
           UNCHANGED <<connectionGeneration, client, conn, write>>,
           ~streaming' => ~streaming
    PROVE  Current'
<1> SUFFICES ASSUME Ready
             PROVE  /\ view'.session = connectionGeneration
                    /\ view'.busy = ~idle'
                    /\ view'.compacting = compactionInFlight'
                    /\ view'.write = States
                    /\ ~streaming => view'.fresh
  BY DEF Current, Ready, States
<1>1. view' = [view EXCEPT !.session = connectionGeneration, !.busy = ~idle',
                           !.compacting = compactionInFlight']
  BY DEF PublishRuntime
<1>2. view.write = States /\ (~streaming => view.fresh) BY DEF Current
<1>3. QED BY <1>1, <1>2 DEF ViewTyped, View

LEMMA CurrentByTool ==
    ASSUME Current, ViewTyped, Written, NEW w \in Write, PublishTool(w),
           UNCHANGED <<connectionGeneration, client, conn, idle, compactionInFlight, streaming>>,
           \A v \in Write : v # w => write'[v].state = write[v].state
    PROVE  Current'
<1> SUFFICES ASSUME Ready
             PROVE  /\ view'.session = connectionGeneration
                    /\ view'.busy = ~idle
                    /\ view'.compacting = compactionInFlight
                    /\ view'.write = [v \in Write |-> write'[v].state]
                    /\ ~streaming => view'.fresh
  BY DEF Current, Ready, States
<1>1. view' = [view EXCEPT !.write[w] = write'[w].state] BY DEF PublishTool
<1>2. view.write = [v \in Write |-> write[v].state] BY DEF Current, States
<1>3. view'.write = [v \in Write |-> write'[v].state]
  <2>1. view'.write = [view.write EXCEPT ![w] = write'[w].state]
    BY <1>1 DEF ViewTyped, View
  <2>2. QED BY <1>2, <2>1
<1>4. /\ view'.session = view.session /\ view'.busy = view.busy
      /\ view'.compacting = view.compacting /\ view'.fresh = view.fresh
  BY <1>1 DEF ViewTyped, View
<1>5. QED BY <1>3, <1>4 DEF Current

LEMMA CurrentStays ==
    ASSUME Current, Ready' => Ready, view' = view,
           UNCHANGED <<connectionGeneration, idle, compactionInFlight, streaming>>,
           \A v \in Write : write'[v].state = write[v].state
    PROVE  Current'
<1>1. States' = States BY DEF States
<1>2. QED BY <1>1 DEF Current

LEMMA NothingToShow ==
    ASSUME client' = NoClient
    PROVE  Current'
  BY DEF Current, Ready

\* Each step of the connection shows what is current or nothing.
LEMMA CurrentStep ==
    ASSUME "reused" \notin Faults, Linked, Commanded, Written, Written', AgentTyped, AgentTyped',
           ViewTyped, Current, [Next]_vars
    PROVE  Current'
<1> USE DEF linkVars, commandVars, agentVars, writeVars
<1>1. CASE SessionStart BY <1>1, NothingToShow DEF SessionStart, Drop
<1>2. CASE SessionShutdown BY <1>2, NothingToShow DEF SessionShutdown, Drop
<1>3. CASE BootstrapRetry BY <1>3, CurrentStays DEF BootstrapRetry, Ready
<1>4. ASSUME NEW g \in Generation, NEW issued \in BOOLEAN, Credentials(g, issued) PROVE Current'
  <2>1. UNCHANGED <<connectionGeneration, idle, compactionInFlight, streaming, write, view>>
    BY <1>4, Zenon DEF Credentials
  <2>2. \/ client' = client /\ conn' = conn
        \/ client' = g /\ conn' = [conn EXCEPT ![g] = "connecting"]
    BY <1>4, Zenon DEF Credentials
  <2>3. Ready' => Ready BY <2>2 DEF Ready, Linked, LinkTyped
  <2>4. QED BY <2>1, <2>3, CurrentStays
<1>5. ASSUME NEW g \in Generation, Accepted(g) PROVE Current'
  <2>1. /\ PublishSnapshot(g) /\ conn[g] = "connecting"
        /\ connectionGeneration' = connectionGeneration
    BY <1>5, Zenon DEF Accepted
  <2>2. g = connectionGeneration BY <2>1 DEF Linked
  <2>3. QED BY <2>1, <2>2, CurrentBySnapshot
<1>6. ASSUME NEW g \in Generation, Disconnect(g) PROVE Current'
  <2>1. CASE conn[g] = "ended"
    <3>1. UNCHANGED <<connectionGeneration, client, idle, compactionInFlight, streaming, write, view>>
          /\ conn' = [conn EXCEPT ![g] = "none"]
      BY <1>6, <2>1, Zenon DEF Disconnect
    <3>2. Ready' => Ready BY <3>1 DEF Ready, Linked, LinkTyped
    <3>3. QED BY <3>1, <3>2, CurrentStays
  <2>2. CASE conn[g] # "ended" BY <1>6, <2>2, NothingToShow DEF Disconnect
  <2>3. QED BY <2>1, <2>2
<1>7. ASSUME NEW g \in Generation, NEW o \in Op, Refuse(o, g) \/ AcceptReload(o, g)
      PROVE  Current'
  <2>1. UNCHANGED <<connectionGeneration, client, conn, idle, compactionInFlight, streaming, write, view>>
    BY <1>7, Zenon DEF Refuse, AcceptReload
  <2>2. QED BY <2>1, CurrentStays DEF Ready
<1>8. ASSUME NEW g \in Generation, NEW o \in Op,
             NEW does \in {"message", "snapshot", "compact"}, Begin(o, g, does)
      PROVE  Current'
  <2>1. UNCHANGED <<connectionGeneration, client, conn, idle, compactionInFlight, streaming, write>>
        /\ CanReceive(o, g) /\ (PublishSnapshot(g) \/ view' = view)
    BY <1>8, Zenon DEF Begin
  <2>2. g = connectionGeneration BY <2>1, ReceivedInSession
  <2>3. CASE PublishSnapshot(g) BY <2>1, <2>2, <2>3, CurrentBySnapshot
  <2>4. CASE view' = view BY <2>1, <2>4, CurrentStays DEF Ready
  <2>5. QED BY <2>1, <2>3, <2>4
<1>9. ASSUME NEW o \in Op, Finish(o) PROVE Current'
  <2>1. UNCHANGED <<connectionGeneration, client, conn, idle, streaming, write>>
    BY <1>9, Zenon DEF Finish
  <2>2. CASE op[o].session = connectionGeneration
    <3>1. PublishRuntime(connectionGeneration) BY <1>9, <2>2, Zenon DEF Finish
    <3>2. QED BY <2>1, <3>1, CurrentByRuntime
  <2>3. CASE op[o].session # connectionGeneration
    <3>1. compactionInFlight' = compactionInFlight /\ view' = view
      BY <1>9, <2>3, Zenon DEF Finish
    <3>2. QED BY <2>1, <3>1, CurrentStays DEF Ready
  <2>4. QED BY <2>2, <2>3
<1>10. CASE AgentStart BY <1>10, CurrentByRuntime DEF AgentStart
<1>11. CASE AgentSettled BY <1>11, CurrentBySnapshot DEF AgentSettled
<1>12. CASE MessageStart BY <1>12, CurrentByRuntime DEF MessageStart
<1>13. CASE MessageUpdate
  <2>1. streaming /\ UNCHANGED <<connectionGeneration, client, conn, idle, compactionInFlight,
                                 streaming, write>>
    BY <1>13, Zenon DEF MessageUpdate
  <2>2. PICK fresh \in BOOLEAN :
            view' = IF Ready THEN [view EXCEPT !.fresh = fresh] ELSE view
    BY <1>13 DEF MessageUpdate
  <2>3. view'.session = view.session /\ view'.busy = view.busy
        /\ view'.compacting = view.compacting /\ view'.write = view.write
    BY <2>2 DEF ViewTyped, View
  <2>4. QED BY <2>1, <2>3 DEF Current, Ready, States
<1>14. CASE MessageEnd BY <1>14, CurrentBySnapshot DEF MessageEnd
<1>15. CASE CompactionStart
  <2>1. UNCHANGED <<connectionGeneration, client, conn, idle, streaming, write>>
        /\ compactionInFlight' = TRUE
        /\ IF compactionInFlight THEN view' = view ELSE PublishRuntime(connectionGeneration)
    BY <1>15, Zenon DEF CompactionStart
  <2>2. CASE compactionInFlight
    <3>1. compactionInFlight' = compactionInFlight BY <2>1, <2>2 DEF AgentTyped
    <3>2. QED BY <2>1, <2>2, <3>1, CurrentStays DEF Ready
  <2>3. CASE ~compactionInFlight BY <2>1, <2>3, CurrentByRuntime
  <2>4. QED BY <2>2, <2>3
<1>16. CASE CompactionEnd
  <2>1. UNCHANGED <<connectionGeneration, client, conn, idle, streaming, write>>
        /\ (PublishSnapshot(connectionGeneration) \/ UNCHANGED <<compactionInFlight, view>>)
    BY <1>16, Zenon DEF CompactionEnd
  <2>2. CASE PublishSnapshot(connectionGeneration) BY <2>1, <2>2, CurrentBySnapshot
  <2>3. CASE UNCHANGED <<compactionInFlight, view>> BY <2>1, <2>3, CurrentStays DEF Ready
  <2>4. QED BY <2>1, <2>2, <2>3
<1>17. ASSUME NEW w \in Write,
              \/ ToolStart(w) \/ TransferEnd(w) \/ ToolFails(w) \/ ToolSucceeds(w)
              \/ WriteCompletion(w)
       PROVE  Current'
  <2>1. UNCHANGED <<connectionGeneration, client, conn, idle, compactionInFlight, streaming>>
    BY <1>17, Zenon DEF ToolStart, TransferEnd, ToolFails, ToolSucceeds, WriteCompletion
  <2>2. \E record : write' = [write EXCEPT ![w] = record]
    <3>1. CASE ToolStart(w) BY <3>1, Zenon DEF ToolStart
    <3>2. CASE TransferEnd(w)
      <4>1. PICK outcome \in {"stored", "failed"} : write' = [write EXCEPT ![w].transfer = outcome]
        BY <3>2, Zenon DEF TransferEnd
      <4>2. write' = [write EXCEPT ![w] = [write[w] EXCEPT !.transfer = outcome]]
        BY <4>1 DEF Written, WriteRecord
      <4>3. QED BY <4>2, Zenon
    <3>3. ASSUME write' = [write EXCEPT ![w].tool = "settled"]
          PROVE  \E record : write' = [write EXCEPT ![w] = record]
      <4>1. write' = [write EXCEPT ![w] = [write[w] EXCEPT !.tool = "settled"]]
        BY <3>3 DEF Written, WriteRecord
      <4>2. QED BY <4>1, Zenon
    <3>4. CASE ToolFails(w) BY <3>3, <3>4, Zenon DEF ToolFails
    <3>5. CASE ToolSucceeds(w)
      <4>1. write' = [write EXCEPT ![w] = [write[w] EXCEPT
                          !.tool = IF write[w].state = "none" THEN "settled" ELSE "ok"]]
        BY <3>5 DEF ToolSucceeds, Written, WriteRecord
      <4>2. QED BY <4>1, Zenon
    <3>6. CASE WriteCompletion(w) BY <3>3, <3>6, Zenon DEF WriteCompletion
    <3>7. QED BY <1>17, <3>1, <3>2, <3>4, <3>5, <3>6
  <2>3. \A v \in Write : v # w => write'[v].state = write[v].state
    BY <2>2 DEF Written
  <2>4. PublishTool(w) \/ (view' = view /\ write'[w].state = write[w].state)
    <3>1. CASE ToolStart(w) BY <3>1, Zenon DEF ToolStart
    <3>2. CASE TransferEnd(w) BY <3>2 DEF TransferEnd, Written, WriteRecord
    <3>3. ASSUME write' = [write EXCEPT ![w].tool = "settled"]
          PROVE  write'[w].state = write[w].state
      BY <3>3 DEF Written, WriteRecord
    <3>4. CASE ToolFails(w) BY <3>3, <3>4, Zenon DEF ToolFails
    <3>5. CASE ToolSucceeds(w) BY <3>5 DEF ToolSucceeds, Written, WriteRecord
    <3>6. CASE WriteCompletion(w) BY <3>3, <3>6, Zenon DEF WriteCompletion
    <3>7. QED BY <1>17, <3>1, <3>2, <3>4, <3>5, <3>6
  <2>5. CASE PublishTool(w) BY <2>1, <2>3, <2>5, CurrentByTool
  <2>6. CASE view' = view /\ write'[w].state = write[w].state
    BY <2>1, <2>3, <2>6, CurrentStays DEF Ready
  <2>7. QED BY <2>4, <2>5, <2>6
<1>18. CASE UNCHANGED vars BY <1>18, CurrentStays DEF vars, Ready
<1>19. QED
  BY <1>1, <1>2, <1>3, <1>4, <1>5, <1>6, <1>7, <1>8, <1>9, <1>10, <1>11, <1>12, <1>13,
     <1>14, <1>15, <1>16, <1>17, <1>18
  DEF Next

\* A connected browser shows its own session as it is, and a compaction only
\* while pi is at work, where pi makes an instance for each session and notices
\* that its own compactions end (publishSnapshot, publishRuntime,
\* session_before_compact).
THEOREM BrowserSeesTheSession ==
    ASSUME "reused" \notin Faults, "compact_fails" \notin Faults
    PROVE  Spec => []ViewIsCurrent
<1>1. Init => AtWork /\ Current
  <2>1. Init => Current BY DEF Init, Current, Ready
  <2>2. QED BY <2>1, AtWorkInit
<1>2. RelayInv /\ RelayInv' /\ AtWork /\ Current /\ [Next]_vars => AtWork' /\ Current'
  BY AtWorkStep, CurrentStep DEF RelayInv
<1>3. RelayInv /\ AtWork /\ Current => ViewIsCurrent
  <2> SUFFICES ASSUME RelayInv, AtWork, Current, Ready
               PROVE  /\ view.session = connectionGeneration
                      /\ view.busy = ~idle
                      /\ view.compacting = compactionInFlight
                      /\ compacts => compactionInFlight
                      /\ compactionInFlight =>
                             \/ compacts \/ ~idle
                             \/ \E o \in Op : op[o].does \in {"compact", "compacted"}
                      /\ view.write = States
                      /\ ~streaming => view.fresh
    BY Zenon DEF ViewIsCurrent
  <2>1. interactive BY DEF RelayInv, Linked, Ready
  <2>2. /\ compacts => compactionInFlight
        /\ compactionInFlight =>
               \/ compacts \/ ~idle
               \/ \E o \in Op : op[o].does \in {"compact", "compacted"}
    BY <2>1 DEF AtWork, Compacted
  <2>3. QED BY <2>2, Zenon DEF Current
<1>4. QED BY <1>1, <1>2, <1>3, RelayInvariant, PTL DEF Spec

----------------------------------------------------------------------------
(* The state of the agent, as herdr shows it                               *)

\* No report is lost altogether, and pi is not reloaded while a prompt is open.
Heard == ReportFaults = {}

Newest == [state |-> lastState, seq |-> reportSeq]

\* Every report that is queued, being sent, given up or shown.
Reports ==
    {queuedState[i] : i \in Herdr!Instance} \cup {sending[i].report : i \in Herdr!Instance}
    \cup late \cup {herdr}

\* What pi does is what the newest report says, and no other has its number.
HerdrInv ==
    /\ settled \in Nat /\ prompts \in Nat /\ running \in BOOLEAN /\ agentActive \in BOOLEAN
    /\ load \in Herdr!Instance /\ reportSeq \in Nat
    /\ queuedState \in [Herdr!Instance -> Herdr!Report \cup {Herdr!NoReport}]
    /\ sending \in [Herdr!Instance -> [report : Herdr!Report, attempt : 1..2] \cup {Herdr!NotSending}]
    /\ late \subseteq Herdr!Report
    /\ herdr \in Herdr!Report \cup {Herdr!NoReport}
    /\ blockedCount = prompts /\ (root = "no" => prompts = 0 /\ lastState = "none")
    /\ root = "yes" => agentActive = running \/ (agentActive /\ settled > 0)
    /\ root = "yes" => lastState = Herdr!Desired(blockedCount, agentActive)
    /\ \A i \in Herdr!Instance : sending[i] = Herdr!NotSending => queuedState[i] = Herdr!NoReport
    /\ \A r \in Reports : r.seq <= reportSeq
    /\ lastState # "none" =>
           /\ reportSeq > 0 /\ Newest \in Reports
           /\ \A r \in Reports : r.seq = reportSeq => r = Newest

Sizes == MaxSeq \in Nat /\ MaxLoads \in Nat /\ 1 \in Herdr!Instance

LEMMA HerdrInvInit == ASSUME Sizes, Herdr!AgentInit PROVE HerdrInv
<1>1. \A r \in Reports : r = Herdr!NoReport
  BY DEF Herdr!AgentInit, Reports, Herdr!NotSending
<1>2. Herdr!NoReport.seq = 0
  BY DEF Herdr!NoReport
<1>3. \A r \in Reports : r.seq <= reportSeq
  BY <1>1, <1>2 DEF Herdr!AgentInit
<1>4. \A i \in Herdr!Instance : queuedState[i] = Herdr!NoReport
  BY DEF Herdr!AgentInit
<1>5. /\ queuedState \in [Herdr!Instance -> Herdr!Report \cup {Herdr!NoReport}]
      /\ sending \in [Herdr!Instance -> [report : Herdr!Report, attempt : 1..2] \cup {Herdr!NotSending}]
  BY DEF Herdr!AgentInit
<1>6. QED
  BY <1>3, <1>4, <1>5 DEF Sizes, Herdr!AgentInit, HerdrInv

\* At rest the newest report has been read.
LEMMA HerdrIsRight == ASSUME HerdrInv PROVE Herdr!StateIsReported
<1>1. SUFFICES ASSUME root = "yes", settled = 0, late = {}, \A i \in Herdr!Instance : sending[i] = Herdr!NotSending
               PROVE  herdr.state = Herdr!Desired(prompts, running)
  BY DEF Herdr!StateIsReported
<1>2. lastState = Herdr!Desired(prompts, running) /\ lastState # "none"
  BY <1>1 DEF HerdrInv, Herdr!Desired
<1>3. \A r \in Reports : r = Herdr!NoReport \/ r = herdr
  BY <1>1 DEF Reports, HerdrInv, Herdr!NotSending
<1>4. Newest \in Reports /\ Newest # Herdr!NoReport
  BY <1>2 DEF HerdrInv, Newest, Herdr!NoReport
<1>5. QED
  BY <1>2, <1>3, <1>4 DEF Newest

\* publishState, after any event.
LEMMA PublishedIsNewest ==
    ASSUME Sizes, HerdrInv, NEW force \in BOOLEAN, Herdr!PublishState(force), load' = load,
           late' = late, herdr' = herdr, blockedCount' \in Nat
    PROVE  /\ reportSeq' \in Nat
           /\ queuedState' \in [Herdr!Instance -> Herdr!Report \cup {Herdr!NoReport}]
           /\ sending' \in [Herdr!Instance -> [report : Herdr!Report, attempt : 1..2] \cup {Herdr!NotSending}]
           /\ lastState' = Herdr!Desired(blockedCount', agentActive')
           /\ \A i \in Herdr!Instance : sending'[i] = Herdr!NotSending => queuedState'[i] = Herdr!NoReport
           /\ \A r \in Reports' : r.seq <= reportSeq'
           /\ lastState' # "none" =>
                  /\ reportSeq' > 0 /\ Newest' \in Reports'
                  /\ \A r \in Reports' : r.seq = reportSeq' => r = Newest'
<1> DEFINE next == Herdr!Desired(blockedCount', agentActive')
           report == [state |-> next, seq |-> reportSeq + 1]
<1>1. lastState' = next /\ next \in Herdr!State /\ next # "none"
  BY DEF Herdr!PublishState, Herdr!Desired, Herdr!State
<1>2. CASE ~force /\ next = lastState
  <2>1. UNCHANGED <<reportSeq, queuedState, sending, late, herdr, lastState>>
    BY <1>1, <1>2 DEF Herdr!PublishState
  <2>2. Reports' = Reports /\ Newest' = Newest
    BY <2>1 DEF Reports, Newest
  <2>3. QED
    BY <1>1, <2>1, <2>2 DEF HerdrInv
<1>3. CASE ~(~force /\ next = lastState)
  <2>1. Herdr!QueueState(next)
    BY <1>3 DEF Herdr!PublishState
  <2>2. reportSeq' = reportSeq + 1 /\ reportSeq \in Nat /\ report \in Herdr!Report /\ report # Herdr!NoReport
    BY <1>1, <2>1 DEF Herdr!QueueState, HerdrInv, Herdr!Report, Sizes, Herdr!NoReport
  <2>3. Newest' = report /\ report.seq = reportSeq + 1
    BY <1>1, <2>2 DEF Newest
  <2> DEFINE new == [report |-> report, attempt |-> 1]
  <2>4. new \in [report : Herdr!Report, attempt : 1..2] /\ new.report = report /\ new # Herdr!NotSending
    BY <2>2 DEF Herdr!NotSending
  <2>5. \/ /\ sending[load] = Herdr!NotSending
           /\ sending' = [sending EXCEPT ![load] = new] /\ queuedState' = queuedState
        \/ /\ sending[load] # Herdr!NotSending
           /\ queuedState' = [queuedState EXCEPT ![load] = report] /\ sending' = sending
    BY <2>1, <2>2 DEF Herdr!QueueState
  <2> HIDE DEF next, report, new
  <2>6. /\ queuedState' \in [Herdr!Instance -> Herdr!Report \cup {Herdr!NoReport}]
        /\ sending' \in [Herdr!Instance -> [report : Herdr!Report, attempt : 1..2] \cup {Herdr!NotSending}]
        /\ load \in Herdr!Instance
    BY <2>2, <2>4, <2>5 DEF HerdrInv
  <2>7. \A i \in Herdr!Instance :
            /\ queuedState'[i] \in {queuedState[i], report}
            /\ sending'[i].report \in {sending[i].report, report}
    BY <2>4, <2>5 DEF HerdrInv
  <2>8. Reports' \subseteq Reports \cup {report}
    BY <2>7 DEF Reports
  <2>9. report \in Reports'
    <3>1. CASE sending'[load] = new
      BY <2>4, <2>6, <3>1 DEF Reports
    <3>2. CASE queuedState'[load] = report
      BY <2>6, <3>2 DEF Reports
    <3>3. QED
      BY <2>5, <2>6, <3>1, <3>2 DEF HerdrInv
  <2>10. \A r \in Reports : r.seq <= reportSeq /\ r.seq \in Nat
    <3>1. ASSUME NEW r \in Reports PROVE r \in Herdr!Report \cup {Herdr!NoReport}
      BY DEF Reports, HerdrInv, Herdr!NotSending
    <3>2. QED
      BY <3>1 DEF HerdrInv, Herdr!Report, Herdr!NoReport, Sizes
  <2>11. \A i \in Herdr!Instance : sending'[i] = Herdr!NotSending => queuedState'[i] = Herdr!NoReport
    BY <2>4, <2>5 DEF HerdrInv
  <2>12. \A r \in Reports' : r.seq <= reportSeq' /\ (r.seq = reportSeq' => r = report)
    BY <2>2, <2>3, <2>8, <2>10
  <2>13. QED
    BY <1>1, <2>2, <2>3, <2>6, <2>9, <2>11, <2>12 DEF next
<1>4. QED
  BY <1>2, <1>3

LEMMA ReportTypes == ASSUME Sizes, HerdrInv, NEW r \in Reports PROVE r.seq \in Nat
<1>1. r \in Herdr!Report \cup {Herdr!NoReport}
  BY DEF Reports, HerdrInv, Herdr!NotSending
<1>2. QED
  BY <1>1 DEF Herdr!Report, Herdr!NoReport, Sizes

\* The wire moves reports about, and drops none that herdr has to show.
LEMMA WireKeepsHerdr ==
    ASSUME HerdrInv, UNCHANGED <<running, settled, prompts, load, root, agentActive, blockedCount, lastState, reportSeq>>,
           queuedState' \in [Herdr!Instance -> Herdr!Report \cup {Herdr!NoReport}],
           sending' \in [Herdr!Instance -> [report : Herdr!Report, attempt : 1..2] \cup {Herdr!NotSending}],
           late' \subseteq Herdr!Report, herdr' \in Herdr!Report \cup {Herdr!NoReport},
           \A i \in Herdr!Instance : sending'[i] = Herdr!NotSending => queuedState'[i] = Herdr!NoReport,
           \A r \in Reports' : r \in Reports \/ r = Herdr!NoReport,
           lastState # "none" => Newest \in Reports'
    PROVE  HerdrInv'
<1>1. Newest' = Newest
  BY DEF Newest
<1>2. Herdr!NoReport.seq = 0
  BY DEF Herdr!NoReport
<1>3. \A r \in Reports' : r.seq <= reportSeq'
  BY <1>2 DEF HerdrInv
<1>4. lastState' # "none" => \A r \in Reports' : r.seq = reportSeq' => r = Newest'
  BY <1>1, <1>2 DEF HerdrInv
<1>5. QED
  BY <1>1, <1>3, <1>4 DEF HerdrInv

LEMMA SentKeepsHerdr ==
    ASSUME Sizes, HerdrInv, NEW i \in Herdr!Instance, sending[i] # Herdr!NotSending, Herdr!Sent(i),
           UNCHANGED <<running, settled, prompts, load, root, agentActive, blockedCount, lastState, reportSeq>>,
           late' \in {late, late \cup {sending[i].report}}, herdr' \in {herdr, sending[i].report},
           \A r \in {herdr, sending[i].report} : r = Newest /\ lastState # "none" => r \in late' \cup {herdr'}
    PROVE  HerdrInv'
<1> DEFINE r == sending[i].report
<1>1. r \in Herdr!Report
  BY DEF HerdrInv, Herdr!NotSending
<1>2. /\ queuedState' \in [Herdr!Instance -> Herdr!Report \cup {Herdr!NoReport}]
      /\ sending' \in [Herdr!Instance -> [report : Herdr!Report, attempt : 1..2] \cup {Herdr!NotSending}]
  BY DEF HerdrInv, Herdr!Sent
<1>3. late' \subseteq Herdr!Report /\ herdr' \in Herdr!Report \cup {Herdr!NoReport}
  BY <1>1 DEF HerdrInv
<1>4. \A j \in Herdr!Instance : sending'[j] = Herdr!NotSending => queuedState'[j] = Herdr!NoReport
  BY DEF HerdrInv, Herdr!Sent
<1>5. \A j \in Herdr!Instance :
          /\ queuedState'[j] \in {queuedState[j], Herdr!NoReport}
          /\ sending'[j].report \in {sending[j].report, queuedState[j], Herdr!NoReport}
  BY DEF HerdrInv, Herdr!Sent, Herdr!NotSending
<1>6. \A x \in Reports' : x \in Reports \/ x = Herdr!NoReport
  BY <1>5 DEF Reports
<1>7. ASSUME lastState # "none" PROVE Newest \in Reports'
  <2>1. Newest \in Reports
    BY <1>7 DEF HerdrInv
  <2>2. CASE Newest \in {herdr, r}
    BY <1>7, <2>2 DEF Reports
  <2>3. ASSUME NEW j \in Herdr!Instance, Newest = queuedState[j] PROVE Newest \in Reports'
    <3>1. CASE j = i
      <4>1. Newest # Herdr!NoReport
        BY <1>7 DEF HerdrInv, Newest, Herdr!NoReport
      <4>2. sending'[i] = [report |-> Newest, attempt |-> 1]
        BY <2>3, <3>1, <4>1 DEF Herdr!Sent, HerdrInv
      <4>3. sending'[i].report = Newest
        BY <4>2
      <4>4. QED
        BY <4>3 DEF Reports
    <3>2. CASE j # i
      <4>1. queuedState'[j] = Newest
        BY <2>3, <3>2 DEF Herdr!Sent, HerdrInv
      <4>2. QED
        BY <4>1 DEF Reports
    <3>3. QED
      BY <3>1, <3>2
  <2>4. ASSUME NEW j \in Herdr!Instance, j # i, Newest = sending[j].report PROVE Newest \in Reports'
    <3>1. sending'[j].report = Newest
      BY <2>4 DEF Herdr!Sent, HerdrInv
    <3>2. QED
      BY <3>1 DEF Reports
  <2>5. CASE Newest \in late
    BY <2>5 DEF Reports
  <2>6. QED
    BY <2>1, <2>2, <2>3, <2>4, <2>5 DEF Reports
<1>8. QED
  BY <1>2, <1>3, <1>4, <1>6, <1>7, WireKeepsHerdr

\* The newest report that is read, or that herdr has seen, is what it shows.
LEMMA NewerIsShown ==
    ASSUME Sizes, HerdrInv, NEW r \in Reports
    PROVE  /\ Herdr!Newer(r) \in {herdr, r}
           /\ lastState # "none" /\ Newest \in {herdr, r} => Herdr!Newer(r) = Newest
<1>1. r.seq \in Nat /\ herdr.seq \in Nat /\ herdr \in Reports /\ reportSeq \in Nat
  BY ReportTypes DEF Reports, HerdrInv
<1>2. r.seq <= reportSeq /\ herdr.seq <= reportSeq /\ Newest.seq = reportSeq
  BY <1>1 DEF HerdrInv, Newest
<1>3. lastState # "none" => \A x \in Reports : x.seq = reportSeq => x = Newest
  BY DEF HerdrInv
<1>4. QED
  BY <1>1, <1>2, <1>3 DEF Herdr!Newer

LEMMA AnsweredKeepsHerdr ==
    ASSUME Sizes, HerdrInv, NEW i \in Herdr!Instance, Herdr!Answered(i)
    PROVE  HerdrInv'
<1> DEFINE r == sending[i].report
<1>1. r \in Reports
  BY DEF Reports
<1>2. /\ sending[i] # Herdr!NotSending /\ Herdr!Sent(i) /\ herdr' = Herdr!Newer(r)
      /\ UNCHANGED <<running, settled, prompts, load, root, agentActive, blockedCount, lastState, reportSeq>>
      /\ late' = late
  BY DEF Herdr!Answered
<1>3. herdr' \in {herdr, r} /\ (lastState # "none" /\ Newest \in {herdr, r} => herdr' = Newest)
  BY <1>1, <1>2, NewerIsShown
<1>4. QED
  BY <1>2, <1>3, SentKeepsHerdr

LEMMA UnansweredKeepsHerdr ==
    ASSUME Sizes, Heard, HerdrInv, NEW i \in Herdr!Instance, NEW written \in BOOLEAN, Herdr!Unanswered(i, written)
    PROVE  HerdrInv'
<1> DEFINE r == sending[i].report
<1>1. /\ sending[i] # Herdr!NotSending /\ late' \in {late, late \cup {r}} /\ herdr' = herdr
      /\ UNCHANGED <<running, settled, prompts, load, root, agentActive, blockedCount, lastState, reportSeq>>
  BY DEF Herdr!Unanswered
<1>2. sending[i] \in [report : Herdr!Report, attempt : 1..2] /\ r \in Herdr!Report /\ r \in Reports
  BY <1>1 DEF HerdrInv, Reports
<1>3. CASE sending[i].attempt = 1
  <2>1. sending' = [sending EXCEPT ![i].attempt = 2] /\ queuedState' = queuedState
    BY <1>3 DEF Herdr!Unanswered
  <2>2. \A j \in Herdr!Instance : sending'[j].report = sending[j].report
    BY <2>1, <1>2 DEF HerdrInv
  <2>3. sending'[i] \in [report : Herdr!Report, attempt : 1..2]
    BY <1>2, <2>1 DEF HerdrInv
  <2>4. /\ sending' \in [Herdr!Instance -> [report : Herdr!Report, attempt : 1..2] \cup {Herdr!NotSending}]
        /\ \A j \in Herdr!Instance : sending'[j] = Herdr!NotSending => sending[j] = Herdr!NotSending
    BY <2>1, <2>3, <1>1 DEF HerdrInv, Herdr!NotSending
  <2>5. Reports' \subseteq Reports /\ Reports \subseteq Reports'
    BY <1>1, <1>2, <2>1, <2>2 DEF Reports
  <2>6. queuedState' \in [Herdr!Instance -> Herdr!Report \cup {Herdr!NoReport}]
        /\ \A j \in Herdr!Instance : sending'[j] = Herdr!NotSending => queuedState'[j] = Herdr!NoReport
    BY <2>1, <2>4 DEF HerdrInv
  <2>7. late' \subseteq Herdr!Report /\ herdr' \in Herdr!Report \cup {Herdr!NoReport}
    BY <1>1, <1>2 DEF HerdrInv
  <2>8. lastState # "none" => Newest \in Reports'
    BY <2>5 DEF HerdrInv
  <2>9. QED
    BY <1>1, <2>4, <2>5, <2>6, <2>7, <2>8, WireKeepsHerdr
<1>4. CASE sending[i].attempt # 1
  <2>1. Herdr!Sent(i) /\ (r \in late' \/ herdr.seq >= r.seq)
    BY <1>4 DEF Herdr!Unanswered, Heard
  <2>2. herdr.seq >= r.seq /\ r = Newest /\ lastState # "none" => herdr = Newest
    <3>1. herdr \in Reports /\ herdr.seq \in Nat /\ r.seq \in Nat /\ reportSeq \in Nat
      BY <1>2, ReportTypes DEF Reports, HerdrInv
    <3>2. herdr.seq <= reportSeq /\ Newest.seq = reportSeq
      BY <3>1 DEF HerdrInv, Newest
    <3>3. QED
      BY <3>1, <3>2 DEF HerdrInv
  <2>3. QED
    BY <1>1, <2>1, <2>2, SentKeepsHerdr
<1>5. QED
  BY <1>3, <1>4

LEMMA ReadKeepsHerdr ==
    ASSUME Sizes, HerdrInv, NEW report \in late, Herdr!HerdrReads(report)
    PROVE  HerdrInv'
<1>1. /\ late' = late \ {report} /\ herdr' = Herdr!Newer(report)
      /\ UNCHANGED <<running, settled, prompts, load, root, agentActive, blockedCount, lastState, reportSeq,
                     queuedState, sending>>
  BY DEF Herdr!HerdrReads
<1>2. report \in Reports /\ report \in Herdr!Report
  BY DEF Reports, HerdrInv
<1>3. herdr' \in {herdr, report} /\ (lastState # "none" /\ Newest \in {herdr, report} => herdr' = Newest)
  BY <1>1, <1>2, NewerIsShown
<1>4. \A r \in Reports' : r \in Reports
  BY <1>1, <1>2, <1>3 DEF Reports
<1>5. lastState # "none" => Newest \in Reports'
  <2>1. ASSUME NEW r \in Reports PROVE r \in Reports' \/ r \in {herdr, report}
    BY <1>1 DEF Reports
  <2>2. herdr' \in Reports'
    BY DEF Reports
  <2>3. lastState # "none" => Newest \in Reports
    BY DEF HerdrInv
  <2>4. QED
    BY <1>3, <2>1, <2>2, <2>3
<1>6. QED
  BY <1>1, <1>2, <1>3, <1>4, <1>5, WireKeepsHerdr DEF HerdrInv

\* The events of pi.
LEMMA HerdrInvNext == ASSUME Sizes, Heard, HerdrInv, [Herdr!AgentNext]_herdrVars PROVE HerdrInv'
<1>1. CASE Herdr!SessionStart
  BY <1>1 DEF Herdr!SessionStart, HerdrInv, Reports, Newest
<1>2. CASE Herdr!SessionReported
  <2>1. /\ Herdr!PublishState(TRUE) /\ UNCHANGED <<running, settled, prompts, load, late, herdr, blockedCount>>
        /\ agentActive' = running /\ root' = "yes"
    BY <1>2 DEF Herdr!SessionReported
  <2>2. QED
    BY <2>1, PublishedIsNewest DEF HerdrInv
<1>3. CASE Herdr!AgentStart
  <2>1. CASE root = "no"
    <3>1. /\ UNCHANGED <<settled, prompts, load, root, late, herdr, agentActive, blockedCount, lastState,
                         reportSeq, queuedState, sending>>
          /\ running' = TRUE
      BY <1>3, <2>1 DEF Herdr!AgentStart
    <3>2. QED
      BY <2>1, <3>1 DEF HerdrInv, Reports, Newest
  <2>2. CASE root # "no"
    <3>1. /\ Herdr!PublishState(FALSE) /\ UNCHANGED <<settled, prompts, load, late, herdr, blockedCount, root>>
          /\ agentActive' = TRUE /\ running' = TRUE
      BY <1>3, <2>2 DEF Herdr!AgentStart
    <3>2. QED
      BY <2>2, <3>1, PublishedIsNewest DEF HerdrInv
  <2>3. QED
    BY <2>1, <2>2
<1>4. CASE Herdr!RunSettles
  <2>1. /\ UNCHANGED <<prompts, load, root, agentActive, blockedCount, lastState, reportSeq, queuedState,
                       sending, late, herdr>>
        /\ running /\ running' = FALSE /\ settled' = settled + 1
    BY <1>4 DEF Herdr!RunSettles
  <2>2. Reports' = Reports /\ Newest' = Newest
    BY <2>1 DEF Reports, Newest
  <2>3. root = "yes" => agentActive = TRUE
    BY <2>1 DEF HerdrInv
  <2>4. settled' \in Nat /\ settled' > 0
    BY <2>1 DEF HerdrInv
  <2>5. QED
    BY <2>1, <2>2, <2>3, <2>4 DEF HerdrInv
<1>5. CASE Herdr!AgentSettled
  <2>1. /\ UNCHANGED <<running, prompts, load, root, late, herdr>> /\ settled > 0 /\ settled' = settled - 1
    BY <1>5 DEF Herdr!AgentSettled
  <2>2. settled' \in Nat
    BY <2>1 DEF HerdrInv
  <2>3. CASE root = "no" \/ running
    <3>1. UNCHANGED <<agentActive, blockedCount, lastState, reportSeq, queuedState, sending>>
      BY <1>5, <2>3 DEF Herdr!AgentSettled
    <3>2. Reports' = Reports /\ Newest' = Newest
      BY <2>1, <3>1 DEF Reports, Newest
    <3>3. root = "yes" => agentActive = running
      BY <2>3 DEF HerdrInv
    <3>4. QED
      BY <2>1, <2>2, <3>1, <3>2, <3>3 DEF HerdrInv
  <2>4. CASE ~(root = "no" \/ running)
    <3>1. Herdr!PublishState(FALSE) /\ agentActive' = FALSE /\ blockedCount' = blockedCount /\ running = FALSE
      BY <1>5, <2>4 DEF Herdr!AgentSettled, HerdrInv
    <3>2. QED
      BY <2>1, <2>2, <2>4, <3>1, PublishedIsNewest DEF HerdrInv
  <2>5. QED
    BY <2>3, <2>4
<1>6. ASSUME NEW active \in BOOLEAN, Herdr!Blocked(active) PROVE HerdrInv'
  <2>1. /\ UNCHANGED <<running, settled, load, root, late, herdr, agentActive>> /\ root # "no"
        /\ Herdr!PublishState(FALSE)
        /\ prompts' = IF active THEN prompts + 1 ELSE prompts - 1
        /\ prompts' \in 0..2
        /\ blockedCount' = IF active THEN blockedCount + 1
                           ELSE IF blockedCount = 0 THEN 0 ELSE blockedCount - 1
    BY <1>6, Zenon DEF Herdr!Blocked
  <2>2. prompts' \in Nat /\ blockedCount' = prompts'
    BY <2>1 DEF HerdrInv
  <2>3. QED
    BY <2>1, <2>2, PublishedIsNewest DEF HerdrInv
<1>7. CASE Herdr!Reload
  <2>1. /\ UNCHANGED <<running, prompts, reportSeq, queuedState, sending, late, herdr>>
        /\ load' = load + 1 /\ load < MaxLoads /\ root' = "no" /\ agentActive' = FALSE /\ blockedCount' = 0
        /\ lastState' = "none" /\ settled' = 0 /\ prompts = 0
    BY <1>7 DEF Herdr!Reload, Heard
  <2>2. load' \in Herdr!Instance
    BY <2>1 DEF HerdrInv, Herdr!Instance, Sizes
  <2>3. Reports' = Reports
    BY <2>1 DEF Reports
  <2>4. QED
    BY <2>1, <2>2, <2>3 DEF HerdrInv
<1>8. ASSUME NEW i \in Herdr!Instance, Herdr!Answered(i) PROVE HerdrInv'
  BY <1>8, AnsweredKeepsHerdr
<1>9. ASSUME NEW i \in Herdr!Instance, NEW written \in BOOLEAN, Herdr!Unanswered(i, written) PROVE HerdrInv'
  BY <1>9, UnansweredKeepsHerdr
<1>10. ASSUME NEW report \in late, Herdr!HerdrReads(report) PROVE HerdrInv'
  BY <1>10, ReadKeepsHerdr
<1>11. CASE UNCHANGED herdrVars
  BY <1>11 DEF herdrVars, HerdrInv, Reports, Newest
<1>12. QED
  BY <1>1, <1>2, <1>3, <1>4, <1>5, <1>6, <1>7, <1>8, <1>9, <1>10, <1>11 DEF Herdr!AgentNext

\* When nothing is under way any more herdr shows what pi does, however the
\* events, the attempts and the reports of an old instance were interleaved
\* (herdr-agent-state.ts drainStateQueue).
THEOREM HerdrShowsTheAgent == ASSUME Heard PROVE ReportsSpec => []StateIsReported
<1>0. Sizes
  BY ReportSizesAssumption DEF Sizes, Herdr!Instance
<1>1. ReportsInit => HerdrInv
  BY <1>0, HerdrInvInit DEF ReportsInit
<1>2. ASSUME HerdrInv,
             [ReportsNext]_<<focus, vars, entries, herdrVars, lineVars, routeVars, titleVars>>
      PROVE  HerdrInv'
  <2>1. [Herdr!AgentNext]_herdrVars
    BY <1>2 DEF ReportsNext
  <2>2. QED
    BY <1>0, <1>2, <2>1, HerdrInvNext
<1>3. HerdrInv => StateIsReported
  BY HerdrIsRight DEF StateIsReported
<1>4. QED
  BY <1>1, <1>2, <1>3, PTL DEF ReportsSpec

============================================================================
