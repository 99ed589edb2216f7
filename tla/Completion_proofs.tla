-------------------------- MODULE Completion_proofs -------------------------
(***************************************************************************)
(* Theorems of Completion for any number of subagents, calls, batches and  *)
(* results, across restarts: the types, the queue of sends, that no        *)
(* completion is reported twice, what watchers and early buffers may hold, *)
(* that the durable arm is the one asked for last, and that a call which   *)
(* returned is watched.                                                    *)
(***************************************************************************)
EXTENDS Completion, Manager_proofs

Stage == {"queued", "started", "armed", "written", "reached",
          "returned", "rollback", "done", "failed"}

Ended == {"done", "failed"}

Live(c) == call[c] # None /\ call[c].stage \notin Ended

\* The variables that the manager and the wire do not depend on.
WorldTyped ==
    /\ direct \subseteq Name
    /\ entry \in [Name -> {"none", "reserved", "active"}]
    /\ durable \in [Name -> Arm \cup {None}]
    /\ subagent \in [Name -> [running : BOOLEAN, arm : Arm \cup {None}]]
    /\ typed \in [Name -> Seq(Arm)]
    /\ turn \in [Name -> SUBSET Arm]
    /\ answers \in [1..MaxResult -> SUBSET Arm]
    /\ latest \in [Name -> Arm \cup {None}]
    /\ waived \subseteq Arm
    /\ clock \in 0..MaxTime
    /\ nextId \in 0..MaxResult

\* A send that has left the queue's tail: only the first one runs.
InFlight(c) == IsPendingSend(c) /\ call[c].stage # "queued"

Lined ==
    /\ call \in [Arm -> Call \cup {None}]
    /\ sendQueue \in Seq(Arm)
    /\ \A c \in Arm : InQueue(c) <=> IsPendingSend(c)
    /\ \A c \in Arm : InFlight(c) => Running(c)
    /\ \A i, j \in DOMAIN sendQueue : sendQueue[i] = sendQueue[j] => i = j

\* What has been known since the session began at time t.
Session(t) ==
    /\ ResultsOf(results, 0..nextId)
    /\ \A r \in results : r.at <= clock
    /\ Sound(mgr, results, t, 0..nextId)
    /\ outbox \subseteq results
    /\ transit \subseteq [result : results, arrived : BOOLEAN]
    /\ \A c \in Arm : Live(c) => call[c].since \in t..clock

\* The inductive invariant.  When the session began is not a variable of
\* Completion: some time serves.
Inv == WorldTyped /\ Lined /\ \E t \in 0..clock : Session(t)

\* The invariant has the types.
LEMMA InvTypes == Inv => TypeOK
<1> SUFFICES ASSUME Inv PROVE TypeOK
  OBVIOUS
<1>1. PICK t \in 0..clock : Session(t)
  BY DEF Inv
<1>2. mgr \in Manager /\ results \subseteq Result /\ outbox \subseteq Result
  BY <1>1 DEF Session, Sound, Clean, ResultsOf
<1>3. transit \subseteq [result : Result, arrived : BOOLEAN]
  BY <1>1, <1>2 DEF Session
<1>4. QED
  BY <1>2, <1>3 DEF Inv, WorldTyped, Lined, TypeOK

----------------------------------------------------------------------------
(* The calls and the queue of sends.                                       *)

LEMMA AppendFacts ==
    ASSUME NEW S, NEW q \in Seq(S), NEW e \in S
    PROVE  /\ Append(q, e) \in Seq(S)
           /\ Len(q) \in Nat /\ DOMAIN q = 1..Len(q)
           /\ DOMAIN Append(q, e) = 1..(Len(q) + 1)
           /\ \A i \in 1..Len(q) : Append(q, e)[i] = q[i]
           /\ Append(q, e)[Len(q) + 1] = e
  OBVIOUS

LEMMA TailFacts ==
    ASSUME NEW S, NEW q \in Seq(S), q # << >>
    PROVE  /\ Tail(q) \in Seq(S)
           /\ Len(q) \in Nat \ {0} /\ DOMAIN q = 1..Len(q)
           /\ DOMAIN Tail(q) = 1..(Len(q) - 1)
           /\ \A i \in 1..(Len(q) - 1) : Tail(q)[i] = q[i + 1]
           /\ Head(q) = q[1]
  OBVIOUS

\* What stays of a sequence when its first n elements are taken.
LEMMA RestFacts ==
    ASSUME NEW S, NEW q \in Seq(S), NEW n \in 1..Len(q)
    PROVE  LET w == SubSeq(q, n + 1, Len(q))
           IN  /\ w \in Seq(S)
               /\ Len(q) \in Nat /\ DOMAIN q = 1..Len(q)
               /\ DOMAIN w = 1..(Len(q) - n)
               /\ \A i \in DOMAIN w : w[i] = q[i + n]
  OBVIOUS

\* A new send is appended.
LEMMA NewSendLined ==
    ASSUME Lined, NEW c \in Arm, call[c] = None, NEW x \in Call,
           x.kind = "send", x.stage = "queued",
           call' = [call EXCEPT ![c] = x], sendQueue' = Append(sendQueue, c)
    PROVE  Lined'
<1>1. /\ sendQueue' \in Seq(Arm)
      /\ Len(sendQueue) \in Nat /\ DOMAIN sendQueue = 1..Len(sendQueue)
      /\ DOMAIN sendQueue' = 1..(Len(sendQueue) + 1)
      /\ \A i \in 1..Len(sendQueue) : sendQueue'[i] = sendQueue[i]
      /\ sendQueue'[Len(sendQueue) + 1] = c
  BY AppendFacts DEF Lined
<1>2. \A d \in Arm : call'[d] = IF d = c THEN x ELSE call[d]
  BY DEF Lined
<1>3. call' \in [Arm -> Call \cup {None}]
  BY DEF Lined
<1>4. ~IsPendingSend(c) /\ ~InQueue(c) /\ x # None
  BY CallsAssumption DEF Lined, IsPendingSend
<1>5. \A d \in Arm : InQueue(d)' <=> InQueue(d) \/ d = c
  BY <1>1 DEF InQueue
<1>6. \A d \in Arm : IsPendingSend(d)' <=> IsPendingSend(d) \/ d = c
  BY <1>2, <1>4 DEF IsPendingSend
<1>7. \A i, j \in DOMAIN sendQueue' : sendQueue'[i] = sendQueue'[j] => i = j
  BY <1>1, <1>4 DEF Lined, InQueue
<1>8. \A d \in Arm : InFlight(d)' => InFlight(d) /\ d # c
  BY <1>2, <1>6 DEF InFlight
<1>9. \A d \in Arm : Running(d) => Running(d)'
  <2> SUFFICES ASSUME NEW d \in Arm, Running(d) PROVE Running(d)'
    OBVIOUS
  <2>1. Len(sendQueue) > 0 /\ sendQueue[1] = d
    BY <1>1 DEF Running, Lined
  <2>2. sendQueue'[1] = d /\ sendQueue' # << >>
    BY <1>1, <2>1
  <2>3. QED
    BY <1>1, <2>2 DEF Running
<1>10. QED
  BY <1>1, <1>3, <1>5, <1>6, <1>7, <1>8, <1>9 DEF Lined

\* A call is replaced by one of the same kind that has moved on.
LEMMA MoveLined ==
    ASSUME Lined, NEW c \in Arm, NEW x \in Call, sendQueue' = sendQueue,
           call' = [call EXCEPT ![c] = x],
           \/ x.kind = "spawn" /\ (call[c] # None => call[c].kind = "spawn")
           \/ /\ x.kind = "send" /\ IsPendingSend(c) /\ x.stage \notin Ended
              /\ InFlight(c) \/ Running(c)
    PROVE  Lined'
<1>1. \A d \in Arm : call'[d] = IF d = c THEN x ELSE call[d]
  BY DEF Lined
<1>2. call' \in [Arm -> Call \cup {None}]
  BY DEF Lined
<1>3. \A d \in Arm : IsPendingSend(d)' <=> IsPendingSend(d)
  BY <1>1, CallsAssumption DEF IsPendingSend, Ended
<1>4. \A d \in Arm : InFlight(d)' => InFlight(d) \/ Running(d)
  BY <1>1, <1>3 DEF InFlight, IsPendingSend
<1>5. \A d \in Arm : (InQueue(d)' <=> InQueue(d)) /\ (Running(d)' <=> Running(d))
  BY DEF InQueue, Running
<1>6. QED
  BY <1>2, <1>3, <1>4, <1>5 DEF Lined

\* The first send of the queue ends.
LEMMA DequeueLined ==
    ASSUME Lined, NEW c \in Arm, NEW x \in Call, sendQueue' = Tail(sendQueue),
           call' = [call EXCEPT ![c] = x],
           x.kind = "send", x.stage \in Ended, IsPendingSend(c), Running(c)
    PROVE  Lined'
<1>1. /\ sendQueue' \in Seq(Arm)
      /\ Len(sendQueue) \in Nat \ {0} /\ DOMAIN sendQueue = 1..Len(sendQueue)
      /\ DOMAIN sendQueue' = 1..(Len(sendQueue) - 1)
      /\ \A i \in 1..(Len(sendQueue) - 1) : sendQueue'[i] = sendQueue[i + 1]
      /\ sendQueue[1] = c
  BY TailFacts DEF Lined, Running
<1>2. \A d \in Arm : call'[d] = IF d = c THEN x ELSE call[d]
  BY DEF Lined
<1>3. call' \in [Arm -> Call \cup {None}]
  BY DEF Lined
<1>4. \A d \in Arm : IsPendingSend(d)' <=> IsPendingSend(d) /\ d # c
  BY <1>2 DEF IsPendingSend, Ended
<1>5. \A d \in Arm : InQueue(d)' <=> InQueue(d) /\ d # c
  <2> SUFFICES ASSUME NEW d \in Arm PROVE InQueue(d)' <=> InQueue(d) /\ d # c
    OBVIOUS
  <2>1. ASSUME InQueue(d)' PROVE InQueue(d) /\ d # c
    <3>1. PICK i \in 1..(Len(sendQueue) - 1) : sendQueue[i + 1] = d
      BY <1>1, <2>1 DEF InQueue
    <3>2. i + 1 \in DOMAIN sendQueue /\ 1 \in DOMAIN sendQueue /\ i + 1 # 1
      BY <1>1
    <3>3. QED
      BY <1>1, <3>1, <3>2 DEF Lined, InQueue
  <2>2. ASSUME InQueue(d), d # c PROVE InQueue(d)'
    <3>1. PICK i \in 1..Len(sendQueue) : sendQueue[i] = d
      BY <1>1, <2>2 DEF InQueue
    <3>2. i - 1 \in DOMAIN sendQueue' /\ sendQueue'[i - 1] = d
      BY <1>1, <2>2, <3>1
    <3>3. QED
      BY <3>2 DEF InQueue
  <2>3. QED
    BY <2>1, <2>2
<1>6. \A d \in Arm : ~InFlight(d)'
  BY <1>1, <1>2, <1>4 DEF Lined, InFlight, Running
<1>7. \A i, j \in DOMAIN sendQueue' : sendQueue'[i] = sendQueue'[j] => i = j
  <2> SUFFICES ASSUME NEW i \in DOMAIN sendQueue', NEW j \in DOMAIN sendQueue',
                      sendQueue'[i] = sendQueue'[j]
               PROVE  i = j
    OBVIOUS
  <2>1. i + 1 \in DOMAIN sendQueue /\ j + 1 \in DOMAIN sendQueue
        /\ sendQueue[i + 1] = sendQueue[j + 1]
    BY <1>1
  <2>2. i + 1 = j + 1
    BY <2>1 DEF Lined
  <2>3. QED
    BY <2>2, <1>1
<1>8. QED
  BY <1>1, <1>3, <1>4, <1>5, <1>6, <1>7 DEF Lined

\* A restart ends every call.
LEMMA RestartLined == ASSUME Lined, Restart PROVE Lined'
<1>1. /\ sendQueue' = << >>
      /\ \A c \in Arm : call'[c] = IF call[c] = None THEN None
                                   ELSE [call[c] EXCEPT !.stage = "failed"]
      /\ call' = [c \in Arm |-> IF call[c] = None THEN None
                                   ELSE [call[c] EXCEPT !.stage = "failed"]]
  BY DEF Restart
<1>2. \A x \in Call : [x EXCEPT !.stage = "failed"] \in Call
                      /\ [x EXCEPT !.stage = "failed"].stage = "failed"
  BY DEF Call
<1>3. call' \in [Arm -> Call \cup {None}]
  BY <1>1, <1>2 DEF Lined
<1>4. \A c \in Arm : ~IsPendingSend(c)'
  BY <1>1, <1>2 DEF Lined, IsPendingSend
<1>5. \A c \in Arm : ~InQueue(c)'
  BY <1>1 DEF InQueue
<1>6. QED
  BY <1>1, <1>3, <1>4, <1>5 DEF Lined, InFlight

\* Every live call was live before, or starts now.
Aging ==
    \A c \in Arm : Live(c)' =>
        \/ Live(c) /\ call'[c].since = call[c].since
        \/ call'[c].since = clock

\* Only the stage of a call changes when it goes on.
LEMMA GotoFacts ==
    ASSUME Lined, NEW c \in Arm, call[c] # None, NEW s \in Stage, Goto(c, s)
    PROVE  /\ call[c] \in Call
           /\ \E x \in Call :
                 /\ call' = [call EXCEPT ![c] = x]
                 /\ x.kind = call[c].kind /\ x.name = call[c].name
                 /\ x.notify = call[c].notify /\ x.since = call[c].since
                 /\ x.prev = call[c].prev /\ x.provisional = call[c].provisional
                 /\ x.stage = s
<1> DEFINE x == [call[c] EXCEPT !.stage = s]
<1>1. call[c] \in Call
  BY DEF Lined
<1>2. /\ x \in Call
      /\ x.kind = call[c].kind /\ x.name = call[c].name
      /\ x.notify = call[c].notify /\ x.since = call[c].since
      /\ x.prev = call[c].prev /\ x.provisional = call[c].provisional
      /\ x.stage = s
  BY <1>1 DEF Call, Stage
<1>3. call' = [call EXCEPT ![c] = x]
  BY Zenon DEF Goto
<1> HIDE DEF x
<1>4. QED
  BY <1>1, <1>2, <1>3

\* A call that goes on and stays in its place.
LEMMA GotoStep ==
    ASSUME Lined, NEW c \in Arm, Live(c), NEW s \in Stage, Goto(c, s), sendQueue' = sendQueue,
           \/ call[c].kind = "spawn"
           \/ call[c].kind = "send" /\ s \notin Ended /\ (call[c].stage # "queued" \/ Running(c))
    PROVE  Lined' /\ Aging
<1>1. PICK x \in Call :
          /\ call' = [call EXCEPT ![c] = x]
          /\ x.kind = call[c].kind /\ x.since = call[c].since /\ x.stage = s
  BY GotoFacts DEF Live
<1>2. call[c].kind = "send" => IsPendingSend(c)
  BY DEF Live, IsPendingSend, Ended
<1>3. Lined'
  BY <1>1, <1>2, MoveLined DEF InFlight
<1>4. Aging
  BY <1>1 DEF Aging, Live, Lined
<1>5. QED
  BY <1>3, <1>4

\* A send that ends, and leaves the queue.
LEMMA DequeueStep ==
    ASSUME Lined, NEW c \in Arm, Live(c), NEW s \in Ended, Dequeue(c, s),
           call[c].kind = "send", call[c].stage # "queued" \/ Running(c)
    PROVE  Lined' /\ Aging
<1>1. PICK x \in Call :
          /\ call' = [call EXCEPT ![c] = x]
          /\ x.kind = call[c].kind /\ x.since = call[c].since /\ x.stage = s
  BY GotoFacts DEF Live, Dequeue, Stage, Ended
<1>2. IsPendingSend(c) /\ Running(c)
  BY DEF Live, IsPendingSend, Ended, Lined, InFlight
<1>3. Lined'
  BY <1>1, <1>2, DequeueLined DEF Dequeue
<1>4. Aging
  BY <1>1 DEF Aging, Live, Lined
<1>5. QED
  BY <1>3, <1>4

----------------------------------------------------------------------------
(* The session.                                                            *)

\* A step that keeps the wire, and the manager sound, keeps the invariant.
LEMMA ManagerStep ==
    ASSUME Inv, WorldTyped', Lined', Aging, UNCHANGED <<wire, clock>>,
           \A t \in 0..clock : Session(t) => Sound(mgr', results, t, 0..nextId)
    PROVE  Inv'
<1>1. PICK t \in 0..clock : Session(t)
  BY DEF Inv
<1>2. \A c \in Arm : Live(c)' => call'[c].since \in t..clock
  BY <1>1, BoundsAssumption DEF Aging, Session, Inv, WorldTyped
<1>3. Session(t)'
  BY <1>1, <1>2 DEF Session, wire, pane
<1>4. QED
  BY <1>3 DEF Inv

\* A step that does not call the manager.
LEMMA QuietStep ==
    ASSUME Inv, WorldTyped', Lined', Aging, UNCHANGED <<mgr, wire, clock>>
    PROVE  Inv'
<1>1. \A t \in 0..clock : Session(t) => Sound(mgr', results, t, 0..nextId)
  BY DEF Session
<1>2. QED
  BY <1>1, ManagerStep

\* A step that is no step of a call.
LEMMA SameCalls ==
    ASSUME Lined, UNCHANGED <<call, sendQueue>>
    PROVE  Lined' /\ Aging
  BY DEF Lined, Aging, InQueue, IsPendingSend, InFlight, Running, Live

\* What the lemmas of Manager_proofs assume of a state.
LEMMA SessionFacts ==
    ASSUME Inv, NEW t \in 0..clock, Session(t)
    PROVE  /\ ResultsOf(results, 0..nextId)
           /\ t \in Nat /\ clock \in Nat /\ nextId \in Nat
           /\ Sound(mgr, results, t, 0..nextId)
           /\ mgr \in Manager
  BY BoundsAssumption DEF Inv, WorldTyped, Session, Sound, Clean

\* The type of a call.
LEMMA CallFacts ==
    ASSUME Inv, NEW c \in Arm, call[c] # None
    PROVE  call[c] \in Call /\ call[c].name \in Name /\ call[c].notify \in BOOLEAN
           /\ call[c].kind \in {"spawn", "send"} /\ call[c].prev \in Arm \cup {None}
           /\ call[c].stage \in Stage
  BY DEF Inv, Lined, Call, Stage

----------------------------------------------------------------------------
(* Spawn.                                                                  *)

LEMMA NewCallFacts ==
    ASSUME Inv, NEW kind \in {"spawn", "send"}, NEW k \in Name, NEW notify \in BOOLEAN
    PROVE  LET x == NewCall(kind, k, notify, "queued")
           IN  /\ x \in Call /\ x.kind = kind /\ x.name = k /\ x.notify = notify
               /\ x.since = clock /\ x.stage = "queued" /\ x.prev = None
  BY BoundsAssumption DEF NewCall, Call, Inv, WorldTyped

LEMMA StartSpawnStep ==
    ASSUME Inv, NEW c \in Arm, NEW k \in Name, NEW notify \in BOOLEAN, StartSpawn(c, k, notify)
    PROVE  Inv'
<1> DEFINE x == NewCall("spawn", k, notify, "queued")
<1>1. /\ x \in Call /\ x.kind = "spawn" /\ x.since = clock
      /\ call[c] = None /\ call' = [call EXCEPT ![c] = x]
      /\ UNCHANGED <<direct, sendQueue, world, wire, history, clock>>
  BY NewCallFacts DEF StartSpawn
<1> HIDE DEF x
<1>2. Lined'
  BY <1>1, MoveLined DEF Inv
<1>3. Aging
  BY <1>1 DEF Aging, Live, Inv, Lined
<1>4. WorldTyped'
  BY <1>1 DEF Inv, WorldTyped, world, pane, wire, history
<1>5. ASSUME NEW t \in 0..clock, Session(t)
      PROVE  Sound(mgr', results, t, 0..nextId)
  <2>1. Sound(BeginMember(mgr, k), results, t, 0..nextId)
    BY <1>5, SessionFacts, AddKeyToBatchQuiet DEF StartSpawn, BeginMember, Quiet
  <2>2. QED
    BY <1>5, <2>1, SessionFacts DEF StartSpawn
<1>6. QED
  BY <1>1, <1>2, <1>3, <1>4, <1>5, ManagerStep

LEMMA ReserveNameStep == ASSUME Inv, NEW c \in Arm, ReserveName(c) PROVE Inv'
<1>1. Live(c) /\ call[c].kind = "spawn" /\ call[c].name \in Name /\ call[c] # None
  BY CallFacts DEF ReserveName, At, Live, Ended
<1>2. Lined' /\ Aging
  BY <1>1, GotoStep DEF ReserveName, Inv, Stage
<1>3. WorldTyped'
  BY <1>1 DEF ReserveName, Inv, WorldTyped, wire, pane, history, manager
<1>4. QED
  BY <1>2, <1>3, QuietStep DEF ReserveName, manager

LEMMA WriteSpawnArmStep == ASSUME Inv, NEW c \in Arm, WriteSpawnArm(c) PROVE Inv'
<1>1. Live(c) /\ call[c].kind = "spawn" /\ call[c].name \in Name /\ call[c] # None
  BY CallFacts DEF WriteSpawnArm, At, Live, Ended
<1>2. Lined' /\ Aging
  BY <1>1, GotoStep DEF WriteSpawnArm, Inv, Stage
<1>3. WorldTyped'
  BY <1>1 DEF WriteSpawnArm, Inv, WorldTyped, wire, pane, manager
<1>4. QED
  BY <1>2, <1>3, QuietStep DEF WriteSpawnArm, manager

LEMMA LaunchPaneStep == ASSUME Inv, NEW c \in Arm, LaunchPane(c) PROVE Inv'
<1>1. Live(c) /\ call[c].kind = "spawn" /\ call[c].name \in Name /\ call[c] # None
  BY CallFacts DEF LaunchPane, At, Live, Ended
<1>2. Lined' /\ Aging
  BY <1>1, GotoStep DEF LaunchPane, Inv, Stage
<1>3. WorldTyped'
  BY <1>1, AppendFacts DEF LaunchPane, TypeInput, Inv, WorldTyped, wire, history, manager
<1>4. QED
  BY <1>2, <1>3, QuietStep DEF LaunchPane, manager

LEMMA FinalizeEntryStep == ASSUME Inv, NEW c \in Arm, FinalizeEntry(c) PROVE Inv'
<1>1. Live(c) /\ call[c].kind = "spawn" /\ call[c].name \in Name /\ call[c] # None
  BY CallFacts DEF FinalizeEntry, At, Live, Ended
<1>2. Lined' /\ Aging
  BY <1>1, GotoStep DEF FinalizeEntry, Inv, Stage
<1>3. WorldTyped'
  BY <1>1 DEF FinalizeEntry, Inv, WorldTyped, wire, pane, history, manager
<1>4. QED
  BY <1>2, <1>3, QuietStep DEF FinalizeEntry, manager

\* The watcher of a call is armed from the time the call began.
LEMMA ArmCallSound ==
    ASSUME Inv, NEW t \in 0..clock, Session(t), NEW c \in Arm, Live(c), MayOpenBatch(mgr)
    PROVE  Sound(ArmWatcher(mgr, call[c].name, call[c].since, {c}, "rpc"), results, t, 0..nextId)
<1>1. call[c].since \in t..clock /\ call[c].name \in Name
  BY CallFacts DEF Session, Live
<1>2. call[c].since \in Nat /\ call[c].since >= t /\ {c} \in SUBSET Arm
  BY <1>1, SessionFacts
<1>3. QED
  BY <1>1, <1>2, SessionFacts, ArmWatcherSound

LEMMA ReconcileSpawnStep == ASSUME Inv, NEW c \in Arm, ReconcileSpawn(c) PROVE Inv'
<1>1. Live(c) /\ call[c].kind = "spawn" /\ call[c].name \in Name /\ call[c] # None
  BY CallFacts DEF ReconcileSpawn, At, Live, Ended
<1>2. Lined' /\ Aging
  BY <1>1, GotoStep DEF ReconcileSpawn, Inv, Stage
<1>3. WorldTyped'
  BY <1>1 DEF ReconcileSpawn, Underway, CallsOn, Inv, WorldTyped, world, pane, wire
<1>4. \A t \in 0..clock : Session(t) => Sound(mgr', results, t, 0..nextId)
  BY <1>1, ArmCallSound, SessionFacts DEF ReconcileSpawn
<1>5. QED
  BY <1>2, <1>3, <1>4, ManagerStep DEF ReconcileSpawn

\* A pane that has ended.
LEMMA EndPaneFacts ==
    ASSUME WorldTyped, NEW k \in Name, EndPane(k)
    PROVE  /\ subagent' \in [Name -> [running : BOOLEAN, arm : Arm \cup {None}]]
           /\ typed' \in [Name -> Seq(Arm)]
           /\ turn' \in [Name -> SUBSET Arm]
<1>1. subagent' \in [Name -> [running : BOOLEAN, arm : Arm \cup {None}]]
  BY DEF EndPane, WorldTyped
<1>2. << >> \in Seq(Arm)
  OBVIOUS
<1>3. typed' \in [Name -> Seq(Arm)]
  BY <1>2 DEF EndPane, WorldTyped
<1>4. turn' \in [Name -> SUBSET Arm]
  BY DEF EndPane, WorldTyped
<1>5. QED
  BY <1>1, <1>3, <1>4

LEMMA FailSpawnStep == ASSUME Inv, NEW c \in Arm, FailSpawn(c) PROVE Inv'
<1>1. Live(c) /\ call[c].kind = "spawn" /\ call[c].name \in Name /\ call[c] # None
  BY CallFacts DEF FailSpawn, At, Live, Ended
<1>2. Lined' /\ Aging
  BY <1>1, GotoStep DEF FailSpawn, Inv, Stage
<1>3. WorldTyped'
  <2>1. /\ UNCHANGED <<direct, sendQueue, durable, wire, latest, clock>>
        /\ waived' = waived \cup {c}
        /\ entry' = entry \/ entry' = [entry EXCEPT ![call[c].name] = "none"]
        /\ EndPane(call[c].name) \/ UNCHANGED pane
    BY DEF FailSpawn
  <2>2. CASE UNCHANGED pane
    BY <1>1, <2>1, <2>2 DEF Inv, WorldTyped, wire, pane
  <2>3. CASE EndPane(call[c].name)
    BY <1>1, <2>1, <2>3, EndPaneFacts DEF Inv, WorldTyped, wire
  <2>4. QED
    BY <2>1, <2>2, <2>3
<1>4. \A t \in 0..clock : Session(t) => Sound(mgr', results, t, 0..nextId)
  BY <1>1, ReleaseMemberQuiet, SessionFacts DEF FailSpawn, Quiet
<1>5. QED
  BY <1>2, <1>3, <1>4, ManagerStep DEF FailSpawn

----------------------------------------------------------------------------
(* Send.                                                                   *)

LEMMA StartSendStep ==
    ASSUME Inv, NEW c \in Arm, NEW k \in Name, NEW notify \in BOOLEAN, StartSend(c, k, notify)
    PROVE  Inv'
<1> DEFINE x == NewCall("send", k, notify, "queued")
<1>1. /\ x \in Call /\ x.kind = "send" /\ x.since = clock /\ x.stage = "queued"
      /\ call[c] = None /\ call' = [call EXCEPT ![c] = x]
      /\ sendQueue' = Append(sendQueue, c)
      /\ UNCHANGED <<manager, world, wire, history, clock>>
  BY NewCallFacts DEF StartSend
<1> HIDE DEF x
<1>2. Lined'
  BY <1>1, NewSendLined DEF Inv
<1>3. Aging
  BY <1>1 DEF Aging, Live, Inv, Lined
<1>4. WorldTyped'
  BY <1>1 DEF Inv, WorldTyped, world, pane, wire, history, manager
<1>5. QED
  BY <1>1, <1>2, <1>3, <1>4, QuietStep DEF manager

\* With notify, a prepared send has saved the arm it will replace.
LEMMA PrepareSendFacts ==
    ASSUME Lined, WorldTyped, NEW c \in Arm, PrepareSend(c), call[c].name \in Name
    PROVE  \E x \in Call :
               /\ call' = [call EXCEPT ![c] = x]
               /\ x.kind = "send" /\ x.name = call[c].name
               /\ x.notify = call[c].notify /\ x.since = call[c].since
               /\ x.stage = IF call[c].notify THEN "armed" ELSE "written"
               /\ x.prev = IF call[c].notify THEN durable[call[c].name] ELSE call[c].prev
<1> DEFINE k == call[c].name
           provisional == mgr.watchers[k] = None /\ k \in direct
<1>1. call[c] \in Call /\ call[c] # None /\ call[c].kind = "send" /\ c \in DOMAIN call
  BY DEF PrepareSend, At, Lined
<1>2. CASE ~call[c].notify
  <2>1. Goto(c, "written")
    BY <1>2 DEF PrepareSend
  <2>2. QED
    BY <1>1, <1>2, <2>1, GotoFacts DEF Stage
<1>3. CASE call[c].notify
  <2> DEFINE x == [call[c] EXCEPT !.stage = "armed", !.prev = durable[k],
                                  !.provisional = provisional]
  <2>1. durable[k] \in Arm \cup {None}
    BY DEF WorldTyped
  <2>2. /\ x \in Call /\ x.kind = "send" /\ x.name = call[c].name
        /\ x.notify = call[c].notify /\ x.since = call[c].since
        /\ x.stage = "armed" /\ x.prev = durable[k]
    BY <1>1, <2>1 DEF Call
  <2>3. call' = [call EXCEPT ![c].stage = "armed", ![c].prev = durable[k],
                             ![c].provisional = provisional]
    BY <1>3, Zenon DEF PrepareSend
  <2>4. call' = [call EXCEPT ![c] = x]
    BY <1>1, <2>3
  <2> HIDE DEF x
  <2>5. QED
    BY <1>3, <2>2, <2>4
<1>4. QED
  BY <1>2, <1>3

LEMMA PrepareSendStep == ASSUME Inv, NEW c \in Arm, PrepareSend(c) PROVE Inv'
<1> DEFINE k == call[c].name
<1>1. /\ Live(c) /\ call[c].kind = "send" /\ k \in Name /\ call[c] # None
      /\ call[c].stage = "queued" /\ Running(c)
  BY CallFacts DEF PrepareSend, At, Live, Ended
<1>2. WorldTyped'
  BY DEF PrepareSend, Inv, WorldTyped, world, pane, wire, history
<1>3. PICK x \in Call :
          /\ call' = [call EXCEPT ![c] = x]
          /\ x.kind = "send" /\ x.since = call[c].since
          /\ x.stage = IF call[c].notify THEN "armed" ELSE "written"
  BY <1>1, PrepareSendFacts DEF Inv
<1>4. Lined'
  BY <1>1, <1>3, MoveLined DEF Inv, IsPendingSend, Ended, PrepareSend
<1>5. Aging
  BY <1>1, <1>3 DEF Aging, Live, Inv, Lined
<1>6. ASSUME NEW t \in 0..clock, Session(t)
      PROVE  Sound(mgr', results, t, 0..nextId)
  <2>1. MayOpenBatch(mgr) =>
            Sound(ArmWatcher(mgr, k, call[c].since, {c}, "rpc"), results, t, 0..nextId)
    BY <1>1, <1>6, ArmCallSound
  <2>2. Sound(AcceptArm(mgr, k, c), results, t, 0..nextId)
    BY <1>1, <1>6, SessionFacts, AcceptArmQuiet DEF Quiet
  <2>3. Sound(mgr, results, t, 0..nextId)
    BY <1>6, SessionFacts
  <2>4. QED
    BY <2>1, <2>2, <2>3 DEF PrepareSend
<1>7. QED
  BY <1>2, <1>4, <1>5, <1>6, ManagerStep DEF PrepareSend

LEMMA WriteSendArmStep == ASSUME Inv, NEW c \in Arm, WriteSendArm(c) PROVE Inv'
<1>1. Live(c) /\ call[c].kind = "send" /\ call[c].stage # "queued" /\ call[c].name \in Name
  BY CallFacts DEF WriteSendArm, At, Live, Ended
<1>2. Lined' /\ Aging
  BY <1>1, GotoStep DEF WriteSendArm, Inv, Stage, Ended
<1>3. WorldTyped'
  BY <1>1 DEF WriteSendArm, Inv, WorldTyped, wire, pane, history, manager
<1>4. QED
  BY <1>2, <1>3, QuietStep DEF WriteSendArm, manager

LEMMA SendInputStep == ASSUME Inv, NEW c \in Arm, SendInput(c) PROVE Inv'
<1>1. Live(c) /\ call[c].kind = "send" /\ call[c].stage # "queued" /\ call[c].name \in Name
  BY CallFacts DEF SendInput, At, Live, Ended
<1>2. Lined' /\ Aging
  BY <1>1, GotoStep DEF SendInput, Inv, Stage, Ended
<1>3. WorldTyped'
  BY <1>1, AppendFacts DEF SendInput, TypeInput, Underway, CallsOn, Inv, WorldTyped, wire, manager
<1>4. QED
  BY <1>2, <1>3, QuietStep DEF SendInput, manager

LEMMA SendReturnsStep == ASSUME Inv, NEW c \in Arm, SendReturns(c) PROVE Inv'
<1>1. Live(c) /\ call[c].kind = "send" /\ call[c].stage # "queued" /\ call[c].name \in Name
  BY CallFacts DEF SendReturns, At, Live, Ended
<1>2. Lined' /\ Aging
  BY <1>1, GotoStep DEF SendReturns, Inv, Stage, Ended
<1>3. WorldTyped'
  BY <1>1 DEF SendReturns, Inv, WorldTyped, world, pane, wire, manager
<1>4. QED
  BY <1>2, <1>3, QuietStep DEF SendReturns, manager

LEMMA ReconcileSendStep == ASSUME Inv, NEW c \in Arm, ReconcileSend(c) PROVE Inv'
<1>1. Live(c) /\ call[c].kind = "send" /\ call[c].stage # "queued" /\ call[c].name \in Name
  BY CallFacts DEF ReconcileSend, At, Live, Ended
<1>2. Lined' /\ Aging
  BY <1>1, DequeueStep DEF ReconcileSend, Inv, Ended
<1>3. waived' \subseteq Arm
  BY DEF ReconcileSend, Waive, Underway, CallsOn, Inv, WorldTyped
<1>4. WorldTyped'
  BY <1>3 DEF ReconcileSend, Inv, WorldTyped, world, pane, wire
<1>5. ASSUME NEW t \in 0..clock, Session(t)
      PROVE  Sound(mgr', results, t, 0..nextId)
  <2>1. Sound(Cancel(mgr, call[c].name, FALSE), results, t, 0..nextId)
    BY <1>1, <1>5, CancelQuiet, SessionFacts DEF Quiet
  <2>2. MayOpenBatch(mgr) =>
            Sound(ArmWatcher(mgr, call[c].name, call[c].since, {c}, "rpc"), results, t, 0..nextId)
    BY <1>1, <1>5, ArmCallSound
  <2>3. Sound(mgr, results, t, 0..nextId)
    BY <1>5, SessionFacts
  <2>4. QED
    BY <2>1, <2>2, <2>3 DEF ReconcileSend, CancelPane
<1>6. QED
  BY <1>2, <1>4, <1>5, ManagerStep DEF ReconcileSend

LEMMA FailSendStep == ASSUME Inv, NEW c \in Arm, FailSend(c) PROVE Inv'
<1>1. Live(c) /\ call[c].kind = "send" /\ (call[c].stage # "queued" \/ Running(c))
  BY DEF FailSend, At, Live, Ended
<1>2. Lined' /\ Aging
  BY <1>1, DequeueStep DEF FailSend, Inv, Ended
<1>3. WorldTyped'
  BY DEF FailSend, Inv, WorldTyped, world, pane, wire, manager
<1>4. QED
  BY <1>2, <1>3, QuietStep DEF FailSend, manager

LEMMA InputFailsStep == ASSUME Inv, NEW c \in Arm, InputFails(c) PROVE Inv'
<1>1. Live(c) /\ call[c].kind = "send" /\ call[c].stage # "queued"
  BY DEF InputFails, At, Live, Ended
<1>2. Lined' /\ Aging
  BY <1>1, GotoStep DEF InputFails, Inv, Stage, Ended
<1>3. WorldTyped'
  BY DEF InputFails, Inv, WorldTyped, world, pane, wire, history, manager
<1>4. QED
  BY <1>2, <1>3, QuietStep DEF InputFails, manager

LEMMA RestoreArmStep == ASSUME Inv, NEW c \in Arm, RestoreArm(c) PROVE Inv'
<1>1. /\ Live(c) /\ call[c].kind = "send" /\ call[c].stage # "queued"
      /\ call[c].name \in Name /\ call[c].prev \in Arm \cup {None}
  BY CallFacts DEF RestoreArm, At, Live, Ended
<1>2. Lined' /\ Aging
  BY <1>1, DequeueStep DEF RestoreArm, Inv, Ended
<1>3. WorldTyped'
  BY <1>1 DEF RestoreArm, Inv, WorldTyped, wire, pane, manager
<1>4. QED
  BY <1>2, <1>3, QuietStep DEF RestoreArm, manager

LEMMA AbortSendStep == ASSUME Inv, NEW c \in Arm, AbortSend(c) PROVE Inv'
<1>1. /\ Live(c) /\ call[c].kind = "send" /\ (call[c].stage # "queued" \/ Running(c))
      /\ call[c].name \in Name
  BY CallFacts DEF AbortSend, At, Live, Ended
<1>2. Lined' /\ Aging
  BY <1>1, DequeueStep DEF AbortSend, Inv, Ended
<1>3. WorldTyped'
  BY <1>1 DEF AbortSend, Inv, WorldTyped, world, pane, wire, manager
<1>4. QED
  BY <1>2, <1>3, QuietStep DEF AbortSend, manager

----------------------------------------------------------------------------
(* Wait, close and restart.                                                *)

LEMMA CancelPaneSound ==
    ASSUME Inv, NEW k \in Name, CancelPane(k)
    PROVE  \A t \in 0..clock : Session(t) => Sound(mgr', results, t, 0..nextId)
  BY CancelQuiet, SessionFacts DEF CancelPane, Quiet

LEMMA WaitReturnsStep == ASSUME Inv, NEW k \in Name, WaitReturns(k) PROVE Inv'
<1>1. Lined' /\ Aging
  BY SameCalls DEF WaitReturns, Inv
<1>2. WorldTyped'
  BY DEF WaitReturns, Waive, Underway, CallsOn, Inv, WorldTyped, world, pane, wire
<1>3. QED
  BY <1>1, <1>2, CancelPaneSound, ManagerStep DEF WaitReturns

LEMMA ClosePaneStep == ASSUME Inv, NEW k \in Name, ClosePane(k) PROVE Inv'
<1>1. Lined' /\ Aging
  BY SameCalls DEF ClosePane, Inv
<1>2. WorldTyped'
  <2>1. waived' \subseteq Arm
    BY DEF ClosePane, Waive, Underway, CallsOn, Inv, WorldTyped
  <2>2. QED
    BY <2>1, EndPaneFacts DEF ClosePane, Inv, WorldTyped, wire
<1>3. QED
  BY <1>1, <1>2, CancelPaneSound, ManagerStep DEF ClosePane

\* A manager that has forgotten all but what it sent knows no result of a
\* session that begins later than each of them.
LEMMA CancelAllSound ==
    ASSUME NEW R, NEW t, NEW I, NEW m, Sound(m, R, t, I), NEW u, \A r \in R : ~(r.at >= u)
    PROVE  Sound(CancelAll(m), R, u, I)
<1> DEFINE n == CancelAll(m)
<1>1. DOMAIN EmptyManager = Fields /\ EmptyManager \in Manager
  BY DEF EmptyManager, Fields, Manager
<1>2. m.nextBatch \in Nat /\ m.sent \in Seq(Message)
  BY DEF Sound, Clean, Manager
<1>3. /\ n \in Manager
      /\ n.sent = m.sent
      /\ n.groups = EmptyManager.groups /\ n.early = EmptyManager.early
      /\ n.watchers = EmptyManager.watchers
  BY <1>1, <1>2 DEF CancelAll, Manager, Fields
<1>4. /\ \A g \in BatchId : n.groups[g] = None
      /\ \A k \in Name : n.early[k] = << >> /\ n.watchers[k] = None
  BY <1>3 DEF EmptyManager
<1> HIDE DEF n
<1>5. OpenGroups(n) = {}
  BY <1>4 DEF OpenGroups
<1>6. Clean(n) /\ KnownIds(n) \subseteq KnownIds(m)
  BY <1>3, <1>5, GroupsShrink DEF Sound
<1>7. << >> \in Seq(R) /\ Len(<< >>) <= PendingLimit
  BY PendingLimitAssumption
<1>8. \A k \in Name : n.early[k] \in Seq(R) /\ Len(n.early[k]) <= PendingLimit
  BY <1>4, <1>7
<1>9. KnownIds(n) \subseteq I
  BY <1>6 DEF Sound
<1>10. Sound(n, R, u, I)
  BY <1>4, <1>6, <1>8, <1>9 DEF Sound
<1>11. QED
  BY <1>10 DEF n

\* Results of the old session are older than the new one.
LEMMA RestartStep == ASSUME Inv, Restart PROVE Inv'
<1>1. PICK t \in 0..clock : Session(t)
  BY DEF Inv
<1>0. PICK u \in Nat : u = clock + 1
  BY <1>1, SessionFacts
<1>2. /\ mgr' = CancelAll(mgr) /\ clock' = u /\ clock < MaxTime
      /\ transit' = {} /\ UNCHANGED <<outbox, results, answers, nextId, pane>>
  BY <1>0 DEF Restart
<1>3. /\ ResultsOf(results, 0..nextId) /\ clock \in Nat
      /\ Sound(mgr, results, t, 0..nextId) /\ \A r \in results : r.at <= clock
  BY <1>1, SessionFacts DEF Session
<1>4. \A r \in results : r.at <= u /\ ~(r.at >= u)
  BY <1>0, <1>3 DEF ResultsOf, Result
<1>5. Sound(CancelAll(mgr), results, u, 0..nextId)
  BY <1>3, <1>4, CancelAllSound
<1>6. \A c \in Arm : ~Live(c)'
  <2>1. \A x \in Call : [x EXCEPT !.stage = "failed"].stage = "failed"
    BY DEF Call
  <2>2. QED
    BY <2>1 DEF Restart, Live, Ended, Inv, Lined
<1>7. Session(u)'
  <2>1. transit' \subseteq [result : results', arrived : BOOLEAN] /\ outbox' \subseteq results'
    BY <1>1, <1>2 DEF Session
  <2>2. QED
    BY <1>2, <1>3, <1>4, <1>5, <1>6, <2>1 DEF Session
<1>8. clock' \in 0..MaxTime /\ u \in 0..clock'
  BY <1>0, <1>2, <1>3, BoundsAssumption
<1>9. WorldTyped'
  BY <1>2, <1>8 DEF Restart, Inv, WorldTyped, pane
<1>10. Lined'
  BY RestartLined DEF Inv
<1>11. QED
  BY <1>7, <1>8, <1>9, <1>10 DEF Inv

----------------------------------------------------------------------------
(* The subagent's side and the pane watches.                               *)

LEMMA TakeInputStep ==
    ASSUME Inv, NEW k \in Name, NEW n \in 1..Len(typed[k]), TakeInput(k, n)
    PROVE  Inv'
<1>1. typed[k] \in Seq(Arm) /\ \A i \in 1..n : typed[k][i] \in Arm
  BY RestFacts DEF Inv, WorldTyped
<1>2. typed' = [typed EXCEPT ![k] = SubSeq(typed[k], n + 1, Len(typed[k]))]
      /\ SubSeq(typed[k], n + 1, Len(typed[k])) \in Seq(Arm)
  BY <1>1, RestFacts DEF TakeInput
<1>3. Lined' /\ Aging
  BY SameCalls DEF TakeInput, Inv
<1>4. WorldTyped'
  BY <1>1, <1>2 DEF TakeInput, Inv, WorldTyped, wire, history, manager
<1>5. QED
  BY <1>3, <1>4, QuietStep DEF TakeInput, manager

LEMMA StartRunStep == ASSUME Inv, NEW k \in Name, StartRun(k) PROVE Inv'
<1>1. Lined' /\ Aging
  BY SameCalls DEF StartRun, Inv
<1>2. WorldTyped'
  BY DEF StartRun, Inv, WorldTyped, wire, history, manager
<1>3. QED
  BY <1>1, <1>2, QuietStep DEF StartRun, manager

\* A subagent sends a result with a fresh completion id.
LEMMA SettleStep == ASSUME Inv, NEW k \in Name, Settle(k) PROVE Inv'
<1> DEFINE arm == IF subagent[k].arm = None THEN durable[k] ELSE subagent[k].arm
           r == [id |-> nextId + 1, name |-> k, arm |-> arm, at |-> clock, final |-> TRUE]
<1>1. PICK t \in 0..clock : Session(t)
  BY DEF Inv
<1>2. /\ subagent' = [subagent EXCEPT ![k] = [running |-> FALSE, arm |-> arm]]
      /\ outbox' = outbox \cup {r}
      /\ transit' = transit \cup {[result |-> r, arrived |-> FALSE]}
      /\ results' = results \cup {r}
      /\ answers' = [answers EXCEPT ![nextId + 1] = turn[k]]
      /\ turn' = [turn EXCEPT ![k] = {}]
      /\ nextId' = nextId + 1 /\ nextId < MaxResult
      /\ UNCHANGED <<manager, sendQueue, call, entry, durable, typed, history, clock>>
  BY DEF Settle
<1>3. arm \in Arm \cup {None}
  BY DEF Inv, WorldTyped
<1> HIDE DEF arm
<1>4. r \in Result /\ r.id = nextId + 1 /\ r.at = clock
  BY <1>1, <1>3, SessionFacts DEF Result
<1> HIDE DEF r
<1>5. Lined'
  BY <1>2, SameCalls DEF Inv
<1>6. nextId' \in 0..MaxResult
  BY <1>1, <1>2, SessionFacts, BoundsAssumption
<1>7. WorldTyped'
  <2>1. turn[k] \in SUBSET Arm /\ answers' \in [1..MaxResult -> SUBSET Arm]
    BY <1>2 DEF Inv, WorldTyped
  <2>2. QED
    BY <1>2, <1>3, <1>6, <2>1 DEF Inv, WorldTyped, manager, history
<1>8. ResultsOf(results', 0..nextId')
  BY <1>1, <1>2, <1>4, SessionFacts DEF ResultsOf
<1>9. \A s \in results' : s.at <= clock
  BY <1>1, <1>2, <1>4, SessionFacts DEF Session
<1>10. r.id \notin KnownIds(mgr)
  BY <1>1, <1>4, SessionFacts DEF Sound
<1>11. \A j \in Name : mgr.early[j] \in Seq(results')
  <2> SUFFICES ASSUME NEW j \in Name PROVE mgr.early[j] \in Seq(results')
    OBVIOUS
  <2>1. mgr.early[j] \in Seq(results) /\ results \subseteq results'
    BY <1>1, <1>2 DEF Session, Sound
  <2>2. QED
    BY <2>1, SeqMonotonic
<1>12. Sound(mgr, results', t, 0..nextId')
  <2>1. KnownIds(mgr) \subseteq 0..nextId'
    BY <1>1, <1>2, SessionFacts DEF Sound
  <2>2. QED
    BY <1>1, <1>2, <1>10, <1>11, <2>1 DEF Session, Sound
<1>13. /\ outbox' \subseteq results'
       /\ transit' \subseteq [result : results', arrived : BOOLEAN]
  <2>1. outbox \subseteq results /\ transit \subseteq [result : results, arrived : BOOLEAN]
    BY <1>1 DEF Session
  <2>2. results \subseteq results' /\ r \in results'
    BY <1>2
  <2>3. outbox' \subseteq results'
    BY <1>2, <2>1, <2>2
  <2>4. [result |-> r, arrived |-> FALSE] \in [result : results', arrived : BOOLEAN]
    BY <2>2
  <2>5. [result : results, arrived : BOOLEAN] \subseteq [result : results', arrived : BOOLEAN]
    BY <2>2
  <2>6. QED
    BY <1>2, <2>1, <2>3, <2>4, <2>5
<1>14. \A c \in Arm : Live(c)' => call[c].since \in t..clock
  BY <1>1, <1>2 DEF Session, Live
<1>15. Session(t)'
  BY <1>2, <1>8, <1>9, <1>12, <1>13, <1>14 DEF Session, manager
<1>16. QED
  BY <1>2, <1>5, <1>7, <1>15 DEF Inv

\* A step that keeps the calls, the results and the ids, and drops results
\* from the wire at most, keeps the invariant if it keeps the manager sound.
LEMMA WireStep ==
    ASSUME Inv, UNCHANGED <<direct, sendQueue, call, world, results, answers, nextId, history, clock>>,
           outbox' \subseteq outbox,
           transit' \subseteq [result : results, arrived : BOOLEAN],
           \A t \in 0..clock : Session(t) => Sound(mgr', results, t, 0..nextId)
    PROVE  Inv'
<1>1. PICK t \in 0..clock : Session(t)
  BY DEF Inv
<1>2. Lined'
  BY SameCalls DEF Inv
<1>3. WorldTyped'
  BY DEF Inv, WorldTyped, world, pane, history
<1>4. Session(t)'
  BY <1>1 DEF Session, Live
<1>5. QED
  BY <1>2, <1>3, <1>4 DEF Inv

\* The push of a result carries one that was sent.
LEMMA TransitFacts ==
    ASSUME Inv
    PROVE  /\ transit \subseteq [result : results, arrived : BOOLEAN]
           /\ outbox \subseteq results
  BY DEF Inv, Session

LEMMA PushArrivesStep == ASSUME Inv, NEW p \in transit, PushArrives(p) PROVE Inv'
<1>1. p.result \in results /\ [p EXCEPT !.arrived = TRUE] \in [result : results, arrived : BOOLEAN]
  BY TransitFacts
<1>2. transit' \subseteq [result : results, arrived : BOOLEAN]
  BY <1>1, TransitFacts DEF PushArrives
<1>3. \A t \in 0..clock : Session(t) => Sound(mgr', results, t, 0..nextId)
  BY <1>1, SessionFacts, ProcessExternalResultSound DEF PushArrives
<1>4. QED
  BY <1>2, <1>3, WireStep DEF PushArrives

LEMMA PushAcknowledgedStep == ASSUME Inv, NEW p \in transit, PushAcknowledged(p) PROVE Inv'
<1>1. \A t \in 0..clock : Session(t) => Sound(mgr', results, t, 0..nextId)
  BY SessionFacts DEF PushAcknowledged, manager
<1>2. QED
  BY <1>1, TransitFacts, WireStep DEF PushAcknowledged, manager

LEMMA PushTimesOutStep == ASSUME Inv, NEW p \in transit, PushTimesOut(p) PROVE Inv'
<1>1. \A t \in 0..clock : Session(t) => Sound(mgr', results, t, 0..nextId)
  BY SessionFacts DEF PushTimesOut, manager
<1>2. QED
  BY <1>1, TransitFacts, WireStep DEF PushTimesOut, manager

\* A watch may be resolved with a result that was sent, or with a status.
LEMMA SetFoundSound ==
    ASSUME NEW R, NEW t, NEW I, NEW m, Sound(m, R, t, I), ResultsOf(R, I), NEW k \in Name,
           m.watchers[k] # None, NEW found \in R \cup {Settled}
    PROVE  Sound(SetFound(m, k, found), R, t, I)
<1> DEFINE x == [m.watchers[k] EXCEPT !.found = found]
<1>1. m.watchers[k] \in Slot
  BY DEF Sound, Clean, Manager
<1>2. found \in Result \cup {Settled}
  BY DEF ResultsOf
<1>3. x \in Slot /\ x.since = m.watchers[k].since /\ x.found = found
  BY <1>1, <1>2 DEF Slot
<1>4. SetFound(m, k, found) = WithWatcher(m, k, x)
  BY DEF SetFound, WithWatcher
<1>5. x.since >= t /\ x.found \in R \cup {Settled, None}
  BY <1>1, <1>3 DEF Sound
<1> HIDE DEF x
<1>6. Quiet(m, WithWatcher(m, k, x), R, t, I)
  BY <1>3, <1>5, SetWatcher
<1>7. QED
  BY <1>4, <1>6 DEF Quiet

LEMMA WatchTakesStep == ASSUME Inv, NEW r \in outbox, WatchTakes(r) PROVE Inv'
<1>1. r \in results
  BY TransitFacts
<1>2. ASSUME NEW t \in 0..clock, Session(t)
      PROVE  Sound(mgr', results, t, 0..nextId)
  <2>1. r.name \in Name
    BY <1>1, <1>2, SessionFacts DEF ResultsOf, Result
  <2>2. Sound(SetFound(mgr, r.name, r), results, t, 0..nextId)
    BY <1>1, <1>2, <2>1, SessionFacts, SetFoundSound DEF WatchTakes
  <2>3. QED
    BY <1>2, <2>2, SessionFacts DEF WatchTakes
<1>3. QED
  BY <1>2, TransitFacts, WireStep DEF WatchTakes

LEMMA WatchSeesBlockedStep == ASSUME Inv, NEW k \in Name, WatchSeesBlocked(k) PROVE Inv'
<1>1. \A t \in 0..clock : Session(t) => Sound(mgr', results, t, 0..nextId)
  BY SessionFacts, SetFoundSound DEF WatchSeesBlocked
<1>2. QED
  BY <1>1, TransitFacts, WireStep DEF WatchSeesBlocked, wire, pane

LEMMA WatchCallbackStep == ASSUME Inv, NEW k \in Name, WatchCallback(k) PROVE Inv'
<1>1. PICK t \in 0..clock : Session(t)
  BY DEF Inv
<1>2. /\ mgr.watchers[k] # None /\ mgr.watchers[k].found # None
      /\ mgr' = WatchResolved(mgr, k, nextId') /\ nextId' <= MaxResult
      /\ UNCHANGED <<direct, sendQueue, call, world, transit, outbox, results, answers, latest, clock>>
  BY DEF WatchCallback
<1>3. Lined'
  BY <1>2, SameCalls DEF Inv
<1>4. nextId' \in 0..MaxResult /\ (nextId' = nextId \/ nextId' = nextId + 1)
  BY <1>1, <1>2, SessionFacts, BoundsAssumption DEF WatchCallback
<1>5. WorldTyped'
  BY <1>2, <1>4 DEF WatchCallback, CallsOn, Inv, WorldTyped, world, pane
<1>6. Sound(mgr', results, t, 0..nextId')
  <2>1. CASE mgr.watchers[k].found = Settled
    <3>1. nextId' = nextId + 1
      BY <2>1 DEF WatchCallback
    <3>2. nextId + 1 \in Nat /\ nextId + 1 \notin 0..nextId
          /\ 0..(nextId + 1) = (0..nextId) \cup {nextId + 1}
      BY <1>1, SessionFacts
    <3>3. Sound(WatchResolved(mgr, k, nextId + 1), results, t, (0..nextId) \cup {nextId + 1})
      BY <1>1, <1>2, <2>1, <3>2, SessionFacts, WatchSettledSound
    <3>4. QED
      BY <1>2, <3>1, <3>2, <3>3
  <2>2. CASE mgr.watchers[k].found # Settled
    <3>1. nextId' = nextId
      BY <2>2 DEF WatchCallback
    <3>2. Sound(WatchResolved(mgr, k, nextId), results, t, 0..nextId)
      BY <1>1, <1>2, <2>2, SessionFacts, WatchTookSound
    <3>3. QED
      BY <1>2, <3>1, <3>2
  <2>3. QED
    BY <2>1, <2>2
<1>7. ResultsOf(results, 0..nextId')
  BY <1>1, <1>4, SessionFacts DEF ResultsOf
<1>8. Session(t)'
  BY <1>1, <1>2, <1>6, <1>7 DEF Session, Live
<1>9. QED
  BY <1>2, <1>3, <1>5, <1>8 DEF Inv

LEMMA BatchWindowEndsStep == ASSUME Inv, BatchWindowEnds PROVE Inv'
<1>1. \A t \in 0..clock : Session(t) => Sound(mgr', results, t, 0..nextId)
  BY SessionFacts, FinalizeBatchQuiet DEF BatchWindowEnds, Quiet
<1>2. QED
  BY <1>1, TransitFacts, WireStep DEF BatchWindowEnds, wire, pane

LEMMA GroupTimerFiresStep == ASSUME Inv, NEW g \in BatchId, GroupTimerFires(g) PROVE Inv'
<1>1. ASSUME NEW t \in 0..clock, Session(t)
      PROVE  Sound(mgr', results, t, 0..nextId)
  <2>1. Sound(mgr, results, t, 0..nextId)
    BY <1>1, SessionFacts
  <2>2. Regrouped(mgr, OnGroupTimeout(mgr, g))
    BY <2>1, OnGroupTimeoutClean DEF GroupTimerFires, Sound
  <2>3. QED
    BY <2>1, <2>2, RegroupedQuiet DEF Quiet, GroupTimerFires
<1>2. QED
  BY <1>1, TransitFacts, WireStep DEF GroupTimerFires, wire, pane

LEMMA TickStep == ASSUME Inv, Tick PROVE Inv'
<1>1. PICK t \in 0..clock : Session(t)
  BY DEF Inv
<1>2. /\ clock' = clock + 1 /\ clock' \in 0..MaxTime /\ t \in 0..clock'
      /\ UNCHANGED <<manager, sendQueue, call, world, wire, history>>
  BY <1>1, SessionFacts, BoundsAssumption DEF Tick
<1>3. Lined'
  BY <1>2, SameCalls DEF Inv
<1>4. WorldTyped'
  BY <1>2 DEF Inv, WorldTyped, manager, world, pane, wire, history
<1>5. \A r \in results : r.at <= clock'
  BY <1>1, <1>2, SessionFacts DEF Session, ResultsOf, Result
<1>6. \A c \in Arm : Live(c) => call[c].since \in t..clock'
  BY <1>1, <1>2, SessionFacts DEF Session
<1>7. Session(t)'
  BY <1>1, <1>2, <1>5, <1>6 DEF Session, Live, manager, wire, pane
<1>8. QED
  BY <1>2, <1>3, <1>4, <1>7 DEF Inv

----------------------------------------------------------------------------
(* The theorems.                                                           *)

LEMMA InitInv == Init => Inv
<1> SUFFICES ASSUME Init PROVE Inv
  OBVIOUS
<1>1. EmptyManager \in Manager
  BY DEF EmptyManager, Manager
<1>2. /\ EmptyManager.sent = << >>
      /\ \A g \in BatchId : EmptyManager.groups[g] = None
      /\ \A k \in Name : EmptyManager.early[k] = << >> /\ EmptyManager.watchers[k] = None
  BY DEF EmptyManager
<1>3. OpenGroups(EmptyManager) = {}
  BY <1>2 DEF OpenGroups
<1>4. Held(EmptyManager) = {} /\ SentIds(EmptyManager) = {}
  BY <1>2, <1>3 DEF Held, SentIds
<1>5. KnownIds(EmptyManager) = {}
  BY <1>4 DEF KnownIds, IdsOf
<1>6. SentOnce(EmptyManager) /\ HeldIsUnsent(EmptyManager) /\ HeldOnce(EmptyManager)
  BY <1>2, <1>3, <1>4 DEF SentOnce, HeldIsUnsent, HeldOnce
<1>7. << >> \in Seq({}) /\ Len(<< >>) <= PendingLimit
  BY PendingLimitAssumption
<1>8. Sound(EmptyManager, {}, 0, 0..0)
  BY <1>1, <1>2, <1>5, <1>6, <1>7 DEF Sound, Clean
<1>9. WorldTyped
  BY BoundsAssumption DEF Init, WorldTyped
<1>10. \A c \in Arm : ~IsPendingSend(c) /\ ~InQueue(c) /\ ~Live(c)
  BY DEF Init, IsPendingSend, InQueue, Live
<1>11. Lined
  BY <1>10 DEF Init, Lined, InFlight
<1>12. Session(0)
  BY <1>8, <1>10 DEF Init, Session, ResultsOf
<1>13. QED
  BY <1>9, <1>11, <1>12 DEF Init, Inv

\* Every step preserves the invariant.
LEMMA NextInv == Inv /\ [Next]_vars => Inv'
<1> SUFFICES ASSUME Inv, [Next]_vars PROVE Inv'
  OBVIOUS
<1>1. CASE UNCHANGED vars
  <2>1. Lined' /\ Aging
    BY <1>1, SameCalls DEF Inv, vars
  <2>2. WorldTyped'
    BY <1>1 DEF vars, Inv, WorldTyped, manager, world, pane, wire, history
  <2>3. QED
    BY <1>1, <2>1, <2>2, QuietStep DEF vars, manager
<1>2. ASSUME NEW c \in Arm, NEW k \in Name, NEW notify \in BOOLEAN,
             StartSpawn(c, k, notify) \/ StartSend(c, k, notify)
      PROVE  Inv'
  BY <1>2, StartSpawnStep, StartSendStep
<1>3. ASSUME NEW c \in Arm, Advance(c)
      PROVE  Inv'
  BY <1>3, ReserveNameStep, WriteSpawnArmStep, LaunchPaneStep, FinalizeEntryStep,
     ReconcileSpawnStep, FailSpawnStep, PrepareSendStep, WriteSendArmStep, SendInputStep,
     SendReturnsStep, ReconcileSendStep, FailSendStep, InputFailsStep, RestoreArmStep,
     AbortSendStep DEF Advance
<1>4. ASSUME NEW k \in Name,
             \/ WaitReturns(k) \/ ClosePane(k) \/ StartRun(k) \/ Settle(k)
             \/ WatchSeesBlocked(k) \/ WatchCallback(k)
             \/ \E n \in 1..Len(typed[k]) : TakeInput(k, n)
      PROVE  Inv'
  BY <1>4, WaitReturnsStep, ClosePaneStep, TakeInputStep, StartRunStep, SettleStep,
     WatchSeesBlockedStep, WatchCallbackStep
<1>5. ASSUME NEW p \in transit, PushArrives(p) \/ PushAcknowledged(p) \/ PushTimesOut(p)
      PROVE  Inv'
  BY <1>5, PushArrivesStep, PushAcknowledgedStep, PushTimesOutStep
<1>6. ASSUME NEW r \in outbox, WatchTakes(r)
      PROVE  Inv'
  BY <1>6, WatchTakesStep
<1>7. ASSUME NEW g \in BatchId, GroupTimerFires(g)
      PROVE  Inv'
  BY <1>7, GroupTimerFiresStep
<1>8. CASE BatchWindowEnds \/ Restart \/ Tick
  BY <1>8, BatchWindowEndsStep, RestartStep, TickStep
<1>9. QED
  BY <1>1, <1>2, <1>3, <1>4, <1>5, <1>6, <1>7, <1>8 DEF Next

LEMMA Invariance == Spec => []Inv
<1>1. QED
  BY InitInv, NextInv, PTL DEF Spec

\* The coordinator, its subagents and the wire keep their types; a send is in
\* the queue exactly while it is pending (enqueueSend), with every fault.
THEOREM CompletionTypes == Spec => []TypeOK
<1>1. QED
  BY InvTypes, Invariance, PTL

\* No completion is reported twice, by push or outbox, after any restart.
THEOREM NoDuplicateReports == Spec => []ReportedOnce
<1>1. Inv => ReportedOnce
  BY DEF Inv, Session, Sound, Clean, SentOnce, ReportedOnce
<1>2. QED
  BY <1>1, Invariance, PTL

----------------------------------------------------------------------------
(* The durable arm.  It rests on a spawn being alone with its name until   *)
(* its entry is active (spawn under a reservation), on sends running one   *)
(* at a time, and on what a send saved before it wrote its own arm.        *)

Early == {"queued", "started", "written", "reached"}

EarlySpawn(c) == call[c] # None /\ call[c].kind = "spawn" /\ call[c].stage \in Early

\* A spawn under way holds the name's entry, and no other call has got so far.
SpawnsAreAlone ==
    \A c \in Arm : EarlySpawn(c) =>
        /\ entry[call[c].name] = IF call[c].stage = "queued" THEN "none" ELSE "reserved"
        /\ \A d \in CallsOn(call[c].name) : d # c =>
               call[d].stage \in Ended \/ At(d, "send", "queued")

Armed(c) == At(c, "send", "armed")

\* The send has written its arm and may still have to restore the former one.
Rewriting(c) ==
    \/ At(c, "send", "rollback")
    \/ (At(c, "send", "written") \/ At(c, "send", "reached")) /\ call[c].notify

\* The durable arm is the latest, or the latest can be restored.
ArmIsKept ==
    /\ \A k \in Name : durable[k] = latest[k] \/ \E c \in CallsOn(k) : Rewriting(c)
    /\ \A c \in Arm : Rewriting(c) \/ Armed(c) => call[c].prev = latest[call[c].name]
    /\ \A c \in Arm : Rewriting(c) => durable[call[c].name] = c
    /\ \A c \in Arm : Rewriting(c) \/ Armed(c) => call[c].notify

\* Only the stage of the call c changes, to s.
Went(c, s) ==
    /\ \A d \in Arm : d # c => call'[d] = call[d]
    /\ call[c] # None /\ call'[c] # None
    /\ call'[c].kind = call[c].kind
    /\ call'[c].name = call[c].name
    /\ call'[c].notify = call[c].notify
    /\ call'[c].prev = call[c].prev
    /\ call'[c].stage = s

LEMMA GotoWent ==
    ASSUME Lined, NEW c \in Arm, call[c] # None, NEW s \in Stage, Goto(c, s)
    PROVE  Went(c, s)
<1>1. PICK x \in Call :
          /\ call' = [call EXCEPT ![c] = x]
          /\ x.kind = call[c].kind /\ x.name = call[c].name /\ x.notify = call[c].notify
          /\ x.prev = call[c].prev /\ x.stage = s
  BY GotoFacts
<1>2. \A d \in Arm : call'[d] = IF d = c THEN x ELSE call[d]
  BY <1>1 DEF Lined
<1>3. QED
  BY <1>1, <1>2, CallsAssumption DEF Went

\* A step of a spawn that is alone.
LEMMA EarlySpawnAlone ==
    ASSUME SpawnsAreAlone, NEW c \in Arm, EarlySpawn(c), NEW s, Went(c, s),
           \A k \in Name : k # call[c].name => entry'[k] = entry[k],
           call[c].name \in Name, \A d \in Arm : call[d] # None => call[d].name \in Name,
           s \in Early => s # "queued" /\ entry'[call[c].name] = "reserved"
    PROVE  SpawnsAreAlone'
<1> SUFFICES ASSUME NEW d \in Arm, EarlySpawn(d)'
             PROVE  /\ entry'[call'[d].name] =
                           IF call'[d].stage = "queued" THEN "none" ELSE "reserved"
                    /\ \A e \in CallsOn(call[d].name)' : e # d =>
                           call'[e].stage \in Ended \/ At(e, "send", "queued")'
  BY DEF SpawnsAreAlone, Went, CallsOn
<1>1. CASE d = c
  BY <1>1 DEF SpawnsAreAlone, Went, CallsOn, EarlySpawn, At
<1>2. CASE d # c
  <2>1. EarlySpawn(d) /\ call'[d] = call[d]
    BY <1>2 DEF EarlySpawn, Went
  <2>2. call[d].name # call[c].name
    BY <1>2, <2>1 DEF SpawnsAreAlone, CallsOn, EarlySpawn, At, Early, Ended
  <2>3. QED
    BY <2>1, <2>2 DEF SpawnsAreAlone, Went, CallsOn, EarlySpawn, At
<1>3. QED
  BY <1>1, <1>2

\* A step of a call that is no spawn under way, and gets no further than an
\* early spawn allows.
LEMMA OtherCallAlone ==
    ASSUME SpawnsAreAlone, NEW c \in Arm, ~EarlySpawn(c), NEW s, Went(c, s), entry' = entry,
           call[c].kind = "spawn" => s \notin Early,
           \/ s \in Ended
           \/ ~At(c, "send", "queued") /\ call[c].stage \notin Ended
           \/ entry[call[c].name] = "active"
    PROVE  SpawnsAreAlone'
<1> SUFFICES ASSUME NEW d \in Arm, EarlySpawn(d)'
             PROVE  /\ entry'[call'[d].name] =
                           IF call'[d].stage = "queued" THEN "none" ELSE "reserved"
                    /\ \A e \in CallsOn(call[d].name)' : e # d =>
                           call'[e].stage \in Ended \/ At(e, "send", "queued")'
  BY DEF SpawnsAreAlone, Went, CallsOn
<1>1. d # c /\ EarlySpawn(d) /\ call'[d] = call[d]
  BY DEF EarlySpawn, Went
<1>2. s \in Ended \/ call[c].name # call[d].name
  BY <1>1 DEF SpawnsAreAlone, CallsOn, Went, EarlySpawn
<1>3. QED
  BY <1>1, <1>2 DEF SpawnsAreAlone, Went, CallsOn, At

\* A step that is no step of a call, and keeps the entries of early spawns.
LEMMA SameCallsAlone ==
    ASSUME SpawnsAreAlone, call' = call,
           \A c \in Arm : EarlySpawn(c) => entry'[call[c].name] = entry[call[c].name]
    PROVE  SpawnsAreAlone'
  BY DEF SpawnsAreAlone, EarlySpawn, CallsOn, At

\* A call begins; a spawn only if no call of its name is under way.
LEMMA NewCallAlone ==
    ASSUME SpawnsAreAlone, NEW c \in Arm, call[c] = None, entry' = entry,
           \A d \in Arm : d # c => call'[d] = call[d],
           \/ At(c, "send", "queued")'
           \/ /\ call'[c].kind = "spawn" /\ call'[c].stage = "queued"
              /\ entry[call'[c].name] = "none"
              /\ \A d \in CallsOn(call'[c].name) : call[d].stage \in Ended
    PROVE  SpawnsAreAlone'
<1> SUFFICES ASSUME NEW d \in Arm, EarlySpawn(d)'
             PROVE  /\ entry'[call'[d].name] =
                           IF call'[d].stage = "queued" THEN "none" ELSE "reserved"
                    /\ \A e \in CallsOn(call[d].name)' : e # d =>
                           call'[e].stage \in Ended \/ At(e, "send", "queued")'
  BY DEF SpawnsAreAlone, CallsOn
<1>1. CASE d = c
  <2>1. /\ call'[c].kind = "spawn" /\ call'[c].stage = "queued"
        /\ entry[call'[c].name] = "none"
        /\ \A e \in CallsOn(call'[c].name) : call[e].stage \in Ended
    BY <1>1 DEF EarlySpawn, At
  <2>2. QED
    BY <1>1, <2>1 DEF CallsOn
<1>2. CASE d # c
  <2>1. EarlySpawn(d) /\ call'[d] = call[d]
    BY <1>2 DEF EarlySpawn
  <2>2. At(c, "send", "queued")' \/ call'[c].name # call[d].name
    BY <2>1 DEF EarlySpawn, CallsOn, Early, Ended
  <2>3. QED
    BY <1>2, <2>1, <2>2 DEF SpawnsAreAlone, CallsOn, At
<1>3. QED
  BY <1>1, <1>2

LEMMA AdvanceAlone ==
    ASSUME Inv, SpawnsAreAlone, NEW c \in Arm, Advance(c)
    PROVE  SpawnsAreAlone'
<1> DEFINE k == call[c].name
<1>1. \A d \in Arm : call[d] # None => call[d].name \in Name
  BY CallFacts
<1>2. Lined /\ entry \in [Name -> {"none", "reserved", "active"}]
  BY DEF Inv, WorldTyped
<1>3. CASE ReserveName(c) \/ WriteSpawnArm(c) \/ LaunchPane(c) \/ FinalizeEntry(c) \/ FailSpawn(c)
  <2>1. EarlySpawn(c)
    BY <1>3 DEF ReserveName, WriteSpawnArm, LaunchPane, FinalizeEntry, FailSpawn, At,
                EarlySpawn, Early
  <2>2. call[c] # None /\ k \in Name
    BY <1>1, <2>1 DEF EarlySpawn
  <2>3. entry[k] = IF call[c].stage = "queued" THEN "none" ELSE "reserved"
    BY <2>1 DEF SpawnsAreAlone
  <2>4. \A j \in Name : j # k => entry'[j] = entry[j]
    BY <1>2, <1>3 DEF ReserveName, WriteSpawnArm, LaunchPane, FinalizeEntry, FailSpawn
  <2>5. PICK s \in {"started", "written", "reached", "returned", "failed"} :
            Goto(c, s) /\ (s \in Early => entry'[k] = "reserved")
    <3>1. CASE ReserveName(c)
      BY <1>2, <2>2, <3>1 DEF ReserveName
    <3>2. CASE WriteSpawnArm(c)
      BY <2>3, <3>2 DEF WriteSpawnArm, At
    <3>3. CASE LaunchPane(c)
      BY <2>3, <3>3 DEF LaunchPane, At
    <3>4. CASE FinalizeEntry(c)
      BY <3>4 DEF FinalizeEntry, Early
    <3>5. CASE FailSpawn(c)
      BY <3>5 DEF FailSpawn, Early
    <3>6. QED
      BY <1>3, <3>1, <3>2, <3>3, <3>4, <3>5
  <2>6. Went(c, s)
    BY <1>2, <2>2, <2>5, GotoWent DEF Stage
  <2>7. QED
    BY <1>1, <2>1, <2>2, <2>4, <2>5, <2>6, EarlySpawnAlone
<1>4. CASE ReconcileSpawn(c)
  <2>1. ~EarlySpawn(c) /\ Went(c, "done") /\ entry' = entry
    BY <1>2, <1>4, GotoWent DEF ReconcileSpawn, At, EarlySpawn, Early, Stage, world, pane
  <2>2. QED
    BY <2>1, OtherCallAlone DEF Ended, Early
<1>5. CASE PrepareSend(c)
  <2>1. /\ ~EarlySpawn(c) /\ entry' = entry /\ entry[k] = "active"
        /\ call[c] # None /\ call[c].kind = "send"
    BY <1>5 DEF PrepareSend, At, EarlySpawn, world, pane
  <2>2. /\ \A d \in Arm : d # c => call'[d] = call[d]
        /\ call'[c].kind = "send" /\ call'[c].name = k
    <3>1. \E x \in Call : call' = [call EXCEPT ![c] = x] /\ x.kind = "send" /\ x.name = k
      BY <1>1, <1>5, <2>1, PrepareSendFacts DEF Inv
    <3>2. QED
      BY <1>2, <3>1 DEF Lined
  <2>3. \A d \in Arm : EarlySpawn(d)' => d # c /\ EarlySpawn(d) /\ call'[d] = call[d]
    BY <2>2 DEF EarlySpawn
  <2>4. \A d \in Arm : EarlySpawn(d) => call[d].name # k
    BY <2>1 DEF SpawnsAreAlone
  <2>5. QED
    BY <2>1, <2>2, <2>3, <2>4 DEF SpawnsAreAlone, CallsOn, At
<1>6. CASE WriteSendArm(c) \/ SendInput(c) \/ SendReturns(c) \/ InputFails(c)
           \/ ReconcileSend(c) \/ FailSend(c) \/ RestoreArm(c) \/ AbortSend(c)
  <2>1. /\ call[c] # None /\ call[c].kind = "send" /\ entry' = entry /\ ~EarlySpawn(c)
        /\ call[c].stage \notin Ended
    BY <1>6 DEF WriteSendArm, SendInput, SendReturns, InputFails, ReconcileSend, FailSend,
                RestoreArm, AbortSend, At, EarlySpawn, Ended, world, pane
  <2>2. PICK s \in Stage :
            Goto(c, s) /\ (s \in Ended \/ ~At(c, "send", "queued"))
    BY <1>6 DEF WriteSendArm, SendInput, SendReturns, InputFails, ReconcileSend, FailSend,
                RestoreArm, AbortSend, Dequeue, At, Stage, Ended
  <2>3. Went(c, s)
    BY <1>2, <2>1, <2>2, GotoWent
  <2>4. QED
    BY <2>1, <2>2, <2>3, OtherCallAlone
<1>7. QED
  BY <1>3, <1>4, <1>5, <1>6 DEF Advance

\* Without a spawn of a name in use, a spawn stays alone with its name.
LEMMA AloneNext ==
    ASSUME "respawn" \notin Faults, Inv, SpawnsAreAlone, [Next]_vars
    PROVE  SpawnsAreAlone'
<1>1. call \in [Arm -> Call \cup {None}]
      /\ entry \in [Name -> {"none", "reserved", "active"}]
  BY DEF Inv, WorldTyped, Lined
<1>2. CASE UNCHANGED vars
  BY <1>2, SameCallsAlone DEF vars, world, pane
<1>3. ASSUME NEW c \in Arm, NEW k \in Name, NEW notify \in BOOLEAN, StartSpawn(c, k, notify)
      PROVE  SpawnsAreAlone'
  <2>1. /\ call[c] = None /\ entry' = entry
        /\ call' = [call EXCEPT ![c] = NewCall("spawn", k, notify, "queued")]
        /\ entry[k] = "none" /\ Over(k)
    BY <1>3 DEF StartSpawn, world, pane
  <2>2. call'[c].kind = "spawn" /\ call'[c].stage = "queued" /\ call'[c].name = k
    BY <1>1, <2>1 DEF NewCall
  <2>3. QED
    BY <1>1, <2>1, <2>2, NewCallAlone DEF Over, Ended
<1>4. ASSUME NEW c \in Arm, NEW k \in Name, NEW notify \in BOOLEAN, StartSend(c, k, notify)
      PROVE  SpawnsAreAlone'
  <2>1. /\ call[c] = None /\ entry' = entry
        /\ call' = [call EXCEPT ![c] = NewCall("send", k, notify, "queued")]
    BY <1>4 DEF StartSend, world, pane
  <2>2. NewCall("send", k, notify, "queued") \in Call
    BY NewCallFacts
  <2>3. call'[c] # None /\ call'[c].kind = "send" /\ call'[c].stage = "queued"
    BY <1>1, <2>1, <2>2, CallsAssumption DEF NewCall
  <2>4. QED
    BY <1>1, <2>1, <2>3, NewCallAlone DEF At
<1>5. ASSUME NEW c \in Arm, Advance(c)
      PROVE  SpawnsAreAlone'
  BY <1>5, AdvanceAlone
<1>6. ASSUME NEW k \in Name, ClosePane(k)
      PROVE  SpawnsAreAlone'
  <2>1. call' = call /\ entry' = [entry EXCEPT ![k] = "none"] /\ entry[k] = "active"
    BY <1>6 DEF ClosePane
  <2>2. \A c \in Arm : EarlySpawn(c) => call[c].name # k
    BY <2>1 DEF SpawnsAreAlone
  <2>3. \A c \in Arm : EarlySpawn(c) => entry'[call[c].name] = entry[call[c].name]
    BY <1>1, <2>1, <2>2, CallFacts DEF EarlySpawn
  <2>4. QED
    BY <2>1, <2>3, SameCallsAlone
<1>7. CASE Restart
  <2>1. \A x \in Call : [x EXCEPT !.stage = "failed"].stage = "failed"
    BY DEF Call
  <2>2. \A c \in Arm : ~EarlySpawn(c)'
    BY <1>1, <1>7, <2>1 DEF Restart, EarlySpawn, Early
  <2>3. QED
    BY <2>2 DEF SpawnsAreAlone
<1>8. CASE \/ \E k \in Name : \/ WaitReturns(k) \/ StartRun(k) \/ Settle(k)
                              \/ WatchSeesBlocked(k) \/ WatchCallback(k)
                              \/ \E n \in 1..Len(typed[k]) : TakeInput(k, n)
           \/ \E p \in transit : PushArrives(p) \/ PushAcknowledged(p) \/ PushTimesOut(p)
           \/ \E r \in outbox : WatchTakes(r)
           \/ \E g \in BatchId : GroupTimerFires(g)
           \/ BatchWindowEnds \/ Tick
  <2>1. call' = call /\ entry' = entry
    BY <1>8 DEF WaitReturns, TakeInput, StartRun, Settle, WatchSeesBlocked, WatchCallback, PushArrives,
                PushAcknowledged, PushTimesOut, WatchTakes, GroupTimerFires, BatchWindowEnds,
                Tick, world, pane
  <2>2. QED
    BY <2>1, SameCallsAlone
<1>9. QED
  BY <1>2, <1>3, <1>4, <1>5, <1>6, <1>7, <1>8 DEF Next

\* At most one send is past the queue, and none while another is to start.
LEMMA OneInFlight ==
    ASSUME Lined, NEW c \in Arm, Running(c)
    PROVE  \A d \in Arm : Rewriting(d) \/ Armed(d) => d = c
<1>1. \A d \in Arm : Rewriting(d) \/ Armed(d) => InFlight(d)
  BY DEF Rewriting, Armed, At, InFlight, IsPendingSend
<1>2. QED
  BY <1>1 DEF Lined, Running

\* A step that touches no arm, and of no send that has written one.
LEMMA ArmUntouched ==
    ASSUME ArmIsKept, UNCHANGED <<durable, latest>>,
           \A d \in Arm : Rewriting(d)' <=> Rewriting(d),
           \A d \in Arm : Armed(d)' => Armed(d),
           \A d \in Arm : Rewriting(d) \/ Armed(d) =>
               /\ call'[d].name = call[d].name /\ call'[d].prev = call[d].prev
               /\ call'[d].notify = call[d].notify
    PROVE  ArmIsKept'
<1>1. \A k \in Name : durable'[k] = latest'[k] \/ \E c \in Arm :
          call'[c] # None /\ call'[c].name = k /\ Rewriting(c)'
  BY DEF ArmIsKept, CallsOn, Rewriting, At
<1>2. \A c \in Arm : (Rewriting(c) \/ Armed(c))' => call'[c].prev = latest'[call'[c].name]
  BY DEF ArmIsKept
<1>3. \A c \in Arm : Rewriting(c)' => durable'[call'[c].name] = c
  BY DEF ArmIsKept
<1>4. \A c \in Arm : (Rewriting(c) \/ Armed(c))' => call'[c].notify
  BY DEF ArmIsKept
<1>5. QED
  BY <1>1, <1>2, <1>3, <1>4 DEF ArmIsKept, CallsOn

\* The same for a step of one call.
LEMMA ArmUntouchedBy ==
    ASSUME ArmIsKept, UNCHANGED <<durable, latest>>, NEW c \in Arm, NEW s, Went(c, s),
           Rewriting(c)' <=> Rewriting(c), Armed(c)' => Armed(c)
    PROVE  ArmIsKept'
<1>1. \A d \in Arm : d # c => /\ Rewriting(d)' <=> Rewriting(d)
                              /\ Armed(d)' <=> Armed(d)
  BY DEF Went, Rewriting, Armed, At
<1>2. QED
  BY <1>1, ArmUntouched DEF Went

\* Pointwise, what is to be shown when one send does it all.
LEMMA ArmOfTheOne ==
    ASSUME NEW c \in Arm, NEW k \in Name,
           \A d \in Arm : (Rewriting(d) \/ Armed(d))' => d = c,
           call'[c] # None, call'[c].name = k,
           \A j \in Name : durable'[j] = latest'[j] \/ (j = k /\ Rewriting(c)'),
           (Rewriting(c) \/ Armed(c))' => call'[c].prev = latest'[k],
           Rewriting(c)' => durable'[k] = c,
           (Rewriting(c) \/ Armed(c))' => call'[c].notify
    PROVE  ArmIsKept'
  BY DEF ArmIsKept, CallsOn

LEMMA AdvanceArm ==
    ASSUME Inv, SpawnsAreAlone, ArmIsKept, NEW c \in Arm, Advance(c)
    PROVE  ArmIsKept'
<1> DEFINE k == call[c].name
<1>1. /\ Lined /\ WorldTyped
      /\ durable \in [Name -> Arm \cup {None}] /\ latest \in [Name -> Arm \cup {None}]
  BY DEF Inv, WorldTyped
<1>2. call[c] # None /\ call[c] \in Call /\ k \in Name
  <2>1. call[c] # None
    BY DEF Advance, ReserveName, WriteSpawnArm, LaunchPane, FinalizeEntry, ReconcileSpawn,
           FailSpawn, PrepareSend, WriteSendArm, SendInput, SendReturns, ReconcileSend,
           FailSend, InputFails, RestoreArm, AbortSend, At
  <2>2. QED
    BY <2>1, CallFacts
<1>3. CASE ReserveName(c) \/ LaunchPane(c) \/ FinalizeEntry(c) \/ ReconcileSpawn(c) \/ FailSpawn(c)
  <2>1. call[c].kind = "spawn" /\ UNCHANGED <<durable, latest>>
    BY <1>3 DEF ReserveName, LaunchPane, FinalizeEntry, ReconcileSpawn, FailSpawn, At,
                world, pane, history
  <2>2. \E s \in Stage \ {"rollback"} : Goto(c, s)
    BY <1>3 DEF ReserveName, LaunchPane, FinalizeEntry, ReconcileSpawn, FailSpawn, At, Stage
  <2>3. PICK s \in Stage \ {"rollback"} : Went(c, s)
    BY <1>1, <1>2, <2>2, GotoWent
  <2>4. ~Rewriting(c) /\ ~Rewriting(c)' /\ ~Armed(c)'
    BY <2>1, <2>3 DEF Went, Rewriting, Armed, At
  <2>5. QED
    BY <2>1, <2>3, <2>4, ArmUntouchedBy
<1>4. CASE WriteSpawnArm(c)
  <2>1. EarlySpawn(c) /\ Went(c, "written")
    BY <1>1, <1>2, <1>4, GotoWent DEF WriteSpawnArm, At, EarlySpawn, Early, Stage
  <2>2. \A d \in CallsOn(k) : ~Rewriting(d) /\ ~Armed(d)
    BY <2>1 DEF SpawnsAreAlone, EarlySpawn, Rewriting, Armed, At, Ended
  <2>3. /\ durable'[k] = latest'[k]
        /\ \A j \in Name : j # k => durable'[j] = durable[j] /\ latest'[j] = latest[j]
    BY <1>1, <1>2, <1>4 DEF WriteSpawnArm
  <2>4. \A d \in Arm : /\ Rewriting(d)' <=> Rewriting(d)
                       /\ Armed(d)' <=> Armed(d)
    BY <2>1 DEF Went, EarlySpawn, Rewriting, Armed, At
  <2>5. \A d \in Arm : Rewriting(d) \/ Armed(d) => call'[d] = call[d] /\ call[d].name # k
    BY <2>1, <2>2 DEF Went, EarlySpawn, Rewriting, Armed, At, CallsOn
  <2>6. \A d \in Arm : Rewriting(d) \/ Armed(d) => call[d].name \in Name
    BY CallFacts DEF Rewriting, Armed, At
  <2>7. \A j \in Name : durable'[j] = latest'[j] \/ \E d \in Arm :
            call'[d] # None /\ call'[d].name = j /\ Rewriting(d)'
    BY <2>3, <2>4, <2>5 DEF ArmIsKept, CallsOn
  <2>8. \A d \in Arm : (Rewriting(d) \/ Armed(d))' =>
            /\ call'[d].prev = latest'[call'[d].name]
            /\ durable'[call'[d].name] = durable[call[d].name]
            /\ call'[d] = call[d]
    BY <2>3, <2>4, <2>5, <2>6 DEF ArmIsKept
  <2>9. QED
    BY <2>4, <2>7, <2>8 DEF ArmIsKept, CallsOn
<1>5. CASE PrepareSend(c)
  <2>1. At(c, "send", "queued") /\ Running(c) /\ UNCHANGED <<durable, latest>>
    BY <1>5 DEF PrepareSend, world, pane, history
  <2>2. PICK x \in Call :
            /\ call' = [call EXCEPT ![c] = x]
            /\ x.name = k /\ x.notify = call[c].notify
            /\ x.stage = IF call[c].notify THEN "armed" ELSE "written"
            /\ call[c].notify => x.prev = durable[k]
    BY <1>1, <1>2, <1>5, PrepareSendFacts
  <2>3. \A d \in Arm : call'[d] = IF d = c THEN x ELSE call[d]
    BY <1>1, <2>2 DEF Lined
  <2>4. \A d \in Arm : ~Rewriting(d) /\ ~Armed(d)
    BY <1>1, <2>1, OneInFlight DEF Rewriting, Armed, At
  <2>5. \A j \in Name : durable[j] = latest[j]
    BY <2>4 DEF ArmIsKept, CallsOn
  <2>6. \A d \in Arm : ~Rewriting(d)' /\ (Armed(d)' => d = c /\ call[c].notify)
    BY <2>2, <2>3, <2>4 DEF Rewriting, Armed, At
  <2>7. call'[c] # None /\ call'[c].name = k /\ call'[c].notify = call[c].notify
        /\ (call[c].notify => call'[c].prev = latest[k])
    BY <1>2, <2>2, <2>3, <2>5, CallsAssumption
  <2>8. QED
    BY <1>2, <2>1, <2>5, <2>6, <2>7, ArmOfTheOne
<1>6. CASE WriteSendArm(c)
  <2>1. Armed(c) /\ Went(c, "written") /\ Running(c)
    BY <1>1, <1>2, <1>6, GotoWent
       DEF WriteSendArm, Armed, At, Stage, Lined, InFlight, IsPendingSend
  <2>2. \A d \in Arm : Rewriting(d) \/ Armed(d) => d = c
    BY <1>1, <2>1, OneInFlight
  <2>3. \A j \in Name : durable[j] = latest[j]
    BY <2>1, <2>2 DEF ArmIsKept, CallsOn, Rewriting, Armed, At
  <2>4. /\ durable'[k] = c /\ latest' = latest
        /\ \A j \in Name : j # k => durable'[j] = durable[j]
    BY <1>1, <1>2, <1>6 DEF WriteSendArm, history
  <2>5. \A d \in Arm : (Rewriting(d) \/ Armed(d))' => d = c
    BY <2>1, <2>2 DEF Went, Rewriting, Armed, At
  <2>6. /\ Rewriting(c)' /\ call'[c].prev = latest[k] /\ call'[c].name = k /\ call'[c] # None
        /\ call'[c].notify
    BY <2>1 DEF Went, ArmIsKept, Armed, Rewriting, At
  <2>7. QED
    BY <1>2, <2>3, <2>4, <2>5, <2>6, ArmOfTheOne
<1>7. CASE SendInput(c)
  <2>1. At(c, "send", "written") /\ Went(c, "reached") /\ UNCHANGED <<durable, latest>>
    BY <1>1, <1>2, <1>7, GotoWent DEF SendInput, Stage
  <2>2. (Rewriting(c)' <=> Rewriting(c)) /\ ~Armed(c)'
    BY <2>1 DEF Went, Rewriting, Armed, At
  <2>3. QED
    BY <2>1, <2>2, ArmUntouchedBy
<1>8. CASE SendReturns(c)
  <2>1. At(c, "send", "reached") /\ Went(c, "returned") /\ durable' = durable
    BY <1>1, <1>2, <1>8, GotoWent DEF SendReturns, Stage, world, pane
  <2>2. ~Rewriting(c)' /\ ~Armed(c)' /\ call'[c] # None /\ call'[c].name = k
    BY <2>1 DEF Went, Rewriting, Armed, At
  <2>3. CASE ~call[c].notify
    <3>1. ~Rewriting(c) /\ latest' = latest
      BY <1>8, <2>1, <2>3 DEF SendReturns, Rewriting, At
    <3>2. QED
      BY <2>1, <2>2, <3>1, ArmUntouchedBy
  <2>4. CASE call[c].notify
    <3>1. Rewriting(c) /\ durable[k] = c /\ Running(c)
      BY <1>1, <2>1, <2>4 DEF Rewriting, At, ArmIsKept, Lined, InFlight, IsPendingSend
    <3>2. \A d \in Arm : Rewriting(d) \/ Armed(d) => d = c
      BY <1>1, <3>1, OneInFlight
    <3>3. \A d \in Arm : ~(Rewriting(d) \/ Armed(d))'
      BY <2>1, <2>2, <3>2 DEF Went, Rewriting, Armed, At
    <3>4. \A j \in Name : j # k => durable[j] = latest[j]
      BY <3>2 DEF ArmIsKept, CallsOn
    <3>5. /\ latest'[k] = c
          /\ \A j \in Name : j # k => latest'[j] = latest[j]
      BY <1>1, <1>2, <1>8, <2>4 DEF SendReturns
    <3>6. QED
      BY <1>2, <2>1, <2>2, <3>1, <3>3, <3>4, <3>5, ArmOfTheOne
  <2>5. QED
    BY <2>3, <2>4
<1>9. CASE ReconcileSend(c) \/ FailSend(c)
  <2>1. UNCHANGED <<durable, latest>> /\ call[c].kind = "send" /\ ~Rewriting(c)
    BY <1>9 DEF ReconcileSend, FailSend, At, Rewriting, Armed, ArmIsKept, world, pane
  <2>2. PICK s \in Ended : Went(c, s)
    BY <1>1, <1>2, <1>9, GotoWent DEF ReconcileSend, FailSend, Dequeue, Ended, Stage
  <2>3. ~Rewriting(c)' /\ ~Armed(c)'
    BY <2>2 DEF Went, Ended, Rewriting, Armed, At
  <2>4. QED
    BY <2>1, <2>2, <2>3, ArmUntouchedBy
<1>10. CASE InputFails(c)
  <2>1. /\ Went(c, "rollback") /\ UNCHANGED <<durable, latest>>
        /\ Rewriting(c) /\ call[c].kind = "send"
    BY <1>1, <1>2, <1>10, GotoWent DEF InputFails, Stage, At, Rewriting, world, pane, history
  <2>2. Rewriting(c)' /\ ~Armed(c)'
    BY <2>1 DEF Went, Rewriting, Armed, At
  <2>3. QED
    BY <2>1, <2>2, ArmUntouchedBy
<1>11. CASE RestoreArm(c)
  <2>1. /\ At(c, "send", "rollback") /\ Rewriting(c) /\ Running(c)
        /\ Went(c, "failed") /\ latest' = latest
    BY <1>1, <1>2, <1>11, GotoWent
       DEF RestoreArm, Dequeue, Stage, At, Rewriting, Lined, InFlight, IsPendingSend
  <2>2. \A d \in Arm : Rewriting(d) \/ Armed(d) => d = c
    BY <1>1, <2>1, OneInFlight
  <2>3. \A d \in Arm : ~(Rewriting(d) \/ Armed(d))'
    BY <2>1, <2>2 DEF Went, Rewriting, Armed, At
  <2>4. \A j \in Name : j # k => durable[j] = latest[j]
    BY <2>2 DEF ArmIsKept, CallsOn
  <2>5. call[c].prev = latest[k]
    BY <2>1 DEF ArmIsKept
  <2>6. \A j \in Name : durable'[j] = IF j = k THEN latest[k] ELSE durable[j]
    BY <1>1, <1>2, <1>11, <2>5 DEF RestoreArm
  <2>7. QED
    BY <1>2, <2>1, <2>3, <2>4, <2>6, ArmOfTheOne DEF Went
<1>12. CASE AbortSend(c)
  <2>1. /\ call[c].kind = "send" /\ Running(c) /\ Went(c, "failed") /\ durable' = durable
        /\ Rewriting(c) => call[c].notify /\ call[c].stage \in {"written", "reached", "rollback"}
        /\ ~Rewriting(c) => latest' = latest
    BY <1>1, <1>2, <1>12, GotoWent
       DEF AbortSend, Dequeue, Stage, At, Rewriting, Armed, ArmIsKept, Lined, InFlight,
           IsPendingSend, world
  <2>2. ~Rewriting(c)' /\ ~Armed(c)'
    BY <2>1 DEF Went, Rewriting, Armed, At
  <2>3. CASE ~Rewriting(c)
    BY <2>1, <2>2, <2>3, ArmUntouchedBy
  <2>4. CASE Rewriting(c)
    <3>1. \A d \in Arm : Rewriting(d) \/ Armed(d) => d = c
      BY <1>1, <2>1, OneInFlight
    <3>2. \A d \in Arm : ~(Rewriting(d) \/ Armed(d))'
      BY <2>1, <2>2, <3>1 DEF Went, Rewriting, Armed, At
    <3>3. durable[k] = c /\ \A j \in Name : j # k => durable[j] = latest[j]
      BY <2>4, <3>1 DEF ArmIsKept, CallsOn
    <3>4. latest' = [latest EXCEPT ![k] = c]
      BY <1>12, <2>1, <2>4 DEF AbortSend
    <3>5. \A j \in Name : durable'[j] = latest'[j]
      BY <1>1, <1>2, <2>1, <3>3, <3>4
    <3>6. QED
      BY <1>2, <2>1, <3>2, <3>5, ArmOfTheOne DEF Went
  <2>5. QED
    BY <2>3, <2>4
<1>13. QED
  BY <1>3, <1>4, <1>5, <1>6, <1>7, <1>8, <1>9, <1>10, <1>11, <1>12 DEF Advance

\* Without a spawn of a name in use, the durable arm is kept.
LEMMA ArmNext ==
    ASSUME Inv, SpawnsAreAlone, ArmIsKept, [Next]_vars
    PROVE  ArmIsKept'
<1>1. call \in [Arm -> Call \cup {None}]
  BY DEF Inv, Lined
<1>2. CASE UNCHANGED <<call, durable, latest>>
  BY <1>2, ArmUntouched DEF Rewriting, Armed, At
<1>3. ASSUME NEW c \in Arm, NEW k \in Name, NEW notify \in BOOLEAN,
             StartSpawn(c, k, notify) \/ StartSend(c, k, notify)
      PROVE  ArmIsKept'
  <2>1. /\ call[c] = None /\ UNCHANGED <<durable, latest>>
        /\ \A d \in Arm : d # c => call'[d] = call[d]
        /\ call'[c].stage = "queued"
    BY <1>1, <1>3 DEF StartSpawn, StartSend, NewCall, world, pane, history
  <2>2. \A d \in Arm : (Rewriting(d)' <=> Rewriting(d)) /\ (Armed(d)' <=> Armed(d))
    BY <2>1 DEF Rewriting, Armed, At
  <2>3. \A d \in Arm : Rewriting(d) \/ Armed(d) => call'[d] = call[d]
    BY <2>1 DEF Rewriting, Armed, At
  <2>4. QED
    BY <2>1, <2>2, <2>3, ArmUntouched
<1>4. ASSUME NEW c \in Arm, Advance(c)
      PROVE  ArmIsKept'
  BY <1>4, AdvanceArm
<1>5. CASE Restart
  <2>1. \A x \in Call : [x EXCEPT !.stage = "failed"].stage = "failed"
    BY DEF Call
  <2>2. \A c \in Arm : ~Rewriting(c)' /\ ~Armed(c)'
    BY <1>1, <1>5, <2>1 DEF Restart, Rewriting, Armed, At
  <2>3. latest' = durable'
    BY <1>5 DEF Restart
  <2>4. QED
    BY <2>2, <2>3 DEF ArmIsKept
<1>6. CASE \/ \E k \in Name : \/ WaitReturns(k) \/ ClosePane(k) \/ StartRun(k) \/ Settle(k)
                              \/ WatchSeesBlocked(k) \/ WatchCallback(k)
                              \/ \E n \in 1..Len(typed[k]) : TakeInput(k, n)
           \/ \E p \in transit : PushArrives(p) \/ PushAcknowledged(p) \/ PushTimesOut(p)
           \/ \E r \in outbox : WatchTakes(r)
           \/ \E g \in BatchId : GroupTimerFires(g)
           \/ BatchWindowEnds \/ Tick
  <2>1. UNCHANGED <<call, durable, latest>>
    BY <1>6 DEF WaitReturns, ClosePane, TakeInput, StartRun, Settle, WatchSeesBlocked, WatchCallback, PushArrives,
                PushAcknowledged, PushTimesOut, WatchTakes, GroupTimerFires, BatchWindowEnds,
                Tick, world, pane, history
  <2>2. QED
    BY <2>1, <1>2
<1>7. QED
  BY <1>2, <1>3, <1>4, <1>5, <1>6 DEF Next, vars, world, pane, history

\* Between calls the durable arm names the last call that succeeded
\* (completion.ts: sends are serialized, a failed one restores the arm) or that was
\* interrupted after it had written its arm (completion.ts:219: no restoring then),
\* as long as no name is spawned while it is in use.
THEOREM DurableArmIsTheLatest ==
    ASSUME "respawn" \notin Faults
    PROVE  Spec => []DurableArmIsLatest
<1>1. Init => SpawnsAreAlone /\ ArmIsKept
  BY DEF Init, SpawnsAreAlone, ArmIsKept, EarlySpawn, Rewriting, Armed, At
<1>2. Inv /\ SpawnsAreAlone /\ ArmIsKept /\ [Next]_vars => (SpawnsAreAlone /\ ArmIsKept)'
  BY AloneNext, ArmNext
<1>3. ArmIsKept => DurableArmIsLatest
  BY DEF ArmIsKept, DurableArmIsLatest, Idle, Rewriting, At
<1>4. QED
  BY <1>1, <1>2, <1>3, Invariance, PTL DEF Spec

----------------------------------------------------------------------------
(* The watchers.  They rest on results answering the calls that were made  *)
(* to their subagent, with every fault and across restarts.                *)

\* The arms of the calls made to each subagent.
Made == [k \in Name |-> Underway(k)]

\* The calls whose arm no watcher can wait for yet.
Fresh ==
    {c \in Arm :
        \/ call[c] = None
        \/ call[c].stage = "queued"
        \/ call[c].kind = "spawn" /\ call[c].stage \notin Ended}

\* An arm that a subagent knows is that of a call made to it.
ArmsAreAsked ==
    /\ \A k \in Name : durable[k] \in Underway(k) \cup {None}
    /\ \A k \in Name : subagent[k].arm \in Underway(k) \cup {None}
    /\ \A r \in results : r.arm \in Underway(r.name) \cup {None}
    /\ \A c \in Arm : call[c] # None => call[c].prev \in Underway(call[c].name) \cup {None}

WatchInv == ArmsAreAsked /\ Tidy(mgr, Made, Fresh)

\* Calls are never undone.
Onward ==
    \A c \in Arm :
        /\ call[c] # None =>
               /\ call'[c] # None
               /\ call'[c].name = call[c].name /\ call'[c].kind = call[c].kind
               /\ call[c].stage # "queued" => call'[c].stage # "queued"
               /\ call[c].kind = "spawn" /\ call[c].stage \in Ended => call'[c].stage \in Ended
               /\ call'[c].prev \in {call[c].prev, durable[call[c].name]}
        /\ call[c] = None /\ call'[c] # None => call'[c].prev = None

LEMMA AdvanceOnward ==
    ASSUME Inv, NEW c \in Arm, Advance(c)
    PROVE  /\ Onward
           /\ call[c] # None /\ call'[c] # None /\ call'[c].name = call[c].name
           /\ call'[c].kind = call[c].kind /\ call'[c].stage # "queued"
<1>1. Lined /\ WorldTyped
  BY DEF Inv
<1>2. call[c] # None /\ call[c] \in Call /\ call[c].name \in Name
  <2>1. call[c] # None
    BY DEF Advance, ReserveName, WriteSpawnArm, LaunchPane, FinalizeEntry, ReconcileSpawn,
           FailSpawn, PrepareSend, WriteSendArm, SendInput, SendReturns, ReconcileSend,
           FailSend, InputFails, RestoreArm, AbortSend, At
  <2>2. QED
    BY <2>1, CallFacts
<1>3. CASE PrepareSend(c)
  <2>1. PICK x \in Call :
            /\ call' = [call EXCEPT ![c] = x]
            /\ x.kind = "send" /\ x.name = call[c].name
            /\ x.stage = IF call[c].notify THEN "armed" ELSE "written"
            /\ x.prev = IF call[c].notify THEN durable[call[c].name] ELSE call[c].prev
    BY <1>1, <1>2, <1>3, PrepareSendFacts
  <2>2. call[c].kind = "send"
    BY <1>3 DEF PrepareSend, At
  <2>3. \A d \in Arm : call'[d] = IF d = c THEN x ELSE call[d]
    BY <1>1, <2>1 DEF Lined
  <2>4. \A d \in Arm : call[d] = None \/ call[d].prev \in {call[d].prev, durable[call[d].name]}
    OBVIOUS
  <2>5. QED
    BY <1>2, <2>1, <2>2, <2>3, <2>4, CallsAssumption DEF Onward
<1>4. CASE ~PrepareSend(c)
  <2>1. PICK s \in Stage \ {"queued"} : Goto(c, s)
    BY <1>4 DEF Advance, ReserveName, WriteSpawnArm, LaunchPane, FinalizeEntry, ReconcileSpawn,
           FailSpawn, WriteSendArm, SendInput, SendReturns, ReconcileSend,
           FailSend, InputFails, RestoreArm, AbortSend, Dequeue, Stage
  <2>2. ~(call[c].kind = "spawn" /\ call[c].stage \in Ended)
    BY <1>4 DEF Advance, ReserveName, WriteSpawnArm, LaunchPane, FinalizeEntry, ReconcileSpawn,
           FailSpawn, WriteSendArm, SendInput, SendReturns, ReconcileSend,
           FailSend, InputFails, RestoreArm, AbortSend, At, Ended
  <2>3. Went(c, s)
    BY <1>1, <1>2, <2>1, GotoWent
  <2>4. QED
    BY <2>1, <2>2, <2>3 DEF Onward, Went
<1>5. QED
  BY <1>3, <1>4

LEMMA NewCallOnward ==
    ASSUME Inv, NEW c \in Arm, call[c] = None, NEW kind \in {"spawn", "send"}, NEW k \in Name,
           NEW notify \in BOOLEAN, call' = [call EXCEPT ![c] = NewCall(kind, k, notify, "queued")]
    PROVE  Onward
<1> DEFINE x == NewCall(kind, k, notify, "queued")
<1>1. x \in Call /\ x.prev = None
  BY NewCallFacts
<1> HIDE DEF x
<1>2. \A d \in Arm : call'[d] = IF d = c THEN x ELSE call[d]
  BY DEF Inv, Lined, x
<1>3. QED
  BY <1>1, <1>2, CallsAssumption DEF Onward

LEMMA RestartOnward == ASSUME Inv, Restart PROVE Onward
<1>1. \A x \in Call : /\ [x EXCEPT !.stage = "failed"] \in Call
                      /\ [x EXCEPT !.stage = "failed"].stage = "failed"
                      /\ [x EXCEPT !.stage = "failed"].name = x.name
                      /\ [x EXCEPT !.stage = "failed"].kind = x.kind
                      /\ [x EXCEPT !.stage = "failed"].prev = x.prev
  BY DEF Call
<1>2. \A c \in Arm : call'[c] = IF call[c] = None THEN None
                                ELSE [call[c] EXCEPT !.stage = "failed"]
  BY DEF Restart
<1>3. \A c \in Arm : call[c] # None => call[c] \in Call
  BY DEF Inv, Lined
<1>4. ASSUME NEW c \in Arm, call[c] # None
      PROVE  /\ call'[c] \in Call /\ call'[c].stage = "failed"
             /\ call'[c].name = call[c].name /\ call'[c].kind = call[c].kind
             /\ call'[c].prev = call[c].prev
  <2>1. PICK x \in Call : x = call[c]
    BY <1>3, <1>4
  <2>2. call'[c] = [x EXCEPT !.stage = "failed"]
    BY <1>2, <1>4, <2>1
  <2>3. QED
    BY <1>1, <2>1, <2>2
<1>5. QED
  BY <1>2, <1>4, CallsAssumption DEF Onward, Ended

\* More calls have been made, and fewer are fresh.
LEMMA MadeGrows ==
    ASSUME Onward
    PROVE  (\A k : Underway(k) \subseteq Underway(k)') /\ Fresh' \subseteq Fresh
<1>1. ASSUME NEW k, NEW c \in Underway(k)
      PROVE  c \in Underway(k)'
  BY DEF Underway, CallsOn, Onward
<1>2. ASSUME NEW c \in Fresh'
      PROVE  c \in Fresh
  BY DEF Fresh, Onward
<1>3. QED
  BY <1>1, <1>2

\* No call is made to two subagents.
LEMMA OwnersOfCalls == Owners(Made)
  BY DEF Owners, Made, Underway, CallsOn

\* Between two calls to the manager only calls and arms have changed.
LEMMA WatchInvCarries ==
    ASSUME WatchInv, Onward
    PROVE  Tidy(mgr, Made', Fresh') /\ Owners(Made')
<1>1. \A k \in Name : Made[k] \subseteq Made'[k]
  BY MadeGrows DEF Made
<1>2. Tidy(mgr, Made', Fresh')
  BY <1>1, MadeGrows, TidyGrows DEF WatchInv
<1>3. Owners(Made')
  BY OwnersOfCalls DEF Owners, Made, Underway, CallsOn
<1>4. QED
  BY <1>2, <1>3

\* An arm goes from a call to the arm file, to the subagent and to a result.
LEMMA ArmsAreAskedGrows ==
    ASSUME Inv, ArmsAreAsked, Onward,
           \A k \in Name : durable'[k] = durable[k] \/ durable'[k] \in Underway(k)' \cup {None},
           \A k \in Name : subagent'[k].arm \in {subagent[k].arm, durable[k]},
           \A r \in results' : \/ r \in results
                               \/ r.name \in Name /\ r.arm \in {subagent[r.name].arm, durable[r.name]}
    PROVE  ArmsAreAsked'
<1>1. \A k : Underway(k) \subseteq Underway(k)'
  BY MadeGrows
<1>2. \A k \in Name : durable'[k] \in Underway(k)' \cup {None}
  BY <1>1 DEF ArmsAreAsked
<1>3. \A k \in Name : subagent'[k].arm \in Underway(k)' \cup {None}
  BY <1>1 DEF ArmsAreAsked
<1>4. \A r \in results' : r.arm \in Underway(r.name)' \cup {None}
  BY <1>1 DEF ArmsAreAsked
<1>5. ASSUME NEW c \in Arm, call'[c] # None
      PROVE  \A k : k = call'[c].name => call'[c].prev \in Underway(k)' \cup {None}
  <2>1. CASE call[c] = None
    BY <1>5, <2>1 DEF Onward
  <2>2. CASE call[c] # None
    <3>1. call[c].name \in Name /\ call'[c].name = call[c].name
      BY <2>2, CallFacts DEF Onward
    <3>2. call'[c].prev \in {call[c].prev, durable[call[c].name]}
      BY <2>2 DEF Onward
    <3>3. call'[c].prev \in Underway(call[c].name) \cup {None}
      BY <2>2, <3>1, <3>2 DEF ArmsAreAsked
    <3>4. QED
      BY <1>1, <3>1, <3>3
  <2>3. QED
    BY <2>1, <2>2
<1>6. \A c \in Arm : call'[c] # None => call'[c].prev \in Underway(call[c].name)' \cup {None}
  BY <1>5
<1>7. QED
  BY <1>2, <1>3, <1>4, <1>6 DEF ArmsAreAsked

\* A step that leaves calls and arms alone.
SameArms == UNCHANGED <<call, durable, results>> /\ \A k \in Name : subagent'[k].arm = subagent[k].arm

LEMMA SameArmsStep ==
    ASSUME Inv, WatchInv, SameArms, Tidy(mgr', Made, Fresh)
    PROVE  WatchInv'
<1>1. Onward
  BY DEF SameArms, Onward
<1>2. ArmsAreAsked'
  BY <1>1, ArmsAreAskedGrows DEF SameArms, WatchInv
<1>3. Made' = Made /\ Fresh' = Fresh
  BY DEF SameArms, Made, Fresh, Underway, CallsOn
<1>4. QED
  BY <1>2, <1>3 DEF WatchInv

\* The manager is given the arm of a call that is no longer fresh.
LEMMA ArmCallTidy ==
    ASSUME Inv, WatchInv, Onward, NEW c \in Arm, NEW k \in Name, call[c] # None, k = call[c].name,
           c \in Underway(k)', c \notin Fresh', c \notin mgr.doneArms
    PROVE  Tidy(ArmWatcher(mgr, k, call[c].since, {c}, "rpc"), Made', Fresh')
<1>1. call[c].since \in Nat
  BY CallFacts DEF Call
<1>2. c \in Made'[k] \ Fresh'
  BY DEF Made
<1>3. QED
  BY <1>1, <1>2, WatchInvCarries, ArmWatcherTidy

\* What the manager is told by a call that goes on.
LEMMA AdvanceManager ==
    ASSUME Inv, WatchInv, NEW c \in Arm, Advance(c)
    PROVE  Tidy(mgr', Made', Fresh')
<1> DEFINE k == call[c].name
<1>1. /\ Onward
      /\ call[c] # None /\ call'[c] # None /\ call'[c].name = k
      /\ call'[c].kind = call[c].kind /\ call'[c].stage # "queued"
  BY AdvanceOnward
<1>2. k \in Name /\ call \in [Arm -> Call \cup {None}]
  BY <1>1, CallFacts DEF Inv, Lined
<1>3. Tidy(mgr, Made', Fresh') /\ Owners(Made')
  BY <1>1, WatchInvCarries
<1>4. \A j \in Name : j = k => c \in Underway(j)'
  BY <1>1 DEF Underway, CallsOn
<1>5. c \notin Fresh \/ c \notin mgr.doneArms
  BY DEF WatchInv, Tidy, Sorted
<1> HIDE DEF k
<1>6. CASE ReconcileSpawn(c)
  <2>1. c \in Fresh
    BY <1>6 DEF ReconcileSpawn, At, Fresh, Ended
  <2>2. call'[c].stage = "done"
    <3>1. Went(c, "done")
      BY <1>1, <1>6, GotoWent DEF ReconcileSpawn, Stage, Inv
    <3>2. QED
      BY <3>1 DEF Went
  <2>3. c \notin Fresh'
    BY <1>1, <2>2 DEF Fresh, Ended
  <2>4. Tidy(ArmWatcher(mgr, k, call[c].since, {c}, "rpc"), Made', Fresh')
    BY <1>1, <1>2, <1>4, <1>5, <2>1, <2>3, ArmCallTidy DEF k
  <2>5. QED
    BY <1>3, <1>6, <2>4 DEF ReconcileSpawn, k
<1>7. CASE FailSpawn(c)
  BY <1>2, <1>3, <1>7, ReleaseMemberTidy DEF FailSpawn, k
<1>8. CASE PrepareSend(c)
  <2>1. c \in Fresh /\ c \notin Underway(k) /\ call[c].kind = "send"
    BY <1>8 DEF PrepareSend, At, Fresh, Underway
  <2>2. c \notin Fresh'
    BY <1>1, <2>1 DEF Fresh
  <2>3. Tidy(ArmWatcher(mgr, k, call[c].since, {c}, "rpc"), Made', Fresh')
    BY <1>1, <1>2, <1>4, <1>5, <2>1, <2>2, ArmCallTidy DEF k
  <2>4. \A r \in Items(mgr.early[k]) : r.arm # c
    BY <1>2, <2>1, ConstantsAssumption DEF WatchInv, Tidy, Sorted, SortedAt, Fits, Made
  <2>5. c \in Made'[k] \ Fresh'
    BY <1>2, <1>4, <2>2 DEF Made
  <2>6. Tidy(AcceptArm(mgr, k, c), Made', Fresh')
    BY <1>2, <1>3, <2>4, <2>5, AcceptArmTidy
  <2>7. QED
    BY <1>3, <1>8, <2>3, <2>6 DEF PrepareSend, k
<1>9. CASE ReconcileSend(c)
  <2>1. c \notin Fresh'
    BY <1>1, <1>9 DEF ReconcileSend, At, Fresh
  <2>2. c \notin mgr.doneArms => Tidy(ArmWatcher(mgr, k, call[c].since, {c}, "rpc"), Made', Fresh')
    BY <1>1, <1>2, <1>4, <2>1, ArmCallTidy DEF k
  <2>3. Tidy(Cancel(mgr, k, FALSE), Made', Fresh')
    BY <1>2, <1>3, CancelTidy
  <2>4. QED
    BY <1>3, <1>9, <2>2, <2>3 DEF ReconcileSend, CancelPane, ArrivedDuringAction, k
<1>10. CASE ~(ReconcileSpawn(c) \/ FailSpawn(c) \/ PrepareSend(c) \/ ReconcileSend(c))
  <2>1. mgr' = mgr
    BY <1>10 DEF Advance, ReserveName, WriteSpawnArm, LaunchPane, FinalizeEntry, WriteSendArm,
                 SendInput, SendReturns, FailSend, InputFails, RestoreArm, AbortSend, manager
  <2>2. QED
    BY <1>3, <2>1
<1>11. QED
  BY <1>6, <1>7, <1>8, <1>9, <1>10

\* A call that goes on types into its pane, or ends it, or leaves it alone.
LEMMA AdvancePane ==
    ASSUME NEW c \in Arm, Advance(c)
    PROVE  UNCHANGED pane \/ TypeInput(call[c].name, c) \/ EndPane(call[c].name)
<1>1. CASE LaunchPane(c) \/ SendInput(c)
  BY <1>1 DEF LaunchPane, SendInput
<1>2. CASE FailSpawn(c)
  BY <1>2 DEF FailSpawn
<1>3. CASE ~(LaunchPane(c) \/ SendInput(c) \/ FailSpawn(c))
  <2>1. UNCHANGED pane
    BY <1>3 DEF Advance, ReserveName, WriteSpawnArm, FinalizeEntry, ReconcileSpawn, PrepareSend,
           WriteSendArm, SendReturns, ReconcileSend, FailSend, InputFails, RestoreArm, AbortSend,
           world
  <2>2. QED
    BY <2>1
<1>4. QED
  BY <1>1, <1>2, <1>3

\* What a call that goes on writes and types.
LEMMA AdvanceArms ==
    ASSUME Inv, WatchInv, NEW c \in Arm, Advance(c)
    PROVE  ArmsAreAsked'
<1> DEFINE k == call[c].name
<1>1. /\ Onward
      /\ call[c] # None /\ call'[c] # None /\ call'[c].name = k
      /\ call'[c].stage # "queued"
  BY AdvanceOnward
<1>2. /\ k \in Name /\ durable \in [Name -> Arm \cup {None}]
      /\ subagent \in [Name -> [running : BOOLEAN, arm : Arm \cup {None}]]
  BY <1>1, CallFacts DEF Inv, WorldTyped
<1>3. \A j \in Name : j = k => c \in Underway(j)'
  BY <1>1 DEF Underway, CallsOn
<1>4. call[c].prev \in Underway(k) \cup {None}
  BY <1>1 DEF WatchInv, ArmsAreAsked
<1>5. \A j \in Name : durable'[j] \in {durable[j]} \/ (j = k /\ durable'[j] \in {c, call[c].prev})
  BY <1>2 DEF Advance, ReserveName, WriteSpawnArm, LaunchPane, FinalizeEntry, ReconcileSpawn,
           FailSpawn, PrepareSend, WriteSendArm, SendInput, SendReturns, ReconcileSend,
           FailSend, InputFails, RestoreArm, AbortSend, world, pane
<1>6. \A j \in Name : subagent'[j].arm = subagent[j].arm
  <2>1. UNCHANGED pane \/ TypeInput(k, c) \/ EndPane(k)
    BY AdvancePane
  <2>2. QED
    BY <1>2, <2>1 DEF pane, TypeInput, EndPane
<1>7. results' = results
  BY DEF Advance, ReserveName, WriteSpawnArm, LaunchPane, FinalizeEntry, ReconcileSpawn,
           FailSpawn, PrepareSend, WriteSendArm, SendInput, SendReturns, ReconcileSend,
           FailSend, InputFails, RestoreArm, AbortSend, wire, pane
<1>8. \A j \in Name : durable'[j] = durable[j] \/ durable'[j] \in Underway(j)' \cup {None}
  <2>1. \A j : Underway(j) \subseteq Underway(j)'
    BY <1>1, MadeGrows
  <2>2. QED
    BY <1>3, <1>4, <1>5, <2>1
<1>9. QED
  BY <1>1, <1>6, <1>7, <1>8, ArmsAreAskedGrows DEF WatchInv

\* A call begins; a spawn that asks for a report joins the batch.
LEMMA StartCallWatch ==
    ASSUME Inv, WatchInv, NEW c \in Arm, NEW k \in Name, NEW notify \in BOOLEAN,
           StartSpawn(c, k, notify) \/ StartSend(c, k, notify)
    PROVE  WatchInv'
<1>1. /\ UNCHANGED <<durable, subagent, results>>
      /\ mgr' \in {mgr, AddKeyToBatch(mgr, k)}
  BY DEF StartSpawn, StartSend, BeginMember, world, pane, wire, manager
<1>2. call[c] = None /\ \E kind \in {"spawn", "send"} :
          call' = [call EXCEPT ![c] = NewCall(kind, k, notify, "queued")]
  BY DEF StartSpawn, StartSend
<1>3. Onward
  BY <1>2, NewCallOnward
<1>4. ArmsAreAsked'
  BY <1>1, <1>3, ArmsAreAskedGrows DEF WatchInv
<1>5. Tidy(mgr, Made', Fresh')
  BY <1>3, WatchInvCarries
<1>6. SameWatch(mgr, AddKeyToBatch(mgr, k))
  BY <1>5, BatchWatch DEF Tidy, Sorted
<1>7. Tidy(AddKeyToBatch(mgr, k), Made', Fresh')
  BY <1>5, <1>6, SameWatchTidy
<1>8. QED
  BY <1>1, <1>4, <1>5, <1>7 DEF WatchInv

LEMMA RestartWatch == ASSUME Inv, WatchInv, Restart PROVE WatchInv'
<1>1. Onward
  BY RestartOnward
<1>2. UNCHANGED <<durable, subagent, results>> /\ mgr' = CancelAll(mgr)
  BY DEF Restart, pane
<1>3. ArmsAreAsked'
  BY <1>1, <1>2, ArmsAreAskedGrows DEF WatchInv
<1>4. QED
  BY <1>2, <1>3, CancelAllTidy DEF WatchInv

\* wait and close end the watch.
LEMMA CancelWatch ==
    ASSUME Inv, WatchInv, NEW k \in Name, WaitReturns(k) \/ ClosePane(k)
    PROVE  WatchInv'
<1>1. subagent \in [Name -> [running : BOOLEAN, arm : Arm \cup {None}]]
  BY DEF Inv, WorldTyped
<1>2. SameArms
  BY <1>1 DEF SameArms, WaitReturns, ClosePane, EndPane, world, pane, wire
<1>3. mgr' = Cancel(mgr, k, FALSE)
  BY DEF WaitReturns, ClosePane, CancelPane
<1>4. QED
  BY <1>2, <1>3, OwnersOfCalls, CancelTidy, SameArmsStep DEF WatchInv

\* A subagent reads the arm file.
LEMMA ReadWatch ==
    ASSUME Inv, WatchInv, NEW k \in Name,
           StartRun(k) \/ \E n \in 1..Len(typed[k]) : TakeInput(k, n)
    PROVE  WatchInv'
<1>1. /\ UNCHANGED <<mgr, call, durable, results>>
      /\ \A j \in Name : subagent'[j].arm \in {subagent[j].arm, durable[j]}
  <2>1. UNCHANGED <<mgr, call, durable, results>>
    BY DEF StartRun, TakeInput, manager, wire
  <2>2. subagent \in [Name -> [running : BOOLEAN, arm : Arm \cup {None}]]
    BY DEF Inv, WorldTyped
  <2>3. CASE StartRun(k)
    BY <2>1, <2>2, <2>3 DEF StartRun
  <2>4. CASE \E n \in 1..Len(typed[k]) : TakeInput(k, n)
    <3>1. subagent' = [subagent EXCEPT ![k] = [running |-> TRUE, arm |-> durable[k]]]
      BY <2>4 DEF TakeInput
    <3>2. QED
      BY <2>1, <2>2, <3>1
  <2>5. QED
    BY <2>3, <2>4
<1>2. Onward
  BY <1>1 DEF Onward
<1>3. ArmsAreAsked'
  BY <1>1, <1>2, ArmsAreAskedGrows DEF WatchInv
<1>4. Made' = Made /\ Fresh' = Fresh
  BY <1>1 DEF Made, Fresh, Underway, CallsOn
<1>5. QED
  BY <1>1, <1>3, <1>4 DEF WatchInv

\* A result carries the arm that the subagent read last.
LEMMA SettleWatch ==
    ASSUME Inv, WatchInv, NEW k \in Name, Settle(k)
    PROVE  WatchInv'
<1> DEFINE arm == IF subagent[k].arm = None THEN durable[k] ELSE subagent[k].arm
           r == [id |-> nextId + 1, name |-> k, arm |-> arm, at |-> clock, final |-> TRUE]
<1>1. /\ subagent' = [subagent EXCEPT ![k] = [running |-> FALSE, arm |-> arm]]
      /\ results' = results \cup {r}
      /\ UNCHANGED <<mgr, call, durable>>
  BY DEF Settle, manager
<1>2. r.name = k /\ r.arm = arm /\ arm \in {subagent[k].arm, durable[k]}
  OBVIOUS
<1> HIDE DEF arm, r
<1>3. subagent \in [Name -> [running : BOOLEAN, arm : Arm \cup {None}]]
  BY DEF Inv, WorldTyped
<1>4. Onward
  BY <1>1 DEF Onward
<1>5. \A j \in Name : subagent'[j].arm \in {subagent[j].arm, durable[j]}
  BY <1>1, <1>2, <1>3
<1>6. \A s \in results' : \/ s \in results
                          \/ s.name \in Name /\ s.arm \in {subagent[s.name].arm, durable[s.name]}
  BY <1>1, <1>2
<1>7. ArmsAreAsked'
  BY <1>1, <1>4, <1>5, <1>6, ArmsAreAskedGrows DEF WatchInv
<1>8. Made' = Made /\ Fresh' = Fresh
  BY <1>1 DEF Made, Fresh, Underway, CallsOn
<1>9. QED
  BY <1>1, <1>7, <1>8 DEF WatchInv

\* A result on its way is of a subagent, and answers a call made to it.
LEMMA ResultFits ==
    ASSUME Inv, WatchInv, NEW r \in results
    PROVE  r.name \in Name /\ Fits(r, r.name, Made)
<1>1. r \in Result
  BY DEF Inv, Session, ResultsOf
<1>2. r.name \in Name
  BY <1>1 DEF Result
<1>3. QED
  BY <1>1, <1>2 DEF WatchInv, ArmsAreAsked, Fits, Made

LEMMA PushArrivesWatch ==
    ASSUME Inv, WatchInv, NEW p \in transit, PushArrives(p)
    PROVE  WatchInv'
<1>1. p.result \in results
  BY TransitFacts
<1>2. SameArms
  BY DEF SameArms, PushArrives, world, pane
<1>3. Tidy(mgr', Made, Fresh)
  BY <1>1, ResultFits, OwnersOfCalls, ProcessExternalTidy DEF PushArrives, WatchInv
<1>4. QED
  BY <1>2, <1>3, SameArmsStep

LEMMA WatchTakesWatch ==
    ASSUME Inv, WatchInv, NEW r \in outbox, WatchTakes(r)
    PROVE  WatchInv'
<1>1. r \in results
  BY TransitFacts
<1>2. r.name \in Name /\ Fits(r, r.name, Made) /\ r \in Result
  BY <1>1, ResultFits DEF Fits
<1>3. mgr.watchers[r.name] # None /\ mgr' \in {mgr, SetFound(mgr, r.name, r)}
  BY DEF WatchTakes
<1>4. Tidy([mgr EXCEPT !.watchers[r.name].found = r], Made, Fresh)
  BY <1>2, <1>3, SetFoundTidy DEF WatchInv
<1>5. SameArms
  BY DEF SameArms, WatchTakes, world, pane
<1>6. QED
  BY <1>3, <1>4, <1>5, SameArmsStep DEF SetFound, WatchInv

LEMMA PaneWatch ==
    ASSUME Inv, WatchInv, NEW k \in Name, WatchSeesBlocked(k) \/ WatchCallback(k)
    PROVE  WatchInv'
<1>1. SameArms
  BY DEF SameArms, WatchSeesBlocked, WatchCallback, world, pane, wire
<1>2. CASE WatchSeesBlocked(k)
  <2>1. mgr.watchers[k] # None /\ mgr' = [mgr EXCEPT !.watchers[k].found = Settled]
    BY <1>2 DEF WatchSeesBlocked, SetFound
  <2>2. QED
    BY <1>1, <2>1, SetFoundTidy, SameArmsStep DEF WatchInv
<1>3. CASE WatchCallback(k)
  BY <1>1, <1>3, OwnersOfCalls, WatchResolvedTidy, SameArmsStep DEF WatchCallback, WatchInv
<1>4. QED
  BY <1>2, <1>3

LEMMA TimersWatch ==
    ASSUME Inv, WatchInv, BatchWindowEnds \/ \E g \in BatchId : GroupTimerFires(g)
    PROVE  WatchInv'
<1>1. SameArms
  BY DEF SameArms, BatchWindowEnds, GroupTimerFires, world, pane, wire
<1>2. DOMAIN mgr = Fields
  BY DEF WatchInv, Tidy, Sorted
<1>3. SameWatch(mgr, mgr')
  BY <1>2, BatchWatch, OnGroupTimeoutWatch DEF BatchWindowEnds, GroupTimerFires
<1>4. QED
  BY <1>1, <1>3, SameWatchTidy, SameArmsStep DEF WatchInv

LEMMA WatchInvInit == Init => WatchInv
<1> SUFFICES ASSUME Init PROVE WatchInv
  OBVIOUS
<1>1. ArmsAreAsked
  BY DEF Init, ArmsAreAsked
<1>2. DOMAIN EmptyManager = Fields
  BY DEF EmptyManager, Fields
<1>3. SameWatch(CancelAll(EmptyManager), EmptyManager)
  BY <1>2 DEF SameWatch, CancelAll, Fields
<1>4. Tidy(EmptyManager, Made, Fresh)
  BY <1>3, CancelAllTidy, SameWatchTidy
<1>5. QED
  BY <1>1, <1>4 DEF Init, WatchInv

LEMMA WatchInvNext == Inv /\ WatchInv /\ [Next]_vars => WatchInv'
<1> SUFFICES ASSUME Inv, WatchInv, [Next]_vars PROVE WatchInv'
  OBVIOUS
<1>1. CASE UNCHANGED <<mgr, call, durable, subagent, results>>
  BY <1>1, SameArmsStep DEF SameArms, WatchInv
<1>2. ASSUME NEW c \in Arm, NEW k \in Name, NEW notify \in BOOLEAN,
             StartSpawn(c, k, notify) \/ StartSend(c, k, notify)
      PROVE  WatchInv'
  BY <1>2, StartCallWatch
<1>3. ASSUME NEW c \in Arm, Advance(c)
      PROVE  WatchInv'
  BY <1>3, AdvanceManager, AdvanceArms DEF WatchInv
<1>4. ASSUME NEW k \in Name,
             \/ WaitReturns(k) \/ ClosePane(k) \/ StartRun(k) \/ Settle(k)
             \/ WatchSeesBlocked(k) \/ WatchCallback(k)
             \/ \E n \in 1..Len(typed[k]) : TakeInput(k, n)
      PROVE  WatchInv'
  BY <1>4, CancelWatch, ReadWatch, SettleWatch, PaneWatch
<1>5. ASSUME NEW p \in transit, PushArrives(p) \/ PushAcknowledged(p) \/ PushTimesOut(p)
      PROVE  WatchInv'
  BY <1>1, <1>5, PushArrivesWatch DEF PushAcknowledged, PushTimesOut, world, pane, manager
<1>6. ASSUME NEW r \in outbox, WatchTakes(r)
      PROVE  WatchInv'
  BY <1>6, WatchTakesWatch
<1>7. CASE BatchWindowEnds \/ \E g \in BatchId : GroupTimerFires(g)
  BY <1>7, TimersWatch
<1>8. CASE Restart
  BY <1>8, RestartWatch
<1>9. CASE Tick \/ UNCHANGED vars
  BY <1>1, <1>9 DEF Tick, vars, world, pane, wire, manager
<1>10. QED
  BY <1>2, <1>3, <1>4, <1>5, <1>6, <1>7, <1>8, <1>9 DEF Next

LEMMA WatchInvariance == Spec => []WatchInv
<1>1. QED
  BY WatchInvInit, WatchInvNext, Invariance, PTL DEF Spec

\* A completion that arrives before its send returns arms no second watcher
\* (hasDeliveredArm, ADR 0002): none waits for nothing but delivered arms.
THEOREM WatchersAwaitSomething == Spec => []NoFutileWatcher
<1>1. WatchInv => NoFutileWatcher
  BY DEF WatchInv, Tidy, Sorted, SortedAt, NoFutileWatcher
<1>2. QED
  BY <1>1, WatchInvariance, PTL

\* No result that its watcher would take stays among the early ones
\* (drainEarlyResults runs whenever a watcher or an arm is added).
THEOREM EarlyResultsAreTaken == Spec => []NoStrandedResult
<1>1. WatchInv => NoStrandedResult
  BY DEF WatchInv, Tidy, Drained, Items, NoStrandedResult
<1>2. QED
  BY <1>1, WatchInvariance, PTL

=============================================================================
