----------------------------- MODULE Lsp_proofs -----------------------------
(***************************************************************************)
(* For any number of tool calls, as long as no spawn is aborted while its  *)
(* server is being initialized and no restart overlaps a spawn: no process *)
(* of a language server is forgotten, one at most serves a root, shutdown  *)
(* leaves none, and one that failed is not started again by itself.  And a *)
(* server follows its client, however opens and edits of any number of     *)
(* calls overlap, from the root nearest to the file, at any depth.         *)
(***************************************************************************)
EXTENDS MCLsp, TLAPS, FiniteSetTheorems, WellFoundedInduction

-----------------------------------------------------------------------------
(* The runtime: the invariant                                              *)

\* The faults under which the runtime keeps its promises.
Orderly == "abort_any" \notin Faults /\ "overlap" \notin Faults

\* A spawn has the root to itself: no client is in the map, no restart is
\* under way and no server has failed since the last one.
SpawnIsAlone ==
    \A c \in Call : call[c].stage \in Spawning =>
        /\ client = None
        /\ ~restarting
        /\ ~fell
        /\ spawning = c \/ shuttingDown
        /\ \A d \in Call : call[d].stage \in Spawning => c = d

\* A call that spawns has a process from the end of the prompt on.
SpawnHasServer ==
    \A c \in Call :
        /\ call[c].stage \in {"idle", "asking", "allowed"} => server[c] = "none"
        /\ server[c] = "starting" <=> At(c, "initializing")

\* The client of the map was initialized; a running one is in the map.
ClientIsKnown ==
    /\ client # None => server[client] \in {"running", "dead"}
    /\ \A c \in Call : server[c] = "running" => client = c
    /\ shuttingDown => client = None

\* A failed server is remembered until a restart.
FailureIsKept ==
    fell => \/ client # None /\ server[client] = "dead"
            \/ broken \/ restarting \/ shuttingDown

Inv == TypeOK /\ SpawnIsAlone /\ SpawnHasServer /\ ClientIsKnown /\ FailureIsKept

-----------------------------------------------------------------------------
(* The invariant holds at first                                            *)

LEMMA InitInv == ASSUME Init PROVE Inv
<1>1. TypeOK
  BY DEF Init, TypeOK, Live, Busy, Spawning
<1>2. \A c \in Call : call[c].stage = "idle" /\ server[c] = "none"
  BY DEF Init
<1>3. SpawnIsAlone /\ SpawnHasServer
  BY <1>2 DEF SpawnIsAlone, SpawnHasServer, Spawning, At
<1>4. ClientIsKnown /\ FailureIsKept
  BY <1>2 DEF Init, ClientIsKnown, FailureIsKept
<1>5. QED
  BY <1>1, <1>3, <1>4 DEF Inv

-----------------------------------------------------------------------------
(* Calls that start no server                                              *)

\* A mark on the client that the map holds shows a status.
LEMMA StatusType == \A cl, srv : Status(cl, srv) \in {"none", "running", "broken"}
  BY DEF Status

\* A call that spawns nothing goes on or returns: it takes the client of the
\* map, waits for another's spawn, or finds the client broken and says so.
LEMMA CallGoesOn ==
    ASSUME Inv, NEW c \in Call, ~At(c, "initializing"),
           NEW to \in {"awaiting", "opening", "done"}, NEW uses \in Call \cup {None},
           to = "done" <=> uses = None, Go(c, to, uses),
           broken' \in BOOLEAN, broken => broken', shown' \in {"none", "running", "broken"},
           UNCHANGED <<deferred, server, client, spawning, permission,
                       restarting, shuttingDown, fell>>
    PROVE  Inv'
<1>1. TypeOK'
  BY DEF Inv, TypeOK, Go, Busy
<1>2. \A d \in Call : call'[d] = IF d = c THEN [stage |-> to, uses |-> uses] ELSE call[d]
  BY DEF Inv, TypeOK, Go
<1>3. SpawnIsAlone' /\ SpawnHasServer'
  BY <1>2 DEF Inv, SpawnIsAlone, SpawnHasServer, At, Spawning
<1>4. ClientIsKnown' /\ FailureIsKept'
  BY DEF Inv, ClientIsKnown, FailureIsKept
<1>5. QED
  BY <1>1, <1>3, <1>4 DEF Inv

LEMMA LookupStep ==
    ASSUME NEW c \in Call, Inv,
           Rejected(c) \/ UseExisting(c) \/ FindReason(c) \/ JoinSpawn(c)
    PROVE  Inv'
<1>1. ~At(c, "initializing") /\ broken' = broken /\ shown' = shown
  BY DEF Rejected, UseExisting, FindReason, JoinSpawn, At
<1>2. broken \in BOOLEAN /\ shown \in {"none", "running", "broken"}
      /\ client \in Call \cup {None} /\ spawning \in Call \cup {None}
  BY DEF Inv, TypeOK
<1>3. CASE Rejected(c) \/ FindReason(c)
  BY <1>1, <1>2, <1>3, CallGoesOn DEF Rejected, FindReason, Return
<1>4. CASE UseExisting(c)
  BY <1>1, <1>2, <1>4, CallGoesOn DEF UseExisting
<1>5. CASE JoinSpawn(c)
  BY <1>1, <1>2, <1>5, CallGoesOn DEF JoinSpawn
<1>6. QED
  BY <1>3, <1>4, <1>5

LEMMA FindBrokenStep == ASSUME NEW c \in Call, Inv, FindBroken(c) PROVE Inv'
<1>1. ~At(c, "initializing") /\ Go(c, "done", None)
  BY DEF FindBroken, At, Return
<1>2. broken' = TRUE /\ shown' \in {"none", "running", "broken"}
  BY StatusType DEF FindBroken, MarkBroken, Inv, TypeOK
<1>3. QED
  BY <1>1, <1>2, CallGoesOn DEF FindBroken

LEMMA AwaitSpawnStep == ASSUME NEW c \in Call, Inv, AwaitSpawn(c) PROVE Inv'
<1>1. ~At(c, "initializing") /\ call[c].uses \in Call
  BY DEF AwaitSpawn, At, Inv, TypeOK
<1>2. broken' \in BOOLEAN /\ (broken => broken') /\ shown' \in {"none", "running", "broken"}
  BY DEF AwaitSpawn, Inv, TypeOK
<1>3. Go(c, "opening", call[c].uses) \/ Go(c, "done", None)
  BY DEF AwaitSpawn, Return
<1>4. QED
  BY <1>1, <1>2, <1>3, NoneIsNoCall, CallGoesOn DEF AwaitSpawn

LEMMA OpenStep == ASSUME NEW c \in Call, Inv, Open(c) PROVE Inv'
<1>1. ~At(c, "initializing") /\ Go(c, "done", None)
  BY DEF Open, At, Return
<1>2. broken \in BOOLEAN /\ shown \in {"none", "running", "broken"}
  BY DEF Inv, TypeOK
<1>3. CASE MarkBroken
  <2>1. broken' = TRUE /\ shown' \in {"none", "running", "broken"}
    BY <1>2, <1>3, StatusType DEF MarkBroken
  <2>2. QED
    BY <1>1, <2>1, CallGoesOn DEF Open
<1>4. CASE UNCHANGED <<broken, shown>>
  BY <1>1, <1>2, <1>4, CallGoesOn DEF Open
<1>5. QED
  BY <1>3, <1>4 DEF Open

LEMMA TouchRunningStep == ASSUME Inv, TouchRunning PROVE Inv'
<1>1. broken' = TRUE /\ shown' \in {"none", "running", "broken"}
  BY StatusType DEF TouchRunning, MarkBroken, Inv, TypeOK
<1>2. TypeOK' /\ SpawnIsAlone' /\ SpawnHasServer'
  BY <1>1 DEF TouchRunning, Inv, TypeOK, SpawnIsAlone, SpawnHasServer, At
<1>3. ClientIsKnown' /\ FailureIsKept'
  BY <1>1 DEF TouchRunning, Inv, ClientIsKnown, FailureIsKept
<1>4. QED
  BY <1>2, <1>3 DEF Inv

-----------------------------------------------------------------------------
(* The spawning call                                                       *)

\* Nothing runs, fails or restarts where a spawn begins.
LEMMA BeginSpawnStep == ASSUME NEW c \in Call, Orderly, Inv, BeginSpawn(c) PROVE Inv'
<1>1. TypeOK'
  BY NoneIsNoCall, StatusType DEF BeginSpawn, Inv, TypeOK, Live, Busy, Spawning, At,
     Go
<1>2. SpawnIsAlone'
  BY NoneIsNoCall DEF BeginSpawn, Inv, TypeOK, SpawnIsAlone, SpawnHasServer,
     ClientIsKnown, FailureIsKept, At, Go, Spawning, Orderly
<1>3. SpawnHasServer'
  BY NoneIsNoCall DEF BeginSpawn, Inv, TypeOK, SpawnIsAlone, SpawnHasServer,
     ClientIsKnown, FailureIsKept, At, Go, Spawning, Orderly
<1>4. ClientIsKnown'
  BY NoneIsNoCall DEF BeginSpawn, Inv, TypeOK, SpawnIsAlone, SpawnHasServer,
     ClientIsKnown, FailureIsKept, At, Go, Spawning, Orderly
<1>5. FailureIsKept'
  BY NoneIsNoCall DEF BeginSpawn, Inv, TypeOK, SpawnIsAlone, SpawnHasServer,
     ClientIsKnown, FailureIsKept, At, Go, Spawning, Orderly
<1>6. QED
  BY <1>1, <1>2, <1>3, <1>4, <1>5 DEF Inv

LEMMA AskPermissionStep == ASSUME NEW c \in Call, Inv, AskPermission(c) PROVE Inv'
<1>1. TypeOK'
  BY NoneIsNoCall, StatusType DEF AskPermission, Inv, TypeOK, Live, Busy, Spawning,
     At, Go, Return, Settle
<1>2. SpawnIsAlone'
  BY NoneIsNoCall DEF AskPermission, Inv, TypeOK, SpawnIsAlone, SpawnHasServer,
     ClientIsKnown, FailureIsKept, At, Go, Return, Settle, Spawning
<1>3. SpawnHasServer'
  BY NoneIsNoCall DEF AskPermission, Inv, TypeOK, SpawnIsAlone, SpawnHasServer,
     ClientIsKnown, FailureIsKept, At, Go, Return, Settle, Spawning
<1>4. ClientIsKnown'
  BY NoneIsNoCall DEF AskPermission, Inv, TypeOK, SpawnIsAlone, SpawnHasServer,
     ClientIsKnown, FailureIsKept, At, Go, Return, Settle, Spawning
<1>5. FailureIsKept'
  BY NoneIsNoCall DEF AskPermission, Inv, TypeOK, SpawnIsAlone, SpawnHasServer,
     ClientIsKnown, FailureIsKept, At, Go, Return, Settle, Spawning
<1>6. QED
  BY <1>1, <1>2, <1>3, <1>4, <1>5 DEF Inv

LEMMA SpawnServerStep == ASSUME NEW c \in Call, Inv, SpawnServer(c) PROVE Inv'
<1>1. TypeOK'
  BY NoneIsNoCall, StatusType DEF SpawnServer, Inv, TypeOK, Live, Busy, Spawning, At,
     Go
<1>2. SpawnIsAlone'
  BY NoneIsNoCall DEF SpawnServer, Inv, TypeOK, SpawnIsAlone, SpawnHasServer,
     ClientIsKnown, FailureIsKept, At, Go, Spawning
<1>3. SpawnHasServer'
  BY NoneIsNoCall DEF SpawnServer, Inv, TypeOK, SpawnIsAlone, SpawnHasServer,
     ClientIsKnown, FailureIsKept, At, Go, Spawning
<1>4. ClientIsKnown'
  BY NoneIsNoCall DEF SpawnServer, Inv, TypeOK, SpawnIsAlone, SpawnHasServer,
     ClientIsKnown, FailureIsKept, At, Go, Spawning
<1>5. FailureIsKept'
  BY NoneIsNoCall DEF SpawnServer, Inv, TypeOK, SpawnIsAlone, SpawnHasServer,
     ClientIsKnown, FailureIsKept, At, Go, Spawning
<1>6. QED
  BY <1>1, <1>2, <1>3, <1>4, <1>5 DEF Inv

LEMMA SpawnFailsStep == ASSUME NEW c \in Call, Inv, SpawnFails(c) PROVE Inv'
<1>1. TypeOK'
  BY NoneIsNoCall, StatusType DEF SpawnFails, Inv, TypeOK, Live, Busy, Spawning, At,
     Go, Return, Settle, MarkBroken
<1>2. SpawnIsAlone'
  BY NoneIsNoCall DEF SpawnFails, Inv, TypeOK, SpawnIsAlone, SpawnHasServer,
     ClientIsKnown, FailureIsKept, At, Go, Return, Settle, MarkBroken, Spawning
<1>3. SpawnHasServer'
  BY NoneIsNoCall DEF SpawnFails, Inv, TypeOK, SpawnIsAlone, SpawnHasServer,
     ClientIsKnown, FailureIsKept, At, Go, Return, Settle, MarkBroken, Spawning
<1>4. ClientIsKnown'
  BY NoneIsNoCall DEF SpawnFails, Inv, TypeOK, SpawnIsAlone, SpawnHasServer,
     ClientIsKnown, FailureIsKept, At, Go, Return, Settle, MarkBroken, Spawning
<1>5. FailureIsKept'
  BY NoneIsNoCall DEF SpawnFails, Inv, TypeOK, SpawnIsAlone, SpawnHasServer,
     ClientIsKnown, FailureIsKept, At, Go, Return, Settle, MarkBroken, Spawning
<1>6. QED
  BY <1>1, <1>2, <1>3, <1>4, <1>5 DEF Inv

\* The map is empty when a server comes up, so that none is pushed out of it.
LEMMA InitializedStep == ASSUME NEW c \in Call, Inv, Initialized(c) PROVE Inv'
<1>1. /\ TypeOK
      /\ At(c, "initializing") /\ client = None /\ ~restarting /\ ~fell
      /\ server[c] = "starting" /\ \A d \in Call : d # c => call[d].stage \notin Spawning
  BY DEF Initialized, Inv, SpawnIsAlone, SpawnHasServer, At, Spawning
<1>2. \A d \in Call \ {c} : server[d] \notin {"starting", "running"}
  BY <1>1, NoneIsNoCall DEF Inv, SpawnHasServer, ClientIsKnown, At, Spawning
<1>3. CASE ~shuttingDown
  <2>1. Install(c)
    BY <1>3 DEF Initialized
  <2>2. /\ call' = [call EXCEPT ![c] = [stage |-> "opening", uses |-> c]]
        /\ server' = [server EXCEPT ![c] = "running"]
        /\ deferred' = [deferred EXCEPT ![c] = "client"]
        /\ client' = c /\ spawning' \in {spawning, None}
    BY <2>1 DEF Install, Settle, Go
  <2>3. shown' \in {"none", "running", "broken"}
    BY <2>1, StatusType DEF Install
  <2>4. TypeOK'
    BY <1>1, <2>2, <2>3, NoneIsNoCall DEF Initialized, TypeOK, Live, Busy
  <2>5. SpawnIsAlone' /\ SpawnHasServer'
    BY <1>1, <1>2, <2>2 DEF Inv, TypeOK, SpawnIsAlone, SpawnHasServer, At, Spawning
  <2>6. ClientIsKnown' /\ FailureIsKept'
    BY <1>1, <1>2, <1>3, <2>2, NoneIsNoCall
       DEF Initialized, TypeOK, ClientIsKnown, FailureIsKept
  <2>7. QED
    BY <2>4, <2>5, <2>6 DEF Inv
<1>4. CASE shuttingDown
  <2>1. /\ call' = [call EXCEPT ![c] = [stage |-> "done", uses |-> None]]
        /\ server' = [server EXCEPT ![c] = "closing"]
        /\ deferred' = [deferred EXCEPT ![c] = "failed"]
        /\ spawning' \in {spawning, None} /\ UNCHANGED <<client, shown>>
    BY <1>4 DEF Initialized, Settle, Return, Go
  <2>2. TypeOK'
    BY <1>1, <2>1 DEF Initialized, TypeOK, Live, Busy
  <2>3. SpawnIsAlone' /\ SpawnHasServer'
    BY <1>1, <1>2, <2>1 DEF Inv, TypeOK, SpawnIsAlone, SpawnHasServer, At, Spawning
  <2>4. ClientIsKnown' /\ FailureIsKept'
    BY <1>1, <1>2, <1>4, <2>1 DEF Initialized, TypeOK, ClientIsKnown, FailureIsKept
  <2>5. QED
    BY <2>2, <2>3, <2>4 DEF Inv
<1>5. QED
  BY <1>3, <1>4 DEF Inv, TypeOK


\* A call that initializes a server is not aborted.
LEMMA AbortStep == ASSUME NEW c \in Call, Orderly, Inv, Abort(c) PROVE Inv'
<1>1. TypeOK'
  BY NoneIsNoCall, StatusType DEF Abort, Inv, TypeOK, Live, Busy, Spawning, At, Go,
     Return
<1>2. SpawnIsAlone'
  BY NoneIsNoCall DEF Abort, Inv, TypeOK, SpawnIsAlone, SpawnHasServer, ClientIsKnown,
     FailureIsKept, At, Go, Return, Spawning, Busy, Orderly
<1>3. SpawnHasServer'
  BY NoneIsNoCall DEF Abort, Inv, TypeOK, SpawnIsAlone, SpawnHasServer, ClientIsKnown,
     FailureIsKept, At, Go, Return, Spawning, Busy, Orderly
<1>4. ClientIsKnown'
  BY NoneIsNoCall DEF Abort, Inv, TypeOK, SpawnIsAlone, SpawnHasServer, ClientIsKnown,
     FailureIsKept, At, Go, Return, Spawning, Busy, Orderly
<1>5. FailureIsKept'
  BY NoneIsNoCall DEF Abort, Inv, TypeOK, SpawnIsAlone, SpawnHasServer, ClientIsKnown,
     FailureIsKept, At, Go, Return, Spawning, Busy, Orderly
<1>6. QED
  BY <1>1, <1>2, <1>3, <1>4, <1>5 DEF Inv

-----------------------------------------------------------------------------
(* Restart, shutdown and the server processes                              *)

\* A restart begins where no call spawns.
LEMMA RestartBeginStep == ASSUME Orderly, Inv, RestartBegin PROVE Inv'
<1>1. TypeOK'
  BY NoneIsNoCall, StatusType DEF RestartBegin, Inv, TypeOK, Live, Busy, Spawning, At,
     Close
<1>2. SpawnIsAlone'
  BY NoneIsNoCall DEF RestartBegin, Inv, TypeOK, SpawnIsAlone, SpawnHasServer,
     ClientIsKnown, FailureIsKept, At, Close, Spawning, Orderly
<1>3. SpawnHasServer'
  BY NoneIsNoCall DEF RestartBegin, Inv, TypeOK, SpawnIsAlone, SpawnHasServer,
     ClientIsKnown, FailureIsKept, At, Close, Spawning, Orderly
<1>4. ClientIsKnown'
  BY NoneIsNoCall DEF RestartBegin, Inv, TypeOK, SpawnIsAlone, SpawnHasServer,
     ClientIsKnown, FailureIsKept, At, Close, Spawning, Orderly
<1>5. FailureIsKept'
  BY NoneIsNoCall DEF RestartBegin, Inv, TypeOK, SpawnIsAlone, SpawnHasServer,
     ClientIsKnown, FailureIsKept, At, Close, Spawning, Orderly
<1>6. QED
  BY <1>1, <1>2, <1>3, <1>4, <1>5 DEF Inv

LEMMA RestartEndStep == ASSUME Inv, RestartEnd PROVE Inv'
<1>1. TypeOK'
  BY NoneIsNoCall, StatusType DEF RestartEnd, Inv, TypeOK, Live, Busy, Spawning, At,
     Status
<1>2. SpawnIsAlone'
  BY NoneIsNoCall DEF RestartEnd, Inv, TypeOK, SpawnIsAlone, SpawnHasServer,
     ClientIsKnown, FailureIsKept, At, Spawning, Status
<1>3. SpawnHasServer'
  BY NoneIsNoCall DEF RestartEnd, Inv, TypeOK, SpawnIsAlone, SpawnHasServer,
     ClientIsKnown, FailureIsKept, At, Spawning, Status
<1>4. ClientIsKnown'
  BY NoneIsNoCall DEF RestartEnd, Inv, TypeOK, SpawnIsAlone, SpawnHasServer,
     ClientIsKnown, FailureIsKept, At, Spawning, Status
<1>5. FailureIsKept'
  BY NoneIsNoCall DEF RestartEnd, Inv, TypeOK, SpawnIsAlone, SpawnHasServer,
     ClientIsKnown, FailureIsKept, At, Spawning, Status
<1>6. QED
  BY <1>1, <1>2, <1>3, <1>4, <1>5 DEF Inv

LEMMA ShutdownStep == ASSUME Inv, Shutdown PROVE Inv'
<1>1. TypeOK'
  BY NoneIsNoCall, StatusType DEF Shutdown, Inv, TypeOK, Live, Busy, Spawning, At,
     Close, Status
<1>2. SpawnIsAlone'
  BY NoneIsNoCall DEF Shutdown, Inv, TypeOK, SpawnIsAlone, SpawnHasServer,
     ClientIsKnown, FailureIsKept, At, Close, Spawning, Status
<1>3. SpawnHasServer'
  BY NoneIsNoCall DEF Shutdown, Inv, TypeOK, SpawnIsAlone, SpawnHasServer,
     ClientIsKnown, FailureIsKept, At, Close, Spawning, Status
<1>4. ClientIsKnown'
  BY NoneIsNoCall DEF Shutdown, Inv, TypeOK, SpawnIsAlone, SpawnHasServer,
     ClientIsKnown, FailureIsKept, At, Close, Spawning, Status
<1>5. FailureIsKept'
  BY NoneIsNoCall DEF Shutdown, Inv, TypeOK, SpawnIsAlone, SpawnHasServer,
     ClientIsKnown, FailureIsKept, At, Close, Spawning, Status
<1>6. QED
  BY <1>1, <1>2, <1>3, <1>4, <1>5 DEF Inv

LEMMA StopStep == ASSUME NEW c \in Call, Inv, Stop(c) PROVE Inv'
<1>1. TypeOK'
  BY NoneIsNoCall, StatusType DEF Stop, Inv, TypeOK, Live, Busy, Spawning, At
<1>2. SpawnIsAlone'
  BY NoneIsNoCall DEF Stop, Inv, TypeOK, SpawnIsAlone, SpawnHasServer, ClientIsKnown,
     FailureIsKept, At
<1>3. SpawnHasServer'
  BY NoneIsNoCall DEF Stop, Inv, TypeOK, SpawnIsAlone, SpawnHasServer, ClientIsKnown,
     FailureIsKept, At
<1>4. ClientIsKnown'
  BY NoneIsNoCall DEF Stop, Inv, TypeOK, SpawnIsAlone, SpawnHasServer, ClientIsKnown,
     FailureIsKept, At
<1>5. FailureIsKept'
  BY NoneIsNoCall DEF Stop, Inv, TypeOK, SpawnIsAlone, SpawnHasServer, ClientIsKnown,
     FailureIsKept, At
<1>6. QED
  BY <1>1, <1>2, <1>3, <1>4, <1>5 DEF Inv

LEMMA CrashStep == ASSUME NEW c \in Call, Inv, Crash(c) PROVE Inv'
<1>1. TypeOK'
  BY NoneIsNoCall, StatusType DEF Crash, Inv, TypeOK, Live, Busy, Spawning, At
<1>2. SpawnIsAlone'
  BY NoneIsNoCall DEF Crash, Inv, TypeOK, SpawnIsAlone, SpawnHasServer, ClientIsKnown,
     FailureIsKept, At, Spawning
<1>3. SpawnHasServer'
  BY NoneIsNoCall DEF Crash, Inv, TypeOK, SpawnIsAlone, SpawnHasServer, ClientIsKnown,
     FailureIsKept, At, Spawning
<1>4. ClientIsKnown'
  BY NoneIsNoCall DEF Crash, Inv, TypeOK, SpawnIsAlone, SpawnHasServer, ClientIsKnown,
     FailureIsKept, At, Spawning
<1>5. FailureIsKept'
  BY NoneIsNoCall DEF Crash, Inv, TypeOK, SpawnIsAlone, SpawnHasServer, ClientIsKnown,
     FailureIsKept, At, Spawning
<1>6. QED
  BY <1>1, <1>2, <1>3, <1>4, <1>5 DEF Inv

-----------------------------------------------------------------------------
(* The theorems                                                            *)

\* Every step preserves the invariant.
LEMMA NextInv == ASSUME Orderly, Inv, [Next]_vars PROVE Inv'
<1>1. CASE UNCHANGED vars
  BY <1>1 DEF vars, Inv, TypeOK, SpawnIsAlone, SpawnHasServer, ClientIsKnown,
     FailureIsKept, At
<1>2. ASSUME NEW c \in Call, Rejected(c) \/ UseExisting(c) \/ FindBroken(c)
                             \/ FindReason(c) \/ JoinSpawn(c) \/ BeginSpawn(c)
      PROVE  Inv'
  BY <1>2, LookupStep, FindBrokenStep, BeginSpawnStep
<1>3. ASSUME NEW c \in Call, CallStep(c)
      PROVE  Inv'
  BY <1>3, AskPermissionStep, SpawnServerStep, InitializedStep, SpawnFailsStep,
     AwaitSpawnStep, OpenStep DEF CallStep
<1>4. ASSUME NEW c \in Call, Abort(c) \/ Stop(c) \/ Crash(c)
      PROVE  Inv'
  BY <1>4, AbortStep, StopStep, CrashStep
<1>5. CASE TouchRunning \/ RestartBegin \/ RestartEnd \/ Shutdown
  BY <1>5, TouchRunningStep, RestartBeginStep, RestartEndStep, ShutdownStep
<1>6. QED
  BY <1>1, <1>2, <1>3, <1>4, <1>5 DEF Next

\* The invariant holds in every reachable state.
LEMMA Invariance == ASSUME Orderly PROVE Spec => []Inv
<1>1. Init => Inv
  BY InitInv
<1>2. Inv /\ [Next]_vars => Inv'
  BY NextInv
<1>3. QED
  BY <1>1, <1>2, PTL DEF Spec

\* The calls, processes and the map of clients keep their types.
THEOREM RuntimeTypes == ASSUME Orderly PROVE Spec => []TypeOK
<1>1. Inv => TypeOK
  BY DEF Inv
<1>2. QED
  BY <1>1, Invariance, PTL

\* No live process is out of the map and out of its spawner's hands, however
\* calls, failures, restarts and the end of the session come together
\* (runtime.ts clientsForFileEffect, spawnClientEffect).
THEOREM NoServerIsForgotten == ASSUME Orderly PROVE Spec => []NoForgottenServer
<1>1. Inv => NoForgottenServer
  BY DEF Inv, SpawnHasServer, ClientIsKnown, NoForgottenServer, Live
<1>2. QED
  BY <1>1, Invariance, PTL

\* No two processes serve one root, for any number of calls that want one.
THEOREM OneServerRuns == ASSUME Orderly PROVE Spec => []OneServer
<1>1. ASSUME Inv, NEW c \in Call, NEW d \in Call, server[c] \in Live, server[d] \in Live
      PROVE  c = d
  <2>1. ASSUME NEW e \in Call, server[e] \in Live
        PROVE  client = e \/ (client = None /\ call[e].stage \in Spawning)
    BY <1>1, <2>1 DEF Inv, SpawnIsAlone, SpawnHasServer, ClientIsKnown, Live, Spawning, At
  <2>2. CASE client = None
    BY <1>1, <2>1, <2>2, NoneIsNoCall DEF Inv, SpawnIsAlone
  <2>3. CASE client # None
    BY <1>1, <2>1, <2>3
  <2>4. QED
    BY <2>2, <2>3
<1>2. Inv => OneServer
  BY <1>1 DEF OneServer
<1>3. QED
  BY <1>2, Invariance, PTL

\* After the end of the session no server runs, however late a spawn that was
\* under way ends (runtime.ts:479, 433).
THEOREM ShutdownLeavesNothing == ASSUME Orderly PROVE Spec => []ShutdownIsFinal
<1>1. Inv => ShutdownIsFinal
  BY NoneIsNoCall DEF Inv, ClientIsKnown, ShutdownIsFinal
<1>2. QED
  BY <1>1, Invariance, PTL

\* A server that failed is not started again before a restart, whichever call
\* meets the failure and however it failed (runtime.ts:237).
THEOREM FailureStays == ASSUME Orderly PROVE Spec => NoSpontaneousRestart
<1> DEFINE A == \A c \in Call : server[c] = "none" /\ server'[c] = "starting" => ~fell
<1>1. ASSUME Inv, [Next]_vars
      PROVE  A
  <2> SUFFICES ASSUME NEW c \in Call, server[c] = "none", server'[c] = "starting"
               PROVE  ~fell
    OBVIOUS
  <2>1. At(c, "allowed")
    BY <1>1 DEF Next, vars, CallStep, Rejected, UseExisting, FindBroken, FindReason,
       JoinSpawn, BeginSpawn, AskPermission, SpawnServer, SpawnFails, Initialized, Install,
       AwaitSpawn, Open, Abort, Stop, Crash, TouchRunning, RestartBegin, RestartEnd,
       Shutdown, Close, At, Inv, TypeOK
  <2>2. QED
    BY <1>1, <2>1 DEF Inv, SpawnIsAlone, At, Spawning
<1>2. Inv /\ [Next]_vars => [A]_vars
  BY <1>1
<1>3. QED
  BY <1>2, Invariance, PTL DEF Spec, NoSpontaneousRestart

-----------------------------------------------------------------------------
(* The client: the types                                                   *)

Kinds == {"watched", "didOpen", "didChange", "didSave", "didClose", "diagnostic"}
Messages == [m : Kinds, version : Nat, text : 0..MaxRevision]
Findings == [pulled : BOOLEAN, text : Client!Revision]
Openings == [stage : Client!Stage, m : {"none", "didOpen", "didChange"}, document : Client!Document]
Changing(message) == message.m \in {"didOpen", "didChange"}

\* A text that is read, recorded or sent is one the file has had.
TextsAreReal ==
    /\ \A c \in Opener : opening[c].stage \in {"read", "watched"} => opening[c].document.text \in Client!Revision
    /\ \A c \in Opener : opening[c].stage = "watched" => opening[c].m # "none"
    /\ \A i \in 1..Len(pipe) : Changing(pipe[i]) => pipe[i].text \in Client!Revision
    /\ process # Client!Closed => process.text \in Client!Revision

ClientTyped ==
    /\ file \in Client!Revision
    /\ opening \in [Opener -> Openings]
    /\ openDocument \in Client!Document /\ process \in Client!Document
    /\ pipe \in Seq(Messages) /\ reports \in Seq(Findings)
    /\ diagnostics \subseteq Client!Revision
    /\ lifecycle \in {"up", "closing_documents", "closing", "disposed", "broken"}
    /\ TextsAreReal

LEMMA ClientIsTyped == ASSUME ClientTyped PROVE Client!ClientTypeOK
<1>1. \A i \in DOMAIN pipe : pipe[i] \in Messages
  BY DEF ClientTyped
<1>2. \A i \in DOMAIN reports : reports[i] \in Findings
  BY DEF ClientTyped
<1> QED
  BY <1>1, <1>2 DEF ClientTyped, Client!ClientTypeOK, Openings, Messages, Findings, Kinds

LEMMA ClosedIsDocument ==
    /\ Client!Closed \in Client!Document /\ Client!Closed.version = 0 /\ Client!Closed.text = 0
    /\ Client!Revision = 1..MaxRevision /\ Client!Revision \subseteq 0..MaxRevision
BY LspSizesAssumption DEF LspSizesAssumption, Client!Closed, Client!Document, Client!Revision

LEMMA MessageIs ==
    ASSUME NEW m \in Kinds, NEW d \in Client!Document
    PROVE  /\ Client!Message(m, d) \in Messages
           /\ Client!Message(m, d).m = m /\ Client!Message(m, d).version = d.version
           /\ Client!Message(m, d).text = d.text
BY DEF Client!Message, Messages, Client!Document

LEMMA MoveIs ==
    ASSUME opening \in [Opener -> Openings], NEW c \in Opener, NEW to \in Client!Stage,
           NEW m \in {"none", "didOpen", "didChange"}, NEW d \in Client!Document, Client!Move(c, to, m, d)
    PROVE  /\ opening' \in [Opener -> Openings]
           /\ opening'[c].stage = to /\ opening'[c].m = m /\ opening'[c].document = d
           /\ \A e \in Opener : e # c => opening'[e] = opening[e]
BY DEF Client!Move, Openings

LEMMA ClientTypedBegins == ASSUME Client!ClientInit PROVE ClientTyped
<1>1. opening \in [Opener -> Openings] /\ \A c \in Opener : opening[c].stage = "idle"
  BY ClosedIsDocument DEF Client!ClientInit, Openings, Client!Stage
<1>2. file \in Client!Revision
  BY LspSizesAssumption DEF LspSizesAssumption, Client!ClientInit, Client!Revision
<1>3. /\ pipe = <<>> /\ reports = <<>> /\ process = Client!Closed /\ openDocument = Client!Closed
      /\ diagnostics = {} /\ lifecycle = "up"
  BY DEF Client!ClientInit
<1>4. TextsAreReal
  BY <1>1, <1>3 DEF TextsAreReal
<1>5. pipe \in Seq(Messages) /\ reports \in Seq(Findings)
  BY <1>3
<1> QED
  BY <1>1, <1>2, <1>3, <1>4, <1>5, ClosedIsDocument DEF ClientTyped

\* The kinds of steps: what a call does, without and with a message.
LEMMA CallStepTyped ==
    ASSUME ClientTyped, NEW c \in Opener, NEW to \in Client!Stage \ {"read", "watched"},
           NEW m \in {"none", "didOpen", "didChange"}, NEW d \in Client!Document, Client!Move(c, to, m, d),
           pipe' \in Seq(Messages),
           \A i \in 1..Len(pipe') : Changing(pipe'[i]) => pipe'[i].text \in Client!Revision,
           openDocument' \in Client!Document,
           lifecycle' \in {"up", "closing_documents", "closing", "disposed", "broken"},
           UNCHANGED <<file, process, reports, diagnostics>>
    PROVE  ClientTyped'
<1>1. /\ opening' \in [Opener -> Openings] /\ opening'[c].stage = to
      /\ \A e \in Opener : e # c => opening'[e] = opening[e]
  BY MoveIs DEF ClientTyped
<1>2. TextsAreReal'
  BY <1>1 DEF ClientTyped, TextsAreReal
<1> QED
  BY <1>1, <1>2 DEF ClientTyped, Client!Revision, Client!Document

LEMMA SendTyped ==
    ASSUME ClientTyped, NEW m \in Kinds, NEW d \in Client!Document, Client!Send(m, d),
           m \in {"didOpen", "didChange"} => d.text \in Client!Revision
    PROVE  /\ pipe' \in Seq(Messages)
           /\ \A i \in 1..Len(pipe') : Changing(pipe'[i]) => pipe'[i].text \in Client!Revision
<1>1. pipe \in Seq(Messages) /\ \A i \in 1..Len(pipe) : Changing(pipe[i]) => pipe[i].text \in Client!Revision
  BY DEF ClientTyped, TextsAreReal
<1>2. CASE pipe' = pipe
  BY <1>1, <1>2
<1>3. CASE pipe' = Append(pipe, Client!Message(m, d))
  <2>1. pipe' \in Seq(Messages) /\ Len(pipe') = Len(pipe) + 1
    BY <1>1, <1>3, MessageIs
  <2>2. \A i \in 1..Len(pipe') : pipe'[i] = IF i = Len(pipe) + 1 THEN Client!Message(m, d) ELSE pipe[i]
    BY <1>1, <1>3, <2>1
  <2>3. ASSUME NEW i \in 1..Len(pipe'), Changing(pipe'[i]) PROVE pipe'[i].text \in Client!Revision
    <3>1. CASE i = Len(pipe) + 1
      BY <2>2, <2>3, <3>1, MessageIs DEF Changing
    <3>2. CASE i \in 1..Len(pipe)
      BY <1>1, <2>2, <2>3, <3>2
    <3> QED
      BY <1>1, <2>1, <3>1, <3>2
  <2> QED
    BY <2>1, <2>3
<1> QED
  BY <1>2, <1>3 DEF Client!Send

LEMMA RecordTyped == ASSUME ClientTyped, NEW c \in Opener, Client!Record(c) PROVE ClientTyped'
<1> DEFINE t == opening[c].document.text
           d == [version |-> openDocument.version + 1, text |-> t]
<1>1. opening[c] \in Openings /\ opening[c].stage = "read" /\ t \in Client!Revision /\ UNCHANGED <<file, process, reports, diagnostics, lifecycle>>
  BY DEF ClientTyped, TextsAreReal, Client!Record
<1>2. d \in Client!Document /\ d.text = t
  BY <1>1, ClosedIsDocument DEF ClientTyped, Client!Document
<1>3. CASE Client!Move(c, "sent", "none", Client!Closed) /\ UNCHANGED <<openDocument, pipe>>
  BY <1>1, <1>3, ClosedIsDocument, CallStepTyped DEF ClientTyped, TextsAreReal, Client!Stage
<1>4. CASE /\ openDocument' = d /\ Client!Send("watched", d)
           /\ Client!Move(c, "watched", IF openDocument = Client!Closed THEN "didOpen" ELSE "didChange", d)
  <2> DEFINE m == IF openDocument = Client!Closed THEN "didOpen" ELSE "didChange"
  <2>1. /\ opening' \in [Opener -> Openings]
        /\ opening'[c].stage = "watched" /\ opening'[c].m = m /\ opening'[c].document = d
        /\ \A e \in Opener : e # c => opening'[e] = opening[e]
    <3> HIDE DEF d
    <3> QED
      BY <1>2, <1>4, MoveIs DEF ClientTyped, Client!Stage
  <2>2. /\ pipe' \in Seq(Messages)
        /\ \A i \in 1..Len(pipe') : Changing(pipe'[i]) => pipe'[i].text \in Client!Revision
    <3> HIDE DEF d
    <3> QED
      BY <1>2, <1>4, SendTyped DEF Kinds
  <2>3. TextsAreReal'
    <3> HIDE DEF d
    <3> QED
      BY <1>1, <1>2, <2>1, <2>2 DEF ClientTyped, TextsAreReal
  <2> QED
    BY <1>1, <1>2, <1>4, <2>1, <2>2, <2>3 DEF ClientTyped, Client!Revision, Client!Document
<1> QED
  BY <1>3, <1>4 DEF Client!Record

LEMMA SendTextTyped == ASSUME ClientTyped, NEW c \in Opener, Client!SendText(c) PROVE ClientTyped'
<1>1. /\ opening[c] \in Openings /\ opening[c].m \in {"didOpen", "didChange"}
      /\ opening[c].document \in Client!Document /\ opening[c].document.text \in Client!Revision
  BY DEF ClientTyped, TextsAreReal, Client!SendText, Openings
<1>2. /\ pipe' \in Seq(Messages)
      /\ \A i \in 1..Len(pipe') : Changing(pipe'[i]) => pipe'[i].text \in Client!Revision
  BY <1>1, SendTyped DEF Client!SendText, Kinds
<1> QED
  BY <1>1, <1>2, CallStepTyped DEF Client!SendText, Client!Stage, ClientTyped

LEMMA SendSaveTyped ==
    ASSUME ClientTyped, NEW c \in Opener, NEW wants \in BOOLEAN, Client!SendSave(c, wants) PROVE ClientTyped'
<1> DEFINE save == IF opening[c].m = "none" \/ ~Client!CanSend THEN <<>>
                   ELSE <<Client!Message("didSave", opening[c].document)>>
           pull == IF wants /\ Client!CanSend THEN <<Client!Message("diagnostic", Client!Closed)>> ELSE <<>>
<1>1. opening[c].document \in Client!Document
  BY DEF ClientTyped, Openings
<1>2. /\ Client!Message("didSave", opening[c].document) \in Messages
      /\ Client!Message("diagnostic", Client!Closed) \in Messages
      /\ ~Changing(Client!Message("didSave", opening[c].document))
      /\ ~Changing(Client!Message("diagnostic", Client!Closed))
  BY <1>1, ClosedIsDocument, MessageIs DEF Kinds, Changing
<1>3. /\ save \in Seq(Messages) /\ pull \in Seq(Messages)
      /\ \A i \in 1..Len(save) : ~Changing(save[i])
      /\ \A i \in 1..Len(pull) : ~Changing(pull[i])
  BY <1>2
<1>4. pipe' = pipe \o save \o pull
  BY DEF Client!SendSave
<1> HIDE DEF save, pull
<1>5. pipe \in Seq(Messages) /\ \A i \in 1..Len(pipe) : Changing(pipe[i]) => pipe[i].text \in Client!Revision
  BY DEF ClientTyped, TextsAreReal
<1>6. /\ pipe \o save \in Seq(Messages)
      /\ \A i \in 1..Len(pipe \o save) : Changing((pipe \o save)[i]) => (pipe \o save)[i].text \in Client!Revision
  BY <1>3, <1>5
<1>7. /\ pipe' \in Seq(Messages)
      /\ \A i \in 1..Len(pipe') : Changing(pipe'[i]) => pipe'[i].text \in Client!Revision
  BY <1>3, <1>4, <1>6
<1> QED
  BY <1>7, ClosedIsDocument, CallStepTyped DEF Client!SendSave, Client!Stage, ClientTyped

LEMMA ServerReadsTyped == ASSUME ClientTyped, Client!ServerReads PROVE ClientTyped'
<1>1. /\ pipe \in Seq(Messages) /\ pipe # <<>> /\ pipe' = Tail(pipe) /\ reports \in Seq(Findings)
      /\ UNCHANGED <<file, opening, openDocument, diagnostics, lifecycle>>
  BY DEF ClientTyped, Client!ServerReads
<1>2. /\ Head(pipe) = pipe[1] /\ 1 \in 1..Len(pipe) /\ pipe[1] \in Messages
      /\ pipe' \in Seq(Messages) /\ Len(pipe') = Len(pipe) - 1
      /\ \A i \in 1..Len(pipe') : i + 1 \in 1..Len(pipe) /\ pipe'[i] = pipe[i + 1]
  BY <1>1
<1>3. /\ process' \in Client!Document /\ (process' # Client!Closed => process'.text \in Client!Revision)
      /\ reports' \in Seq(Findings)
  <2>1. CASE Changing(Head(pipe))
    <3>1. Head(pipe).text \in Client!Revision
      BY <1>2, <2>1 DEF ClientTyped, TextsAreReal
    <3>2. process' = [version |-> Head(pipe).version, text |-> Head(pipe).text] /\ reports' = reports \o Client!Push
      BY <2>1 DEF Client!ServerReads, Changing
    <3>3. Client!Push \in Seq(Findings)
      <4>1. [pulled |-> FALSE, text |-> Head(pipe).text] \in Findings
        BY <3>1 DEF Findings
      <4> QED
        BY <4>1 DEF Client!Push
    <3> QED
      BY <1>1, <1>2, <3>1, <3>2, <3>3 DEF Messages, Client!Document
  <2>2. CASE ~Changing(Head(pipe))
    <3>1. \/ process' = Client!Closed /\ reports' = reports
          \/ process # Client!Closed /\ process' = process /\ reports' = Append(reports, [pulled |-> TRUE, text |-> process.text])
          \/ process' = process /\ reports' = reports
      BY <2>2 DEF Client!ServerReads, Changing
    <3>2. process # Client!Closed => [pulled |-> TRUE, text |-> process.text] \in Findings
      BY DEF ClientTyped, TextsAreReal, Findings
    <3>3. Append(reports, [pulled |-> TRUE, text |-> process.text]) \in Seq(Findings) \/ process = Client!Closed
      BY <1>1, <3>2
    <3> QED
      BY <1>1, <3>1, <3>3, ClosedIsDocument DEF ClientTyped, TextsAreReal
  <2> QED
    BY <2>1, <2>2
<1>4. \A i \in 1..Len(pipe') : Changing(pipe'[i]) => pipe'[i].text \in Client!Revision
  BY <1>2 DEF ClientTyped, TextsAreReal
<1>5. TextsAreReal'
  BY <1>1, <1>3, <1>4 DEF ClientTyped, TextsAreReal, Client!Revision
<1> QED
  BY <1>1, <1>2, <1>3, <1>5 DEF ClientTyped, Client!Revision, Client!Document

LEMMA ReceiveTyped == ASSUME ClientTyped, Client!Receive PROVE ClientTyped'
<1>1. reports \in Seq(Findings) /\ reports # <<>>
  BY DEF ClientTyped, Client!Receive
<1>2. Head(reports) \in Findings /\ reports' \in Seq(Findings)
  BY <1>1 DEF Client!Receive
<1>3. diagnostics' \subseteq Client!Revision
  BY <1>2 DEF Client!Receive, Findings, ClientTyped
<1> QED
  BY <1>2, <1>3 DEF Client!Receive, ClientTyped, TextsAreReal, Client!Revision, Client!Document

LEMMA ClientStepTyped == ASSUME ClientTyped, Client!ClientNext PROVE ClientTyped'
<1> USE DEF ClientTyped
<1>0. pipe \in Seq(Messages) /\ \A i \in 1..Len(pipe) : Changing(pipe[i]) => pipe[i].text \in Client!Revision
  BY DEF TextsAreReal
<1>1. ASSUME Client!FileChanges PROVE ClientTyped'
  BY <1>1, LspSizesAssumption DEF LspSizesAssumption, Client!FileChanges, TextsAreReal, Client!Revision, Client!Document
<1>2. ASSUME Client!CloseDocuments PROVE ClientTyped'
  <2>1. /\ pipe' \in Seq(Messages)
        /\ \A i \in 1..Len(pipe') : Changing(pipe'[i]) => pipe'[i].text \in Client!Revision
    BY <1>0, <1>2, ClosedIsDocument, SendTyped DEF Client!CloseDocuments, Kinds
  <2> QED
    BY <1>2, <2>1 DEF Client!CloseDocuments, TextsAreReal, Client!Revision, Client!Document
<1>3. ASSUME Client!Close \/ Client!Dispose PROVE ClientTyped'
  BY <1>3, ClosedIsDocument DEF Client!Close, Client!Dispose, TextsAreReal, Client!Revision, Client!Document
<1>4. ASSUME Client!ServerExits PROVE ClientTyped'
  <2>1. pipe' \in Seq(Messages) /\ Len(pipe') = 0
    BY <1>4 DEF Client!ServerExits
  <2> QED
    BY <1>4, <2>1 DEF Client!ServerExits, TextsAreReal, Client!Revision, Client!Document
<1>5. ASSUME NEW c \in Opener, Client!ReadFile(c) PROVE ClientTyped'
  <2>1. [version |-> 0, text |-> file] \in Client!Document
    BY ClosedIsDocument DEF Client!Document
  <2>2. /\ opening' \in [Opener -> Openings] /\ opening'[c].stage = "read"
        /\ opening'[c].document = [version |-> 0, text |-> file]
        /\ \A e \in Opener : e # c => opening'[e] = opening[e]
    BY <1>5, <2>1, MoveIs DEF Client!ReadFile, Client!Stage
  <2>3. TextsAreReal'
    BY <1>5, <2>2 DEF Client!ReadFile, TextsAreReal, Client!Revision
  <2> QED
    BY <1>5, <2>2, <2>3 DEF Client!ReadFile, Client!Revision, Client!Document
<1>6. ASSUME NEW c \in Opener, Client!FindClosed(c) \/ Client!AbortOpen(c) PROVE ClientTyped'
  BY <1>0, <1>6, ClosedIsDocument, CallStepTyped DEF Client!FindClosed, Client!AbortOpen, Client!Stage
<1> QED
  BY <1>1, <1>2, <1>3, <1>4, <1>5, <1>6, RecordTyped, SendTextTyped, SendSaveTyped, ServerReadsTyped,
     ReceiveTyped DEF Client!ClientNext

-----------------------------------------------------------------------------
(* The client: what the server is told                                     *)

Changes == {i \in DOMAIN pipe : pipe[i].m \in {"didOpen", "didChange"}}
Watched == {c \in Opener : opening[c].stage = "watched"}

\* Versions rise from what the server has read over what it is sent to what is
\* recorded and not sent, and the first of all is that of the didOpen.
VersionsRise ==
    /\ process.version <= openDocument.version
    /\ \A i \in Changes :
        /\ process.version < pipe[i].version /\ pipe[i].version <= openDocument.version
        /\ pipe[i].m = "didOpen" <=> pipe[i].version = 1
    /\ \A i, j \in Changes : i < j => pipe[i].version < pipe[j].version
    /\ \A c \in Watched :
        /\ opening[c].m \in {"didOpen", "didChange"}
        /\ opening[c].m = "didOpen" <=> opening[c].document.version = 1
        /\ process.version < opening[c].document.version
        /\ opening[c].document.version <= openDocument.version
        /\ \A i \in Changes : pipe[i].version < opening[c].document.version
    /\ \A c, d \in Watched : c # d => opening[c].document.version # opening[d].document.version

Recorded(document) ==
    \/ process = document
    \/ \E i \in Changes : pipe[i].version = document.version /\ pipe[i].text = document.text
    \/ \E c \in Watched : opening[c].document = document

\* What is recorded is sent: the first text, and the last.
NothingIsMissed ==
    /\ process.version = 0 => process = Client!Closed
    /\ openDocument.version = 0 => openDocument = Client!Closed
    /\ openDocument.version > 0 =>
        \/ process.version > 0
        \/ \E i \in Changes : pipe[i].version = 1
        \/ \E c \in Watched : opening[c].document.version = 1
    /\ Recorded(openDocument)

\* A save comes after the text, and no document is closed.
SavesFollow ==
    /\ \A i \in DOMAIN pipe :
        /\ pipe[i].m # "didClose"
        /\ pipe[i].m = "didSave" => process.version > 0 \/ \E j \in Changes : j < i
    /\ \A c \in Opener :
        opening[c].stage = "sent" /\ opening[c].m # "none" => process.version > 0 \/ Changes # {}

\* Problems known and reported are those of the text of the server, but for
\* those that a report on its way will replace.
ReportsFollow ==
    \/ \E k \in DOMAIN reports :
        ~reports[k].pulled /\ \A j \in DOMAIN reports : j >= k => reports[j].text = process.text
    \/ /\ \A j \in DOMAIN reports : reports[j].text = process.text
       /\ diagnostics \subseteq {process.text}

Served == VersionsRise /\ NothingIsMissed /\ SavesFollow /\ ReportsFollow

LEMMA ServedBegins == ASSUME Client!ClientInit PROVE Served
<1>1. /\ pipe = <<>> /\ reports = <<>> /\ process = Client!Closed /\ openDocument = Client!Closed
      /\ diagnostics = {} /\ Client!Closed.version = 0
      /\ \A c \in Opener : opening[c].stage = "idle"
  BY ClosedIsDocument DEF Client!ClientInit
<1>2. Changes = {} /\ Watched = {}
  BY <1>1 DEF Changes, Watched
<1>3. VersionsRise /\ NothingIsMissed
  BY <1>1, <1>2 DEF VersionsRise, NothingIsMissed, Recorded
<1>4. SavesFollow /\ ReportsFollow
  BY <1>1, <1>2 DEF SavesFollow, ReportsFollow
<1> QED
  BY <1>3, <1>4 DEF Served

\* The pipe has grown by messages that carry no text.
Grows ==
    /\ Len(pipe') \in Nat /\ Len(pipe') >= Len(pipe) /\ DOMAIN pipe' = 1..Len(pipe')
    /\ \A i \in 1..Len(pipe) : pipe'[i] = pipe[i]
    /\ \A i \in 1..Len(pipe') : i > Len(pipe) =>
        /\ pipe'[i].m \notin {"didOpen", "didChange", "didClose"}
        /\ pipe'[i].m = "didSave" => process.version > 0 \/ Changes # {}

LEMMA GrowsIs ==
    ASSUME ClientTyped, Grows
    PROVE  /\ Changes' = Changes /\ \A i \in Changes : pipe'[i] = pipe[i]
           /\ Changes \subseteq 1..Len(pipe)
<1>1. DOMAIN pipe = 1..Len(pipe) /\ Len(pipe) \in Nat
  BY DEF ClientTyped
<1>2. Changes \subseteq 1..Len(pipe)
  BY <1>1 DEF Changes
<1>3. \A i \in 1..Len(pipe') : i \in 1..Len(pipe) \/ i > Len(pipe)
  BY <1>1 DEF Grows
<1>4. \A i \in 1..Len(pipe) : i \in 1..Len(pipe')
  BY <1>1 DEF Grows
<1>5. Changes' = Changes
  BY <1>1, <1>3, <1>4 DEF Grows, Changes
<1> QED
  BY <1>2, <1>5 DEF Grows

\* A call that records nothing and sends no text.
LEMMA AsideKeepsServed ==
    ASSUME ClientTyped, Served, Grows, UNCHANGED <<openDocument, process, reports, diagnostics>>,
           \A c \in Opener :
            /\ opening'[c].stage = "watched" <=> opening[c].stage = "watched"
            /\ opening[c].stage = "watched" => opening'[c] = opening[c]
            /\ opening'[c].stage = "sent" /\ opening'[c].m # "none" => opening'[c] = opening[c]
    PROVE  Served'
<1>1. /\ Changes' = Changes /\ \A i \in Changes : pipe'[i] = pipe[i]
      /\ Changes \subseteq 1..Len(pipe)
  BY GrowsIs
<1>2. Watched' = Watched /\ \A c \in Watched : opening'[c] = opening[c]
  BY DEF Watched
<1>3. VersionsRise'
  BY <1>1, <1>2 DEF Served, VersionsRise
<1>4. NothingIsMissed'
  <2>1. Recorded(openDocument)'
    BY <1>1, <1>2 DEF Served, NothingIsMissed, Recorded
  <2> QED
    BY <2>1, <1>1, <1>2 DEF Served, NothingIsMissed
<1>5. SavesFollow'
  <2>1. DOMAIN pipe = 1..Len(pipe) /\ Len(pipe) \in Nat
    BY DEF ClientTyped
  <2>2. ASSUME NEW i \in DOMAIN pipe'
        PROVE  /\ pipe'[i].m # "didClose"
               /\ pipe'[i].m = "didSave" => process.version > 0 \/ \E j \in Changes : j < i
    <3>1. CASE i \in 1..Len(pipe)
      BY <2>1, <3>1 DEF Served, SavesFollow, Grows
    <3>2. CASE i > Len(pipe)
      <4>1. \A j \in Changes : j < i
        BY <1>1, <2>1, <2>2, <3>2 DEF Grows
      <4> QED
        BY <2>2, <3>2, <4>1 DEF Grows
    <3> QED
      BY <2>1, <2>2, <3>1, <3>2 DEF Grows
  <2> QED
    BY <1>1, <2>2 DEF Served, SavesFollow
<1>6. ReportsFollow'
  BY DEF Served, ReportsFollow
<1> QED
  BY <1>3, <1>4, <1>5, <1>6 DEF Served

LEMMA VersionsAreNumbers ==
    ASSUME ClientTyped
    PROVE  /\ openDocument.version \in Nat /\ process.version \in Nat
           /\ \A i \in Changes : pipe[i] \in Messages /\ pipe[i].version \in Nat
           /\ \A e \in Watched : opening[e].document \in Client!Document /\ opening[e].document.version \in Nat
<1>1. openDocument.version \in Nat /\ process.version \in Nat
  BY DEF ClientTyped, Client!Document
<1>2. \A i \in Changes : pipe[i] \in Messages
  BY DEF ClientTyped, Changes
<1>3. \A e \in Watched : opening[e].document \in Client!Document
  BY DEF ClientTyped, Watched, Openings
<1> QED
  BY <1>1, <1>2, <1>3 DEF Messages, Client!Document

LEMMA SamePipeGrows == ASSUME ClientTyped, pipe' = pipe PROVE Grows
BY DEF ClientTyped, Grows

LEMMA QuietCallKeepsServed ==
    ASSUME ClientTyped, Served, "abort" \notin ClientFaults, lifecycle' = "up",
           \/ Client!FileChanges
           \/ \E c \in Opener : Client!ReadFile(c) \/ Client!AbortOpen(c)
           \/ \E c \in Opener : Client!Record(c) /\ openDocument' = openDocument /\ pipe' = pipe
                                    /\ Client!Move(c, "sent", "none", Client!Closed)
    PROVE  Served'
<1>1. ASSUME Client!FileChanges PROVE Served'
  BY <1>1, SamePipeGrows, AsideKeepsServed DEF Client!FileChanges
<1>2. ASSUME NEW c \in Opener, NEW to \in {"read", "done", "sent"}, NEW d \in Client!Document,
             Client!Move(c, to, "none", d), opening[c].stage # "watched",
             UNCHANGED <<openDocument, pipe, process, reports, diagnostics>>
      PROVE  Served'
  <2>1. /\ opening'[c].stage = to /\ opening'[c].m = "none"
        /\ \A e \in Opener : e # c => opening'[e] = opening[e]
    BY <1>2, MoveIs DEF ClientTyped, Client!Stage
  <2> QED
    BY <1>2, <2>1, SamePipeGrows, AsideKeepsServed
<1>3. ASSUME NEW c \in Opener, Client!ReadFile(c) PROVE Served'
  <2>1. [version |-> 0, text |-> file] \in Client!Document
    BY ClosedIsDocument DEF Client!Document, ClientTyped
  <2> QED
    BY <1>2, <1>3, <2>1 DEF Client!ReadFile
<1>4. ASSUME NEW c \in Opener, Client!AbortOpen(c) PROVE Served'
  BY <1>2, <1>4, ClosedIsDocument DEF Client!AbortOpen
<1>5. ASSUME NEW c \in Opener, Client!Record(c), openDocument' = openDocument, pipe' = pipe,
             Client!Move(c, "sent", "none", Client!Closed)
      PROVE  Served'
  BY <1>2, <1>5, ClosedIsDocument DEF Client!Record
<1> QED
  BY <1>1, <1>3, <1>4, <1>5

LEMMA SendSaveKeepsServed ==
    ASSUME ClientTyped, Served, NEW c \in Opener, NEW wants \in BOOLEAN, Client!SendSave(c, wants)
    PROVE  Served'
<1> DEFINE save == IF opening[c].m = "none" \/ ~Client!CanSend THEN <<>>
                   ELSE <<Client!Message("didSave", opening[c].document)>>
           pull == IF wants /\ Client!CanSend THEN <<Client!Message("diagnostic", Client!Closed)>> ELSE <<>>
<1>1. opening[c].document \in Client!Document /\ opening[c].stage = "sent"
  BY DEF ClientTyped, Openings, Client!SendSave
<1>2. /\ Client!Message("didSave", opening[c].document) \in Messages
      /\ Client!Message("diagnostic", Client!Closed) \in Messages
      /\ Client!Message("didSave", opening[c].document).m = "didSave"
      /\ Client!Message("diagnostic", Client!Closed).m = "diagnostic"
  BY <1>1, ClosedIsDocument, MessageIs DEF Kinds
<1>3. opening[c].m # "none" => process.version > 0 \/ Changes # {}
  BY <1>1 DEF Served, SavesFollow
<1>4. /\ save \in Seq(Messages) /\ pull \in Seq(Messages)
      /\ \A i \in 1..Len(save) : save[i].m = "didSave" /\ (process.version > 0 \/ Changes # {})
      /\ \A i \in 1..Len(pull) : pull[i].m = "diagnostic"
  BY <1>2, <1>3
<1>5. pipe' = pipe \o save \o pull
  BY DEF Client!SendSave
<1> HIDE DEF save, pull
<1>6. pipe \in Seq(Messages)
  BY DEF ClientTyped
<1>7. /\ Len(pipe') = Len(pipe) + Len(save) + Len(pull) /\ DOMAIN pipe' = 1..Len(pipe')
      /\ Len(pipe) \in Nat /\ Len(save) \in Nat /\ Len(pull) \in Nat
      /\ \A i \in 1..Len(pipe) : pipe'[i] = pipe[i]
      /\ \A i \in 1..Len(pipe') : i > Len(pipe) =>
            \/ i - Len(pipe) \in 1..Len(save) /\ pipe'[i] = save[i - Len(pipe)]
            \/ i - Len(pipe) - Len(save) \in 1..Len(pull) /\ pipe'[i] = pull[i - Len(pipe) - Len(save)]
  BY <1>4, <1>5, <1>6
<1>8. Grows
  <2>1. ASSUME NEW i \in 1..Len(pipe'), i > Len(pipe)
        PROVE  /\ pipe'[i].m \notin {"didOpen", "didChange", "didClose"}
               /\ pipe'[i].m = "didSave" => process.version > 0 \/ Changes # {}
    <3>1. CASE i - Len(pipe) \in 1..Len(save) /\ pipe'[i] = save[i - Len(pipe)]
      BY <1>4, <3>1
    <3>2. CASE i - Len(pipe) - Len(save) \in 1..Len(pull) /\ pipe'[i] = pull[i - Len(pipe) - Len(save)]
      BY <1>4, <3>2
    <3> QED
      BY <1>7, <2>1, <3>1, <3>2
  <2> QED
    BY <1>7, <2>1 DEF Grows
<1>9. /\ opening'[c].stage = "done" /\ \A e \in Opener : e # c => opening'[e] = opening[e]
      /\ UNCHANGED <<openDocument, process, reports, diagnostics>>
  BY ClosedIsDocument, MoveIs DEF ClientTyped, Client!SendSave, Client!Stage
<1> QED
  BY <1>1, <1>8, <1>9, AsideKeepsServed

\* A text is recorded under the next version.
LEMMA RecordKeepsServed ==
    ASSUME ClientTyped, Served, lifecycle = "up", NEW c \in Opener, Client!Record(c), openDocument' # openDocument
    PROVE  Served'
<1> DEFINE d == [version |-> openDocument.version + 1, text |-> opening[c].document.text]
           m == IF openDocument = Client!Closed THEN "didOpen" ELSE "didChange"
<1>1. /\ opening[c].stage = "read" /\ openDocument' = d /\ Client!Move(c, "watched", m, d)
      /\ Client!Send("watched", d) /\ UNCHANGED <<process, reports, diagnostics>>
  BY DEF Client!Record
<1>2. /\ d \in Client!Document /\ d.version = openDocument.version + 1
      /\ openDocument \in Client!Document /\ process \in Client!Document
  <2>1. opening[c].document.text \in Client!Revision
    BY <1>1 DEF ClientTyped, TextsAreReal
  <2> QED
    BY <2>1, ClosedIsDocument DEF ClientTyped, Client!Document
<1>3. m = "didOpen" <=> d.version = 1
  BY <1>2, ClosedIsDocument DEF Served, NothingIsMissed, Client!Document
<1>4. m \in {"didOpen", "didChange"}
  OBVIOUS
<1> HIDE DEF d, m
<1>5. /\ opening'[c].stage = "watched" /\ opening'[c].m = m /\ opening'[c].document = d
      /\ \A e \in Opener : e # c => opening'[e] = opening[e]
  BY <1>1, <1>2, <1>4, MoveIs DEF ClientTyped, Client!Stage
<1>6. Grows
  <2>1. pipe' = Append(pipe, Client!Message("watched", d))
    BY <1>1 DEF Client!Send, Client!CanSend
  <2>2. Client!Message("watched", d).m = "watched"
    BY <1>2, MessageIs DEF Kinds
  <2> QED
    BY <2>1, <2>2 DEF ClientTyped, Grows
<1>7. /\ Changes' = Changes /\ \A i \in Changes : pipe'[i] = pipe[i]
      /\ Changes \subseteq 1..Len(pipe)
  BY <1>6, GrowsIs
<1>8. Watched' = Watched \cup {c} /\ c \notin Watched /\ \A e \in Watched : opening'[e] = opening[e]
  BY <1>1, <1>5 DEF Watched
<1>9. /\ openDocument.version \in Nat /\ process.version \in Nat
      /\ \A i \in Changes : pipe[i].version \in Nat
      /\ \A e \in Watched : opening[e].document.version \in Nat
  BY <1>7, VersionsAreNumbers
<1>10. VersionsRise'
  <2>1. /\ \A i \in Changes : pipe[i].version < d.version
        /\ \A e \in Watched : opening[e].document.version < d.version
        /\ process.version < d.version
    BY <1>2, <1>9 DEF Served, VersionsRise
  <2>2. /\ \A i \in Changes : pipe'[i].version <= d.version
        /\ \A e \in Watched : opening'[e].document.version <= d.version
    BY <1>2, <1>7, <1>8, <1>9, <2>1
  <2>3. process'.version <= openDocument'.version
    BY <1>1, <1>2, <1>9, <2>1
  <2>4. \A i \in Changes :
            /\ process.version < pipe'[i].version /\ pipe'[i].version <= d.version
            /\ pipe'[i].m = "didOpen" <=> pipe'[i].version = 1
    BY <1>7, <2>2 DEF Served, VersionsRise
  <2>5. \A i, j \in Changes : i < j => pipe'[i].version < pipe'[j].version
    BY <1>7 DEF Served, VersionsRise
  <2>6. \A e \in Watched \cup {c} :
            /\ opening'[e].m \in {"didOpen", "didChange"}
            /\ opening'[e].m = "didOpen" <=> opening'[e].document.version = 1
            /\ process.version < opening'[e].document.version
            /\ opening'[e].document.version <= d.version
            /\ \A i \in Changes : pipe'[i].version < opening'[e].document.version
    <3>1. ASSUME NEW e \in Watched
          PROVE  /\ opening'[e].m \in {"didOpen", "didChange"}
                 /\ opening'[e].m = "didOpen" <=> opening'[e].document.version = 1
                 /\ process.version < opening'[e].document.version
                 /\ opening'[e].document.version <= d.version
                 /\ \A i \in Changes : pipe'[i].version < opening'[e].document.version
      BY <1>7, <1>8, <2>2 DEF Served, VersionsRise
    <3>2. d.version <= d.version
      BY <1>2, <1>9
    <3> QED
      BY <1>3, <1>4, <1>5, <1>7, <2>1, <3>1, <3>2
  <2>7. \A e, g \in Watched \cup {c} : e # g => opening'[e].document.version # opening'[g].document.version
    BY <1>2, <1>5, <1>8, <1>9, <2>1 DEF Served, VersionsRise
  <2> QED
    BY <1>1, <1>7, <1>8, <2>3, <2>4, <2>5, <2>6, <2>7 DEF VersionsRise
<1>11. NothingIsMissed'
  <2>1. Recorded(openDocument)'
    BY <1>1, <1>5, <1>8 DEF Recorded
  <2>2. d.version > 0
    BY <1>2, <1>9
  <2>3. openDocument.version = 0 => d.version = 1
    BY <1>2
  <2>4. \/ process.version > 0
        \/ \E i \in Changes : pipe[i].version = 1
        \/ \E e \in Watched : opening[e].document.version = 1
        \/ d.version = 1
    BY <1>9, <2>3 DEF Served, NothingIsMissed
  <2> QED
    BY <1>1, <1>5, <1>7, <1>8, <2>1, <2>2, <2>4 DEF Served, NothingIsMissed
<1>12. SavesFollow'
  <2>1. DOMAIN pipe = 1..Len(pipe) /\ Len(pipe) \in Nat
    BY DEF ClientTyped
  <2>2. pipe'[Len(pipe) + 1].m = "watched" /\ Len(pipe') = Len(pipe) + 1 /\ DOMAIN pipe' = 1..(Len(pipe) + 1)
    <3>1. pipe' = Append(pipe, Client!Message("watched", d))
      BY <1>1 DEF Client!Send, Client!CanSend
    <3>2. Client!Message("watched", d).m = "watched"
      BY <1>2, MessageIs DEF Kinds
    <3> QED
      BY <3>1, <3>2 DEF ClientTyped
  <2>3. ASSUME NEW i \in DOMAIN pipe'
        PROVE  /\ pipe'[i].m # "didClose"
               /\ pipe'[i].m = "didSave" => process.version > 0 \/ \E j \in Changes : j < i
    <3>1. CASE i \in 1..Len(pipe)
      BY <2>1, <3>1, <1>6 DEF Served, SavesFollow, Grows
    <3>2. CASE i = Len(pipe) + 1
      BY <2>2, <3>2
    <3> QED
      BY <2>1, <2>2, <3>1, <3>2
  <2>4. ASSUME NEW e \in Opener, opening'[e].stage = "sent", opening'[e].m # "none"
        PROVE  process.version > 0 \/ Changes # {}
    BY <1>5, <2>4 DEF Served, SavesFollow
  <2> QED
    BY <1>1, <1>7, <2>3, <2>4 DEF SavesFollow
<1>13. ReportsFollow'
  BY <1>1 DEF Served, ReportsFollow
<1> QED
  BY <1>10, <1>11, <1>12, <1>13 DEF Served

\* The text recorded first is sent first.
LEMMA SendTextKeepsServed ==
    ASSUME ClientTyped, Served, lifecycle = "up", NEW c \in Opener, Client!SendText(c)
    PROVE  Served'
<1> DEFINE n == Len(pipe)
           d == opening[c].document
           message == Client!Message(opening[c].m, d)
<1>1. /\ c \in Watched /\ pipe' = Append(pipe, message)
      /\ \A e \in Watched : d.version <= opening[e].document.version
      /\ Client!Move(c, "sent", opening[c].m, d)
      /\ UNCHANGED <<openDocument, process, reports, diagnostics>>
  BY DEF Client!SendText, Client!Send, Client!CanSend, Watched
<1>2. /\ n \in Nat /\ DOMAIN pipe = 1..n /\ Changes \subseteq 1..n
  BY DEF ClientTyped, Changes
<1>3. /\ openDocument.version \in Nat /\ process.version \in Nat
      /\ \A i \in Changes : pipe[i].version \in Nat
      /\ \A e \in Watched : opening[e].document.version \in Nat
      /\ d \in Client!Document
  BY <1>1, VersionsAreNumbers
<1>4. /\ opening[c].m \in {"didOpen", "didChange"}
      /\ opening[c].m = "didOpen" <=> d.version = 1
      /\ process.version < d.version /\ d.version <= openDocument.version
      /\ \A i \in Changes : pipe[i].version < d.version
  BY <1>1 DEF Served, VersionsRise
<1>5. /\ message.m = opening[c].m /\ message.version = d.version /\ message.text = d.text
  BY <1>3, <1>4, MessageIs DEF Kinds
<1>6. /\ opening'[c].stage = "sent" /\ \A e \in Opener : e # c => opening'[e] = opening[e]
  BY <1>1, <1>3, <1>4, MoveIs DEF ClientTyped, Client!Stage
<1>7. /\ DOMAIN pipe' = 1..(n + 1) /\ pipe'[n + 1] = message /\ \A i \in 1..n : pipe'[i] = pipe[i]
  BY <1>1, <1>2 DEF ClientTyped
<1> HIDE DEF d, message
<1>8. Changes' = Changes \cup {n + 1}
  BY <1>2, <1>4, <1>5, <1>7 DEF Changes
<1>9. /\ Watched' = Watched \ {c} /\ \A e \in Watched' : opening'[e] = opening[e]
  BY <1>6 DEF Watched
<1>10. \A e \in Watched' : d.version < opening[e].document.version
  <2> SUFFICES ASSUME NEW e \in Watched' PROVE d.version < opening[e].document.version
    OBVIOUS
  <2>1. e \in Watched /\ e # c
    BY <1>9
  <2>2. opening[e].document.version # d.version
    BY <1>1, <2>1 DEF Served, VersionsRise, d
  <2>3. d.version \in Nat /\ opening[e].document.version \in Nat /\ d.version <= opening[e].document.version
    BY <1>1, <1>3, <2>1 DEF d
  <2> QED
    BY <2>2, <2>3
<1>11. VersionsRise'
  <2>1. \A i \in Changes' :
            /\ process.version < pipe'[i].version /\ pipe'[i].version <= openDocument.version
            /\ pipe'[i].m = "didOpen" <=> pipe'[i].version = 1
    BY <1>2, <1>4, <1>5, <1>7, <1>8 DEF Served, VersionsRise
  <2>2. ASSUME NEW i \in Changes', NEW j \in Changes', i < j PROVE pipe'[i].version < pipe'[j].version
    <3>1. i \in Changes
      BY <1>2, <1>8, <2>2
    <3>2. CASE j \in Changes
      BY <1>2, <1>7, <2>2, <3>1, <3>2 DEF Served, VersionsRise
    <3>3. CASE j = n + 1
      BY <1>2, <1>4, <1>5, <1>7, <3>1, <3>3
    <3> QED
      BY <1>8, <3>2, <3>3
  <2>3. ASSUME NEW e \in Watched'
        PROVE  /\ opening'[e].m \in {"didOpen", "didChange"}
               /\ opening'[e].m = "didOpen" <=> opening'[e].document.version = 1
               /\ process.version < opening'[e].document.version
               /\ opening'[e].document.version <= openDocument.version
    BY <1>9 DEF Served, VersionsRise
  <2>4. ASSUME NEW e \in Watched', NEW i \in Changes' PROVE pipe'[i].version < opening'[e].document.version
    <3>1. CASE i \in Changes
      BY <1>2, <1>7, <1>9, <3>1 DEF Served, VersionsRise
    <3>2. CASE i = n + 1
      BY <1>5, <1>7, <1>9, <1>10, <3>2
    <3> QED
      BY <1>8, <3>1, <3>2
  <2>5. \A e, g \in Watched' : e # g => opening'[e].document.version # opening'[g].document.version
    BY <1>9 DEF Served, VersionsRise
  <2>6. process'.version <= openDocument'.version
    BY <1>1 DEF Served, VersionsRise
  <2>7. /\ \A i \in Changes' : process'.version < pipe'[i].version /\ pipe'[i].version <= openDocument'.version
        /\ \A i \in Changes' : pipe'[i].m = "didOpen" <=> pipe'[i].version = 1
    BY <1>1, <2>1
  <2>8. \A e \in Watched' :
            /\ opening'[e].m \in {"didOpen", "didChange"}
            /\ opening'[e].m = "didOpen" <=> opening'[e].document.version = 1
            /\ process'.version < opening'[e].document.version
            /\ opening'[e].document.version <= openDocument'.version
            /\ \A i \in Changes' : pipe'[i].version < opening'[e].document.version
    BY <1>1, <2>3, <2>4
  <2>9. \A i, j \in Changes' : i < j => pipe'[i].version < pipe'[j].version
    BY <2>2
  <2> QED
    BY <2>5, <2>6, <2>7, <2>8, <2>9 DEF VersionsRise
<1>12. NothingIsMissed'
  <2>1. Recorded(openDocument)'
    <3>1. CASE process = openDocument
      BY <1>1, <3>1 DEF Recorded
    <3>2. CASE \E i \in Changes : pipe[i].version = openDocument.version /\ pipe[i].text = openDocument.text
      BY <1>1, <1>2, <1>7, <1>8, <3>2 DEF Recorded
    <3>3. CASE \E e \in Watched : opening[e].document = openDocument
      <4>1. PICK e \in Watched : opening[e].document = openDocument
        BY <3>3
      <4>2. CASE e = c
        BY <1>1, <1>5, <1>7, <1>8, <4>1, <4>2 DEF Recorded, d
      <4>3. CASE e # c
        BY <1>1, <1>9, <4>1, <4>3 DEF Recorded
      <4> QED
        BY <4>2, <4>3
    <3> QED
      BY <3>1, <3>2, <3>3 DEF Served, NothingIsMissed, Recorded
  <2>2. openDocument.version > 0 =>
            \/ process.version > 0
            \/ \E i \in Changes' : pipe'[i].version = 1
            \/ \E e \in Watched' : opening'[e].document.version = 1
    <3>1. CASE \E i \in Changes : pipe[i].version = 1
      BY <1>2, <1>7, <1>8, <3>1
    <3>2. CASE \E e \in Watched : opening[e].document.version = 1
      <4>1. PICK e \in Watched : opening[e].document.version = 1
        BY <3>2
      <4>2. CASE e = c
        BY <1>5, <1>7, <1>8, <4>1, <4>2 DEF d
      <4>3. CASE e # c
        BY <1>9, <4>1, <4>3
      <4> QED
        BY <4>2, <4>3
    <3> QED
      BY <3>1, <3>2 DEF Served, NothingIsMissed
  <2> QED
    BY <1>1, <2>1, <2>2 DEF Served, NothingIsMissed
<1>13. SavesFollow'
  <2>1. ASSUME NEW i \in DOMAIN pipe'
        PROVE  /\ pipe'[i].m # "didClose"
               /\ pipe'[i].m = "didSave" => process.version > 0 \/ \E j \in Changes' : j < i
    <3>1. CASE i \in 1..n
      BY <1>2, <1>7, <1>8, <3>1 DEF Served, SavesFollow
    <3>2. CASE i = n + 1
      BY <1>4, <1>5, <1>7, <3>2
    <3> QED
      BY <1>2, <1>7, <2>1, <3>1, <3>2
  <2> QED
    BY <1>1, <1>8, <2>1 DEF SavesFollow
<1>14. ReportsFollow'
  BY <1>1 DEF Served, ReportsFollow
<1> QED
  BY <1>11, <1>12, <1>13, <1>14 DEF Served

\* The server reads: a text replaces the one it had.
LEMMA ServerReadsKeepsServed ==
    ASSUME ClientTyped, Served, "pull_only" \notin ClientFaults, Client!ServerReads
    PROVE  Served'
<1>1. /\ pipe \in Seq(Messages) /\ pipe # <<>> /\ pipe' = Tail(pipe) /\ reports \in Seq(Findings)
      /\ UNCHANGED <<opening, openDocument, diagnostics>>
  BY DEF ClientTyped, Client!ServerReads
<1>2. /\ Head(pipe) = pipe[1] /\ 1 \in 1..Len(pipe) /\ pipe[1] \in Messages
      /\ Len(pipe) \in Nat /\ DOMAIN pipe = 1..Len(pipe) /\ DOMAIN pipe' = 1..(Len(pipe) - 1)
      /\ \A i \in 1..(Len(pipe) - 1) : i + 1 \in 1..Len(pipe) /\ pipe'[i] = pipe[i + 1]
  BY <1>1
<1>3. /\ Changes \subseteq 1..Len(pipe)
      /\ \A i \in Changes' : i \in Nat /\ i + 1 \in Changes /\ pipe'[i] = pipe[i + 1]
      /\ \A i \in Changes : i # 1 => i - 1 \in Changes' /\ pipe'[i - 1] = pipe[i]
  <2>1. Changes \subseteq 1..Len(pipe)
    BY <1>2 DEF Changes
  <2>2. ASSUME NEW i \in Changes' PROVE i \in Nat /\ i + 1 \in Changes /\ pipe'[i] = pipe[i + 1]
    BY <1>2, <2>2 DEF Changes
  <2>3. ASSUME NEW i \in Changes, i # 1 PROVE i - 1 \in Changes' /\ pipe'[i - 1] = pipe[i]
    <3>1. i - 1 \in 1..(Len(pipe) - 1) /\ (i - 1) + 1 = i
      BY <1>2, <2>1, <2>3
    <3> QED
      BY <1>2, <2>3, <3>1 DEF Changes
  <2> QED
    BY <2>1, <2>2, <2>3
<1>4. Watched' = Watched
  BY <1>1 DEF Watched
<1>5. /\ openDocument.version \in Nat /\ process.version \in Nat
      /\ \A i \in Changes : pipe[i] \in Messages /\ pipe[i].version \in Nat
      /\ \A e \in Watched : opening[e].document.version \in Nat
  BY VersionsAreNumbers
<1>6. CASE Changing(Head(pipe))
  <2>1. /\ 1 \in Changes
        /\ process' = [version |-> pipe[1].version, text |-> pipe[1].text]
        /\ reports' = Append(reports, [pulled |-> FALSE, text |-> pipe[1].text])
    <3>1. 1 \in Changes
      BY <1>2, <1>6 DEF Changes, Changing
    <3>2. process' = [version |-> pipe[1].version, text |-> pipe[1].text] /\ reports' = reports \o Client!Push
      BY <1>2, <1>6 DEF Client!ServerReads, Changing
    <3>3. Client!Push = <<[pulled |-> FALSE, text |-> pipe[1].text]>>
      BY <1>2 DEF Client!Push
    <3> QED
      BY <1>1, <3>1, <3>2, <3>3
  <2>2. process'.version = pipe[1].version /\ process'.text = pipe[1].text /\ process'.version > 0
    BY <1>5, <2>1 DEF Served, VersionsRise
  <2>3. VersionsRise'
    <3>1. \A i \in Changes : i # 1 => pipe[1].version < pipe[i].version
      <4> SUFFICES ASSUME NEW i \in Changes, i # 1 PROVE pipe[1].version < pipe[i].version
        OBVIOUS
      <4>1. 1 < i
        BY <1>3
      <4> QED
        BY <2>1, <4>1 DEF Served, VersionsRise
    <3>2. ASSUME NEW i \in Changes'
          PROVE  /\ process'.version < pipe'[i].version /\ pipe'[i].version <= openDocument.version
                 /\ pipe'[i].m = "didOpen" <=> pipe'[i].version = 1
      <4>1. i + 1 \in Changes /\ i + 1 # 1 /\ pipe'[i] = pipe[i + 1]
        BY <1>2, <1>3, <3>2 DEF Changes
      <4> QED
        BY <2>2, <3>1, <4>1 DEF Served, VersionsRise
    <3>3. ASSUME NEW i \in Changes', NEW j \in Changes', i < j PROVE pipe'[i].version < pipe'[j].version
      BY <1>3, <3>3 DEF Served, VersionsRise
    <3>4. ASSUME NEW e \in Watched
          PROVE  /\ opening[e].m \in {"didOpen", "didChange"}
                 /\ opening[e].m = "didOpen" <=> opening[e].document.version = 1
                 /\ process'.version < opening[e].document.version
                 /\ opening[e].document.version <= openDocument.version
                 /\ \A i \in Changes' : pipe'[i].version < opening[e].document.version
      BY <1>3, <2>1, <2>2 DEF Served, VersionsRise
    <3>5. \A e, g \in Watched : e # g => opening[e].document.version # opening[g].document.version
      BY DEF Served, VersionsRise
    <3>6. process'.version <= openDocument.version
      BY <2>1, <2>2 DEF Served, VersionsRise
    <3> QED
      BY <1>1, <1>4, <3>2, <3>3, <3>4, <3>5, <3>6 DEF VersionsRise
  <2>4. NothingIsMissed'
    <3>1. Recorded(openDocument)'
      <4>1. CASE process = openDocument
        <5>1. openDocument.version < pipe[1].version /\ pipe[1].version <= openDocument.version
          BY <2>1, <4>1 DEF Served, VersionsRise
        <5> QED
          BY <1>5, <2>1, <5>1
      <4>2. CASE \E i \in Changes : pipe[i].version = openDocument.version /\ pipe[i].text = openDocument.text
        <5>1. PICK i \in Changes : pipe[i].version = openDocument.version /\ pipe[i].text = openDocument.text
          BY <4>2
        <5>2. CASE i = 1
          <6>1. openDocument = [version |-> openDocument.version, text |-> openDocument.text]
            BY DEF ClientTyped, Client!Document
          <6> QED
            BY <1>1, <2>1, <5>1, <5>2, <6>1 DEF Recorded
        <5>3. CASE i # 1
          BY <1>1, <1>3, <5>1, <5>3 DEF Recorded
        <5> QED
          BY <5>2, <5>3
      <4>3. CASE \E e \in Watched : opening[e].document = openDocument
        BY <1>1, <1>4, <4>3 DEF Recorded
      <4> QED
        BY <4>1, <4>2, <4>3 DEF Served, NothingIsMissed, Recorded
    <3>2. process'.version # 0
      BY <1>5, <2>1, <2>2
    <3> QED
      BY <1>1, <2>2, <3>1, <3>2 DEF Served, NothingIsMissed
  <2>5. SavesFollow'
    BY <1>1, <1>2, <2>2 DEF Served, SavesFollow
  <2>6. ReportsFollow'
    <3>1. Len(reports) + 1 \in DOMAIN reports' /\ reports'[Len(reports) + 1] = [pulled |-> FALSE, text |-> pipe[1].text]
          /\ DOMAIN reports' = 1..(Len(reports) + 1) /\ Len(reports) \in Nat
      BY <1>1, <2>1
    <3>2. \A j \in DOMAIN reports' : j >= Len(reports) + 1 => j = Len(reports) + 1
      BY <3>1
    <3> QED
      BY <2>2, <3>1, <3>2 DEF ReportsFollow
  <2> QED
    BY <2>3, <2>4, <2>5, <2>6 DEF Served
<1>7. CASE ~Changing(Head(pipe))
  <2>1. /\ process' = process
        /\ \/ reports' = reports
           \/ reports' = Append(reports, [pulled |-> TRUE, text |-> process.text])
    <3>1. Head(pipe).m # "didClose"
      BY <1>2 DEF Served, SavesFollow
    <3> QED
      BY <1>7, <3>1 DEF Client!ServerReads, Changing
  <2>2. 1 \notin Changes
    BY <1>2, <1>7 DEF Changes, Changing
  <2>3. VersionsRise'
    <3>1. \A i, j \in Changes' : i < j => pipe'[i].version < pipe'[j].version
      BY <1>3 DEF Served, VersionsRise
    <3>2. \A i \in Changes' :
            /\ process.version < pipe'[i].version /\ pipe'[i].version <= openDocument.version
            /\ pipe'[i].m = "didOpen" <=> pipe'[i].version = 1
      BY <1>3 DEF Served, VersionsRise
    <3>3. \A e \in Watched :
            /\ opening[e].m \in {"didOpen", "didChange"}
            /\ opening[e].m = "didOpen" <=> opening[e].document.version = 1
            /\ process.version < opening[e].document.version
            /\ opening[e].document.version <= openDocument.version
            /\ \A i \in Changes' : pipe'[i].version < opening[e].document.version
      BY <1>3 DEF Served, VersionsRise
    <3>4. \A e, g \in Watched : e # g => opening[e].document.version # opening[g].document.version
      BY DEF Served, VersionsRise
    <3>5. process.version <= openDocument.version
      BY DEF Served, VersionsRise
    <3> QED
      BY <1>1, <1>4, <2>1, <3>1, <3>2, <3>3, <3>4, <3>5 DEF VersionsRise
  <2>4. NothingIsMissed'
    <3>1. Recorded(openDocument)'
      BY <1>1, <1>3, <1>4, <2>1, <2>2 DEF Served, NothingIsMissed, Recorded
    <3>2. (\E i \in Changes : pipe[i].version = 1) => \E i \in Changes' : pipe'[i].version = 1
      BY <1>3, <2>2
    <3> QED
      BY <1>1, <1>4, <2>1, <3>1, <3>2 DEF Served, NothingIsMissed
  <2>5. SavesFollow'
    <3>1. ASSUME NEW i \in DOMAIN pipe'
          PROVE  /\ pipe'[i].m # "didClose"
                 /\ pipe'[i].m = "didSave" => process.version > 0 \/ \E j \in Changes' : j < i
      <4>1. i \in Nat /\ i + 1 \in DOMAIN pipe /\ pipe'[i] = pipe[i + 1]
        BY <1>2, <3>1
      <4>2. pipe[i + 1].m = "didSave" => process.version > 0 \/ \E j \in Changes : j < i + 1
        BY <4>1 DEF Served, SavesFollow
      <4>3. ASSUME NEW j \in Changes, j < i + 1 PROVE j - 1 \in Changes' /\ j - 1 < i
        BY <1>3, <2>2, <4>1, <4>3
      <4> QED
        BY <4>1, <4>2, <4>3 DEF Served, SavesFollow
    <3>2. Changes # {} => Changes' # {}
      BY <1>3, <2>2
    <3> QED
      BY <1>1, <2>1, <3>1, <3>2 DEF Served, SavesFollow
  <2>6. ReportsFollow'
    <3>1. CASE reports' = reports
      BY <1>1, <2>1, <3>1 DEF Served, ReportsFollow
    <3>2. CASE reports' = Append(reports, [pulled |-> TRUE, text |-> process.text])
      <4>1. /\ Len(reports) \in Nat /\ DOMAIN reports = 1..Len(reports) /\ DOMAIN reports' = 1..(Len(reports) + 1)
            /\ \A j \in 1..Len(reports) : reports'[j] = reports[j]
            /\ reports'[Len(reports) + 1].text = process.text
        BY <1>1, <3>2
      <4>2. \A j \in DOMAIN reports' : j \in DOMAIN reports \/ j = Len(reports) + 1
        BY <4>1
      <4>3. DOMAIN reports \subseteq DOMAIN reports'
        BY <4>1
      <4> QED
        BY <1>1, <2>1, <4>1, <4>2, <4>3 DEF Served, ReportsFollow
    <3> QED
      BY <2>1, <3>1, <3>2
  <2> QED
    BY <2>3, <2>4, <2>5, <2>6 DEF Served
<1> QED
  BY <1>6, <1>7

LEMMA ReceiveKeepsServed == ASSUME ClientTyped, Served, Client!Receive PROVE Served'
<1>1. /\ reports \in Seq(Findings) /\ reports # <<>> /\ reports' = Tail(reports)
      /\ diagnostics' = {Head(reports).text} \cup IF Head(reports).pulled THEN diagnostics ELSE {}
      /\ UNCHANGED <<opening, openDocument, pipe, process>>
  BY DEF ClientTyped, Client!Receive
<1>2. /\ Head(reports) = reports[1] /\ 1 \in DOMAIN reports /\ DOMAIN reports = 1..Len(reports) /\ Len(reports) \in Nat
      /\ DOMAIN reports' = 1..(Len(reports) - 1)
      /\ \A j \in 1..(Len(reports) - 1) : j + 1 \in DOMAIN reports /\ reports'[j] = reports[j + 1]
  BY <1>1
<1>3. ReportsFollow'
  <2>1. ASSUME NEW k \in DOMAIN reports, ~reports[k].pulled,
               \A j \in DOMAIN reports : j >= k => reports[j].text = process.text
        PROVE  ReportsFollow'
    <3>1. CASE k = 1
      <4>1. \A j \in DOMAIN reports' : reports'[j].text = process.text
        BY <1>2, <2>1, <3>1
      <4>2. diagnostics' = {process.text}
        BY <1>1, <1>2, <2>1, <3>1
      <4> QED
        BY <1>1, <4>1, <4>2 DEF ReportsFollow
    <3>2. CASE k # 1
      <4>1. k - 1 \in DOMAIN reports' /\ reports'[k - 1] = reports[k]
        BY <1>2, <3>2
      <4>2. \A j \in DOMAIN reports' : j >= k - 1 => reports'[j].text = process.text
        BY <1>2, <2>1
      <4> QED
        BY <1>1, <2>1, <4>1, <4>2 DEF ReportsFollow
    <3> QED
      BY <3>1, <3>2
  <2>2. ASSUME \A j \in DOMAIN reports : reports[j].text = process.text, diagnostics \subseteq {process.text}
        PROVE  ReportsFollow'
    <3>1. \A j \in DOMAIN reports' : reports'[j].text = process.text
      BY <1>2, <2>2
    <3>2. diagnostics' \subseteq {process.text}
      BY <1>1, <1>2, <2>2
    <3> QED
      BY <1>1, <3>1, <3>2 DEF ReportsFollow
  <2> QED
    BY <2>1, <2>2 DEF Served, ReportsFollow
<1>4. Changes' = Changes /\ Watched' = Watched
  BY <1>1 DEF Changes, Watched
<1>5. VersionsRise'
  BY <1>1, <1>4 DEF Served, VersionsRise
<1>6. NothingIsMissed'
  <2>1. Recorded(openDocument)'
    BY <1>1, <1>4 DEF Served, NothingIsMissed, Recorded
  <2> QED
    BY <1>1, <1>4, <2>1 DEF Served, NothingIsMissed
<1>7. SavesFollow'
  BY <1>1, <1>4 DEF Served, SavesFollow
<1> QED
  BY <1>3, <1>5, <1>6, <1>7 DEF Served

ClientInv == ClientTyped /\ (lifecycle = "up" => Served)

LEMMA ClientBegins == ASSUME Client!ClientInit PROVE ClientInv
BY ClientTypedBegins, ServedBegins DEF ClientInv

LEMMA ClientStays == ASSUME ClientInv, UNCHANGED clientVars PROVE ClientInv'
<1>0. UNCHANGED <<file, opening, openDocument, pipe, process, reports, diagnostics, lifecycle>>
  BY DEF clientVars
<1>1. ClientTyped'
  BY <1>0 DEF ClientInv, ClientTyped, TextsAreReal, Client!Revision, Client!Document
<1>2. Changes' = Changes /\ Watched' = Watched
  BY <1>0 DEF Changes, Watched
<1>3. Served => VersionsRise' /\ SavesFollow' /\ ReportsFollow'
  BY <1>0, <1>2 DEF Served, VersionsRise, SavesFollow, ReportsFollow
<1>4. Served => Recorded(openDocument)'
  BY <1>0, <1>2 DEF Served, NothingIsMissed, Recorded
<1>5. Served => NothingIsMissed'
  BY <1>0, <1>2, <1>4 DEF Served, NothingIsMissed
<1> QED
  BY <1>0, <1>1, <1>3, <1>5 DEF ClientInv, Served

LEMMA ClientKeeps ==
    ASSUME ClientInv, "abort" \notin ClientFaults, "pull_only" \notin ClientFaults, Client!ClientNext
    PROVE  ClientInv'
<1>1. SUFFICES ASSUME lifecycle' = "up" PROVE Served'
  BY ClientStepTyped DEF ClientInv
<1>2. ~Client!CloseDocuments /\ ~Client!Close /\ ~Client!Dispose /\ ~Client!ServerExits
  BY <1>1 DEF Client!CloseDocuments, Client!Close, Client!Dispose, Client!ServerExits
<1>3. lifecycle = "up"
  BY <1>1, <1>2 DEF Client!ClientNext, Client!FileChanges, Client!ServerReads, Client!Receive,
     Client!ReadFile, Client!FindClosed, Client!Record, Client!SendText, Client!AbortOpen, Client!SendSave
<1>4. ClientTyped /\ Served
  BY <1>3 DEF ClientInv
<1>5. \A c \in Opener : ~Client!FindClosed(c)
  BY <1>3 DEF Client!FindClosed, Client!CanSend
<1>6. ASSUME NEW c \in Opener, Client!Record(c) PROVE Served'
  <2>1. CASE openDocument' # openDocument
    BY <1>3, <1>4, <1>6, <2>1, RecordKeepsServed
  <2>2. CASE openDocument' = openDocument
    <3>1. opening[c].document.text = openDocument.text
      BY <1>6, <2>2 DEF Client!Record
    <3>2. /\ Client!Move(c, "sent", "none", Client!Closed) /\ pipe' = pipe
      BY <1>6, <3>1 DEF Client!Record
    <3> QED
      BY <1>1, <1>4, <1>6, <2>2, <3>2, QuietCallKeepsServed
  <2> QED
    BY <2>1, <2>2
<1> QED
  BY <1>1, <1>2, <1>3, <1>4, <1>5, <1>6, QuietCallKeepsServed, SendTextKeepsServed, SendSaveKeepsServed,
     ServerReadsKeepsServed, ReceiveKeepsServed DEF Client!ClientNext

LEMMA ServerFollowsTheClient == ASSUME ClientInv PROVE Client!ServerFollows
<1> SUFFICES ASSUME lifecycle = "up"
             PROVE  /\ pipe # <<>> =>
                        /\ Head(pipe).m = "didOpen" => process = Client!Closed
                        /\ Head(pipe).m = "didChange" => process # Client!Closed /\ Head(pipe).version > process.version
                        /\ Head(pipe).m = "didSave" => process # Client!Closed
                    /\ pipe = <<>> /\ (\A c \in Opener : opening[c].stage \in {"idle", "read", "done"}) =>
                        /\ process = openDocument
                        /\ reports = <<>> => diagnostics \subseteq {process.text}
  BY DEF Client!ServerFollows
<1>0. ClientTyped /\ Served
  BY DEF ClientInv
<1>1. /\ openDocument.version \in Nat /\ process.version \in Nat
      /\ \A i \in Changes : pipe[i].version \in Nat
      /\ \A e \in Watched : opening[e].document.version \in Nat
  BY <1>0, VersionsAreNumbers
<1>2. process.version > 0 => process # Client!Closed
  BY ClosedIsDocument
<1>3. ASSUME pipe # <<>>
      PROVE  /\ Head(pipe).m = "didOpen" => process = Client!Closed
             /\ Head(pipe).m = "didChange" => process # Client!Closed /\ Head(pipe).version > process.version
             /\ Head(pipe).m = "didSave" => process # Client!Closed
  <2>1. Head(pipe) = pipe[1] /\ 1 \in DOMAIN pipe /\ DOMAIN pipe = 1..Len(pipe)
    BY <1>0, <1>3 DEF ClientTyped
  <2>2. ASSUME Head(pipe).m = "didOpen" PROVE process = Client!Closed
    <3>1. 1 \in Changes /\ pipe[1].version = 1 /\ process.version < 1
      BY <1>0, <2>1, <2>2 DEF Changes, Served, VersionsRise
    <3> QED
      BY <1>0, <1>1, <3>1 DEF Served, NothingIsMissed
  <2>3. ASSUME Head(pipe).m = "didChange" PROVE process # Client!Closed /\ Head(pipe).version > process.version
    <3>1. 1 \in Changes /\ pipe[1].version # 1 /\ process.version < pipe[1].version
          /\ pipe[1].version <= openDocument.version
      BY <1>0, <2>1, <2>3 DEF Changes, Served, VersionsRise
    <3>2. pipe[1].version > 1
      BY <1>1, <3>1
    <3>3. ASSUME NEW i \in Changes PROVE pipe[i].version # 1
      <4>1. i = 1 \/ 1 < i
        BY <2>1 DEF Changes
      <4>2. 1 < i => pipe[1].version < pipe[i].version
        BY <1>0, <3>1 DEF Served, VersionsRise
      <4> QED
        BY <1>1, <3>1, <3>2, <4>1, <4>2
    <3>4. ASSUME NEW e \in Watched PROVE opening[e].document.version # 1
      <4>1. pipe[1].version < opening[e].document.version
        BY <1>0, <3>1 DEF Served, VersionsRise
      <4> QED
        BY <1>1, <3>1, <3>2, <4>1
    <3>5. openDocument.version > 0
      BY <1>1, <3>1, <3>2
    <3>6. process.version > 0
      BY <1>0, <3>3, <3>4, <3>5 DEF Served, NothingIsMissed
    <3> QED
      BY <1>2, <2>1, <3>1, <3>6, <1>1
  <2>4. ASSUME Head(pipe).m = "didSave" PROVE process # Client!Closed
    <3>1. process.version > 0 \/ \E j \in Changes : j < 1
      BY <1>0, <2>1, <2>4 DEF Served, SavesFollow
    <3>2. \A j \in Changes : ~(j < 1)
      BY <2>1 DEF Changes
    <3> QED
      BY <1>2, <3>1, <3>2
  <2> QED
    BY <2>2, <2>3, <2>4
<1>4. ASSUME pipe = <<>>, \A c \in Opener : opening[c].stage \in {"idle", "read", "done"}
      PROVE  process = openDocument /\ (reports = <<>> => diagnostics \subseteq {process.text})
  <2>1. Changes = {} /\ Watched = {}
    BY <1>4 DEF Changes, Watched
  <2>2. process = openDocument
    BY <1>0, <2>1 DEF Served, NothingIsMissed, Recorded
  <2>3. ASSUME reports = <<>> PROVE diagnostics \subseteq {process.text}
    <3>1. DOMAIN reports = {}
      BY <2>3
    <3> QED
      BY <1>0, <3>1 DEF Served, ReportsFollow
  <2> QED
    BY <2>2, <2>3
<1> QED
  BY <1>3, <1>4

LEMMA LeastNumber ==
    ASSUME NEW T, T \subseteq Nat, T # {}
    PROVE  \E x \in T : \A y \in T : x <= y
<1>1. PICK n \in T : TRUE
  OBVIOUS
<1> DEFINE S == 0..n
           R == StrictSubsetOrdering(S)
           TT == {0..t : t \in {u \in T : u <= n}}
<1>2. IsWellFoundedOn(R, SUBSET S)
  <2>1. IsFiniteSet(S)
    BY <1>1, FS_Interval
  <2>2. FiniteSubsetsOf(S) = SUBSET S
    BY <2>1, FS_FiniteSubsetsOfFinite
  <2> QED
    BY <2>2, FS_StrictSubsetOrderingWellFounded
<1>3. TT \subseteq SUBSET S /\ TT # {}
  BY <1>1
<1>4. PICK least \in TT : \A other \in TT : ~(<<other, least>> \in R)
  BY <1>2, <1>3, WFMin
<1>5. PICK x \in T : x <= n /\ least = 0..x
  BY <1>4
<1>6. ASSUME NEW y \in T, y < x PROVE FALSE
  <2>1. 0..y \in TT /\ 0..y \subseteq 0..x /\ 0..y # 0..x
    BY <1>5, <1>6, <1>1
  <2>2. <<0..y, least>> \in R
    BY <2>1, <1>3, <1>5 DEF StrictSubsetOrdering
  <2> QED
    BY <2>1, <2>2, <1>4
<1> QED
  BY <1>5, <1>6

\* A set of numbers up to n has a greatest one.
LEMMA GreatestNumber ==
    ASSUME NEW n \in Nat, NEW S, S \subseteq 0..n, S # {}
    PROVE  \E x \in S : \A y \in S : x >= y
<1> DEFINE T == {n - x : x \in S}
<1>1. T \subseteq Nat /\ T # {}
  <2>1. ASSUME NEW x \in S PROVE n - x \in Nat
    <3>1. x \in 0..n
      OBVIOUS
    <3> QED
      BY <3>1
  <2> QED
    BY <2>1
<1>2. PICK t \in T : \A u \in T : t <= u
  BY <1>1, LeastNumber
<1>3. PICK x \in S : t = n - x
  BY <1>2
<1>4. \A y \in S : n - x <= n - y
  BY <1>2, <1>3
<1>5. \A y \in S : x >= y
  BY <1>3, <1>4
<1> QED
  BY <1>3, <1>5

-----------------------------------------------------------------------------
(* The lookup of servers                                                   *)

ServersInv == Servers!ServersTypeOK /\ dirs.dotted = {} /\ ~dirs.symlink

LEMMA DirectoriesAre ==
    /\ Servers!Dir = 0..Depth /\ Depth \in Nat
    /\ None \notin Servers!Dir /\ None # Servers!Agent /\ None # Servers!Path
    /\ Servers!Agent \notin Servers!Dir /\ Servers!Path \notin Servers!Dir
BY LspSizesAssumption DEF LspSizesAssumption, Servers!Dir, Servers!Agent, Servers!Path

LEMMA ServersBegin == ASSUME LookupFaults = {}, Servers!ServersInit PROVE ServersInv
<1>1. dirs \in [cwd : Servers!Dir, file : Servers!Dir, dotted : {{}}, symlink : {FALSE}]
  BY DEF Servers!ServersInit
<1>2. dirs.dotted = {} /\ dirs.symlink = FALSE /\ dirs \in [cwd : Servers!Dir, file : Servers!Dir, dotted : SUBSET Servers!Dir, symlink : BOOLEAN]
  BY <1>1
<1> QED
  BY <1>2 DEF ServersInv, Servers!ServersInit, Servers!ServersTypeOK, Servers!Dir

LEMMA ServersStay == ASSUME ServersInv, UNCHANGED serversVars PROVE ServersInv'
BY DEF ServersInv, Servers!ServersTypeOK, serversVars, Servers!Dir, Servers!Agent, Servers!Path

LEMMA ServersKeep == ASSUME ServersInv, Servers!ServersNext PROVE ServersInv'
<1>1. ASSUME NEW id \in Servers!ServerId, NEW user \in SUBSET Servers!Fields, Servers!Configure(id, user)
      PROVE  ServersInv'
  BY <1>1 DEF Servers!Configure, ServersInv, Servers!ServersTypeOK, Servers!Dir, Servers!Agent, Servers!Path
<1>2. ASSUME NEW id \in Servers!ServerId, NEW d \in Servers!Dir, Servers!Mark(id, d) PROVE ServersInv'
  BY <1>2 DEF Servers!Mark, ServersInv, Servers!ServersTypeOK, Servers!Dir, Servers!Agent, Servers!Path
<1>3. ASSUME NEW place \in Servers!Dir \cup {Servers!Agent, Servers!Path}, Servers!Install(place) PROVE ServersInv'
  BY <1>3 DEF Servers!Install, ServersInv, Servers!ServersTypeOK, Servers!Dir, Servers!Agent, Servers!Path
<1> QED
  BY <1>1, <1>2, <1>3 DEF Servers!ServersNext, Servers!ServerId

LEMMA GreatestIs ==
    ASSUME NEW S, S \subseteq 0..Depth, S # {}
    PROVE  Servers!Max(S) \in S /\ \A x \in S : x <= Servers!Max(S)
<1>1. Depth \in Nat
  BY DirectoriesAre
<1>2. \E x \in S : \A y \in S : x >= y
  BY <1>1, GreatestNumber
<1>3. Servers!Max(S) \in S /\ \A y \in S : Servers!Max(S) >= y
  BY <1>2 DEF Servers!Max
<1> QED
  BY <1>1, <1>3

\* The directories between stop and d that have what is looked for.
Between(stop, d, sought) == {e \in sought : stop <= e /\ e <= d}

AscendStep(stop, sought, up, d) ==
    IF ~Servers!IsWithin(d, stop) THEN None
    ELSE IF d \in sought THEN d
    ELSE IF d = stop \/ d = 0 THEN None ELSE up[d - 1]

NearestIn(stop, d, sought) ==
    IF Between(stop, d, sought) = {} THEN None ELSE Servers!Max(Between(stop, d, sought))

\* The nearest is d itself or the nearest to its parent.
LEMMA NearestStep ==
    ASSUME ServersInv, NEW stop \in Servers!Dir, NEW d \in Servers!Dir, NEW sought, sought \subseteq Servers!Dir \cup {Servers!Agent, Servers!Path},
           NEW up, d # 0 => up[d - 1] = NearestIn(stop, d - 1, sought)
    PROVE  NearestIn(stop, d, sought) = AscendStep(stop, sought, up, d)
<1>0. Depth \in Nat /\ d \in 0..Depth /\ stop \in 0..Depth
  BY DirectoriesAre
<1>a. sought \subseteq 0..(Depth + 2)
  BY <1>0 DEF Servers!Dir, Servers!Agent, Servers!Path
<1>b. \A e \in sought : e \in Nat
  BY <1>0, <1>a
<1>c. /\ d \in Nat /\ stop \in Nat
      /\ \A e \in Nat : stop <= e /\ e <= d => stop <= d /\ e \in 0..Depth
      /\ \A e \in Nat : (e <= d /\ e # d) <=> e <= d - 1
  BY <1>0
<1>1. Servers!IsWithin(d, stop) <=> stop <= d
  BY <1>0 DEF ServersInv, Servers!IsWithin
<1>2. CASE ~(stop <= d)
  <2>1. Between(stop, d, sought) = {}
    BY <1>0, <1>2, <1>b, <1>c DEF Between
  <2> QED
    BY <1>1, <1>2, <2>1 DEF NearestIn, AscendStep
<1>3. CASE stop <= d /\ d \in sought
  <2>a. ASSUME NEW e \in Between(stop, d, sought) PROVE e \in 0..Depth
    <3>1. e \in Nat /\ stop <= e /\ e <= d
      BY <1>b, <2>a DEF Between
    <3> QED
      BY <1>c, <3>1
  <2>b. d <= d
    BY <1>c
  <2>1. Between(stop, d, sought) \subseteq 0..Depth /\ d \in Between(stop, d, sought)
    BY <1>3, <2>a, <2>b DEF Between
  <2>2. /\ Servers!Max(Between(stop, d, sought)) \in Between(stop, d, sought)
        /\ d <= Servers!Max(Between(stop, d, sought))
    BY <2>1, GreatestIs
  <2>3. Servers!Max(Between(stop, d, sought)) = d
    <3>1. Servers!Max(Between(stop, d, sought)) <= d /\ Servers!Max(Between(stop, d, sought)) \in 0..Depth
      BY <2>1, <2>2 DEF Between
    <3> QED
      BY <1>0, <2>2, <3>1
  <2> QED
    BY <1>1, <1>3, <2>1, <2>3 DEF NearestIn, AscendStep
<1>4. CASE stop <= d /\ d \notin sought /\ (d = stop \/ d = 0)
  <2>a. ASSUME NEW e \in Between(stop, d, sought) PROVE FALSE
    <3>1. e \in sought /\ e \in Nat /\ stop <= e /\ e <= d
      BY <1>b, <2>a DEF Between
    <3>2. e = d
      BY <1>4, <1>c, <3>1
    <3> QED
      BY <1>4, <3>1, <3>2
  <2>1. Between(stop, d, sought) = {}
    BY <2>a
  <2> QED
    BY <1>1, <1>4, <2>1 DEF NearestIn, AscendStep
<1>5. CASE stop <= d /\ d \notin sought /\ d # stop /\ d # 0
  <2>1. Between(stop, d, sought) = Between(stop, d - 1, sought)
    BY <1>0, <1>5, <1>b, <1>c DEF Between
  <2> QED
    BY <1>1, <1>5, <2>1 DEF NearestIn, AscendStep
<1> QED
  BY <1>2, <1>3, <1>4, <1>5

\* The loop ends at the nearest directory: the recursion has a solution, and
\* only one.
LEMMA AscendIsNearest ==
    ASSUME ServersInv, NEW start \in Servers!Dir, NEW stop \in Servers!Dir,
           NEW sought, sought \subseteq Servers!Dir \cup {Servers!Agent, Servers!Path}
    PROVE  Servers!Ascend(start, stop, sought) = NearestIn(stop, start, sought)
<1> DEFINE nearest == [d \in Servers!Dir |-> NearestIn(stop, d, sought)]
           up == CHOOSE f : f = [d \in Servers!Dir |-> AscendStep(stop, sought, f, d)]
<1>0. Depth \in Nat /\ Servers!Dir = 0..Depth
  BY DirectoriesAre
<1>1. nearest = [d \in Servers!Dir |-> AscendStep(stop, sought, nearest, d)]
  <2>1. ASSUME NEW d \in Servers!Dir PROVE NearestIn(stop, d, sought) = AscendStep(stop, sought, nearest, d)
    <3>1. d # 0 => d - 1 \in Servers!Dir
      BY <1>0
    <3>2. d # 0 => nearest[d - 1] = NearestIn(stop, d - 1, sought)
      BY <3>1
    <3> HIDE DEF nearest
    <3> QED
      BY <3>2, NearestStep
  <2> QED
    BY <2>1
<1>2. up = [d \in Servers!Dir |-> AscendStep(stop, sought, up, d)]
  BY <1>1
<1> HIDE DEF up
<1> DEFINE T == {d \in Servers!Dir : up[d] # NearestIn(stop, d, sought)}
<1>3. T = {}
  <2> SUFFICES ASSUME T # {} PROVE FALSE
    OBVIOUS
  <2>1. T \subseteq Nat
    BY <1>0
  <2>2. PICK d \in T : \A e \in T : d <= e
    <3> HIDE DEF T
    <3> QED
      BY <2>1, LeastNumber
  <2>3. d \in Servers!Dir /\ up[d] # NearestIn(stop, d, sought)
    OBVIOUS
  <2>4. d # 0 => d - 1 \in Servers!Dir /\ d - 1 \notin T
    BY <1>0, <2>2, <2>3
  <2>5. d # 0 => up[d - 1] = NearestIn(stop, d - 1, sought)
    BY <2>4
  <2>6. NearestIn(stop, d, sought) = AscendStep(stop, sought, up, d)
    BY <2>3, <2>5, NearestStep
  <2>7. up[d] = AscendStep(stop, sought, up, d)
    BY <1>2, <2>3
  <2> QED
    BY <2>3, <2>6, <2>7
<1>4. up[start] = NearestIn(stop, start, sought)
  BY <1>3
<1>5. Servers!Ascend(start, stop, sought) = up[start]
  BY DEF Servers!Ascend, up, AscendStep
<1> QED
  BY <1>4, <1>5

LEMMA NearestIs ==
    ASSUME NEW stop \in Servers!Dir, NEW d \in Servers!Dir,
           NEW sought, sought \subseteq Servers!Dir \cup {Servers!Agent, Servers!Path}
    PROVE  /\ Between(stop, d, sought) # {} =>
                /\ NearestIn(stop, d, sought) \in Between(stop, d, sought)
                /\ NearestIn(stop, d, sought) \in Servers!Dir /\ NearestIn(stop, d, sought) # None
                /\ stop <= d
           /\ Between(stop, d, sought) = {} => NearestIn(stop, d, sought) = None
<1>1. Depth \in Nat /\ d \in 0..Depth /\ stop \in 0..Depth /\ sought \subseteq 0..(Depth + 2)
  BY DirectoriesAre DEF Servers!Dir, Servers!Agent, Servers!Path
<1>2. ASSUME NEW e \in Between(stop, d, sought) PROVE e \in 0..Depth /\ stop <= d
  <2>1. e \in 0..(Depth + 2) /\ stop <= e /\ e <= d
    BY <1>1, <1>2 DEF Between
  <2> QED
    BY <1>1, <2>1
<1>3. ASSUME Between(stop, d, sought) # {} PROVE Servers!Max(Between(stop, d, sought)) \in Between(stop, d, sought)
  BY <1>2, <1>3, GreatestIs
<1> QED
  BY <1>2, <1>3, DirectoriesAre DEF NearestIn

LEMMA RootsAreNearest == ASSUME ServersInv PROVE Servers!RootIsNearest
<1>1. ASSUME NEW id \in Servers!Serving("diagnostics") PROVE "disabled" \notin config[id] /\ id \in Servers!ServerId
  BY DEF Servers!Serving, Servers!Registry, Servers!Merged
<1>2. ASSUME NEW id \in Servers!ServerId
      PROVE  LET inside == {d \in marked[id] : dirs.cwd <= d /\ d <= dirs.file}
                 root == Servers!FindServerRoot(id)
                 packages == {d \in installed \cap Servers!Dir : root # None /\ dirs.cwd <= d /\ d <= root} IN
             /\ root = IF inside # {} THEN Servers!Max(inside)
                       ELSE IF Servers!Merged(id).strictRoot THEN None ELSE dirs.cwd
             /\ root # None =>
                 Servers!FindExecutable(root) = IF packages # {} THEN Servers!Max(packages)
                                   ELSE IF Servers!Agent \in installed THEN Servers!Agent
                                   ELSE IF Servers!Path \in installed THEN Servers!Path ELSE None
  <2> DEFINE inside == {d \in marked[id] : dirs.cwd <= d /\ d <= dirs.file}
             root == Servers!FindServerRoot(id)
             packages == {d \in installed \cap Servers!Dir : root # None /\ dirs.cwd <= d /\ d <= root}
             strict == Servers!Merged(id).strictRoot
  <2>1. /\ dirs.cwd \in Servers!Dir /\ dirs.file \in Servers!Dir /\ marked[id] \subseteq Servers!Dir
        /\ installed \subseteq Servers!Dir \cup {Servers!Agent, Servers!Path} /\ dirs.symlink = FALSE
    BY DEF ServersInv, Servers!ServersTypeOK
  <2>2. inside = Between(dirs.cwd, dirs.file, marked[id])
    BY DEF Between
  <2>3. Servers!Ascend(dirs.file, dirs.cwd, marked[id]) = NearestIn(dirs.cwd, dirs.file, marked[id])
    BY <2>1, AscendIsNearest
  <2>4. /\ root = IF inside # {} THEN Servers!Max(inside) ELSE IF strict THEN None ELSE dirs.cwd
        /\ root # None => root \in Servers!Dir /\ dirs.cwd <= root
    <3>1. CASE inside # {}
      <4>1. /\ NearestIn(dirs.cwd, dirs.file, marked[id]) = Servers!Max(inside)
            /\ Servers!Max(inside) \in inside /\ Servers!Max(inside) \in Servers!Dir /\ Servers!Max(inside) # None
        BY <2>1, <2>2, <3>1, NearestIs DEF NearestIn
      <4> HIDE DEF inside
      <4>2. root = Servers!Max(inside)
        BY <2>3, <4>1 DEF Servers!FindServerRoot
      <4> QED
        BY <3>1, <4>1, <4>2 DEF inside
    <3>2. CASE inside = {}
      <4>1. NearestIn(dirs.cwd, dirs.file, marked[id]) = None
        BY <2>1, <2>2, <3>2, NearestIs
      <4>2. root = IF strict THEN None ELSE dirs.cwd
        BY <2>3, <4>1 DEF Servers!FindServerRoot
      <4>3. dirs.cwd <= dirs.cwd
        BY <2>1, DirectoriesAre
      <4> QED
        BY <2>1, <3>2, <4>2, <4>3
    <3> QED
      BY <3>1, <3>2
  <2> HIDE DEF inside, root, strict
  <2>5. ASSUME root # None
        PROVE  Servers!FindExecutable(root) =
                    IF packages # {} THEN Servers!Max(packages)
                    ELSE IF Servers!Agent \in installed THEN Servers!Agent
                    ELSE IF Servers!Path \in installed THEN Servers!Path ELSE None
    <3>1. root \in Servers!Dir /\ dirs.cwd <= root
      BY <2>4, <2>5
    <3>2. Servers!Ascend(root, dirs.cwd, installed) = NearestIn(dirs.cwd, root, installed)
      BY <2>1, <3>1, AscendIsNearest
    <3>3. packages = Between(dirs.cwd, root, installed)
      <4>1. \A d \in Between(dirs.cwd, root, installed) : d \in Servers!Dir
        <5> SUFFICES ASSUME NEW d \in Between(dirs.cwd, root, installed) PROVE d \in Servers!Dir
          OBVIOUS
        <5>1. d \in 0..(Depth + 2) /\ d <= root /\ root \in 0..Depth /\ Depth \in Nat
          BY <2>1, <3>1, DirectoriesAre DEF Between, Servers!Dir, Servers!Agent, Servers!Path
        <5> QED
          BY <5>1, DirectoriesAre
      <4> QED
        BY <2>5, <4>1 DEF Between
    <3> HIDE DEF packages
    <3>4. CASE packages # {}
      <4>1. NearestIn(dirs.cwd, root, installed) = Servers!Max(packages) /\ Servers!Max(packages) # None
        BY <2>1, <3>1, <3>3, <3>4, NearestIs DEF NearestIn
      <4> QED
        BY <2>1, <3>2, <3>4, <4>1 DEF Servers!FindExecutable
    <3>5. CASE packages = {}
      <4>1. NearestIn(dirs.cwd, root, installed) = None
        BY <2>1, <3>1, <3>3, <3>5, NearestIs
      <4>2. dirs.cwd \notin installed
        <5>1. dirs.cwd <= dirs.cwd
          BY <2>1, DirectoriesAre
        <5> QED
          BY <3>1, <3>3, <3>5, <5>1 DEF Between
      <4> QED
        BY <2>1, <3>2, <3>5, <4>1, <4>2 DEF Servers!FindExecutable
    <3> QED
      BY <3>4, <3>5
  <2> QED
    BY <2>4, <2>5 DEF inside, root, strict
<1> QED
  BY <1>1, <1>2 DEF Servers!RootIsNearest

-----------------------------------------------------------------------------
(* The runtime, the client and the lookup, with one of them in focus       *)

FilesInv == Inv /\ ClientInv /\ ServersInv

\* A step is one of the part in focus; the variables of the others stay.
LEMMA FilesInvKeeps ==
    ASSUME Orderly, "abort" \notin ClientFaults, "pull_only" \notin ClientFaults, FilesInv,
           [LspNext]_<<focus, vars, clientVars, editsVars, serversVars, toolVars>>
    PROVE  FilesInv'
<1>1. ASSUME UNCHANGED vars PROVE Inv'
  BY <1>1, NextInv DEF FilesInv
<1>2. CASE Next /\ UNCHANGED <<clientVars, editsVars, serversVars, toolVars>>
  BY <1>2, NextInv, ClientStays, ServersStay DEF FilesInv
<1>3. CASE Client!ClientNext /\ UNCHANGED <<vars, editsVars, serversVars, toolVars>>
  BY <1>1, <1>3, ClientKeeps, ServersStay DEF FilesInv
<1>4. CASE Servers!ServersNext /\ UNCHANGED <<vars, clientVars, editsVars, toolVars>>
  BY <1>1, <1>4, ClientStays, ServersKeep DEF FilesInv
<1>5. CASE UNCHANGED <<vars, clientVars, serversVars>>
  BY <1>1, <1>5, ClientStays, ServersStay DEF FilesInv
<1> QED
  BY <1>2, <1>3, <1>4, <1>5 DEF LspNext

\* Without an abort of an open, a server that only pulls, a directory of dots
\* or a symbolic link, which the code does not handle: a file is served from
\* the root around it by the nearest program, and for any number of overlapping
\* opens and edits that server gets the document once, then its changes in
\* order, and ends with the text of the client (client.ts openEffect,
\* server.ts findServerRoot, findExecutable).
THEOREM FilesStayServed ==
    ASSUME Orderly, "abort" \notin ClientFaults, "pull_only" \notin ClientFaults, LookupFaults = {}
    PROVE  LspSpec => []FilesAreServed
<1>1. LspInit => FilesInv
  BY InitInv, ClientBegins, ServersBegin DEF LspInit, FilesInv
<1>2. FilesInv /\ [LspNext]_<<focus, vars, clientVars, editsVars, serversVars, toolVars>> => FilesInv'
  BY FilesInvKeeps
<1>3. FilesInv => FilesAreServed
  BY ClientIsTyped, ServerFollowsTheClient, RootsAreNearest
     DEF FilesInv, Inv, ClientInv, ServersInv, FilesAreServed, FilesTypeOK
<1>4. QED
  BY <1>1, <1>2, <1>3, PTL DEF LspSpec
=============================================================================
