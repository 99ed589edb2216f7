----------------------------- MODULE LspRuntime -----------------------------
(***************************************************************************)
(* The language servers of a session (lsp/runtime.ts, the lifecycle of     *)
(* lsp/client.ts): tool calls share one client per root and server; the    *)
(* first call asks for permission and spawns it, the others wait for its   *)
(* deferred; a broken client stays in the map until /lsp-restart; the end  *)
(* of the session shuts all down.                                          *)
(*                                                                         *)
(* The module follows one root and server.  A client, its process and its  *)
(* deferred have the name of the call that made them.                      *)
(***************************************************************************)
EXTENDS Naturals

CONSTANTS
    Call,           \* the tool calls of a session
    None,
    Faults          \* see FaultsAssumption

ASSUME NoneIsNoCall == None \notin Call

ASSUME FaultsAssumption ==
    Faults \subseteq {"crash",      \* a server process exits by itself
                      "spawn",      \* a server cannot be started or initialized
                      "abort",      \* a call is aborted while no other waits for
                                    \* it and its server is not being started
                      "abort_any",  \* a call is aborted anywhere
                      "overlap"}    \* a restart and a spawn overlap

VARIABLES
    call,       \* where each call stands, and the client it uses or awaits
    deferred,   \* what each call's deferred holds
    server,     \* the process of each call's client
    client,     \* clients: the one of the map
    broken,     \* broken: a reason is on record
    spawning,   \* spawning: whose deferred is in the map
    permission, \* the stored permission
    restarting, \* /lsp-restart waits for the client to shut down
    shuttingDown,
    shown,      \* the last status emitted
    fell        \* history: a server failed since the last restart

vars == <<call, deferred, server, client, broken, spawning, permission,
          restarting, shuttingDown, shown, fell>>

Live == {"starting", "running"}
Spawning == {"asking", "allowed", "initializing"}
Busy == Spawning \cup {"awaiting", "opening"}

TypeOK ==
    /\ call \in [Call -> [stage : {"idle", "done"} \cup Busy, uses : Call \cup {None}]]
    /\ deferred \in [Call -> {"pending", "none", "client", "failed"}]
    /\ server \in [Call -> {"none", "dead", "closing", "stopped"} \cup Live]
    /\ client \in Call \cup {None}
    /\ broken \in BOOLEAN
    /\ spawning \in Call \cup {None}
    /\ permission \in {"unset", "allow", "deny"}
    /\ restarting \in BOOLEAN
    /\ shuttingDown \in BOOLEAN
    /\ shown \in {"none", "running", "broken"}
    /\ fell \in BOOLEAN
    /\ \A c \in Call : call[c].stage \in {"awaiting", "opening"} <=> call[c].uses # None

Init ==
    /\ call = [c \in Call |-> [stage |-> "idle", uses |-> None]]
    /\ deferred = [c \in Call |-> "pending"]
    /\ server = [c \in Call |-> "none"]
    /\ client = None
    /\ broken = FALSE
    /\ spawning = None
    /\ permission = "unset"
    /\ restarting = FALSE
    /\ shuttingDown = FALSE
    /\ shown = "none"
    /\ fell = FALSE

At(c, stage) == call[c].stage = stage
Go(c, stage, uses) == call' = [call EXCEPT ![c] = [stage |-> stage, uses |-> uses]]
Return(c) == Go(c, "done", None)

Status(cl, srv) ==
    IF cl = None THEN "none" ELSE IF srv[cl] = "dead" THEN "broken" ELSE "running"

MarkBroken ==
    /\ broken' = TRUE
    /\ shown' = IF broken THEN shown ELSE Status(client', server')

-----------------------------------------------------------------------------
(* A call looks for its client                                             *)

Rejected(c) ==
    /\ At(c, "idle") /\ shuttingDown
    /\ Return(c)
    /\ UNCHANGED <<deferred, server, client, broken, spawning, permission,
                   restarting, shuttingDown, shown, fell>>

UseExisting(c) ==
    /\ At(c, "idle") /\ ~shuttingDown
    /\ client # None /\ server[client] # "dead"
    /\ Go(c, "opening", client)
    /\ UNCHANGED <<deferred, server, client, broken, spawning, permission,
                   restarting, shuttingDown, shown, fell>>

\* Mutant: a broken client is dropped from the map.
FindBroken_Forgets(c) ==
    /\ At(c, "idle") /\ ~shuttingDown
    /\ client # None /\ server[client] = "dead"
    /\ Return(c)
    /\ client' = None
    /\ shown' = "none"
    /\ UNCHANGED <<deferred, server, broken, spawning, permission,
                   restarting, shuttingDown, fell>>

FindBroken(c) ==
    /\ At(c, "idle") /\ ~shuttingDown
    /\ client # None /\ server[client] = "dead"
    /\ Return(c)
    /\ UNCHANGED <<deferred, server, client, spawning, permission,
                   restarting, shuttingDown, fell>>
    /\ MarkBroken

FindReason(c) ==
    /\ At(c, "idle") /\ ~shuttingDown
    /\ client = None /\ broken
    /\ Return(c)
    /\ UNCHANGED <<deferred, server, client, broken, spawning, permission,
                   restarting, shuttingDown, shown, fell>>

JoinSpawn(c) ==
    /\ At(c, "idle") /\ ~shuttingDown
    /\ client = None /\ ~broken /\ spawning # None
    /\ Go(c, "awaiting", spawning)
    /\ UNCHANGED <<deferred, server, client, broken, spawning, permission,
                   restarting, shuttingDown, shown, fell>>

\* Mutant: a spawn in progress is not looked for.
BeginSpawn_Again(c) ==
    /\ At(c, "idle") /\ ~shuttingDown
    /\ client = None /\ ~broken
    /\ "overlap" \in Faults \/ ~restarting
    /\ spawning' = c
    /\ Go(c, "asking", None)
    /\ UNCHANGED <<deferred, server, client, broken, permission,
                   restarting, shuttingDown, shown, fell>>

BeginSpawn(c) ==
    /\ At(c, "idle") /\ ~shuttingDown
    /\ client = None /\ ~broken /\ spawning = None
    /\ "overlap" \in Faults \/ ~restarting
    /\ spawning' = c
    /\ Go(c, "asking", None)
    /\ UNCHANGED <<deferred, server, client, broken, permission,
                   restarting, shuttingDown, shown, fell>>

-----------------------------------------------------------------------------
(* The spawning call                                                       *)

\* Mutant: only a client settles the deferred.
Settle_OnlyClient(c, outcome) ==
    /\ deferred' = [deferred EXCEPT ![c] = IF outcome = "client" THEN outcome ELSE @]
    /\ spawning' = IF spawning = c THEN None ELSE spawning

\* The call settles its deferred and takes it out of the map.
Settle(c, outcome) ==
    /\ deferred' = [deferred EXCEPT ![c] = outcome]
    /\ spawning' = IF spawning = c THEN None ELSE spawning

\* The stored permission holds; without one the user is asked.
AskPermission(c) ==
    /\ At(c, "asking")
    /\ permission' \in IF permission = "unset" THEN {"allow", "deny"} ELSE {permission}
    /\ \/ /\ ~shuttingDown /\ permission' = "allow"
          /\ Go(c, "allowed", None)
          /\ UNCHANGED <<deferred, spawning>>
       \/ /\ shuttingDown \/ permission' = "deny"
          /\ Return(c)
          /\ Settle(c, IF shuttingDown THEN "failed" ELSE "none")
    /\ UNCHANGED <<server, client, broken, restarting, shuttingDown, shown, fell>>

SpawnServer(c) ==
    /\ At(c, "allowed")
    /\ server' = [server EXCEPT ![c] = "starting"]
    /\ Go(c, "initializing", None)
    /\ UNCHANGED <<deferred, client, broken, spawning, permission,
                   restarting, shuttingDown, shown, fell>>

\* The server is not installed, which leaves no reason on record, or it does
\* not start or initialize (in time): it is killed and marked broken.
SpawnFails(c) ==
    /\ "spawn" \in Faults
    /\ call[c].stage \in {"allowed", "initializing"}
    /\ server' = [server EXCEPT ![c] = IF @ = "none" THEN @ ELSE "stopped"]
    /\ Return(c)
    /\ Settle(c, IF shuttingDown THEN "failed" ELSE "none")
    /\ UNCHANGED <<client, permission, restarting, shuttingDown>>
    /\ \/ At(c, "allowed") /\ UNCHANGED <<broken, shown, fell>>
       \/ MarkBroken /\ fell' = TRUE

Install(c) ==
    /\ client' = c
    /\ server' = [server EXCEPT ![c] = "running"]
    /\ shown' = Status(client', server')
    /\ Settle(c, "client")
    /\ Go(c, "opening", c)

\* Mutant: whether the session is shutting down is not looked at again.
Initialized_Late(c) ==
    /\ At(c, "initializing")
    /\ Install(c)
    /\ UNCHANGED <<broken, permission, restarting, shuttingDown, fell>>

Initialized(c) ==
    /\ At(c, "initializing")
    /\ \/ ~shuttingDown /\ Install(c)
       \/ /\ shuttingDown
          /\ server' = [server EXCEPT ![c] = "closing"]
          /\ Settle(c, "failed")
          /\ Return(c)
          /\ UNCHANGED <<client, shown>>
    /\ UNCHANGED <<broken, permission, restarting, shuttingDown, fell>>

-----------------------------------------------------------------------------
(* The other calls                                                         *)

AwaitSpawn(c) ==
    /\ At(c, "awaiting")
    /\ deferred[call[c].uses] # "pending"
    /\ IF deferred[call[c].uses] = "client" /\ ~shuttingDown
       THEN Go(c, "opening", call[c].uses)
       ELSE Return(c)
    /\ UNCHANGED <<deferred, server, client, broken, spawning, permission,
                   restarting, shuttingDown, shown, fell>>

\* The document is sent to the server and the request made.  Only a call that
\* took the client from the map looks at it again.
Open(c) ==
    /\ At(c, "opening")
    /\ Return(c)
    /\ UNCHANGED <<deferred, server, client, spawning, permission,
                   restarting, shuttingDown, fell>>
    /\ \/ server[call[c].uses] = "dead" /\ MarkBroken
       \/ UNCHANGED <<broken, shown>>

\* A file was read or written: its text goes to the client that runs.
TouchRunning ==
    /\ ~shuttingDown
    /\ client # None /\ server[client] = "dead"
    /\ UNCHANGED <<call, deferred, server, client, spawning, permission,
                   restarting, shuttingDown, fell>>
    /\ MarkBroken

\* An aborted call leaves its deferred pending.
Abort(c) ==
    /\ Faults \cap {"abort", "abort_any"} # {}
    /\ call[c].stage \in Busy
    /\ "abort_any" \notin Faults =>
           /\ ~At(c, "initializing")
           /\ \A d \in Call : ~(At(d, "awaiting") /\ call[d].uses = c)
    /\ Return(c)
    /\ spawning' = IF spawning = c THEN None ELSE spawning
    /\ UNCHANGED <<deferred, server, client, broken, permission,
                   restarting, shuttingDown, shown, fell>>

-----------------------------------------------------------------------------
(* Restart, shutdown and the server processes                              *)

Close(srv) ==
    IF client = None THEN srv
    ELSE [srv EXCEPT ![client] = IF @ = "running" THEN "closing" ELSE "stopped"]

\* Mutant: the client leaves the map and its process runs on.
RestartBegin_NoClose ==
    /\ ~shuttingDown /\ ~restarting
    /\ "overlap" \in Faults \/ \A c \in Call : call[c].stage \notin Spawning
    /\ client' = None
    /\ restarting' = TRUE
    /\ UNCHANGED <<call, deferred, server, broken, spawning, permission,
                   shuttingDown, shown, fell>>

RestartBegin ==
    /\ ~shuttingDown /\ ~restarting
    /\ "overlap" \in Faults \/ \A c \in Call : call[c].stage \notin Spawning
    /\ server' = Close(server)
    /\ client' = None
    /\ restarting' = TRUE
    /\ UNCHANGED <<call, deferred, broken, spawning, permission,
                   shuttingDown, shown, fell>>

RestartEnd ==
    /\ restarting
    /\ \A c \in Call : server[c] # "closing"
    /\ spawning' = None
    /\ broken' = FALSE
    /\ restarting' = FALSE
    /\ shown' = Status(client, server)
    /\ fell' = FALSE
    /\ UNCHANGED <<call, deferred, server, client, permission, shuttingDown>>

Shutdown ==
    /\ ~shuttingDown
    /\ shuttingDown' = TRUE
    /\ server' = Close(server)
    /\ client' = None
    /\ spawning' = None
    /\ shown' = Status(client', server')
    /\ UNCHANGED <<call, deferred, broken, permission, restarting, fell>>

\* The shutdown request is answered or times out; the process is killed.
Stop(c) ==
    /\ server[c] = "closing"
    /\ server' = [server EXCEPT ![c] = "stopped"]
    /\ UNCHANGED <<call, deferred, client, broken, spawning, permission,
                   restarting, shuttingDown, shown, fell>>

Crash(c) ==
    /\ "crash" \in Faults
    /\ server[c] = "running"
    /\ server' = [server EXCEPT ![c] = "dead"]
    /\ fell' = TRUE
    /\ UNCHANGED <<call, deferred, client, broken, spawning, permission,
                   restarting, shuttingDown, shown>>

CallStep(c) ==
    \/ AskPermission(c) \/ SpawnServer(c) \/ Initialized(c) \/ SpawnFails(c)
    \/ AwaitSpawn(c) \/ Open(c)

Next ==
    \/ \E c \in Call :
        \/ Rejected(c) \/ UseExisting(c) \/ FindBroken(c) \/ FindReason(c)
        \/ JoinSpawn(c) \/ BeginSpawn(c)
        \/ CallStep(c) \/ Abort(c) \/ Stop(c) \/ Crash(c)
    \/ TouchRunning \/ RestartBegin \/ RestartEnd \/ Shutdown

Spec == Init /\ [][Next]_vars

\* Calls run, the user answers prompts, initialization and shutdown have
\* timeouts; no server need crash and no call be aborted.
RuntimeFairness ==
    /\ \A c \in Call : WF_vars(CallStep(c)) /\ WF_vars(Stop(c))
    /\ WF_vars(RestartEnd)
FairSpec == Spec /\ RuntimeFairness

-----------------------------------------------------------------------------
(* Properties                                                              *)

\* A live server process is the one of the map, or is being initialized by
\* the call that spawned it: none is forgotten, and no two serve one root
\* (runtime.ts clientsForFileEffect, spawnClientEffect).
NoForgottenServer ==
    \A c \in Call : server[c] \in Live => client = c \/ At(c, "initializing")
OneServer ==
    \A c, d \in Call : server[c] \in Live /\ server[d] \in Live => c = d

\* After shutdown nothing runs but what is being stopped, however late a
\* spawn ends (runtime.ts:479, 433).
ShutdownIsFinal ==
    shuttingDown => client = None /\ \A c \in Call : server[c] # "running"

\* A server that failed is not started again before a restart.
NoSpontaneousRestart ==
    [][\A c \in Call : server[c] = "none" /\ server'[c] = "starting" => ~fell]_vars

\* Every call returns: whoever waits for another's spawn is answered.
EveryCallReturns ==
    \A c \in Call : call[c].stage # "idle" ~> call[c].stage = "done"
=============================================================================
