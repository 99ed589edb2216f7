--------------------------- MODULE LspPermissions ---------------------------
(***************************************************************************)
(* The permissions to start language servers (lsp/permissions.ts): calls   *)
(* of several pi processes read the file, change it, and put a new file in *)
(* its place, the calls of one process one at a time.  One repository.     *)
(***************************************************************************)
EXTENDS Naturals

CONSTANTS
    Caller,         \* the calls of set and reset
    Pi,             \* the processes
    Server,         \* the servers that are asked about
    PermissionFaults \* a subset of {"processes"}: two processes write at once

VARIABLES
    stored,         \* agent/lsp-permissions.json
    cache,          \* LspPermissionStore.file of each process
    lock,           \* permissionWriteLock of each process: the calls that hold it
    change,         \* what each call does: where it stands, what it has read
    decided         \* the decisions of the user, in the order they were kept

permissionVars == <<stored, cache, lock, change, decided>>

Permission == {"allow", "deny"}
Kept == [Server -> Permission \cup {"ask"}]
Nothing == [s \in Server |-> "ask"]

PermissionsTypeOK ==
    /\ stored \in Kept /\ decided \in Kept
    /\ cache \in [Pi -> Kept]
    /\ lock \in [Pi -> SUBSET Caller]
    /\ change \in [Caller -> [pc : {"idle", "locked", "read", "done"}, at : Pi,
                              servers : SUBSET Server,
                              permission : Permission \cup {"ask"}, file : Kept]]

PermissionsInit ==
    /\ stored = Nothing /\ decided = Nothing
    /\ cache = [p \in Pi |-> Nothing]
    /\ lock = [p \in Pi |-> {}]
    /\ \E at \in [Caller -> Pi] :
        change = [c \in Caller |-> [pc |-> "idle", at |-> at[c], servers |-> {},
                                    permission |-> "ask", file |-> Nothing]]

At(c) == change[c].at
With(file, c) == [s \in Server |-> IF s \in change[c].servers THEN change[c].permission ELSE file[s]]

\* load, when a session starts
Load(p) ==
    /\ cache' = [cache EXCEPT ![p] = stored]
    /\ UNCHANGED <<stored, lock, change, decided>>

\* set(server, permission), reset(server), or reset of the whole repository.
Chosen(c, pc) ==
    \/ \E s \in Server, permission \in Permission \cup {"ask"} :
            change' = [change EXCEPT ![c].pc = pc, ![c].servers = {s}, ![c].permission = permission]
    \/ change' = [change EXCEPT ![c].pc = pc, ![c].servers = Server, ![c].permission = "ask"]

\* Mutant: a call does not wait for its turn.
Begin_Unlocked(c) ==
    /\ change[c].pc = "idle"
    /\ Chosen(c, "locked")
    /\ UNCHANGED <<stored, cache, lock, decided>>

Begin(c) ==
    /\ change[c].pc = "idle" /\ lock[At(c)] = {}
    /\ lock' = [lock EXCEPT ![At(c)] = {c}]
    /\ Chosen(c, "locked")
    /\ UNCHANGED <<stored, cache, decided>>

\* readPermissionFile
ReadFile(c) ==
    /\ change[c].pc = "locked"
    /\ \/ "processes" \in PermissionFaults
       \/ \A d \in Caller : change[d].pc = "read" => At(d) = At(c)
    /\ change' = [change EXCEPT ![c].pc = "read", ![c].file = stored]
    /\ UNCHANGED <<stored, cache, lock, decided>>

Release(c) == lock' = [lock EXCEPT ![At(c)] = @ \ {c}]

\* writePermissionFile and updateFile: the new file takes the place of the old
\* at once, so that nobody reads a part of it.
Replace(c) ==
    /\ change[c].pc = "read"
    /\ stored' = With(change[c].file, c)
    /\ cache' = [cache EXCEPT ![At(c)] = stored']
    /\ decided' = With(decided, c)
    /\ change' = [change EXCEPT ![c].pc = "done", ![c].file = Nothing]
    /\ Release(c)

\* The file cannot be read or written: the call fails, nothing has changed.
Fail(c) ==
    /\ change[c].pc \in {"locked", "read"}
    /\ change' = [change EXCEPT ![c].pc = "done", ![c].file = Nothing]
    /\ Release(c)
    /\ UNCHANGED <<stored, cache, decided>>

PermissionsNext ==
    \/ \E c \in Caller : Begin(c) \/ ReadFile(c) \/ Replace(c) \/ Fail(c)
    \/ \E p \in Pi : Load(p)

-----------------------------------------------------------------------------
(* Properties                                                              *)

\* No decision of the user is lost to another that is kept at the same time:
\* the file has the last one made about each server (permissionWriteLock, and
\* the test "permission store preserves concurrent writes").
PermissionsKept == stored = decided
=============================================================================
