------------------------------ MODULE Registry ------------------------------
(***************************************************************************)
(* The registry of subagents (herdr-subagent/store.ts) and the actions     *)
(* that live by it (actions.ts): spawn reserves a name by creating its     *)
(* entry file, makes a worktree, a tab and task files, launches the agent  *)
(* and finalizes the entry; status, inspect, send and wait refresh the     *)
(* hints of an entry in place; close ends the tab, saves the work of the   *)
(* worktree (worktree.ts) and removes the entry.                           *)
(*                                                                         *)
(* Every session is a process of its own, so any two file system, herdr or *)
(* git operations of different calls may interleave.  A spawn call also    *)
(* names the subagent, the tab and the worktree it makes.                  *)
(***************************************************************************)
EXTENDS Naturals

CONSTANTS
    Name,           \* names of subagents
    Call,           \* calls a behaviour may make
    None,
    Faults          \* see FaultsAssumption

ASSUME NoneIsNoCall == None \notin Call

ASSUME FaultsAssumption ==
    Faults \subseteq {"fail",       \* an operation of a step fails
                      "jams",       \* the clean-up of more than one spawn fails
                      "crash",      \* a session ends amid a call
                      "torn",       \* the rewriting of an entry breaks off
                      "slow",       \* a reservation expires while its spawn runs
                      "takeovers",  \* two calls take over one reservation
                      "overlap"}    \* a name is reserved while a call works on
                                    \* an older entry of it

VARIABLES
    file,       \* the entry file of each name
    op,         \* where each call stands
    tab,        \* the tab of each spawn: "none", "open" or "closed"
    tree,       \* the worktree of each spawn
    branch,     \* per name, the subagent whose work branch pi-agent-<name> holds
    suffixed,   \* subagents whose work is on a branch with a time suffix
    taskFiles,  \* spawns whose task and system prompt files exist
    worked,     \* history: subagents that changed something in their worktree
    stuck       \* history: what a spawn that failed could not remove

gitVars == <<tree, branch, suffixed>>
history == <<worked, stuck>>
vars == <<file, op, tab, gitVars, taskFiles, history>>

\* The file made when c reserved the name differs from the one that is
\* renamed into place when c finalizes it: "made" tells them apart.
File == [made : {"reserve", "finalize"}, by : Call, owner : Call,
         phase : {"reserved", "active"}, stale : BOOLEAN, torn : BOOLEAN]

ASSUME NoneIsNoFile == None \notin File

Acquired == {"reserved", "isolated", "opened", "launched"}
Failing == {"failing", "closedTab", "removedTree"}
Closing == {"closing", "closed", "dirty", "ahead", "branched", "cleaned"}
Hinting == {"hint", "hintOpen", "hintTorn"}
Acquiring == {"checked", "collided", "takeover", "retry"}
Over == {"refused", "active", "failed", "crashed", "done"}

Stage == {"idle"} \cup Acquiring \cup Acquired \cup Failing \cup Closing
             \cup Hinting \cup Over

Op == [stage : Stage, name : Name \cup {None}, seen : File \cup {None}]

NoTree == [disk |-> FALSE, dirty |-> FALSE, ahead |-> FALSE]

\* What a spawn that fails may leave.
Trace == {"tab", "tree", "files", "entry"}

\* Type invariant.  Only a spawn that has its name has a tab or a worktree.
TypeOK ==
    /\ file \in [Name -> File \cup {None}]
    /\ op \in [Call -> Op]
    /\ tab \in [Call -> {"none", "open", "closed"}]
    /\ tree \in [Call -> [disk : BOOLEAN, dirty : BOOLEAN, ahead : BOOLEAN]]
    /\ branch \in [Name -> Call \cup {None}]
    /\ suffixed \subseteq Call
    /\ taskFiles \subseteq Call
    /\ worked \subseteq Call
    /\ stuck \in [Call -> SUBSET Trace]
    /\ \A c \in Call : tab[c] # "none" \/ tree[c] # NoTree =>
           op[c].stage \in Acquired \cup Failing \cup {"active", "failed", "crashed"}

Init ==
    /\ file = [n \in Name |-> None]
    /\ op = [c \in Call |-> [stage |-> "idle", name |-> None, seen |-> None]]
    /\ tab = [c \in Call |-> "none"]
    /\ tree = [c \in Call |-> NoTree]
    /\ branch = [n \in Name |-> None]
    /\ suffixed = {}
    /\ taskFiles = {}
    /\ worked = {}
    /\ stuck = [c \in Call |-> {}]

At(c, stage) == op[c].stage = stage
Go(c, stage) == op' = [op EXCEPT ![c].stage = stage]
NameOf(c) == op[c].name
FileOf(c) == file[NameOf(c)]

-----------------------------------------------------------------------------
(* Reading and reserving                                                   *)

Decodes(f) == f # None /\ ~f.torn

\* Mutant: a reservation of any age.
StaleReservation_Any(f) == Decodes(f) /\ f.phase = "reserved"

\* A reservation older than RESERVATION_STALE_MS may be taken over.
StaleReservation(f) == Decodes(f) /\ f.phase = "reserved" /\ f.stale

\* A file that does not decode passes for no entry here, and is found by the
\* exclusive creation.
StartSpawn(c, n) ==
    /\ At(c, "idle")
    /\ ~Decodes(file[n]) \/ StaleReservation(file[n])
    /\ op' = [op EXCEPT ![c] = [stage |-> "checked", name |-> n, seen |-> None]]
    /\ UNCHANGED <<file, tab, gitVars, taskFiles, history>>

\* The agent type, its approval, the model, the thinking level or the
\* workspace does not pass.
DeclineSpawn(c) ==
    /\ "fail" \in Faults
    /\ At(c, "checked")
    /\ Go(c, "refused")
    /\ UNCHANGED <<file, tab, gitVars, taskFiles, history>>

Reservation(c) == [made |-> "reserve", by |-> c, owner |-> c, phase |-> "reserved",
                   stale |-> FALSE, torn |-> FALSE]

Undisturbed(n) ==
    "overlap" \notin Faults =>
        \A d \in Call : op[d].stage \in Hinting \cup Closing => NameOf(d) # n

\* These things of c stay, for their removal fails.
Stuck(c, things) ==
    /\ things # {} =>
           /\ "fail" \in Faults
           /\ "jams" \in Faults \/ \A d \in Call \ {c} : stuck[d] = {}
    /\ stuck' = [stuck EXCEPT ![c] = @ \cup things]
    /\ UNCHANGED worked

CreateExclusive(c, otherwise) ==
    \/ /\ FileOf(c) = None
       /\ Undisturbed(NameOf(c))
       /\ file' = [file EXCEPT ![NameOf(c)] = Reservation(c)]
       /\ Go(c, "reserved")
    \/ /\ FileOf(c) # None
       /\ Go(c, otherwise)
       /\ UNCHANGED file

\* The file is made, but not written: nobody can read it, and nothing removes it.
CreationBreaksOff(c) ==
    /\ "fail" \in Faults
    /\ op[c].stage \in {"checked", "retry"}
    /\ FileOf(c) = None
    /\ Undisturbed(NameOf(c))
    /\ file' = [file EXCEPT ![NameOf(c)] = [Reservation(c) EXCEPT !.torn = TRUE]]
    /\ Stuck(c, {"entry"})
    /\ Go(c, "failed")
    /\ UNCHANGED <<tab, gitVars, taskFiles>>

CreateEntry(c) ==
    /\ At(c, "checked")
    /\ CreateExclusive(c, "collided")
    /\ UNCHANGED <<tab, gitVars, taskFiles, history>>

ReadExisting(c) ==
    /\ At(c, "collided")
    /\ IF StaleReservation(FileOf(c))
       THEN /\ "takeovers" \notin Faults =>
                   \A d \in Call \ {c} : op[d].stage \in {"takeover", "retry"} =>
                                             NameOf(d) # NameOf(c)
            /\ Go(c, "takeover")
       ELSE Go(c, "refused")
    /\ UNCHANGED <<file, tab, gitVars, taskFiles, history>>

\* Whatever file has the name by now is renamed away and deleted.
TakeOver(c) ==
    /\ At(c, "takeover")
    /\ file' = [file EXCEPT ![NameOf(c)] = None]
    /\ Go(c, "retry")
    /\ UNCHANGED <<tab, gitVars, taskFiles, history>>

RetryCreate(c) ==
    /\ At(c, "retry")
    /\ CreateExclusive(c, "refused")
    /\ UNCHANGED <<tab, gitVars, taskFiles, history>>

\* Time passes.
Expire(n) ==
    /\ file[n] # None
    /\ file[n].phase = "reserved" /\ ~file[n].stale
    /\ "slow" \in Faults \/ op[file[n].by].stage \in {"crashed", "failed"}
    /\ file' = [file EXCEPT ![n].stale = TRUE]
    /\ UNCHANGED <<op, tab, gitVars, taskFiles, history>>

-----------------------------------------------------------------------------
(* The rest of a spawn                                                     *)

MakeWorktree(c) ==
    /\ At(c, "reserved")
    /\ \E isolate \in BOOLEAN :
           tree' = [tree EXCEPT ![c].disk = isolate]
    /\ Go(c, "isolated")
    /\ UNCHANGED <<file, tab, branch, suffixed, taskFiles, history>>

OpenTab(c) ==
    /\ At(c, "isolated")
    /\ tab' = [tab EXCEPT ![c] = "open"]
    /\ Go(c, "opened")
    /\ UNCHANGED <<file, gitVars, taskFiles, history>>

\* The task files are written and the command is typed into the pane.
LaunchAgent(c) ==
    /\ At(c, "opened")
    /\ taskFiles' = taskFiles \cup {c}
    /\ Go(c, "launched")
    /\ UNCHANGED <<file, tab, gitVars, history>>

FinalizeEntry(c) ==
    /\ At(c, "launched")
    /\ file' = [file EXCEPT ![NameOf(c)] =
                   [Reservation(c) EXCEPT !.made = "finalize", !.phase = "active"]]
    /\ Go(c, "active")
    /\ UNCHANGED <<tab, gitVars, taskFiles, history>>

\* A step after the reservation fails; task files may have been written.
SpawnFails(c) ==
    /\ "fail" \in Faults
    /\ op[c].stage \in Acquired
    /\ At(c, "opened") => taskFiles' \in {taskFiles, taskFiles \cup {c}}
    /\ ~At(c, "opened") => UNCHANGED taskFiles
    /\ Go(c, "failing")
    /\ UNCHANGED <<file, tab, gitVars, history>>

\* cleanupFailedSpawn: each step is tried, whether or not those before it failed.
CloseFailedTab(c) ==
    /\ At(c, "failing")
    /\ \/ /\ tab' = [tab EXCEPT ![c] = IF @ = "open" THEN "closed" ELSE @]
          /\ Stuck(c, {})
       \/ tab[c] = "open" /\ UNCHANGED tab /\ Stuck(c, {"tab"})
    /\ Go(c, "closedTab")
    /\ UNCHANGED <<file, gitVars, taskFiles>>

\* Mutant: the task files are forgotten.
RemoveFailedTree_KeepsFiles(c) ==
    /\ At(c, "closedTab")
    /\ tree' = [tree EXCEPT ![c] = NoTree]
    /\ Go(c, "removedTree")
    /\ UNCHANGED <<file, tab, branch, suffixed, taskFiles, history>>

\* removeWorktree, then deleteRuntimeFiles.
RemoveFailedTree(c) ==
    /\ At(c, "closedTab")
    /\ \E things \in SUBSET {"tree", "files"} :
           /\ tree' = IF "tree" \in things THEN tree ELSE [tree EXCEPT ![c] = NoTree]
           /\ taskFiles' = IF "files" \in things THEN taskFiles ELSE taskFiles \ {c}
           /\ Stuck(c, things)
    /\ Go(c, "removedTree")
    /\ UNCHANGED <<file, tab, branch, suffixed>>

RemoveFailedEntry(c) ==
    /\ At(c, "removedTree")
    /\ \/ file' = [file EXCEPT ![NameOf(c)] = None] /\ Stuck(c, {})
       \/ UNCHANGED file /\ Stuck(c, {"entry"})
    /\ Go(c, "failed")
    /\ UNCHANGED <<tab, gitVars, taskFiles>>

-----------------------------------------------------------------------------
(* Hints: status, and the target resolution of inspect, send and wait      *)

\* The entry is read and its agent found alive; a reservation has no pane.
ReadForHint(c, n) ==
    /\ At(c, "idle")
    /\ Decodes(file[n]) /\ file[n].phase = "active"
    /\ tab[file[n].owner] = "open"
    /\ op' = [op EXCEPT ![c] = [stage |-> "hint", name |-> n, seen |-> file[n]]]
    /\ UNCHANGED <<file, tab, gitVars, taskFiles, history>>

\* Opening with "r+" fails when the file is gone.  The handle stays on the
\* file it opened, whatever gets the name later.
OpenForHint(c) ==
    /\ At(c, "hint")
    /\ \/ FileOf(c) = None /\ Go(c, "done")
       \/ /\ FileOf(c) # None
          /\ op' = [op EXCEPT ![c] = [stage |-> "hintOpen", name |-> NameOf(c),
                        seen |-> [op[c].seen EXCEPT !.made = FileOf(c).made,
                                                    !.by = FileOf(c).by]]]
    /\ UNCHANGED <<file, tab, gitVars, taskFiles, history>>

IsOpened(c) ==
    /\ FileOf(c) # None
    /\ FileOf(c).made = op[c].seen.made
    /\ FileOf(c).by = op[c].seen.by

Truncate(c) ==
    /\ At(c, "hintOpen")
    /\ file' = IF IsOpened(c) THEN [file EXCEPT ![NameOf(c)].torn = TRUE] ELSE file
    /\ Go(c, "hintTorn")
    /\ UNCHANGED <<tab, gitVars, taskFiles, history>>

\* Mutant: the file is opened by its name again, and made if it is gone.
WriteHint_Creates(c) ==
    /\ At(c, "hintTorn")
    /\ file' = [file EXCEPT ![NameOf(c)] = op[c].seen]
    /\ Go(c, "done")
    /\ UNCHANGED <<tab, gitVars, taskFiles, history>>

WriteHint(c) ==
    /\ At(c, "hintTorn")
    /\ file' = IF IsOpened(c) THEN [file EXCEPT ![NameOf(c)] = op[c].seen] ELSE file
    /\ Go(c, "done")
    /\ UNCHANGED <<tab, gitVars, taskFiles, history>>

-----------------------------------------------------------------------------
(* Close                                                                   *)

StartClose(c, n) ==
    /\ At(c, "idle")
    /\ Decodes(file[n]) /\ file[n].phase = "active"
    /\ op' = [op EXCEPT ![c] = [stage |-> "closing", name |-> n, seen |-> file[n]]]
    /\ UNCHANGED <<file, tab, gitVars, taskFiles, history>>

Target(c) == op[c].seen.owner

\* A tab that is already gone lets the stale entry be removed; a tab that
\* fails to close keeps it.
CloseTab(c) ==
    /\ At(c, "closing")
    /\ \/ tab' = [tab EXCEPT ![Target(c)] = "closed"] /\ Go(c, "closed")
       \/ "fail" \in Faults /\ tab[Target(c)] = "open" /\ Go(c, "refused") /\ UNCHANGED tab
    /\ UNCHANGED <<file, gitVars, taskFiles, history>>

\* An unsuccessful git command preserves the worktree as it is.
GitFails(c) ==
    /\ op[c].stage \in {"closed", "dirty", "ahead"}
    /\ "fail" \in Faults \/ ~tree[Target(c)].disk
    /\ Go(c, "cleaned")
    /\ UNCHANGED <<file, tab, gitVars, taskFiles, history>>

\* Mutant: only uncommitted changes count as work.
AfterStatus_Edits(t) == IF t.dirty THEN "dirty" ELSE "branched"

AfterStatus(t) ==
    IF t.dirty THEN "dirty" ELSE IF t.ahead THEN "ahead" ELSE "branched"

CheckWorktree(c) ==
    /\ At(c, "closed")
    /\ tree[Target(c)].disk
    /\ Go(c, AfterStatus(tree[Target(c)]))
    /\ UNCHANGED <<file, tab, gitVars, taskFiles, history>>

\* With nothing left to commit, the commit fails.
CommitWork(c) ==
    /\ At(c, "dirty")
    /\ tree[Target(c)].disk
    /\ IF tree[Target(c)].dirty
       THEN /\ tree' = [tree EXCEPT ![Target(c)].dirty = FALSE, ![Target(c)].ahead = TRUE]
            /\ Go(c, "ahead")
       ELSE Go(c, "cleaned") /\ UNCHANGED tree
    /\ UNCHANGED <<file, tab, branch, suffixed, taskFiles, history>>

\* Branch pi-agent-<name> may hold the work of an earlier subagent.
CreateBranch(c) ==
    /\ At(c, "ahead")
    /\ tree[Target(c)].disk
    /\ IF branch[NameOf(c)] = None
       THEN branch' = [branch EXCEPT ![NameOf(c)] = Target(c)] /\ UNCHANGED suffixed
       ELSE suffixed' = suffixed \cup {Target(c)} /\ UNCHANGED branch
    /\ Go(c, "branched")
    /\ UNCHANGED <<file, tab, tree, taskFiles, history>>

RemoveWorktree(c) ==
    /\ At(c, "branched")
    /\ \/ tree' = [tree EXCEPT ![Target(c)] = NoTree]
       \/ "fail" \in Faults /\ UNCHANGED tree
    /\ Go(c, "cleaned")
    /\ UNCHANGED <<file, tab, branch, suffixed, taskFiles, history>>

RemoveEntry(c) ==
    /\ At(c, "cleaned")
    /\ file' = [file EXCEPT ![NameOf(c)] = None]
    /\ taskFiles' = taskFiles \ {Target(c)}
    /\ Go(c, "done")
    /\ UNCHANGED <<tab, gitVars, history>>

-----------------------------------------------------------------------------
(* The world                                                               *)

\* A launched agent edits or commits while its tab is open.
AgentWorks(c) ==
    /\ op[c].stage \in {"launched", "active"}
    /\ tab[c] = "open" /\ tree[c].disk
    /\ \/ tree' = [tree EXCEPT ![c].dirty = TRUE]
       \/ tree' = [tree EXCEPT ![c].dirty = FALSE, ![c].ahead = TRUE]
    /\ worked' = worked \cup {c}
    /\ UNCHANGED <<file, op, tab, branch, suffixed, taskFiles, stuck>>

\* The user closes the tab by hand.
TabGoes(c) ==
    /\ At(c, "active") /\ tab[c] = "open"
    /\ tab' = [tab EXCEPT ![c] = "closed"]
    /\ UNCHANGED <<file, op, gitVars, taskFiles, history>>

\* A session ends amid a call: what the call has made stays.
Crash(c) ==
    /\ "crash" \in Faults
    /\ op[c].stage \notin {"idle"} \cup Over
    /\ "torn" \in Faults \/ ~At(c, "hintTorn")
    /\ Go(c, IF op[c].stage \in Acquired \cup Failing THEN "crashed" ELSE "refused")
    /\ UNCHANGED <<file, tab, gitVars, taskFiles, history>>

Step(c) ==
    \/ DeclineSpawn(c) \/ CreateEntry(c) \/ CreationBreaksOff(c) \/ ReadExisting(c) \/ TakeOver(c) \/ RetryCreate(c)
    \/ MakeWorktree(c) \/ OpenTab(c) \/ LaunchAgent(c) \/ FinalizeEntry(c)
    \/ SpawnFails(c) \/ CloseFailedTab(c) \/ RemoveFailedTree(c) \/ RemoveFailedEntry(c)
    \/ OpenForHint(c) \/ Truncate(c) \/ WriteHint(c)
    \/ CloseTab(c) \/ GitFails(c) \/ CheckWorktree(c) \/ CommitWork(c)
    \/ CreateBranch(c) \/ RemoveWorktree(c) \/ RemoveEntry(c)
    \/ AgentWorks(c) \/ TabGoes(c) \/ Crash(c)

Next ==
    \/ \E c \in Call : Step(c)
    \/ \E c \in Call, n \in Name : StartSpawn(c, n) \/ ReadForHint(c, n) \/ StartClose(c, n)
    \/ \E n \in Name : Expire(n)

Spec == Init /\ [][Next]_vars

-----------------------------------------------------------------------------
(* Properties                                                              *)

\* Whoever holds a name is the one registered for it: a spawn from its
\* reservation on, and its subagent for as long as its tab is open
\* (store.ts reserveEntry, actions.ts commandSpawn and commandClose).  So no
\* two hold one name, and no tab of a spawn that succeeded is forgotten.
Holds(c) ==
    \/ op[c].stage \in Acquired \cup Failing
    \/ At(c, "active") /\ tab[c] = "open"
HoldersAreRegistered ==
    \A c \in Call : Holds(c) => FileOf(c) # None /\ FileOf(c).owner = c

\* The files of the registry implement the ownership of names: no entry is
\* overwritten by another subagent's, and none comes back after its removal
\* (store.ts updateEntryHints: "must not resurrect a concurrently closed
\* entry").
HadName(c) == op[c].stage \in Acquired \cup Failing \cup {"active", "failed", "crashed"}
OwnerOf(n) == IF file[n] = None THEN None ELSE file[n].owner
Ownership == INSTANCE NameOwnership WITH
    Owner <- Call, Nobody <- None, owner <- [n \in Name |-> OwnerOf(n)],
    past <- {c \in Call : HadName(c) /\ \A n \in Name : OwnerOf(n) # c}
FollowsOwnership == Ownership!Spec

\* The work of a subagent that was spawned successfully is in its worktree or
\* on a branch, whatever fails and whoever closes it too (worktree.ts
\* cleanupWorktree).
SavedOnBranch(c) == c \in suffixed \/ \E n \in Name : branch[n] = c
InWorktree(c) == tree[c].disk /\ (tree[c].dirty \/ tree[c].ahead)
WorkIsPreserved ==
    \A c \in worked : At(c, "active") =>
        InWorktree(c) \/ (SavedOnBranch(c) /\ ~tree[c].dirty)

\* Each step of the clean-up is made whatever became of the others: of a failed
\* spawn a tab, a worktree, task files or an entry are left only where the removal
\* of just these failed (actions.ts cleanupFailedSpawn, which swallows the failure
\* of every step; store.ts createEntryFileExclusive, which has none).
NothingLeftBehind ==
    \A c \in Call : At(c, "failed") =>
        /\ tab[c] = "open" => "tab" \in stuck[c]
        /\ tree[c] # NoTree => "tree" \in stuck[c]
        /\ c \in taskFiles => "files" \in stuck[c]
        /\ \A n \in Name : OwnerOf(n) = c => "entry" \in stuck[c]
=============================================================================
