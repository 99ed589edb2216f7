-------------------------- MODULE Registry_proofs --------------------------
(***************************************************************************)
(* The registry of subagents for any set of names and calls: whoever holds *)
(* a name is registered for it, names pass as NameOwnership says, failed   *)
(* spawns leave nothing behind, and no work of a subagent is lost.  And    *)
(* what is done with the subagents that run: a wait for one, their reports *)
(* in the context, the widget that shows them.                             *)
(***************************************************************************)
EXTENDS MCRegistry, FiniteSetTheorems, WellFoundedInduction, TLAPS

\* The faults under which the registry keeps its promises: steps may fail and
\* sessions end anywhere but between the two halves of a hint.
Careful == Faults \cap {"torn", "slow", "takeovers", "overlap"} = {}

Owning == Acquired \cup Failing
Visiting == Hinting \cup Closing
Past == {"failed", "crashed"}
Tree == [disk : BOOLEAN, dirty : BOOLEAN, ahead : BOOLEAN]

\* A file belongs to the spawn that made it: to one under way, or one that has
\* been cut short and whose reservation may expire, or to an active subagent.
FilesAreOwned ==
    \A n \in Name : file[n] # None =>
        /\ file[n].by = file[n].owner
        /\ NameOf(file[n].owner) = n
        /\ \/ /\ file[n].phase = "reserved" /\ file[n].made = "reserve"
              /\ op[file[n].owner].stage \in Owning \cup Past
              /\ file[n].torn => At(file[n].owner, "failed")
              /\ file[n].stale => op[file[n].owner].stage \in Past
           \/ /\ file[n].phase = "active" /\ file[n].made = "finalize" /\ ~file[n].stale
              /\ At(file[n].owner, "active")

CallsHaveNames == \A c \in Call : ~At(c, "idle") => NameOf(c) \in Name

\* What a call that closes or updates an entry has read of it is still so, or
\* the entry is gone and its name free.
SawEntry(c) ==
    /\ op[c].seen \in File
    /\ op[c].seen.made = "finalize" /\ op[c].seen.by = op[c].seen.owner
    /\ op[c].seen.phase = "active" /\ ~op[c].seen.stale /\ ~op[c].seen.torn
    /\ At(op[c].seen.owner, "active") /\ NameOf(op[c].seen.owner) = NameOf(c)
VisitsAreCurrent ==
    \A c \in Call : op[c].stage \in Visiting =>
        /\ SawEntry(c)
        /\ FileOf(c) = None \/ FileOf(c).owner = op[c].seen.owner
        /\ op[c].stage \in Closing \ {"closing"} => tab[Target(c)] = "closed"

\* What a call takes over is the expired reservation it has seen.
TakeoversAreSafe ==
    /\ \A c \in Call : At(c, "takeover") =>
           FileOf(c) # None /\ FileOf(c).phase = "reserved" /\ FileOf(c).stale
    /\ \A c, d \in Call :
           /\ op[c].stage \in {"takeover", "retry"} /\ op[d].stage \in {"takeover", "retry"}
           /\ NameOf(c) = NameOf(d)
           => c = d

\* The work of a launched subagent is in its worktree or on a branch.
WorkIsAccounted ==
    \A c \in worked :
        /\ op[c].stage \in {"launched", "active"} \cup Failing \cup Past
        /\ op[c].stage \in {"launched", "active"} =>
               InWorktree(c) \/ (SavedOnBranch(c) /\ ~tree[c].dirty)

\* A call that is about to remove a worktree has saved what is in it.
RemovalIsWarranted ==
    \A c \in Call :
        /\ op[c].stage \in {"ahead", "branched"} => ~tree[Target(c)].dirty
        /\ At(c, "branched") /\ tree[Target(c)].ahead => SavedOnBranch(Target(c))

\* A failed spawn is cleaned up step by step, as far as the steps succeed.
FailuresAreCleaned ==
    \A c \in Call :
        /\ op[c].stage \in {"closedTab", "removedTree", "failed"} => tab[c] # "open" \/ "tab" \in stuck[c]
        /\ op[c].stage \in {"removedTree", "failed"} => tree[c] = NoTree \/ "tree" \in stuck[c]
        /\ op[c].stage \in {"removedTree", "failed"} => c \notin taskFiles \/ "files" \in stuck[c]
        /\ At(c, "failed") => "entry" \in stuck[c] \/ \A n \in Name : OwnerOf(n) # c
        /\ c \in taskFiles => op[c].stage \in Owning \cup {"active"} \cup Past

Inv ==
    /\ TypeOK
    /\ HoldersAreRegistered /\ FilesAreOwned
    /\ CallsHaveNames /\ VisitsAreCurrent /\ TakeoversAreSafe
    /\ WorkIsAccounted /\ RemovalIsWarranted /\ FailuresAreCleaned

USE NoneIsNoCall, NoneIsNoFile
    DEF Acquired, Failing, Closing, Hinting, Acquiring, Over, Owning, Visiting, Past, Tree

-----------------------------------------------------------------------------
(* Steps of one call                                                       *)

\* Only the stage of c changes.
Moves(c, stage) ==
    /\ op' \in [Call -> Op]
    /\ \A d \in Call :
           /\ op'[d].stage = IF d = c THEN stage ELSE op[d].stage
           /\ op'[d].name = op[d].name
           /\ op'[d].seen = op[d].seen

LEMMA GoMoves ==
    ASSUME TypeOK, NEW c \in Call, NEW stage \in Stage, Go(c, stage)
    PROVE  Moves(c, stage)
  BY DEF TypeOK, Go, Moves, Op, Stage

\* What is stuck stays so.
LEMMA StuckGrows ==
    ASSUME TypeOK, NEW c \in Call, NEW things \in SUBSET Trace, Stuck(c, things)
    PROVE  /\ stuck' \in [Call -> SUBSET Trace] /\ worked' = worked
           /\ \A d \in Call : stuck'[d] = IF d = c THEN stuck[d] \cup things ELSE stuck[d]
  BY DEF TypeOK, Stuck

LEMMA ReservationType == \A c \in Call : Reservation(c) \in File
  BY DEF Reservation, File

\* A spawn that has no name yet goes on without one.
LEMMA ApplicantMoves ==
    ASSUME Inv, NEW c \in Call, op[c].stage \in Acquiring,
           NEW s \in {"collided", "refused"}, Moves(c, s),
           UNCHANGED <<file, tab, gitVars, taskFiles, history>>
    PROVE  Inv'
<1>1. TypeOK'
  BY DEF Inv, TypeOK, Moves, At, gitVars, history
<1>2. HoldersAreRegistered'
  BY DEF Inv, TypeOK, HoldersAreRegistered, Moves, Holds, At, NameOf, FileOf
<1>3. FilesAreOwned'
  BY DEF Inv, TypeOK, FilesAreOwned, Moves, At, NameOf, File
<1>4. CallsHaveNames'
  BY DEF Inv, CallsHaveNames, Moves, At, NameOf
<1>5. VisitsAreCurrent'
  BY DEF Inv, VisitsAreCurrent, SawEntry, Moves, At, NameOf, FileOf, Target, File
<1>6. TakeoversAreSafe'
  BY DEF Inv, TakeoversAreSafe, Moves, At, NameOf, FileOf
<1>7. WorkIsAccounted'
  BY DEF Inv, TypeOK, WorkIsAccounted, Moves, At, InWorktree, SavedOnBranch, gitVars, history
<1>8. RemovalIsWarranted'
  BY DEF Inv, RemovalIsWarranted, Moves, At, Target, SavedOnBranch, gitVars, history
<1>9. FailuresAreCleaned'
  BY DEF Inv, FailuresAreCleaned, Moves, At, OwnerOf, gitVars, history
<1>10. QED
  BY <1>1, <1>2, <1>3, <1>4, <1>5, <1>6, <1>7, <1>8, <1>9 DEF Inv

\* A spawn that has its name fails, or is cut short.
LEMMA OwnerStops ==
    ASSUME Inv, NEW c \in Call, op[c].stage \in Owning,
           NEW s \in {"failing", "crashed"}, Moves(c, s),
           s = "failing" => op[c].stage \in Acquired,
           taskFiles' \subseteq taskFiles \cup (IF s = "failing" THEN {c} ELSE {}),
           UNCHANGED <<file, tab, gitVars, history>>
    PROVE  Inv'
<1>1. TypeOK'
  BY DEF Inv, TypeOK, Moves, At, gitVars, history
<1>2. HoldersAreRegistered'
  BY DEF Inv, TypeOK, HoldersAreRegistered, Moves, Holds, At, NameOf, FileOf
<1>3. FilesAreOwned'
  BY DEF Inv, TypeOK, FilesAreOwned, Moves, At, NameOf, File
<1>4. CallsHaveNames'
  BY DEF Inv, CallsHaveNames, Moves, At, NameOf
<1>5. VisitsAreCurrent'
  BY DEF Inv, VisitsAreCurrent, SawEntry, Moves, At, NameOf, FileOf, Target, File
<1>6. TakeoversAreSafe'
  BY DEF Inv, TakeoversAreSafe, Moves, At, NameOf, FileOf
<1>7. WorkIsAccounted'
  BY DEF Inv, TypeOK, WorkIsAccounted, Moves, At, InWorktree, SavedOnBranch, gitVars, history
<1>8. RemovalIsWarranted'
  BY DEF Inv, RemovalIsWarranted, Moves, At, Target, SavedOnBranch, gitVars, history
<1>9. FailuresAreCleaned'
  BY DEF Inv, FailuresAreCleaned, Moves, At, OwnerOf, gitVars, history
<1>10. QED
  BY <1>1, <1>2, <1>3, <1>4, <1>5, <1>6, <1>7, <1>8, <1>9 DEF Inv

\* A call that closes or updates an entry goes on, or ends, and has changed
\* nothing; before it branches it has looked at the worktree.
LEMMA VisitorMoves ==
    ASSUME Inv, NEW c \in Call, op[c].stage \in Visiting,
           NEW s \in {"dirty", "ahead", "branched", "cleaned", "refused"}, Moves(c, s),
           s # "refused" => op[c].stage \in Closing \ {"closing"},
           s \in {"ahead", "branched"} => ~tree[Target(c)].dirty,
           s = "branched" => ~tree[Target(c)].ahead,
           UNCHANGED <<file, tab, gitVars, taskFiles, history>>
    PROVE  Inv'
<1>1. TypeOK'
  BY DEF Inv, TypeOK, Moves, At, gitVars, history
<1>2. HoldersAreRegistered'
  BY DEF Inv, TypeOK, HoldersAreRegistered, Moves, Holds, At, NameOf, FileOf
<1>3. FilesAreOwned'
  BY DEF Inv, TypeOK, FilesAreOwned, Moves, At, NameOf, File
<1>4. CallsHaveNames'
  BY DEF Inv, CallsHaveNames, Moves, At, NameOf
<1>5. VisitsAreCurrent'
  BY DEF Inv, VisitsAreCurrent, SawEntry, Moves, At, NameOf, FileOf, Target, File
<1>6. TakeoversAreSafe'
  BY DEF Inv, TakeoversAreSafe, Moves, At, NameOf, FileOf
<1>7. WorkIsAccounted'
  BY DEF Inv, TypeOK, WorkIsAccounted, Moves, At, InWorktree, SavedOnBranch, gitVars, history
<1>8. RemovalIsWarranted'
  BY DEF Inv, RemovalIsWarranted, Moves, At, Target, SavedOnBranch, gitVars, history
<1>9. FailuresAreCleaned'
  BY DEF Inv, FailuresAreCleaned, Moves, At, OwnerOf, gitVars, history
<1>10. QED
  BY <1>1, <1>2, <1>3, <1>4, <1>5, <1>6, <1>7, <1>8, <1>9 DEF Inv

-----------------------------------------------------------------------------
(* Names are taken and freed                                               *)

\* The name is free, and no call works on an older entry of it.
LEMMA NameIsTaken ==
    ASSUME Careful, Inv, NEW c \in Call, op[c].stage \in {"checked", "retry"},
           FileOf(c) = None, Undisturbed(NameOf(c)),
           file' = [file EXCEPT ![NameOf(c)] = Reservation(c)], Moves(c, "reserved"),
           UNCHANGED <<tab, gitVars, taskFiles, history>>
    PROVE  Inv'
<1>1. /\ NameOf(c) \in Name
      /\ \A n \in Name : file'[n] = IF n = NameOf(c) THEN Reservation(c) ELSE file[n]
  BY DEF Inv, TypeOK, CallsHaveNames, At
<1>2. \A d \in Call : op[d].stage \in Visiting => NameOf(d) # NameOf(c)
  BY DEF Careful, Undisturbed
<1>3. TypeOK'
  BY ReservationType, <1>1, <1>2 DEF Inv, TypeOK, Moves, At, gitVars, history, Reservation
<1>4. HoldersAreRegistered'
  BY ReservationType, <1>1, <1>2 DEF Inv, TypeOK, HoldersAreRegistered, Moves, Holds,
     At, NameOf, FileOf, Reservation
<1>5. FilesAreOwned'
  BY ReservationType, <1>1, <1>2 DEF Inv, TypeOK, FilesAreOwned, Moves, At, NameOf,
     File, Reservation
<1>6. CallsHaveNames'
  BY ReservationType, <1>1, <1>2 DEF Inv, CallsHaveNames, Moves, At, NameOf, Reservation
<1>7. VisitsAreCurrent'
  BY ReservationType, <1>1, <1>2 DEF Inv, VisitsAreCurrent, SawEntry, Moves, At, NameOf,
     FileOf, Target, File, Reservation
<1>8. TakeoversAreSafe'
  BY ReservationType, <1>1, <1>2 DEF Inv, TakeoversAreSafe, Moves, At, NameOf, FileOf,
     Reservation
<1>9. WorkIsAccounted'
  BY ReservationType, <1>1, <1>2 DEF Inv, TypeOK, WorkIsAccounted, Moves, At,
     InWorktree, SavedOnBranch, gitVars, history, Reservation
<1>10. RemovalIsWarranted'
  BY ReservationType, <1>1, <1>2 DEF Inv, RemovalIsWarranted, Moves, At, Target,
     SavedOnBranch, gitVars, history, Reservation
<1>11. FailuresAreCleaned'
  BY ReservationType, <1>1, <1>2 DEF Inv, FailuresAreCleaned, Moves, At, OwnerOf,
     gitVars, history, Reservation
<1>12. QED
  BY <1>3, <1>4, <1>5, <1>6, <1>7, <1>8, <1>9, <1>10, <1>11 DEF Inv

\* The name was that of a reservation that has expired, of a spawn that has
\* failed or of a subagent whose tab is closed.
LEMMA NameIsFreed ==
    ASSUME Inv, NEW c \in Call, NEW s \in Stage, Moves(c, s),
           <<op[c].stage, s>> \in {<<"takeover", "retry">>, <<"removedTree", "failed">>,
                                  <<"cleaned", "done">>},
           file' = [file EXCEPT ![NameOf(c)] = None], taskFiles' \subseteq taskFiles,
           UNCHANGED <<tab, gitVars, history>>
    PROVE  Inv'
<1>1. /\ NameOf(c) \in Name
      /\ \A n \in Name : file'[n] = IF n = NameOf(c) THEN None ELSE file[n]
  BY DEF Inv, TypeOK, CallsHaveNames, At
<1>2. \A d \in Call : d # c /\ Holds(d) => NameOf(d) # NameOf(c)
  BY <1>1 DEF Inv, TypeOK, HoldersAreRegistered, FilesAreOwned, VisitsAreCurrent,
     SawEntry, TakeoversAreSafe, Holds, At, NameOf, FileOf, File, Target
<1>3. \A d \in Call : d # c /\ At(d, "takeover") => NameOf(d) # NameOf(c)
  <2>1. SUFFICES ASSUME NEW d \in Call, d # c, At(d, "takeover"), NameOf(d) = NameOf(c)
                 PROVE  FALSE
    OBVIOUS
  <2>2. FileOf(c) # None /\ FileOf(c).phase = "reserved" /\ FileOf(c).stale
    BY <2>1 DEF Inv, TakeoversAreSafe, FileOf, NameOf
  <2>3. op[FileOf(c).owner].stage \in Past
    BY <1>1, <2>2 DEF Inv, FilesAreOwned, FileOf
  <2>4. CASE op[c].stage = "takeover"
    BY <2>1, <2>4 DEF Inv, TakeoversAreSafe, At
  <2>5. CASE op[c].stage = "removedTree"
    BY <2>3, <2>5 DEF Inv, HoldersAreRegistered, Holds
  <2>6. CASE op[c].stage = "cleaned"
    BY <2>2, <2>3, <2>6 DEF Inv, VisitsAreCurrent, SawEntry, At
  <2>7. QED
    BY <2>4, <2>5, <2>6
<1>4. TypeOK'
  BY <1>1, <1>2, <1>3 DEF Inv, TypeOK, Moves, At, gitVars, history
<1>5. HoldersAreRegistered'
  BY <1>1, <1>2, <1>3 DEF Inv, TypeOK, HoldersAreRegistered, Moves, Holds, At, NameOf,
     FileOf
<1>6. FilesAreOwned'
  BY <1>1, <1>2, <1>3 DEF Inv, TypeOK, FilesAreOwned, Moves, At, NameOf, File
<1>7. CallsHaveNames'
  BY <1>1, <1>2, <1>3 DEF Inv, CallsHaveNames, Moves, At, NameOf
<1>8. VisitsAreCurrent'
  BY <1>1, <1>2, <1>3 DEF Inv, VisitsAreCurrent, SawEntry, Moves, At, NameOf, FileOf,
     Target, File
<1>9. TakeoversAreSafe'
  BY <1>1, <1>2, <1>3 DEF Inv, TakeoversAreSafe, Moves, At, NameOf, FileOf
<1>10. WorkIsAccounted'
  BY <1>1, <1>2, <1>3 DEF Inv, TypeOK, WorkIsAccounted, Moves, At, InWorktree,
     SavedOnBranch, gitVars, history
<1>11. RemovalIsWarranted'
  BY <1>1, <1>2, <1>3 DEF Inv, RemovalIsWarranted, Moves, At, Target, SavedOnBranch,
     gitVars, history
<1>12. FailuresAreCleaned'
  BY <1>1, <1>2, <1>3 DEF Inv, FailuresAreCleaned, Moves, At, OwnerOf, gitVars, history, TypeOK,
     FilesAreOwned, NameOf, File
<1>13. QED
  BY <1>4, <1>5, <1>6, <1>7, <1>8, <1>9, <1>10, <1>11, <1>12 DEF Inv

-----------------------------------------------------------------------------
(* Spawns                                                                  *)

LEMMA StartSpawnStep ==
    ASSUME NEW c \in Call, NEW n \in Name, Inv, StartSpawn(c, n) PROVE Inv'
<1>1. /\ op' \in [Call -> Op]
      /\ \A d \in Call :
             op'[d] = IF d = c THEN [stage |-> "checked", name |-> n, seen |-> None]
                      ELSE op[d]
  BY DEF StartSpawn, Inv, TypeOK, Op, Stage
<1>2. TypeOK'
  BY <1>1 DEF Inv, TypeOK, At, gitVars, history, StartSpawn
<1>3. HoldersAreRegistered'
  BY <1>1 DEF Inv, TypeOK, HoldersAreRegistered, Holds, At, NameOf, FileOf, StartSpawn
<1>4. FilesAreOwned'
  BY <1>1 DEF Inv, TypeOK, FilesAreOwned, At, NameOf, File, StartSpawn
<1>5. CallsHaveNames'
  BY <1>1 DEF Inv, CallsHaveNames, At, NameOf, StartSpawn
<1>6. VisitsAreCurrent'
  BY <1>1 DEF Inv, VisitsAreCurrent, SawEntry, At, NameOf, FileOf, Target, File,
     StartSpawn, TypeOK, FilesAreOwned, Decodes
<1>7. TakeoversAreSafe'
  BY <1>1 DEF Inv, TakeoversAreSafe, At, NameOf, FileOf, StartSpawn
<1>8. WorkIsAccounted'
  BY <1>1 DEF Inv, TypeOK, WorkIsAccounted, At, InWorktree, SavedOnBranch, gitVars, history,
     StartSpawn
<1>9. RemovalIsWarranted'
  BY <1>1 DEF Inv, RemovalIsWarranted, At, Target, SavedOnBranch, gitVars, history, StartSpawn
<1>10. FailuresAreCleaned'
  BY <1>1 DEF Inv, FailuresAreCleaned, At, OwnerOf, gitVars, history, StartSpawn
<1>11. QED
  BY <1>2, <1>3, <1>4, <1>5, <1>6, <1>7, <1>8, <1>9, <1>10 DEF Inv

LEMMA MakeWorktreeStep ==
    ASSUME NEW c \in Call, Inv, MakeWorktree(c) PROVE Inv'
<1>1. Moves(c, "isolated")
  BY GoMoves DEF MakeWorktree, Inv, Stage
<1>2. tree' \in [Call -> Tree]
  BY DEF MakeWorktree, Inv, TypeOK
<1>3. TypeOK'
  BY <1>1, <1>2 DEF Inv, TypeOK, Moves, At, gitVars, history, MakeWorktree
<1>4. HoldersAreRegistered'
  BY <1>1, <1>2 DEF Inv, TypeOK, HoldersAreRegistered, Moves, Holds, At, NameOf, FileOf,
     MakeWorktree
<1>5. FilesAreOwned'
  BY <1>1, <1>2 DEF Inv, TypeOK, FilesAreOwned, Moves, At, NameOf, File, MakeWorktree
<1>6. CallsHaveNames'
  BY <1>1, <1>2 DEF Inv, CallsHaveNames, Moves, At, NameOf, MakeWorktree
<1>7. VisitsAreCurrent'
  BY <1>1, <1>2 DEF Inv, VisitsAreCurrent, SawEntry, Moves, At, NameOf, FileOf, Target,
     File, MakeWorktree
<1>8. TakeoversAreSafe'
  BY <1>1, <1>2 DEF Inv, TakeoversAreSafe, Moves, At, NameOf, FileOf, MakeWorktree
<1>9. WorkIsAccounted'
  BY <1>1, <1>2 DEF Inv, TypeOK, WorkIsAccounted, Moves, At, InWorktree, SavedOnBranch,
     gitVars, history, MakeWorktree
<1>10. RemovalIsWarranted'
  BY <1>1, <1>2 DEF Inv, RemovalIsWarranted, Moves, At, Target, SavedOnBranch, gitVars, history,
     MakeWorktree
<1>11. FailuresAreCleaned'
  BY <1>1, <1>2 DEF Inv, FailuresAreCleaned, Moves, At, OwnerOf, gitVars, history, MakeWorktree
<1>12. QED
  BY <1>3, <1>4, <1>5, <1>6, <1>7, <1>8, <1>9, <1>10, <1>11 DEF Inv

LEMMA OpenTabStep ==
    ASSUME NEW c \in Call, Inv, OpenTab(c) PROVE Inv'
<1>1. Moves(c, "opened")
  BY GoMoves DEF OpenTab, Inv, Stage
<1>2. TypeOK'
  BY <1>1 DEF Inv, TypeOK, Moves, At, gitVars, history, OpenTab
<1>3. HoldersAreRegistered'
  BY <1>1 DEF Inv, TypeOK, HoldersAreRegistered, Moves, Holds, At, NameOf, FileOf,
     OpenTab
<1>4. FilesAreOwned'
  BY <1>1 DEF Inv, TypeOK, FilesAreOwned, Moves, At, NameOf, File, OpenTab
<1>5. CallsHaveNames'
  BY <1>1 DEF Inv, CallsHaveNames, Moves, At, NameOf, OpenTab
<1>6. VisitsAreCurrent'
  BY <1>1 DEF Inv, VisitsAreCurrent, SawEntry, Moves, At, NameOf, FileOf, Target, File,
     OpenTab
<1>7. TakeoversAreSafe'
  BY <1>1 DEF Inv, TakeoversAreSafe, Moves, At, NameOf, FileOf, OpenTab
<1>8. WorkIsAccounted'
  BY <1>1 DEF Inv, TypeOK, WorkIsAccounted, Moves, At, InWorktree, SavedOnBranch,
     gitVars, history, OpenTab
<1>9. RemovalIsWarranted'
  BY <1>1 DEF Inv, RemovalIsWarranted, Moves, At, Target, SavedOnBranch, gitVars, history,
     OpenTab
<1>10. FailuresAreCleaned'
  BY <1>1 DEF Inv, FailuresAreCleaned, Moves, At, OwnerOf, gitVars, history, OpenTab
<1>11. QED
  BY <1>2, <1>3, <1>4, <1>5, <1>6, <1>7, <1>8, <1>9, <1>10 DEF Inv

LEMMA LaunchAgentStep ==
    ASSUME NEW c \in Call, Inv, LaunchAgent(c) PROVE Inv'
<1>1. Moves(c, "launched")
  BY GoMoves DEF LaunchAgent, Inv, Stage
<1>2. TypeOK'
  BY <1>1 DEF Inv, TypeOK, Moves, At, gitVars, history, LaunchAgent
<1>3. HoldersAreRegistered'
  BY <1>1 DEF Inv, TypeOK, HoldersAreRegistered, Moves, Holds, At, NameOf, FileOf,
     LaunchAgent
<1>4. FilesAreOwned'
  BY <1>1 DEF Inv, TypeOK, FilesAreOwned, Moves, At, NameOf, File, LaunchAgent
<1>5. CallsHaveNames'
  BY <1>1 DEF Inv, CallsHaveNames, Moves, At, NameOf, LaunchAgent
<1>6. VisitsAreCurrent'
  BY <1>1 DEF Inv, VisitsAreCurrent, SawEntry, Moves, At, NameOf, FileOf, Target, File,
     LaunchAgent
<1>7. TakeoversAreSafe'
  BY <1>1 DEF Inv, TakeoversAreSafe, Moves, At, NameOf, FileOf, LaunchAgent
<1>8. WorkIsAccounted'
  BY <1>1 DEF Inv, TypeOK, WorkIsAccounted, Moves, At, InWorktree, SavedOnBranch,
     gitVars, history, LaunchAgent
<1>9. RemovalIsWarranted'
  BY <1>1 DEF Inv, RemovalIsWarranted, Moves, At, Target, SavedOnBranch, gitVars, history,
     LaunchAgent
<1>10. FailuresAreCleaned'
  BY <1>1 DEF Inv, FailuresAreCleaned, Moves, At, OwnerOf, gitVars, history, LaunchAgent
<1>11. QED
  BY <1>2, <1>3, <1>4, <1>5, <1>6, <1>7, <1>8, <1>9, <1>10 DEF Inv

\* The reservation becomes the entry of an active subagent.
LEMMA EntryIsActive ==
    ASSUME Inv, NEW c \in Call, At(c, "launched"), Moves(c, "active"),
           NEW entry \in File, entry # None,
           entry.by = c, entry.owner = c, entry.made = "finalize",
           entry.phase = "active", ~entry.stale, ~entry.torn,
           file' = [file EXCEPT ![NameOf(c)] = entry],
           UNCHANGED <<tab, gitVars, taskFiles, history>>
    PROVE  Inv'
<1>1. /\ NameOf(c) \in Name
      /\ \A n \in Name : file'[n] = IF n = NameOf(c) THEN entry ELSE file[n]
  BY DEF Inv, TypeOK, CallsHaveNames, At
<1>2. FileOf(c) # None /\ FileOf(c).owner = c
      /\ FileOf(c).phase = "reserved" /\ ~FileOf(c).stale
  BY <1>1 DEF Inv, TypeOK, HoldersAreRegistered, FilesAreOwned, Holds, At, FileOf
<1>3. \A d \in Call : At(d, "takeover") => NameOf(d) # NameOf(c)
  BY <1>2 DEF Inv, TakeoversAreSafe, FileOf
<1>4. \A m \in Name : m # NameOf(c) /\ file[m] # None => file[m].owner # c
  BY DEF Inv, FilesAreOwned, NameOf
<1>5. TypeOK'
  BY <1>1, <1>2, <1>3, <1>4 DEF Inv, TypeOK, Moves, At, gitVars, history
<1>6. HoldersAreRegistered'
  BY <1>1, <1>2, <1>3, <1>4 DEF Inv, TypeOK, HoldersAreRegistered, Moves, Holds, At,
     NameOf, FileOf, CallsHaveNames
<1>7. FilesAreOwned'
  BY <1>1, <1>2, <1>3, <1>4 DEF Inv, TypeOK, FilesAreOwned, Moves, At, NameOf, File
<1>8. CallsHaveNames'
  BY <1>1, <1>2, <1>3, <1>4 DEF Inv, CallsHaveNames, Moves, At, NameOf
<1>9. VisitsAreCurrent'
  BY <1>1, <1>2, <1>3, <1>4 DEF Inv, VisitsAreCurrent, SawEntry, Moves, At, NameOf,
     FileOf, Target, File, TypeOK
<1>10. TakeoversAreSafe'
  <2>1. \A d \in Call : At(d, "takeover") =>
           NameOf(d) \in Name /\ NameOf(d) # NameOf(c)
    BY <1>3 DEF Inv, CallsHaveNames, At
  <2>2. \A d \in Call : At(d, "takeover") => file'[NameOf(d)] = file[NameOf(d)]
    BY <1>1, <2>1
  <2>3. QED
    BY <2>2 DEF Inv, TakeoversAreSafe, Moves, At, NameOf, FileOf
<1>11. WorkIsAccounted'
  BY <1>1, <1>2, <1>3, <1>4 DEF Inv, TypeOK, WorkIsAccounted, Moves, At, InWorktree,
     SavedOnBranch, gitVars, history
<1>12. RemovalIsWarranted'
  BY <1>1, <1>2, <1>3, <1>4 DEF Inv, RemovalIsWarranted, Moves, At, Target,
     SavedOnBranch, gitVars, history
<1>13. FailuresAreCleaned'
  BY <1>1, <1>2, <1>3, <1>4 DEF Inv, FailuresAreCleaned, Moves, At, OwnerOf, gitVars, history,
     TypeOK, FilesAreOwned, NameOf, File
<1>14. QED
  BY <1>5, <1>6, <1>7, <1>8, <1>9, <1>10, <1>11, <1>12, <1>13 DEF Inv

LEMMA FinalizeEntryStep == ASSUME NEW c \in Call, Inv, FinalizeEntry(c) PROVE Inv'
<1>1. At(c, "launched") /\ Moves(c, "active")
  BY GoMoves DEF FinalizeEntry, Inv, Stage
<1> DEFINE entry == [Reservation(c) EXCEPT !.made = "finalize", !.phase = "active"]
<1>2. /\ entry \in File /\ entry # None
      /\ entry.by = c /\ entry.owner = c /\ entry.made = "finalize"
      /\ entry.phase = "active" /\ ~entry.stale /\ ~entry.torn
  BY DEF Reservation, File
<1>3. /\ file' = [file EXCEPT ![NameOf(c)] = entry]
      /\ UNCHANGED <<tab, gitVars, taskFiles, history>>
  BY Zenon DEF FinalizeEntry
<1> HIDE DEF entry
<1>4. QED
  BY <1>1, <1>2, <1>3, EntryIsActive

LEMMA CloseFailedTabStep ==
    ASSUME NEW c \in Call, Inv, CloseFailedTab(c) PROVE Inv'
<1>0. /\ At(c, "failing") /\ UNCHANGED <<file, gitVars, taskFiles>>
      /\ tab' \in [Call -> {"none", "open", "closed"}]
      /\ \A d \in Call : tab'[d] # "open" \/ tab'[d] = tab[d]
      /\ \A d \in Call : d # c => tab'[d] = tab[d]
      /\ tab'[c] # "none" => tab[c] # "none"
      /\ tab'[c] = "open" => "tab" \in stuck'[c]
      /\ stuck' \in [Call -> SUBSET Trace] /\ worked' = worked
      /\ \A d \in Call : stuck[d] \subseteq stuck'[d]
  <2>1. {} \in SUBSET Trace /\ {"tab"} \in SUBSET Trace /\ TypeOK
    BY DEF Trace, Inv
  <2>2. CASE Stuck(c, {}) /\ tab' = [tab EXCEPT ![c] = IF @ = "open" THEN "closed" ELSE @]
    <3>1. \A d \in Call : tab'[d] = IF d = c /\ tab[d] = "open" THEN "closed" ELSE tab[d]
      BY <2>1, <2>2 DEF TypeOK
    <3>2. tab' \in [Call -> {"none", "open", "closed"}]
      BY <2>1, <2>2 DEF TypeOK
    <3>3. /\ stuck' \in [Call -> SUBSET Trace] /\ worked' = worked
          /\ \A d \in Call : stuck'[d] = IF d = c THEN stuck[d] \cup {} ELSE stuck[d]
      BY <2>1, <2>2, StuckGrows
    <3>4. tab'[c] # "open" /\ (tab'[c] # "none" => tab[c] # "none")
      BY <3>1
    <3>5. QED
      BY <3>1, <3>2, <3>3, <3>4 DEF CloseFailedTab
  <2>3. CASE Stuck(c, {"tab"}) /\ tab[c] = "open" /\ UNCHANGED tab
    <3>1. /\ stuck' \in [Call -> SUBSET Trace] /\ worked' = worked
          /\ \A d \in Call : stuck'[d] = IF d = c THEN stuck[d] \cup {"tab"} ELSE stuck[d]
      BY <2>1, <2>3, StuckGrows
    <3>2. QED
      BY <2>1, <2>3, <3>1 DEF CloseFailedTab, TypeOK
  <2>4. QED
    BY <2>2, <2>3 DEF CloseFailedTab
<1>1. Moves(c, "closedTab")
  BY GoMoves DEF CloseFailedTab, Inv, Stage
<1>2. TypeOK'
  BY <1>0, <1>1 DEF Inv, TypeOK, Moves, At, gitVars, history
<1>3. HoldersAreRegistered'
  BY <1>0, <1>1 DEF Inv, TypeOK, HoldersAreRegistered, Moves, Holds, At, NameOf, FileOf
<1>4. FilesAreOwned'
  BY <1>0, <1>1 DEF Inv, TypeOK, FilesAreOwned, Moves, At, NameOf, File
<1>5. CallsHaveNames'
  BY <1>0, <1>1 DEF Inv, CallsHaveNames, Moves, At, NameOf
<1>6. VisitsAreCurrent'
  BY <1>0, <1>1 DEF Inv, VisitsAreCurrent, SawEntry, Moves, At, NameOf, FileOf, Target, File
<1>7. TakeoversAreSafe'
  BY <1>0, <1>1 DEF Inv, TakeoversAreSafe, Moves, At, NameOf, FileOf
<1>8. WorkIsAccounted'
  BY <1>0, <1>1 DEF Inv, TypeOK, WorkIsAccounted, Moves, At, InWorktree, SavedOnBranch,
     gitVars, history
<1>9. RemovalIsWarranted'
  BY <1>0, <1>1 DEF Inv, RemovalIsWarranted, Moves, At, Target, SavedOnBranch, gitVars, history
<1>10. FailuresAreCleaned'
  BY <1>0, <1>1 DEF Inv, FailuresAreCleaned, Moves, At, OwnerOf, gitVars, history, TypeOK
<1>11. QED
  BY <1>2, <1>3, <1>4, <1>5, <1>6, <1>7, <1>8, <1>9, <1>10 DEF Inv

LEMMA RemoveFailedTreeStep ==
    ASSUME NEW c \in Call, Inv, RemoveFailedTree(c) PROVE Inv'
<1>1. Moves(c, "removedTree") /\ At(c, "closedTab")
  BY GoMoves DEF RemoveFailedTree, Inv, Stage
<1>0. UNCHANGED <<file, tab>>
  BY DEF RemoveFailedTree
<1>2. /\ UNCHANGED <<file, tab, branch, suffixed>> /\ worked' = worked
      /\ tree' \in [Call -> Tree] /\ \A d \in Call : d # c => tree'[d] = tree[d]
      /\ tree'[c] = tree[c] \/ tree'[c] = NoTree
      /\ tree'[c] = NoTree \/ "tree" \in stuck'[c]
      /\ taskFiles' \subseteq taskFiles /\ taskFiles \ {c} \subseteq taskFiles'
      /\ c \notin taskFiles' \/ "files" \in stuck'[c]
      /\ stuck' \in [Call -> SUBSET Trace]
      /\ \A d \in Call : stuck[d] \subseteq stuck'[d]
  <2>1. PICK things \in SUBSET {"tree", "files"} :
           /\ tree' = IF "tree" \in things THEN tree ELSE [tree EXCEPT ![c] = NoTree]
           /\ taskFiles' = IF "files" \in things THEN taskFiles ELSE taskFiles \ {c}
           /\ Stuck(c, things)
    BY DEF RemoveFailedTree
  <2>2. things \in SUBSET Trace /\ TypeOK
    BY DEF Trace, Inv
  <2>3. /\ stuck' \in [Call -> SUBSET Trace] /\ worked' = worked
        /\ \A d \in Call : stuck'[d] = IF d = c THEN stuck[d] \cup things ELSE stuck[d]
    BY <2>1, <2>2, StuckGrows
  <2>4. NoTree \in Tree
    BY DEF NoTree
  <2>5. QED
    BY <2>1, <2>2, <2>3, <2>4 DEF RemoveFailedTree, TypeOK
<1>3. NoTree \in Tree
  BY DEF NoTree
<1>4. TypeOK'
  BY <1>1, <1>2, <1>3 DEF Inv, TypeOK, Moves, At, gitVars, history
<1>5. HoldersAreRegistered'
  BY <1>0, <1>1 DEF Inv, TypeOK, HoldersAreRegistered, Moves, Holds, At, NameOf,
     FileOf
<1>6. FilesAreOwned'
  BY <1>0, <1>1 DEF Inv, TypeOK, FilesAreOwned, Moves, At, NameOf, File
<1>7. CallsHaveNames'
  BY <1>0, <1>1 DEF Inv, CallsHaveNames, Moves, At, NameOf
<1>8. VisitsAreCurrent'
  BY <1>0, <1>1 DEF Inv, VisitsAreCurrent, SawEntry, Moves, At, NameOf, FileOf,
     Target, File
<1>9. TakeoversAreSafe'
  BY <1>0, <1>1 DEF Inv, TakeoversAreSafe, Moves, At, NameOf, FileOf
<1>10. WorkIsAccounted'
  BY <1>1, <1>2, <1>3 DEF Inv, TypeOK, WorkIsAccounted, Moves, At, InWorktree,
     SavedOnBranch, gitVars, history
<1>11. RemovalIsWarranted'
  BY <1>1, <1>2, <1>3 DEF Inv, RemovalIsWarranted, Moves, At, Target, SavedOnBranch,
     gitVars, history, VisitsAreCurrent, SawEntry, File, NoTree
<1>12. FailuresAreCleaned'
  BY <1>1, <1>2, <1>3 DEF Inv, FailuresAreCleaned, Moves, At, OwnerOf, gitVars, history,
     TypeOK
<1>13. QED
  BY <1>4, <1>5, <1>6, <1>7, <1>8, <1>9, <1>10, <1>11, <1>12 DEF Inv

-----------------------------------------------------------------------------
(* Hints                                                                   *)

LEMMA ReadForHintStep ==
    ASSUME NEW c \in Call, NEW n \in Name, Inv, ReadForHint(c, n) PROVE Inv'
<1>1. /\ op' \in [Call -> Op]
      /\ \A d \in Call :
             op'[d] = IF d = c THEN [stage |-> "hint", name |-> n, seen |-> file[n]]
                      ELSE op[d]
  BY DEF ReadForHint, Inv, TypeOK, Op, Stage
<1>2. TypeOK'
  BY <1>1 DEF Inv, TypeOK, At, gitVars, history, ReadForHint
<1>3. HoldersAreRegistered'
  BY <1>1 DEF Inv, TypeOK, HoldersAreRegistered, Holds, At, NameOf, FileOf, ReadForHint
<1>4. FilesAreOwned'
  BY <1>1 DEF Inv, TypeOK, FilesAreOwned, At, NameOf, File, ReadForHint
<1>5. CallsHaveNames'
  BY <1>1 DEF Inv, CallsHaveNames, At, NameOf, ReadForHint
<1>6. VisitsAreCurrent'
  BY <1>1 DEF Inv, VisitsAreCurrent, SawEntry, At, NameOf, FileOf, Target, File,
     ReadForHint, TypeOK, FilesAreOwned, Decodes
<1>7. TakeoversAreSafe'
  BY <1>1 DEF Inv, TakeoversAreSafe, At, NameOf, FileOf, ReadForHint
<1>8. WorkIsAccounted'
  BY <1>1 DEF Inv, TypeOK, WorkIsAccounted, At, InWorktree, SavedOnBranch, gitVars, history,
     ReadForHint
<1>9. RemovalIsWarranted'
  BY <1>1 DEF Inv, RemovalIsWarranted, At, Target, SavedOnBranch, gitVars, history, ReadForHint
<1>10. FailuresAreCleaned'
  BY <1>1 DEF Inv, FailuresAreCleaned, At, OwnerOf, gitVars, history, ReadForHint
<1>11. QED
  BY <1>2, <1>3, <1>4, <1>5, <1>6, <1>7, <1>8, <1>9, <1>10 DEF Inv

LEMMA EntryIsOpened ==
    ASSUME Inv, NEW c \in Call, At(c, "hint"), NEW s \in {"done", "hintOpen"}, Moves(c, s),
           UNCHANGED <<file, tab, gitVars, taskFiles, history>>
    PROVE  Inv'
<1>1. TypeOK'
  BY DEF Inv, TypeOK, Moves, At, gitVars, history
<1>2. HoldersAreRegistered'
  BY DEF Inv, TypeOK, HoldersAreRegistered, Moves, Holds, At, NameOf, FileOf
<1>3. FilesAreOwned'
  BY DEF Inv, TypeOK, FilesAreOwned, Moves, At, NameOf, File
<1>4. CallsHaveNames'
  BY DEF Inv, CallsHaveNames, Moves, At, NameOf
<1>5. VisitsAreCurrent'
  BY DEF Inv, VisitsAreCurrent, SawEntry, Moves, At, NameOf, FileOf, Target, File
<1>6. TakeoversAreSafe'
  BY DEF Inv, TakeoversAreSafe, Moves, At, NameOf, FileOf
<1>7. WorkIsAccounted'
  BY DEF Inv, TypeOK, WorkIsAccounted, Moves, At, InWorktree, SavedOnBranch, gitVars, history
<1>8. RemovalIsWarranted'
  BY DEF Inv, RemovalIsWarranted, Moves, At, Target, SavedOnBranch, gitVars, history
<1>9. FailuresAreCleaned'
  BY DEF Inv, FailuresAreCleaned, Moves, At, OwnerOf, gitVars, history
<1>10. QED
  BY <1>1, <1>2, <1>3, <1>4, <1>5, <1>6, <1>7, <1>8, <1>9 DEF Inv

LEMMA HintMoves ==
    ASSUME TypeOK, NEW c \in Call, NEW s \in Stage,
           op' = [op EXCEPT ![c] = [stage |-> s, name |-> op[c].name, seen |-> op[c].seen]]
    PROVE  Moves(c, s)
  BY DEF TypeOK, Moves, Op

\* The file opened is the one that was read: nothing else can have its name.
LEMMA OpenForHintStep == ASSUME NEW c \in Call, Inv, OpenForHint(c) PROVE Inv'
<1>1. /\ At(c, "hint") /\ NameOf(c) \in Name /\ SawEntry(c) /\ op[c] \in Op
      /\ UNCHANGED <<file, tab, gitVars, taskFiles, history>>
  BY DEF OpenForHint, Inv, TypeOK, CallsHaveNames, VisitsAreCurrent, At
<1>2. CASE FileOf(c) = None
  <2>1. Moves(c, "done")
    BY <1>2, GoMoves DEF OpenForHint, Inv, Stage
  <2>2. QED
    BY <1>1, <2>1, EntryIsOpened
<1>3. CASE FileOf(c) # None
  <2>1. FileOf(c).owner = op[c].seen.owner /\ FileOf(c).made = op[c].seen.made
    BY <1>1, <1>3 DEF Inv, TypeOK, FilesAreOwned, VisitsAreCurrent, SawEntry, FileOf,
       NameOf, At
  <2>2. FileOf(c).by = op[c].seen.by
    BY <1>1, <1>3, <2>1 DEF Inv, FilesAreOwned, SawEntry, FileOf, NameOf
  <2> DEFINE entry == [op[c].seen EXCEPT !.made = FileOf(c).made, !.by = FileOf(c).by]
  <2>3. entry = op[c].seen
    BY <1>1, <2>1, <2>2 DEF SawEntry, File
  <2>4. op' = [op EXCEPT ![c] = [stage |-> "hintOpen", name |-> NameOf(c), seen |-> entry]]
    BY <1>3, Zenon DEF OpenForHint
  <2> HIDE DEF entry
  <2>5. op' = [op EXCEPT ![c] =
                   [stage |-> "hintOpen", name |-> op[c].name, seen |-> op[c].seen]]
    BY <2>3, <2>4 DEF NameOf
  <2>6. Moves(c, "hintOpen")
    BY <2>5, HintMoves DEF Inv, Stage
  <2>7. QED
    BY <1>1, <2>6, EntryIsOpened
<1>4. QED
  BY <1>2, <1>3

\* All of an entry stays as it is, except that an active one may be torn.
SameEntry(f, g) ==
    /\ g.by = f.by /\ g.owner = f.owner /\ g.made = f.made
    /\ g.phase = f.phase /\ g.stale = f.stale
    /\ f.phase = "reserved" => g.torn = f.torn

\* Writing a hint leaves the entry with its owner, or gone if it was gone.
LEMMA HintChangesNothing ==
    ASSUME Inv, NEW c \in Call, NEW s \in Stage, Moves(c, s),
           <<op[c].stage, s>> \in {<<"hintOpen", "hintTorn">>, <<"hintTorn", "done">>},
           UNCHANGED <<tab, gitVars, taskFiles, history>>,
           file' \in [Name -> File \cup {None}],
           \A n \in Name : /\ file'[n] = None <=> file[n] = None
                           /\ file[n] # None => SameEntry(file[n], file'[n])
    PROVE  Inv'
<1>1. TypeOK'
  BY DEF Inv, TypeOK, Moves, At, gitVars, history
<1>2. HoldersAreRegistered'
  BY DEF Inv, TypeOK, HoldersAreRegistered, Moves, Holds, At, NameOf, FileOf, SameEntry,
     CallsHaveNames
<1>3. FilesAreOwned'
  BY DEF Inv, TypeOK, FilesAreOwned, Moves, At, NameOf, File, SameEntry
<1>4. CallsHaveNames'
  BY DEF Inv, CallsHaveNames, Moves, At, NameOf
<1>5. VisitsAreCurrent'
  BY DEF Inv, VisitsAreCurrent, SawEntry, Moves, At, NameOf, FileOf, Target, File,
     SameEntry, CallsHaveNames
<1>6. TakeoversAreSafe'
  BY DEF Inv, TakeoversAreSafe, Moves, At, NameOf, FileOf, SameEntry, CallsHaveNames
<1>7. WorkIsAccounted'
  BY DEF Inv, TypeOK, WorkIsAccounted, Moves, At, InWorktree, SavedOnBranch, gitVars, history
<1>8. RemovalIsWarranted'
  BY DEF Inv, RemovalIsWarranted, Moves, At, Target, SavedOnBranch, gitVars, history
<1>9. FailuresAreCleaned'
  BY DEF Inv, FailuresAreCleaned, Moves, At, OwnerOf, gitVars, history, SameEntry
<1>10. QED
  BY <1>1, <1>2, <1>3, <1>4, <1>5, <1>6, <1>7, <1>8, <1>9 DEF Inv

LEMMA TruncateStep ==
    ASSUME NEW c \in Call, Inv, Truncate(c) PROVE Inv'
<1>1. Moves(c, "hintTorn") /\ At(c, "hintOpen")
      /\ UNCHANGED <<tab, gitVars, taskFiles, history>>
  BY GoMoves DEF Truncate, Inv, Stage
<1>2. NameOf(c) \in Name /\ SawEntry(c)
  BY <1>1 DEF Inv, CallsHaveNames, VisitsAreCurrent, At
<1>3. CASE ~IsOpened(c)
  <2>1. file' = file
    BY <1>3 DEF Truncate
  <2>2. QED
    BY <1>1, <2>1, HintChangesNothing DEF Inv, TypeOK, SameEntry, Stage, At
<1>4. CASE IsOpened(c)
  <2>1. FileOf(c) \in File /\ FileOf(c) # None /\ FileOf(c).owner = op[c].seen.owner
    BY <1>1, <1>2, <1>4 DEF Inv, TypeOK, VisitsAreCurrent, IsOpened, FileOf, At
  <2>2. FileOf(c).phase = "active" /\ ~FileOf(c).stale /\ FileOf(c).by = op[c].seen.by
        /\ FileOf(c).made = "finalize"
    BY <1>2, <2>1 DEF Inv, FilesAreOwned, SawEntry, FileOf, At
  <2> DEFINE entry == [FileOf(c) EXCEPT !.torn = TRUE]
  <2>3. entry \in File /\ SameEntry(FileOf(c), entry)
    BY <1>2, <2>1, <2>2 DEF SawEntry, SameEntry, File
  <2>4. \A n \in Name : file'[n] = IF n = NameOf(c) THEN entry ELSE file[n]
    BY <1>2, <1>4 DEF Truncate, Inv, TypeOK, FileOf
  <2>5. file' \in [Name -> File \cup {None}]
    BY <1>4, <2>3, <1>2 DEF Truncate, Inv, TypeOK, FileOf
  <2>6. \A n \in Name : /\ file'[n] = None <=> file[n] = None
                        /\ file[n] # None => SameEntry(file[n], file'[n])
    BY <2>1, <2>3, <2>4 DEF SameEntry, FileOf
  <2>7. QED
    BY <1>1, <2>5, <2>6, HintChangesNothing DEF Stage, At
<1>5. QED
  BY <1>3, <1>4

LEMMA WriteHintStep ==
    ASSUME NEW c \in Call, Inv, WriteHint(c) PROVE Inv'
<1>1. Moves(c, "done") /\ At(c, "hintTorn") /\ UNCHANGED <<tab, gitVars, taskFiles, history>>
  BY GoMoves DEF WriteHint, Inv, Stage
<1>2. NameOf(c) \in Name /\ SawEntry(c)
  BY <1>1 DEF Inv, CallsHaveNames, VisitsAreCurrent, At
<1>3. CASE ~IsOpened(c)
  <2>1. file' = file
    BY <1>3 DEF WriteHint
  <2>2. QED
    BY <1>1, <2>1, HintChangesNothing DEF Inv, TypeOK, SameEntry, Stage, At
<1>4. CASE IsOpened(c)
  <2>1. FileOf(c) \in File /\ FileOf(c) # None /\ FileOf(c).owner = op[c].seen.owner
    BY <1>1, <1>2, <1>4 DEF Inv, TypeOK, VisitsAreCurrent, IsOpened, FileOf, At
  <2>2. FileOf(c).phase = "active" /\ ~FileOf(c).stale /\ FileOf(c).by = op[c].seen.by
        /\ FileOf(c).made = "finalize"
    BY <1>2, <2>1 DEF Inv, FilesAreOwned, SawEntry, FileOf, At
  <2> DEFINE entry == op[c].seen
  <2>3. entry \in File /\ SameEntry(FileOf(c), entry)
    BY <1>2, <2>1, <2>2 DEF SawEntry, SameEntry, File
  <2>4. \A n \in Name : file'[n] = IF n = NameOf(c) THEN entry ELSE file[n]
    BY <1>2, <1>4 DEF WriteHint, Inv, TypeOK, FileOf
  <2>5. file' \in [Name -> File \cup {None}]
    BY <1>4, <2>3, <1>2 DEF WriteHint, Inv, TypeOK, FileOf
  <2>6. \A n \in Name : /\ file'[n] = None <=> file[n] = None
                        /\ file[n] # None => SameEntry(file[n], file'[n])
    BY <2>1, <2>3, <2>4 DEF SameEntry, FileOf
  <2>7. QED
    BY <1>1, <2>5, <2>6, HintChangesNothing DEF Stage, At
<1>5. QED
  BY <1>3, <1>4

-----------------------------------------------------------------------------
(* Close                                                                   *)

LEMMA StartCloseStep ==
    ASSUME NEW c \in Call, NEW n \in Name, Inv, StartClose(c, n) PROVE Inv'
<1>1. /\ op' \in [Call -> Op]
      /\ \A d \in Call :
             op'[d] = IF d = c THEN [stage |-> "closing", name |-> n, seen |-> file[n]]
                      ELSE op[d]
  BY DEF StartClose, Inv, TypeOK, Op, Stage
<1>2. TypeOK'
  BY <1>1 DEF Inv, TypeOK, At, gitVars, history, StartClose
<1>3. HoldersAreRegistered'
  BY <1>1 DEF Inv, TypeOK, HoldersAreRegistered, Holds, At, NameOf, FileOf, StartClose
<1>4. FilesAreOwned'
  BY <1>1 DEF Inv, TypeOK, FilesAreOwned, At, NameOf, File, StartClose
<1>5. CallsHaveNames'
  BY <1>1 DEF Inv, CallsHaveNames, At, NameOf, StartClose
<1>6. VisitsAreCurrent'
  BY <1>1 DEF Inv, VisitsAreCurrent, SawEntry, At, NameOf, FileOf, Target, File,
     StartClose, TypeOK, FilesAreOwned, Decodes
<1>7. TakeoversAreSafe'
  BY <1>1 DEF Inv, TakeoversAreSafe, At, NameOf, FileOf, StartClose
<1>8. WorkIsAccounted'
  BY <1>1 DEF Inv, TypeOK, WorkIsAccounted, At, InWorktree, SavedOnBranch, gitVars, history,
     StartClose
<1>9. RemovalIsWarranted'
  BY <1>1 DEF Inv, RemovalIsWarranted, At, Target, SavedOnBranch, gitVars, history, StartClose
<1>10. FailuresAreCleaned'
  BY <1>1 DEF Inv, FailuresAreCleaned, At, OwnerOf, gitVars, history, StartClose
<1>11. QED
  BY <1>2, <1>3, <1>4, <1>5, <1>6, <1>7, <1>8, <1>9, <1>10 DEF Inv

LEMMA TabIsClosed ==
    ASSUME Inv, NEW c \in Call, At(c, "closing"), Moves(c, "closed"),
           tab' = [tab EXCEPT ![Target(c)] = "closed"],
           UNCHANGED <<file, gitVars, taskFiles, history>>
    PROVE  Inv'
<1>1. Target(c) \in Call /\ op[Target(c)].stage = "active"
  BY DEF Inv, VisitsAreCurrent, SawEntry, Target, At, File
<1>2. \A d \in Call : tab'[d] = IF d = Target(c) THEN "closed" ELSE tab[d]
  BY DEF Inv, TypeOK
<1>3. TypeOK'
  BY <1>1, <1>2 DEF Inv, TypeOK, Moves, At, gitVars, history
<1>4. HoldersAreRegistered'
  BY <1>1, <1>2 DEF Inv, TypeOK, HoldersAreRegistered, Moves, Holds, At, NameOf, FileOf
<1>5. FilesAreOwned'
  BY DEF Inv, TypeOK, FilesAreOwned, Moves, At, NameOf, File
<1>6. CallsHaveNames'
  BY <1>1, <1>2 DEF Inv, CallsHaveNames, Moves, At, NameOf
<1>7. VisitsAreCurrent'
  BY <1>1, <1>2 DEF Inv, VisitsAreCurrent, SawEntry, Moves, At, NameOf, FileOf, Target,
     File
<1>8. TakeoversAreSafe'
  BY <1>1, <1>2 DEF Inv, TakeoversAreSafe, Moves, At, NameOf, FileOf
<1>9. WorkIsAccounted'
  BY <1>1, <1>2 DEF Inv, TypeOK, WorkIsAccounted, Moves, At, InWorktree, SavedOnBranch,
     gitVars, history
<1>10. RemovalIsWarranted'
  BY <1>1, <1>2 DEF Inv, RemovalIsWarranted, Moves, At, Target, SavedOnBranch, gitVars, history
<1>11. FailuresAreCleaned'
  BY <1>1, <1>2 DEF Inv, FailuresAreCleaned, Moves, At, OwnerOf, gitVars, history
<1>12. QED
  BY <1>3, <1>4, <1>5, <1>6, <1>7, <1>8, <1>9, <1>10, <1>11 DEF Inv

LEMMA TreeIsCommitted ==
    ASSUME NEW t \in Call, tree \in [Call -> Tree],
           tree' = [tree EXCEPT ![t].dirty = FALSE, ![t].ahead = TRUE]
    PROVE  /\ tree' \in [Call -> Tree]
           /\ tree'[t] = [disk |-> tree[t].disk, dirty |-> FALSE, ahead |-> TRUE]
           /\ \A d \in Call : d # t => tree'[d] = tree[d]
  OBVIOUS

\* The changes of a worktree are committed: its work is ahead of its base.
LEMMA WorkIsCommitted ==
    ASSUME Inv, NEW c \in Call, At(c, "dirty"), Moves(c, "ahead"),
           Target(c) \in Call, tree[Target(c)].dirty,
           tree' \in [Call -> Tree],
           tree'[Target(c)] = [disk |-> tree[Target(c)].disk, dirty |-> FALSE, ahead |-> TRUE],
           \A d \in Call : d # Target(c) => tree'[d] = tree[d],
           UNCHANGED <<file, tab, branch, suffixed, taskFiles, history>>
    PROVE  Inv'
<1>1. /\ Target(c) \in Call /\ op[Target(c)].stage = "active" /\ tab[Target(c)] = "closed"
      /\ NameOf(c) \in Name
  BY DEF Inv, CallsHaveNames, VisitsAreCurrent, SawEntry, Target, At, File
<1>2. \A d \in Call : op[d].stage \in {"ahead", "branched"} =>
          Target(d) \in Call \ {Target(c)}
  BY <1>1 DEF Inv, VisitsAreCurrent, RemovalIsWarranted, SawEntry, Target, File
<1>3. TypeOK'
  BY <1>1, <1>2 DEF Inv, TypeOK, Moves, At, gitVars, history
<1>4. HoldersAreRegistered'
  BY DEF Inv, TypeOK, HoldersAreRegistered, Moves, Holds, At, NameOf, FileOf
<1>5. FilesAreOwned'
  BY DEF Inv, TypeOK, FilesAreOwned, Moves, At, NameOf, File
<1>6. CallsHaveNames'
  BY <1>1, <1>2 DEF Inv, CallsHaveNames, Moves, At, NameOf
<1>7. VisitsAreCurrent'
  BY DEF Inv, VisitsAreCurrent, SawEntry, Moves, At, NameOf, FileOf, Target, File
<1>8. TakeoversAreSafe'
  BY <1>1, <1>2 DEF Inv, TakeoversAreSafe, Moves, At, NameOf, FileOf
<1>9. WorkIsAccounted'
  BY <1>1, <1>2 DEF Inv, TypeOK, WorkIsAccounted, Moves, At, InWorktree, SavedOnBranch,
     gitVars, history, Target
<1>10. RemovalIsWarranted'
  BY <1>1, <1>2 DEF Inv, RemovalIsWarranted, Moves, At, Target, SavedOnBranch, gitVars, history
<1>11. FailuresAreCleaned'
  BY <1>1, <1>2 DEF Inv, FailuresAreCleaned, Moves, At, OwnerOf, gitVars, history
<1>12. QED
  BY <1>3, <1>4, <1>5, <1>6, <1>7, <1>8, <1>9, <1>10, <1>11 DEF Inv

LEMMA CreateBranchStep ==
    ASSUME NEW c \in Call, Inv, CreateBranch(c) PROVE Inv'
<1>1. Moves(c, "branched") /\ At(c, "ahead")
  BY GoMoves DEF CreateBranch, Inv, Stage
<1>2. /\ Target(c) \in Call /\ op[Target(c)].stage = "active" /\ tab[Target(c)] = "closed"
      /\ NameOf(c) \in Name
  BY <1>1 DEF Inv, CallsHaveNames, VisitsAreCurrent, SawEntry, Target, At, File
<1>3. UNCHANGED <<file, tab, tree, taskFiles, history>>
  BY DEF CreateBranch
<1>4. branch' \in [Name -> Call \cup {None}] /\ suffixed' \subseteq Call
  BY <1>2 DEF CreateBranch, Inv, TypeOK
<1>5. \A d \in Call : d = Target(c) => SavedOnBranch(d)'
  <2>1. CASE branch[NameOf(c)] = None
    <3>1. branch'[NameOf(c)] = Target(c)
      BY <1>2, <2>1 DEF CreateBranch, Inv, TypeOK
    <3>2. QED
      BY <1>2, <3>1 DEF SavedOnBranch
  <2>2. CASE branch[NameOf(c)] # None
    BY <2>2 DEF CreateBranch, SavedOnBranch
  <2>3. QED
    BY <2>1, <2>2
<1>6. \A d \in Call : SavedOnBranch(d) => SavedOnBranch(d)'
  BY <1>2 DEF CreateBranch, Inv, TypeOK, SavedOnBranch
<1>7. \A d \in Call : op[d].stage \in {"ahead", "branched"} => Target(d) \in Call
  BY DEF Inv, VisitsAreCurrent, SawEntry, Target, File
<1>8. TypeOK'
  BY <1>1, <1>2, <1>3, <1>4, <1>5, <1>6, <1>7 DEF Inv, TypeOK, Moves, At, history
<1>9. HoldersAreRegistered'
  BY <1>1, <1>2, <1>3, <1>4, <1>5, <1>6, <1>7 DEF Inv, TypeOK, HoldersAreRegistered,
     Moves, Holds, At, NameOf, FileOf
<1>10. FilesAreOwned'
  BY <1>1, <1>2, <1>3, <1>4, <1>5, <1>6, <1>7 DEF Inv, TypeOK, FilesAreOwned, Moves, At,
     NameOf, File
<1>11. CallsHaveNames'
  BY <1>1, <1>2, <1>3, <1>4, <1>5, <1>6, <1>7 DEF Inv, CallsHaveNames, Moves, At, NameOf
<1>12. VisitsAreCurrent'
  BY <1>1, <1>2, <1>3, <1>4, <1>5, <1>6, <1>7 DEF Inv, VisitsAreCurrent, SawEntry,
     Moves, At, NameOf, FileOf, Target, File
<1>13. TakeoversAreSafe'
  BY <1>1, <1>2, <1>3, <1>4, <1>5, <1>6, <1>7 DEF Inv, TakeoversAreSafe, Moves, At,
     NameOf, FileOf
<1>14. WorkIsAccounted'
  BY <1>1, <1>2, <1>3, <1>4, <1>5, <1>6, <1>7 DEF Inv, TypeOK, WorkIsAccounted, Moves,
     At, InWorktree, history
<1>15. RemovalIsWarranted'
  BY <1>1, <1>2, <1>3, <1>4, <1>5, <1>6, <1>7 DEF Inv, RemovalIsWarranted, Moves, At,
     Target
<1>16. FailuresAreCleaned'
  BY <1>1, <1>2, <1>3, <1>4, <1>5, <1>6, <1>7 DEF Inv, FailuresAreCleaned, Moves, At,
     OwnerOf, history
<1>17. QED
  BY <1>8, <1>9, <1>10, <1>11, <1>12, <1>13, <1>14, <1>15, <1>16 DEF Inv

\* What is removed was saved, or was never changed.
LEMMA TreeIsRemoved ==
    ASSUME Inv, NEW c \in Call, At(c, "branched"), Moves(c, "cleaned"),
           tree' = [tree EXCEPT ![Target(c)] = NoTree],
           UNCHANGED <<file, tab, branch, suffixed, taskFiles, history>>
    PROVE  Inv'
<1>1. /\ Target(c) \in Call /\ op[Target(c)].stage = "active" /\ tab[Target(c)] = "closed"
      /\ NameOf(c) \in Name
  BY DEF Inv, CallsHaveNames, VisitsAreCurrent, SawEntry, Target, At, File
<1>2. tree' \in [Call -> Tree]
  BY <1>1 DEF Inv, TypeOK, NoTree
<1>3. \A d \in Call : tree'[d] = IF d = Target(c) THEN NoTree ELSE tree[d]
  BY DEF Inv, TypeOK
<1>4. ~NoTree.dirty /\ ~NoTree.ahead
  BY DEF NoTree
<1>5. TypeOK'
  BY <1>1, <1>2, <1>3, <1>4 DEF Inv, TypeOK, Moves, At, gitVars, history
<1>6. HoldersAreRegistered'
  BY <1>1, <1>2, <1>3, <1>4 DEF Inv, TypeOK, HoldersAreRegistered, Moves, Holds, At,
     NameOf, FileOf
<1>7. FilesAreOwned'
  BY <1>1, <1>2, <1>3, <1>4 DEF Inv, TypeOK, FilesAreOwned, Moves, At, NameOf, File
<1>8. CallsHaveNames'
  BY <1>1, <1>2, <1>3, <1>4 DEF Inv, CallsHaveNames, Moves, At, NameOf
<1>9. VisitsAreCurrent'
  BY <1>1, <1>2, <1>3, <1>4 DEF Inv, VisitsAreCurrent, SawEntry, Moves, At, NameOf,
     FileOf, Target, File
<1>10. TakeoversAreSafe'
  BY <1>1, <1>2, <1>3, <1>4 DEF Inv, TakeoversAreSafe, Moves, At, NameOf, FileOf
<1>11. WorkIsAccounted'
  BY <1>1, <1>2, <1>3, <1>4 DEF Inv, TypeOK, WorkIsAccounted, Moves, At, InWorktree,
     SavedOnBranch, gitVars, history, RemovalIsWarranted
<1>12. RemovalIsWarranted'
  BY <1>1, <1>2, <1>3, <1>4 DEF Inv, RemovalIsWarranted, Moves, At, Target,
     SavedOnBranch, gitVars, history
<1>13. FailuresAreCleaned'
  BY <1>1, <1>2, <1>3, <1>4 DEF Inv, FailuresAreCleaned, Moves, At, OwnerOf, gitVars, history
<1>14. QED
  BY <1>5, <1>6, <1>7, <1>8, <1>9, <1>10, <1>11, <1>12, <1>13 DEF Inv

-----------------------------------------------------------------------------
(* The world                                                               *)

\* No call that closes the subagent has got past its tab.
LEMMA AgentWorksStep ==
    ASSUME NEW c \in Call, Inv, AgentWorks(c) PROVE Inv'
<1>1. op[c].stage \in {"launched", "active"} /\ tab[c] = "open" /\ worked' = worked \cup {c}
      /\ UNCHANGED <<file, op, tab, branch, suffixed, taskFiles, stuck>>
  BY DEF AgentWorks
<1>2. tree' \in [Call -> Tree]
  <2>1. tree[c] \in Tree
    BY DEF Inv, TypeOK
  <2>2. CASE tree' = [tree EXCEPT ![c].dirty = TRUE]
    BY <2>1, <2>2 DEF Inv, TypeOK
  <2>3. CASE tree' = [tree EXCEPT ![c].dirty = FALSE, ![c].ahead = TRUE]
    BY <2>1, <2>3 DEF Inv, TypeOK
  <2>4. QED
    BY <2>2, <2>3 DEF AgentWorks
<1>3. \A d \in Call : d # c => tree'[d] = tree[d]
  BY DEF AgentWorks, Inv, TypeOK
<1>4. InWorktree(c)'
  BY DEF AgentWorks, Inv, TypeOK, InWorktree
<1>5. \A d \in Call : op[d].stage \in {"ahead", "branched"} => Target(d) \in Call \ {c}
  BY <1>1 DEF Inv, VisitsAreCurrent, SawEntry, Target, File
<1>6. TypeOK'
  BY <1>1, <1>2, <1>3, <1>4, <1>5 DEF Inv, TypeOK, At
<1>7. HoldersAreRegistered'
  BY <1>1, <1>2, <1>3, <1>4, <1>5 DEF Inv, TypeOK, HoldersAreRegistered, Holds, At,
     NameOf, FileOf
<1>8. FilesAreOwned'
  BY <1>1, <1>2, <1>3, <1>4, <1>5 DEF Inv, TypeOK, FilesAreOwned, At, NameOf, File
<1>9. CallsHaveNames'
  BY <1>1, <1>2, <1>3, <1>4, <1>5 DEF Inv, CallsHaveNames, At, NameOf
<1>10. VisitsAreCurrent'
  BY <1>1, <1>2, <1>3, <1>4, <1>5 DEF Inv, VisitsAreCurrent, SawEntry, At, NameOf,
     FileOf, Target, File
<1>11. TakeoversAreSafe'
  BY <1>1, <1>2, <1>3, <1>4, <1>5 DEF Inv, TakeoversAreSafe, At, NameOf, FileOf
<1>12. WorkIsAccounted'
  BY <1>1, <1>2, <1>3, <1>4, <1>5 DEF Inv, TypeOK, WorkIsAccounted, At, InWorktree,
     SavedOnBranch
<1>13. RemovalIsWarranted'
  BY <1>1, <1>2, <1>3, <1>4, <1>5 DEF Inv, RemovalIsWarranted, At, Target, SavedOnBranch
<1>14. FailuresAreCleaned'
  BY <1>1, <1>2, <1>3, <1>4, <1>5 DEF Inv, FailuresAreCleaned, At, OwnerOf
<1>15. QED
  BY <1>6, <1>7, <1>8, <1>9, <1>10, <1>11, <1>12, <1>13, <1>14 DEF Inv

LEMMA TabGoesStep ==
    ASSUME NEW c \in Call, Inv, TabGoes(c) PROVE Inv'
<1>1. TypeOK'
  BY DEF Inv, TypeOK, At, gitVars, history, TabGoes
<1>2. HoldersAreRegistered'
  BY DEF Inv, TypeOK, HoldersAreRegistered, Holds, At, NameOf, FileOf, TabGoes
<1>3. FilesAreOwned'
  BY DEF Inv, TypeOK, FilesAreOwned, At, NameOf, File, TabGoes
<1>4. CallsHaveNames'
  BY DEF Inv, CallsHaveNames, At, NameOf, TabGoes
<1>5. VisitsAreCurrent'
  BY DEF Inv, VisitsAreCurrent, SawEntry, At, NameOf, FileOf, Target, File, TabGoes
<1>6. TakeoversAreSafe'
  BY DEF Inv, TakeoversAreSafe, At, NameOf, FileOf, TabGoes
<1>7. WorkIsAccounted'
  BY DEF Inv, TypeOK, WorkIsAccounted, At, InWorktree, SavedOnBranch, gitVars, history, TabGoes
<1>8. RemovalIsWarranted'
  BY DEF Inv, RemovalIsWarranted, At, Target, SavedOnBranch, gitVars, history, TabGoes
<1>9. FailuresAreCleaned'
  BY DEF Inv, FailuresAreCleaned, At, OwnerOf, gitVars, history, TabGoes
<1>10. QED
  BY <1>1, <1>2, <1>3, <1>4, <1>5, <1>6, <1>7, <1>8, <1>9 DEF Inv

\* A reservation expires only after its spawn was cut short or failed to remove it.
LEMMA EntryExpires ==
    ASSUME Inv, NEW n \in Name, file[n] # None, file[n].phase = "reserved",
           op[file[n].owner].stage \in Past,
           NEW entry \in File, entry # None,
           entry.by = file[n].by, entry.owner = file[n].owner, entry.made = file[n].made,
           entry.phase = "reserved", entry.torn = file[n].torn, entry.stale,
           file' = [file EXCEPT ![n] = entry],
           UNCHANGED <<op, tab, gitVars, taskFiles, history>>
    PROVE  Inv'
<1>1. \A m \in Name : file'[m] = IF m = n THEN entry ELSE file[m]
  BY DEF Inv, TypeOK
<1>2. TypeOK'
  BY <1>1 DEF Inv, TypeOK, At, gitVars, history
<1>3. HoldersAreRegistered'
  BY <1>1 DEF Inv, TypeOK, HoldersAreRegistered, Holds, At, NameOf, FileOf,
     CallsHaveNames
<1>4. FilesAreOwned'
  BY <1>1 DEF Inv, TypeOK, FilesAreOwned, At, NameOf, File
<1>5. CallsHaveNames'
  BY <1>1 DEF Inv, CallsHaveNames, At, NameOf
<1>6. VisitsAreCurrent'
  BY <1>1 DEF Inv, VisitsAreCurrent, SawEntry, At, NameOf, FileOf, Target, File,
     CallsHaveNames, TypeOK
<1>7. TakeoversAreSafe'
  BY <1>1 DEF Inv, TakeoversAreSafe, At, NameOf, FileOf, CallsHaveNames
<1>8. WorkIsAccounted'
  BY <1>1 DEF Inv, TypeOK, WorkIsAccounted, At, InWorktree, SavedOnBranch, gitVars, history
<1>9. RemovalIsWarranted'
  BY <1>1 DEF Inv, RemovalIsWarranted, At, Target, SavedOnBranch, gitVars, history
<1>10. FailuresAreCleaned'
  BY <1>1 DEF Inv, FailuresAreCleaned, At, OwnerOf, gitVars, history
<1>11. QED
  BY <1>2, <1>3, <1>4, <1>5, <1>6, <1>7, <1>8, <1>9, <1>10 DEF Inv

LEMMA ExpireStep == ASSUME NEW n \in Name, Careful, Inv, Expire(n) PROVE Inv'
<1>1. /\ file[n] # None /\ file[n].phase = "reserved" /\ file[n] \in File
      /\ op[file[n].owner].stage \in Past
  BY DEF Expire, Careful, Inv, TypeOK, FilesAreOwned, At
<1> DEFINE entry == [file[n] EXCEPT !.stale = TRUE]
<1>2. /\ entry \in File /\ entry # None
      /\ entry.by = file[n].by /\ entry.owner = file[n].owner /\ entry.made = file[n].made
      /\ entry.phase = "reserved" /\ entry.torn = file[n].torn /\ entry.stale
  BY <1>1 DEF File
<1>3. /\ file' = [file EXCEPT ![n] = entry]
      /\ UNCHANGED <<op, tab, gitVars, taskFiles, history>>
  BY Zenon DEF Expire
<1> HIDE DEF entry
<1>4. QED
  BY <1>1, <1>2, <1>3, EntryExpires

-----------------------------------------------------------------------------
(* The other steps                                                         *)

\* An expired reservation is taken over by one call at a time.
LEMMA TakeoverStarts ==
    ASSUME Inv, NEW c \in Call, At(c, "collided"), Moves(c, "takeover"),
           FileOf(c) # None, FileOf(c).phase = "reserved", FileOf(c).stale,
           \A d \in Call \ {c} :
               op[d].stage \in {"takeover", "retry"} => NameOf(d) # NameOf(c),
           UNCHANGED <<file, tab, gitVars, taskFiles, history>>
    PROVE  Inv'
<1>1. TypeOK'
  BY DEF Inv, TypeOK, Moves, At, gitVars, history
<1>2. HoldersAreRegistered'
  BY DEF Inv, TypeOK, HoldersAreRegistered, Moves, Holds, At, NameOf, FileOf
<1>3. FilesAreOwned'
  BY DEF Inv, TypeOK, FilesAreOwned, Moves, At, NameOf, File
<1>4. CallsHaveNames'
  BY DEF Inv, CallsHaveNames, Moves, At, NameOf
<1>5. VisitsAreCurrent'
  BY DEF Inv, VisitsAreCurrent, SawEntry, Moves, At, NameOf, FileOf, Target, File
<1>6. TakeoversAreSafe'
  BY DEF Inv, TakeoversAreSafe, Moves, At, NameOf, FileOf
<1>7. WorkIsAccounted'
  BY DEF Inv, TypeOK, WorkIsAccounted, Moves, At, InWorktree, SavedOnBranch, gitVars, history
<1>8. RemovalIsWarranted'
  BY DEF Inv, RemovalIsWarranted, Moves, At, Target, SavedOnBranch, gitVars, history
<1>9. FailuresAreCleaned'
  BY DEF Inv, FailuresAreCleaned, Moves, At, OwnerOf, gitVars, history
<1>10. QED
  BY <1>1, <1>2, <1>3, <1>4, <1>5, <1>6, <1>7, <1>8, <1>9 DEF Inv

LEMMA DeclineSpawnStep == ASSUME NEW c \in Call, Inv, DeclineSpawn(c) PROVE Inv'
<1>1. Moves(c, "refused") /\ op[c].stage \in Acquiring
      /\ UNCHANGED <<file, tab, gitVars, taskFiles, history>>
  BY GoMoves DEF DeclineSpawn, Inv, Stage, At
<1>2. QED
  BY <1>1, ApplicantMoves

LEMMA CreateExclusiveStep ==
    ASSUME NEW c \in Call, Careful, Inv, op[c].stage \in {"checked", "retry"},
           NEW otherwise \in {"collided", "refused"}, CreateExclusive(c, otherwise),
           UNCHANGED <<tab, gitVars, taskFiles, history>>
    PROVE  Inv'
<1>1. CASE FileOf(c) = None
  <2>1. Moves(c, "reserved") /\ Undisturbed(NameOf(c))
        /\ file' = [file EXCEPT ![NameOf(c)] = Reservation(c)]
    BY <1>1, GoMoves DEF CreateExclusive, Inv, Stage
  <2>2. QED
    BY <1>1, <2>1, NameIsTaken
<1>2. CASE FileOf(c) # None
  <2>1. Moves(c, otherwise) /\ file' = file
    BY <1>2, GoMoves DEF CreateExclusive, Inv, Stage
  <2>2. QED
    BY <2>1, ApplicantMoves
<1>3. QED
  BY <1>1, <1>2

\* A name is lost to a file that was made and not written.
LEMMA CreationBreaksOffStep ==
    ASSUME NEW c \in Call, Careful, Inv, CreationBreaksOff(c) PROVE Inv'
<1> DEFINE entry == [Reservation(c) EXCEPT !.torn = TRUE]
<1>1. /\ op[c].stage \in {"checked", "retry"} /\ FileOf(c) = None
      /\ Moves(c, "failed") /\ UNCHANGED <<tab, gitVars, taskFiles>>
      /\ \A d \in Call : op[d].stage \in Visiting => NameOf(d) # NameOf(c)
  BY GoMoves DEF CreationBreaksOff, Inv, Stage, Careful, Undisturbed
<1>2. /\ entry \in File /\ entry # None /\ entry.torn /\ ~entry.stale /\ entry.made = "reserve"
      /\ entry.by = c /\ entry.owner = c /\ entry.phase = "reserved"
  BY ReservationType DEF Reservation, File
<1>3. file' = [file EXCEPT ![NameOf(c)] = entry] /\ NameOf(c) \in Name
  BY <1>1 DEF CreationBreaksOff, Inv, CallsHaveNames, At
<1> HIDE DEF entry
<1>4. /\ stuck' \in [Call -> SUBSET Trace] /\ worked' = worked
      /\ \A d \in Call : stuck'[d] = IF d = c THEN stuck[d] \cup {"entry"} ELSE stuck[d]
  <2>1. {"entry"} \in SUBSET Trace /\ TypeOK
    BY DEF Trace, Inv
  <2>2. QED
    BY <2>1, StuckGrows DEF CreationBreaksOff
<1>5. /\ tab[c] = "none" /\ tree[c] = NoTree /\ c \notin taskFiles /\ c \notin worked
      /\ \A n \in Name : file[n] # None => file[n].owner # c
  BY <1>1 DEF Inv, TypeOK, FailuresAreCleaned, WorkIsAccounted, FilesAreOwned, At
<1>6. /\ \A n \in Name : file'[n] = (IF n = NameOf(c) THEN entry ELSE file[n])
      /\ file' \in [Name -> File \cup {None}]
  <2>1. file \in [Name -> File \cup {None}]
    BY DEF Inv, TypeOK
  <2>2. QED
    BY <1>2, <1>3, <2>1
<1>7. TypeOK'
  BY <1>1, <1>6, <1>4 DEF Inv, TypeOK, Moves, At, gitVars
<1>8. HoldersAreRegistered'
  BY <1>1, <1>2, <1>3, <1>5, <1>6 DEF Inv, TypeOK, CallsHaveNames, HoldersAreRegistered, Moves, Holds, At, NameOf, FileOf
<1>9. FilesAreOwned'
  BY <1>1, <1>2, <1>3, <1>5, <1>6 DEF Inv, TypeOK, FilesAreOwned, Moves, At, NameOf, File
<1>10. CallsHaveNames'
  BY <1>1 DEF Inv, CallsHaveNames, Moves, At, NameOf
<1>11. VisitsAreCurrent'
  BY <1>1, <1>2, <1>3, <1>6 DEF Inv, VisitsAreCurrent, SawEntry, CallsHaveNames, Moves, At, NameOf, FileOf, Target, File
<1>12. TakeoversAreSafe'
  BY <1>1, <1>2, <1>3, <1>6 DEF Inv, TakeoversAreSafe, CallsHaveNames, Moves, At, NameOf, FileOf
<1>13. WorkIsAccounted'
  BY <1>1, <1>4 DEF Inv, TypeOK, WorkIsAccounted, Moves, At, InWorktree, SavedOnBranch, gitVars
<1>14. RemovalIsWarranted'
  BY <1>1 DEF Inv, RemovalIsWarranted, Moves, At, Target, SavedOnBranch, gitVars
<1>15. FailuresAreCleaned'
  BY <1>1, <1>2, <1>3, <1>4, <1>5, <1>6 DEF Inv, FailuresAreCleaned, Moves, At, OwnerOf, gitVars
<1>16. QED
  BY <1>7, <1>8, <1>9, <1>10, <1>11, <1>12, <1>13, <1>14, <1>15 DEF Inv

LEMMA CreateEntryStep == ASSUME NEW c \in Call, Careful, Inv, CreateEntry(c) PROVE Inv'
  BY CreateExclusiveStep DEF CreateEntry, At

LEMMA RetryCreateStep == ASSUME NEW c \in Call, Careful, Inv, RetryCreate(c) PROVE Inv'
  BY CreateExclusiveStep DEF RetryCreate, At

LEMMA ReadExistingStep ==
    ASSUME NEW c \in Call, Careful, Inv, ReadExisting(c) PROVE Inv'
<1>1. At(c, "collided") /\ UNCHANGED <<file, tab, gitVars, taskFiles, history>>
  BY DEF ReadExisting
<1>2. CASE StaleReservation(FileOf(c))
  <2>1. /\ \A d \in Call \ {c} :
               op[d].stage \in {"takeover", "retry"} => NameOf(d) # NameOf(c)
        /\ Moves(c, "takeover")
    BY <1>2, GoMoves DEF ReadExisting, Careful, Inv, Stage
  <2>2. QED
    BY <1>1, <1>2, <2>1, TakeoverStarts DEF StaleReservation, Decodes
<1>3. CASE ~StaleReservation(FileOf(c))
  <2>1. Moves(c, "refused")
    BY <1>3, GoMoves DEF ReadExisting, Inv, Stage
  <2>2. QED
    BY <1>1, <2>1, ApplicantMoves DEF At
<1>4. QED
  BY <1>2, <1>3

LEMMA TakeOverStep == ASSUME NEW c \in Call, Inv, TakeOver(c) PROVE Inv'
<1>1. /\ At(c, "takeover") /\ Moves(c, "retry") /\ "retry" \in Stage
      /\ file' = [file EXCEPT ![NameOf(c)] = None]
      /\ UNCHANGED <<tab, gitVars, taskFiles, history>>
  BY GoMoves DEF TakeOver, Inv, Stage
<1>2. QED
  BY <1>1, NameIsFreed DEF At

LEMMA SpawnFailsStep == ASSUME NEW c \in Call, Inv, SpawnFails(c) PROVE Inv'
<1>1. /\ op[c].stage \in Acquired /\ Moves(c, "failing")
      /\ taskFiles' \subseteq taskFiles \cup {c}
      /\ UNCHANGED <<file, tab, gitVars, history>>
  BY GoMoves DEF SpawnFails, Inv, Stage
<1>2. QED
  BY <1>1, OwnerStops

\* The entry of a spawn that failed stays where it is.
LEMMA EntryIsLeft ==
    ASSUME Inv, NEW c \in Call, At(c, "removedTree"), Moves(c, "failed"), Stuck(c, {"entry"}),
           UNCHANGED <<file, tab, gitVars, taskFiles>>
    PROVE  Inv'
<1>1. /\ stuck' \in [Call -> SUBSET Trace] /\ worked' = worked
      /\ \A d \in Call : stuck'[d] = IF d = c THEN stuck[d] \cup {"entry"} ELSE stuck[d]
  <2>1. {"entry"} \in SUBSET Trace /\ TypeOK
    BY DEF Trace, Inv
  <2>2. QED
    BY <2>1, StuckGrows
<1>2. TypeOK'
  BY <1>1 DEF Inv, TypeOK, Moves, At, gitVars
<1>3. HoldersAreRegistered'
  BY DEF Inv, TypeOK, HoldersAreRegistered, Moves, Holds, At, NameOf, FileOf
<1>4. FilesAreOwned'
  <2>1. \A n \in Name : file[n] # None => file[n] \in File
    BY DEF Inv, TypeOK
  <2>2. \A d \in Call : op'[d].name = op[d].name /\ (d # c => op'[d].stage = op[d].stage)
    BY DEF Moves
  <2>3. op[c].stage = "removedTree" /\ op'[c].stage = "failed"
    BY DEF Moves, At
  <2>4. QED
    BY <2>1, <2>2, <2>3 DEF Inv, FilesAreOwned, At, NameOf, File
<1>5. CallsHaveNames'
  BY DEF Inv, CallsHaveNames, Moves, At, NameOf
<1>6. VisitsAreCurrent'
  BY DEF Inv, VisitsAreCurrent, SawEntry, Moves, At, NameOf, FileOf, Target, File
<1>7. TakeoversAreSafe'
  BY DEF Inv, TakeoversAreSafe, Moves, At, NameOf, FileOf
<1>8. WorkIsAccounted'
  BY <1>1 DEF Inv, TypeOK, WorkIsAccounted, Moves, At, InWorktree, SavedOnBranch, gitVars
<1>9. RemovalIsWarranted'
  BY DEF Inv, RemovalIsWarranted, Moves, At, Target, SavedOnBranch, gitVars
<1>10. FailuresAreCleaned'
  BY <1>1 DEF Inv, FailuresAreCleaned, Moves, At, OwnerOf, gitVars
<1>11. QED
  BY <1>2, <1>3, <1>4, <1>5, <1>6, <1>7, <1>8, <1>9, <1>10 DEF Inv

LEMMA RemoveFailedEntryStep == ASSUME NEW c \in Call, Inv, RemoveFailedEntry(c) PROVE Inv'
<1>1. /\ At(c, "removedTree") /\ Moves(c, "failed") /\ "failed" \in Stage
      /\ UNCHANGED <<tab, gitVars, taskFiles>>
  BY GoMoves DEF RemoveFailedEntry, Inv, Stage
<1>2. CASE file' = [file EXCEPT ![NameOf(c)] = None] /\ Stuck(c, {})
  <2>1. UNCHANGED history
    BY <1>2 DEF Inv, TypeOK, Stuck, history
  <2>2. QED
    BY <1>1, <1>2, <2>1, NameIsFreed DEF At
<1>3. CASE UNCHANGED file /\ Stuck(c, {"entry"})
  BY <1>1, <1>3, EntryIsLeft
<1>4. QED
  BY <1>2, <1>3 DEF RemoveFailedEntry

LEMMA CloseTabStep == ASSUME NEW c \in Call, Inv, CloseTab(c) PROVE Inv'
<1>1. At(c, "closing") /\ UNCHANGED <<file, gitVars, taskFiles, history>>
  BY DEF CloseTab
<1>2. CASE tab' = [tab EXCEPT ![Target(c)] = "closed"] /\ Go(c, "closed")
  <2>1. Moves(c, "closed")
    BY <1>2, GoMoves DEF Inv, Stage
  <2>2. QED
    BY <1>1, <1>2, <2>1, TabIsClosed
<1>3. CASE Go(c, "refused") /\ UNCHANGED tab
  <2>1. Moves(c, "refused")
    BY <1>3, GoMoves DEF Inv, Stage
  <2>2. QED
    BY <1>1, <1>3, <2>1, VisitorMoves DEF At
<1>4. QED
  BY <1>2, <1>3 DEF CloseTab

LEMMA GitFailsStep == ASSUME NEW c \in Call, Inv, GitFails(c) PROVE Inv'
<1>1. /\ op[c].stage \in {"closed", "dirty", "ahead"} /\ Moves(c, "cleaned")
      /\ UNCHANGED <<file, tab, gitVars, taskFiles, history>>
  BY GoMoves DEF GitFails, Inv, Stage
<1>2. QED
  BY <1>1, VisitorMoves

LEMMA CheckWorktreeStep == ASSUME NEW c \in Call, Inv, CheckWorktree(c) PROVE Inv'
<1> DEFINE s == AfterStatus(tree[Target(c)])
<1>1. /\ s \in {"dirty", "ahead", "branched"}
      /\ s \in {"ahead", "branched"} => ~tree[Target(c)].dirty
      /\ s = "branched" => ~tree[Target(c)].ahead
  BY DEF AfterStatus
<1>2. /\ At(c, "closed") /\ Go(c, s)
      /\ UNCHANGED <<file, tab, gitVars, taskFiles, history>>
  BY DEF CheckWorktree
<1> HIDE DEF s
<1>3. Moves(c, s)
  BY <1>1, <1>2, GoMoves DEF Inv, Stage
<1>4. QED
  BY <1>1, <1>2, <1>3, VisitorMoves DEF At

LEMMA CommitWorkStep == ASSUME NEW c \in Call, Inv, CommitWork(c) PROVE Inv'
<1>1. At(c, "dirty") /\ UNCHANGED <<file, tab, branch, suffixed, taskFiles, history>>
  BY DEF CommitWork
<1>2. CASE tree[Target(c)].dirty
  <2>1. Target(c) \in Call
    BY <1>1 DEF Inv, VisitsAreCurrent, SawEntry, Target, At, File
  <2>2. Moves(c, "ahead")
    BY <1>2, GoMoves DEF CommitWork, Inv, Stage
  <2>3. /\ tree' \in [Call -> Tree]
        /\ tree'[Target(c)] = [disk |-> tree[Target(c)].disk, dirty |-> FALSE, ahead |-> TRUE]
        /\ \A d \in Call : d # Target(c) => tree'[d] = tree[d]
    BY <1>2, <2>1, TreeIsCommitted DEF CommitWork, Inv, TypeOK
  <2>4. QED
    BY <1>1, <1>2, <2>1, <2>2, <2>3, WorkIsCommitted
<1>3. CASE ~tree[Target(c)].dirty
  <2>1. Moves(c, "cleaned") /\ tree' = tree
    BY <1>3, GoMoves DEF CommitWork, Inv, Stage
  <2>2. QED
    BY <1>1, <2>1, VisitorMoves DEF At, gitVars, history
<1>4. QED
  BY <1>2, <1>3

LEMMA RemoveWorktreeStep == ASSUME NEW c \in Call, Inv, RemoveWorktree(c) PROVE Inv'
<1>1. /\ At(c, "branched") /\ Moves(c, "cleaned")
      /\ UNCHANGED <<file, tab, branch, suffixed, taskFiles, history>>
  BY GoMoves DEF RemoveWorktree, Inv, Stage
<1>2. CASE tree' = [tree EXCEPT ![Target(c)] = NoTree]
  BY <1>1, <1>2, TreeIsRemoved
<1>3. CASE tree' = tree
  BY <1>1, <1>3, VisitorMoves DEF At, gitVars, history
<1>4. QED
  BY <1>2, <1>3 DEF RemoveWorktree

LEMMA RemoveEntryStep == ASSUME NEW c \in Call, Inv, RemoveEntry(c) PROVE Inv'
<1>1. /\ At(c, "cleaned") /\ Moves(c, "done") /\ "done" \in Stage
      /\ file' = [file EXCEPT ![NameOf(c)] = None] /\ taskFiles' \subseteq taskFiles
      /\ UNCHANGED <<tab, gitVars, history>>
  BY GoMoves DEF RemoveEntry, Inv, Stage
<1>2. QED
  BY <1>1, NameIsFreed DEF At

\* A call that was cut short leaves its name as it is: expired or not, a
\* reservation of a crashed spawn is still its own.
LEMMA CrashStep == ASSUME NEW c \in Call, Careful, Inv, Crash(c) PROVE Inv'
<1>1. /\ UNCHANGED <<file, tab, gitVars, taskFiles, history>>
      /\ ~At(c, "hintTorn") /\ op[c].stage \notin {"idle"} \cup Over
      /\ op[c].stage \in Stage
  BY DEF Crash, Careful, Inv, TypeOK, Op
<1>2. CASE op[c].stage \in Owning
  <2>1. Moves(c, "crashed")
    BY <1>2, GoMoves DEF Crash, Inv, Stage
  <2>2. QED
    BY <1>1, <1>2, <2>1, OwnerStops
<1>3. CASE op[c].stage \notin Owning
  <2>1. Moves(c, "refused")
    BY <1>3, GoMoves DEF Crash, Inv, Stage
  <2>2. op[c].stage \in Acquiring \/ op[c].stage \in Visiting
    BY <1>1, <1>3 DEF Stage
  <2>3. QED
    BY <1>1, <2>1, <2>2, ApplicantMoves, VisitorMoves
<1>4. QED
  BY <1>2, <1>3

-----------------------------------------------------------------------------
(* The invariant                                                           *)

LEMMA InitInv == Init => Inv
<1>1. Init => TypeOK
  BY DEF Init, TypeOK, Op, Stage, NoTree
<1>2. Init => HoldersAreRegistered /\ FilesAreOwned /\ CallsHaveNames /\ VisitsAreCurrent
              /\ TakeoversAreSafe /\ WorkIsAccounted /\ RemovalIsWarranted
              /\ FailuresAreCleaned
  BY DEF Init, HoldersAreRegistered, Holds, FilesAreOwned, CallsHaveNames, VisitsAreCurrent,
     TakeoversAreSafe, WorkIsAccounted, RemovalIsWarranted, FailuresAreCleaned, At
<1>3. QED
  BY <1>1, <1>2 DEF Inv

LEMMA NextInv == ASSUME Careful, Inv, [Next]_vars PROVE Inv'
<1>1. ASSUME NEW c \in Call, Step(c) PROVE Inv'
  BY <1>1, DeclineSpawnStep, CreateEntryStep, CreationBreaksOffStep, ReadExistingStep, TakeOverStep,
     RetryCreateStep, MakeWorktreeStep, OpenTabStep, LaunchAgentStep, FinalizeEntryStep,
     SpawnFailsStep, CloseFailedTabStep, RemoveFailedTreeStep, RemoveFailedEntryStep,
     OpenForHintStep, TruncateStep, WriteHintStep, CloseTabStep, GitFailsStep,
     CheckWorktreeStep, CommitWorkStep, CreateBranchStep, RemoveWorktreeStep,
     RemoveEntryStep, AgentWorksStep, TabGoesStep, CrashStep DEF Step
<1>2. ASSUME NEW c \in Call, NEW n \in Name,
             StartSpawn(c, n) \/ ReadForHint(c, n) \/ StartClose(c, n)
      PROVE  Inv'
  BY <1>2, StartSpawnStep, ReadForHintStep, StartCloseStep
<1>3. ASSUME NEW n \in Name, Expire(n) PROVE Inv'
  BY <1>3, ExpireStep
<1>4. CASE UNCHANGED vars
  BY <1>4 DEF vars, gitVars, history, Inv, TypeOK, HoldersAreRegistered, Holds, FilesAreOwned,
     CallsHaveNames, VisitsAreCurrent, SawEntry, TakeoversAreSafe, WorkIsAccounted,
     RemovalIsWarranted, FailuresAreCleaned, At, NameOf, FileOf, Target, OwnerOf,
     InWorktree, SavedOnBranch
<1>5. QED
  BY <1>1, <1>2, <1>3, <1>4 DEF Next

LEMMA Invariance == ASSUME Careful PROVE Spec => []Inv
  BY InitInv, NextInv, PTL DEF Spec

-----------------------------------------------------------------------------
(* What the registry promises                                              *)

\* Every variable of the registry keeps its type, and only a spawn that got
\* its name ever has a tab or a worktree.
THEOREM RegistryTypes == ASSUME Careful PROVE Spec => []TypeOK
<1>1. Inv => TypeOK
  BY DEF Inv
<1>2. QED
  BY <1>1, Invariance, PTL

\* Any number of sessions spawn, refresh and close under the same names:
\* whoever holds a name is the one registered for it (store.ts reserveEntry,
\* actions.ts commandSpawn and commandClose).
THEOREM NamesAreHeldByOne == ASSUME Careful PROVE Spec => []HoldersAreRegistered
<1>1. Inv => HoldersAreRegistered
  BY DEF Inv
<1>2. QED
  BY <1>1, Invariance, PTL

\* No work of a subagent that was spawned successfully is lost, whichever git
\* step fails and however many calls close it (worktree.ts cleanupWorktree).
THEOREM NoWorkIsLost == ASSUME Careful PROVE Spec => []WorkIsPreserved
<1>1. Inv => WorkIsPreserved
  BY DEF Inv, WorkIsAccounted, WorkIsPreserved, At
<1>2. QED
  BY <1>1, Invariance, PTL

\* Of whatever a spawn that failed had made, only that is left which its own
\* step could not remove (actions.ts cleanupFailedSpawn).
THEOREM FailuresLeaveNothing == ASSUME Careful PROVE Spec => []NothingLeftBehind
<1>1. Inv => NothingLeftBehind
  BY DEF Inv, FailuresAreCleaned, NothingLeftBehind, At
<1>2. QED
  BY <1>1, Invariance, PTL

-----------------------------------------------------------------------------
(* The registry implements the ownership of names                          *)

Owners == [n \in Name |-> OwnerOf(n)]
NamedStages == Acquired \cup Failing \cup {"active", "failed", "crashed"}
Gone == {c \in Call : op[c].stage \in NamedStages /\ \A n \in Name : Owners[n] # c}

Passes(n) ==
    \/ /\ Owners[n] # None
       /\ Owners' = [Owners EXCEPT ![n] = None] /\ Gone' = Gone \cup {Owners[n]}
    \/ \E c \in Call :
          /\ Owners[n] = None /\ c \notin Gone /\ \A m \in Name : Owners[m] # c
          /\ Owners' = [Owners EXCEPT ![n] = c] /\ Gone' = Gone
NamesMayPass == (\E n \in Name : Passes(n)) \/ (Owners' = Owners /\ Gone' = Gone)

LEMMA OwnersStay ==
    ASSUME Inv, NEW c \in Call, NEW s \in Stage, Moves(c, s),
           s \in NamedStages <=> op[c].stage \in NamedStages,
           \A n \in Name : OwnerOf(n)' = OwnerOf(n)
    PROVE  NamesMayPass
<1>1. Owners' = Owners
  BY DEF Owners
<1>2. \A d \in Call : op'[d].stage \in NamedStages <=> op[d].stage \in NamedStages
  BY DEF Moves
<1>3. Gone' = Gone
  BY <1>1, <1>2 DEF Gone
<1>4. QED
  BY <1>1, <1>3 DEF NamesMayPass

\* A call moves on and touches no file.
LEMMA FilesStay ==
    ASSUME Inv, NEW c \in Call, NEW s \in Stage, Go(c, s), file' = file,
           s \in NamedStages <=> op[c].stage \in NamedStages
    PROVE  NamesMayPass
<1>1. Moves(c, s)
  BY GoMoves DEF Inv
<1>2. \A n \in Name : OwnerOf(n)' = OwnerOf(n)
  BY DEF OwnerOf
<1>3. QED
  BY <1>1, <1>2, OwnersStay

LEMMA FileIsMade ==
    ASSUME Inv, NEW c \in Call, op[c].stage \in {"checked", "retry"}, FileOf(c) = None,
           NEW entry \in File, entry.owner = c, NEW s \in {"reserved", "failed"},
           file' = [file EXCEPT ![NameOf(c)] = entry], Moves(c, s)
    PROVE  NamesMayPass
<1>1. NameOf(c) \in Name /\ file \in [Name -> File \cup {None}]
  BY DEF Inv, TypeOK, CallsHaveNames, At
<1>2. Owners[NameOf(c)] = None /\ c \notin Gone
  BY <1>1 DEF Owners, OwnerOf, FileOf, Gone, NamedStages
<1>3. \A m \in Name : Owners[m] # c
  BY <1>1 DEF Owners, OwnerOf, Inv, FilesAreOwned, At
<1>4. \A n \in Name : file'[n] = IF n = NameOf(c) THEN entry ELSE file[n]
  BY <1>1
<1>5. \A n \in Name : Owners'[n] = IF n = NameOf(c) THEN c ELSE Owners[n]
  BY <1>1, <1>4 DEF Owners, OwnerOf
<1>6. Owners' = [Owners EXCEPT ![NameOf(c)] = c]
  BY <1>5 DEF Owners
<1>7. \A d \in Call : d \in Gone' <=> d \in Gone
  BY <1>1, <1>2, <1>5 DEF Gone, Moves, NamedStages
<1>8. Gone' = Gone
  BY <1>7 DEF Gone
<1>9. Passes(NameOf(c))
  BY <1>2, <1>3, <1>6, <1>8 DEF Passes
<1>10. QED
  BY <1>1, <1>9 DEF NamesMayPass

LEMMA FileIsRemoved ==
    ASSUME Inv, NEW c \in Call, NEW s \in Stage, Moves(c, s), ~At(c, "idle"),
           file' = [file EXCEPT ![NameOf(c)] = None],
           s \in NamedStages <=> op[c].stage \in NamedStages
    PROVE  NamesMayPass
<1>1. NameOf(c) \in Name /\ file \in [Name -> File \cup {None}]
  BY DEF Inv, TypeOK, CallsHaveNames
<1>2. \A n \in Name : file'[n] = IF n = NameOf(c) THEN None ELSE file[n]
  BY <1>1
<1>3. CASE FileOf(c) = None
  <2>1. \A n \in Name : OwnerOf(n)' = OwnerOf(n)
    BY <1>2, <1>3 DEF OwnerOf, FileOf
  <2>2. QED
    BY <2>1, OwnersStay
<1>4. CASE FileOf(c) # None
  <2> DEFINE o == FileOf(c).owner
  <2>1. o \in Call /\ NameOf(o) = NameOf(c) /\ op[o].stage \in NamedStages
    BY <1>1, <1>4 DEF Inv, FilesAreOwned, FileOf, File, At, NamedStages
  <2>2. Owners[NameOf(c)] = o /\ o # None
    BY <1>1, <1>4, <2>1 DEF Owners, OwnerOf, FileOf
  <2>3. \A n \in Name : n # NameOf(c) => Owners[n] # o
    BY <1>1, <2>1 DEF Owners, OwnerOf, Inv, FilesAreOwned
  <2>4. \A n \in Name : Owners'[n] = IF n = NameOf(c) THEN None ELSE Owners[n]
    BY <1>1, <1>2 DEF Owners, OwnerOf
  <2>5. Owners' = [Owners EXCEPT ![NameOf(c)] = None]
    BY <2>4 DEF Owners
  <2> HIDE DEF o
  <2>6. \A d \in Call : op'[d].stage \in NamedStages <=> op[d].stage \in NamedStages
    BY DEF Moves
  <2>7. \A d \in Call : d \in Gone' <=> d \in Gone \/ d = o
    BY <1>1, <2>1, <2>2, <2>3, <2>4, <2>6 DEF Gone
  <2>8. Gone' = Gone \cup {Owners[NameOf(c)]}
    BY <2>1, <2>2, <2>7 DEF Gone
  <2>9. Passes(NameOf(c))
    BY <2>2, <2>5, <2>8 DEF Passes
  <2>10. QED
    BY <1>1, <2>9 DEF NamesMayPass
<1>5. QED
  BY <1>3, <1>4

LEMMA CreationPasses ==
    ASSUME Inv, NEW c \in Call, op[c].stage \in {"checked", "retry"},
           NEW otherwise \in {"collided", "refused"}, CreateExclusive(c, otherwise)
    PROVE  NamesMayPass
<1>1. CASE FileOf(c) = None
  <2>1. Moves(c, "reserved") /\ file' = [file EXCEPT ![NameOf(c)] = Reservation(c)]
    BY <1>1, GoMoves DEF CreateExclusive, Inv, Stage
  <2>2. Reservation(c) \in File /\ Reservation(c).owner = c
    BY ReservationType DEF Reservation
  <2>3. QED
    BY <1>1, <2>1, <2>2, FileIsMade
<1>2. CASE FileOf(c) # None
  BY <1>2, FilesStay DEF CreateExclusive, Stage, NamedStages
<1>3. QED
  BY <1>1, <1>2

LEMMA BrokenCreationPasses == ASSUME NEW c \in Call, Inv, CreationBreaksOff(c) PROVE NamesMayPass
<1> DEFINE entry == [Reservation(c) EXCEPT !.torn = TRUE]
<1>1. entry \in File /\ entry.owner = c
  BY ReservationType DEF Reservation, File
<1>2. file' = [file EXCEPT ![NameOf(c)] = entry]
  BY Zenon DEF CreationBreaksOff
<1> HIDE DEF entry
<1>3. Moves(c, "failed") /\ op[c].stage \in {"checked", "retry"} /\ FileOf(c) = None
  BY GoMoves DEF CreationBreaksOff, Inv, Stage
<1>4. QED
  BY <1>1, <1>2, <1>3, FileIsMade

LEMMA FinalizingPasses == ASSUME NEW c \in Call, Inv, FinalizeEntry(c) PROVE NamesMayPass
<1>1. At(c, "launched") /\ Moves(c, "active")
  BY GoMoves DEF FinalizeEntry, Inv, Stage
<1> DEFINE entry == [Reservation(c) EXCEPT !.made = "finalize", !.phase = "active"]
<1>2. entry \in File /\ entry.owner = c
  BY DEF Reservation, File
<1>3. file' = [file EXCEPT ![NameOf(c)] = entry]
  BY Zenon DEF FinalizeEntry
<1> HIDE DEF entry
<1>4. FileOf(c) # None /\ FileOf(c).owner = c /\ NameOf(c) \in Name
  BY <1>1 DEF Inv, HoldersAreRegistered, CallsHaveNames, Holds, At
<1>5. \A n \in Name : OwnerOf(n)' = OwnerOf(n)
  BY <1>2, <1>3, <1>4 DEF Inv, TypeOK, OwnerOf, FileOf
<1>6. QED
  BY <1>1, <1>5, OwnersStay DEF At, Stage, NamedStages

LEMMA HintPasses ==
    ASSUME Inv, NEW c \in Call, Truncate(c) \/ WriteHint(c)
    PROVE  NamesMayPass
<1> DEFINE s == IF At(c, "hintOpen") THEN "hintTorn" ELSE "done"
<1>1. Moves(c, s) /\ op[c].stage \in Hinting /\ NameOf(c) \in Name
  BY GoMoves DEF Truncate, WriteHint, Inv, Stage, At, CallsHaveNames
<1>2. CASE ~IsOpened(c)
  <2>1. \A n \in Name : OwnerOf(n)' = OwnerOf(n)
    BY <1>2 DEF Truncate, WriteHint, OwnerOf
  <2>2. QED
    BY <1>1, <2>1, OwnersStay DEF Stage, NamedStages
<1>3. CASE IsOpened(c)
  <2>1. FileOf(c) \in File /\ SawEntry(c) /\ FileOf(c).owner = op[c].seen.owner
    BY <1>1, <1>3 DEF Inv, TypeOK, VisitsAreCurrent, IsOpened, FileOf
  <2> DEFINE entry == IF At(c, "hintOpen") THEN [FileOf(c) EXCEPT !.torn = TRUE]
                      ELSE op[c].seen
  <2>2. entry \in File /\ entry.owner = FileOf(c).owner
    BY <2>1 DEF SawEntry, File
  <2>3. file'[NameOf(c)] = entry /\ \A n \in Name : n # NameOf(c) => file'[n] = file[n]
    BY <1>1, <1>3 DEF Truncate, WriteHint, Inv, TypeOK, At, FileOf
  <2> HIDE DEF entry
  <2>4. \A n \in Name : OwnerOf(n)' = OwnerOf(n)
    BY <1>1, <1>3, <2>2, <2>3 DEF OwnerOf, FileOf, IsOpened
  <2>5. QED
    BY <1>1, <2>4, OwnersStay DEF Stage, NamedStages
<1>4. QED
  BY <1>2, <1>3

\* The steps of a call that touch no file.
QuietStep(c) ==
    \/ DeclineSpawn(c) \/ ReadExisting(c) \/ MakeWorktree(c) \/ OpenTab(c) \/ LaunchAgent(c)
    \/ SpawnFails(c) \/ CloseFailedTab(c) \/ RemoveFailedTree(c) \/ OpenForHint(c)
    \/ CloseTab(c) \/ GitFails(c) \/ CheckWorktree(c) \/ CommitWork(c) \/ CreateBranch(c)
    \/ RemoveWorktree(c) \/ Crash(c)

LEMMA QuietStepPasses == ASSUME NEW c \in Call, Inv, QuietStep(c) PROVE NamesMayPass
<1>1. CASE DeclineSpawn(c)
  BY <1>1, FilesStay DEF DeclineSpawn, At, Stage, NamedStages
<1>2. CASE ReadExisting(c)
  BY <1>2, FilesStay DEF ReadExisting, At, Stage, NamedStages
<1>3. CASE MakeWorktree(c)
  BY <1>3, FilesStay DEF MakeWorktree, At, Stage, NamedStages
<1>4. CASE OpenTab(c)
  BY <1>4, FilesStay DEF OpenTab, At, Stage, NamedStages
<1>5. CASE LaunchAgent(c)
  BY <1>5, FilesStay DEF LaunchAgent, At, Stage, NamedStages
<1>6. CASE SpawnFails(c)
  BY <1>6, FilesStay DEF SpawnFails, Stage, NamedStages
<1>7. CASE CloseFailedTab(c)
  BY <1>7, FilesStay DEF CloseFailedTab, At, Stage, NamedStages
<1>8. CASE RemoveFailedTree(c)
  BY <1>8, FilesStay DEF RemoveFailedTree, At, Stage, NamedStages
<1>9. CASE OpenForHint(c)
  <2>1. \A d \in Call : op'[d].stage \in NamedStages <=> op[d].stage \in NamedStages
    BY <1>9 DEF OpenForHint, Go, At, Inv, TypeOK, Op, NamedStages
  <2>2. Owners' = Owners
    BY <1>9 DEF OpenForHint, Owners, OwnerOf
  <2>3. QED
    BY <2>1, <2>2 DEF NamesMayPass, Gone
<1>10. CASE CloseTab(c)
  BY <1>10, FilesStay DEF CloseTab, At, Stage, NamedStages
<1>11. CASE GitFails(c)
  BY <1>11, FilesStay DEF GitFails, Stage, NamedStages
<1>12. CASE CheckWorktree(c)
  BY <1>12, FilesStay DEF CheckWorktree, AfterStatus, At, Stage, NamedStages
<1>13. CASE CommitWork(c)
  <2>1. At(c, "dirty") /\ file' = file /\ (Go(c, "ahead") \/ Go(c, "cleaned"))
    BY <1>13 DEF CommitWork
  <2>2. QED
    BY <2>1, FilesStay DEF At, Stage, NamedStages
<1>14. CASE CreateBranch(c)
  BY <1>14, FilesStay DEF CreateBranch, At, Stage, NamedStages
<1>15. CASE RemoveWorktree(c)
  BY <1>15, FilesStay DEF RemoveWorktree, At, Stage, NamedStages
<1>16. CASE Crash(c)
  <2>1. op[c].stage \in Stage
    BY DEF Inv, TypeOK, Op
  <2>2. QED
    BY <1>16, <2>1, FilesStay DEF Crash, Stage, NamedStages, Over
<1>17. QED
  BY <1>1, <1>2, <1>3, <1>4, <1>5, <1>6, <1>7, <1>8, <1>9, <1>10, <1>11, <1>12, <1>13,
     <1>14, <1>15, <1>16 DEF QuietStep

LEMMA StepPasses == ASSUME NEW c \in Call, Careful, Inv, Step(c) PROVE NamesMayPass
<1>1. CASE QuietStep(c)
  BY <1>1, QuietStepPasses
<1>2. CASE CreateEntry(c) \/ RetryCreate(c)
  BY <1>2, CreationPasses DEF CreateEntry, RetryCreate, At
<1>3. CASE FinalizeEntry(c)
  BY <1>3, FinalizingPasses
<1>4. CASE Truncate(c) \/ WriteHint(c)
  BY <1>4, HintPasses
<1>5. CASE TakeOver(c)
  <2>1. /\ At(c, "takeover") /\ Moves(c, "retry")
        /\ file' = [file EXCEPT ![NameOf(c)] = None]
    BY <1>5, GoMoves DEF TakeOver, Inv, Stage
  <2>2. QED
    BY <2>1, FileIsRemoved DEF At, Stage, NamedStages
<1>6. CASE RemoveFailedEntry(c)
  <2>1. At(c, "removedTree") /\ Go(c, "failed") /\ Moves(c, "failed")
    BY <1>6, GoMoves DEF RemoveFailedEntry, Inv, Stage
  <2>2. CASE file' = [file EXCEPT ![NameOf(c)] = None]
    BY <2>1, <2>2, FileIsRemoved DEF At, Stage, NamedStages
  <2>3. CASE UNCHANGED file
    BY <2>1, <2>3, FilesStay DEF At, Stage, NamedStages
  <2>4. QED
    BY <1>6, <2>2, <2>3 DEF RemoveFailedEntry
<1>7. CASE RemoveEntry(c)
  <2>1. /\ At(c, "cleaned") /\ Moves(c, "done")
        /\ file' = [file EXCEPT ![NameOf(c)] = None]
    BY <1>7, GoMoves DEF RemoveEntry, Inv, Stage
  <2>2. QED
    BY <2>1, FileIsRemoved DEF At, Stage, NamedStages
<1>8. CASE AgentWorks(c) \/ TabGoes(c)
  <2>1. UNCHANGED <<file, op>>
    BY <1>8 DEF AgentWorks, TabGoes
  <2>2. Owners' = Owners
    BY <2>1 DEF Owners, OwnerOf
  <2>3. QED
    BY <2>1, <2>2 DEF NamesMayPass, Gone
<1>9. CASE CreationBreaksOff(c)
  BY <1>9, BrokenCreationPasses
<1>10. QED
  BY <1>1, <1>2, <1>3, <1>4, <1>5, <1>6, <1>7, <1>8, <1>9, Zenon DEF Step, QuietStep

LEMMA StartPasses ==
    ASSUME NEW c \in Call, NEW n \in Name, Inv,
           StartSpawn(c, n) \/ ReadForHint(c, n) \/ StartClose(c, n)
    PROVE  NamesMayPass
<1>1. file' = file /\ op[c].stage = "idle"
      /\ op'[c].stage \in {"checked", "hint", "closing"}
      /\ \A d \in Call : d # c => op'[d] = op[d]
  BY DEF StartSpawn, ReadForHint, StartClose, At, Inv, TypeOK
<1>2. \A d \in Call : op'[d].stage \in NamedStages <=> op[d].stage \in NamedStages
  BY <1>1 DEF NamedStages
<1>3. Owners' = Owners
  BY <1>1 DEF Owners, OwnerOf
<1>4. QED
  BY <1>2, <1>3 DEF NamesMayPass, Gone

LEMMA ExpiryPasses == ASSUME NEW n \in Name, Inv, Expire(n) PROVE NamesMayPass
<1>1. file[n] \in File /\ op' = op
  BY DEF Expire, Inv, TypeOK
<1> DEFINE entry == [file[n] EXCEPT !.stale = TRUE]
<1>2. entry \in File /\ entry.owner = file[n].owner
  BY <1>1 DEF File
<1>3. file' = [file EXCEPT ![n] = entry] /\ file[n] # None
  BY Zenon DEF Expire
<1> HIDE DEF entry
<1>4. Owners' = Owners
  BY <1>2, <1>3 DEF Inv, TypeOK, Owners, OwnerOf
<1>5. QED
  BY <1>1, <1>4 DEF NamesMayPass, Gone

LEMMA NamesPass == ASSUME Careful, Inv, [Next]_vars PROVE NamesMayPass
<1>1. ASSUME NEW c \in Call, Step(c) PROVE NamesMayPass
  BY <1>1, StepPasses
<1>2. ASSUME NEW c \in Call, NEW n \in Name,
             StartSpawn(c, n) \/ ReadForHint(c, n) \/ StartClose(c, n)
      PROVE  NamesMayPass
  BY <1>2, StartPasses
<1>3. ASSUME NEW n \in Name, Expire(n) PROVE NamesMayPass
  BY <1>3, ExpiryPasses
<1>4. CASE UNCHANGED vars
  BY <1>4 DEF vars, NamesMayPass, Gone, Owners, OwnerOf
<1>5. QED
  BY <1>1, <1>2, <1>3, <1>4 DEF Next

\* The registry's files implement the ownership of names, for any number of
\* names and calls: no entry is overwritten by another subagent's and none
\* comes back after its removal (store.ts reserveEntry, updateEntryHints).
THEOREM RegistryOwnsNames == ASSUME Careful PROVE Spec => FollowsOwnership
<1> DEFINE PastOwners == {c \in Call : HadName(c) /\ \A n \in Name : OwnerOf(n) # c}
<1>1. PastOwners = Gone /\ PastOwners' = Gone'
  BY DEF Gone, HadName, At, Owners, NamedStages
<1>2. Init => Ownership!Init
  BY DEF Init, Ownership!Init, OwnerOf, HadName, At
<1>3. ASSUME Inv, [Next]_vars
      PROVE  [Ownership!Next]_(Ownership!vars)
  <2>1. NamesMayPass
    BY <1>3, NamesPass
  <2>2. ASSUME NEW n \in Name, Passes(n) PROVE Ownership!Next
    BY <1>1, <2>2 DEF Passes, Ownership!Next, Ownership!Claim, Ownership!GiveUp, Owners
  <2>3. CASE Owners' = Owners /\ Gone' = Gone
    BY <1>1, <2>3 DEF Ownership!vars, Owners
  <2>4. QED
    BY <2>1, <2>2, <2>3 DEF NamesMayPass
<1>4. QED
  BY <1>2, <1>3, Invariance, PTL DEF Spec, FollowsOwnership, Ownership!Spec

----------------------------------------------------------------------------
(* A wait for a subagent, for any timeout and any time between two polls.  *)

\* A subagent begins before it has been idle for as long as the wait asks; it is
\* not idle within a turn, nor does herdr show an older turn of it.  A poll may
\* find no status.
Prompt ==
    /\ 0 < TimeoutMs /\ StartupMs < Wait!NeverWorkedIdleMs
    /\ WaitFaults \subseteq {"unknown"}

\* What the wait asks is a part of the timeout.
LEMMA ShareOfTimeout ==
    ASSUME Prompt
    PROVE  Wait!NeverWorkedIdleMs \in Nat /\ Wait!NeverWorkedIdleMs <= TimeoutMs
  BY SizesAssumption DEF Wait!NeverWorkedIdleMs

\* A subagent that has not begun was never seen to work.  Of one that had finished
\* before, a wait that goes on knows since when it is idle: since the start, or
\* since the poll after the last one that found no status, or that poll is next.
WaitInv ==
    /\ Wait!WaitTypeOK /\ Wait!WaitIsHonest
    /\ phase \notin {"resent", "paused"}
    /\ wait.now <= wait.next
    /\ wait.firstIdle <= wait.now
    /\ phase = "starting" => wait.now <= StartupMs /\ ~wait.observedWorking
    /\ wait.finishedBefore => phase = "finished"
    /\ wait.finishedBefore /\ wait.outcome = "waiting" =>
           \/ wait.next = 0 /\ wait.unseen = 0
           \/ wait.consecutive >= 1 /\ wait.unseen = 0 /\ wait.firstIdle = 0
           \/ wait.consecutive >= 1 /\ wait.unseen > 0 /\ wait.firstIdle <= wait.unseen + PollMs
           \/ wait.consecutive = 0 /\ wait.unseen > 0 /\ wait.next <= wait.unseen + PollMs

Bounded(x) == x \in Nat /\ x <= TimeoutMs + 1

LEMMA BoundedInRange == ASSUME Prompt, NEW x PROVE Bounded(x) <=> x \in 0..(TimeoutMs + 1)
  BY SizesAssumption DEF Prompt, Bounded

LEMMA WaitInvInit == ASSUME Prompt, Wait!WaitInit PROVE WaitInv
<1>1. TimeoutMs \in Nat /\ StartupMs \in Nat /\ 0 \in 0..(TimeoutMs + 1) /\ 0 \in 0..(TimeoutMs + 2)
  BY SizesAssumption DEF Prompt
<1>2. phase \in {"starting", "working", "finished"} /\ viewed = FALSE
  BY SizesAssumption DEF Prompt, Wait!WaitInit
<1>3. wait = [now |-> 0, next |-> 0, consecutive |-> 0, firstIdle |-> 0, observedWorking |-> FALSE,
              finishedBefore |-> phase = "finished", unseen |-> 0, outcome |-> "waiting"]
  BY DEF Wait!WaitInit
<1>4. wait \in [now : 0..(TimeoutMs + 1), next : 0..(TimeoutMs + 1), consecutive : Nat,
               firstIdle : 0..(TimeoutMs + 1), observedWorking : BOOLEAN, finishedBefore : BOOLEAN,
               unseen : 0..(TimeoutMs + 2), outcome : {"waiting", "done", "idle", "expired"}]
  BY <1>1, <1>3
<1>5. /\ wait.now = 0 /\ wait.next = 0 /\ wait.firstIdle = 0 /\ wait.observedWorking = FALSE
      /\ wait.finishedBefore = (phase = "finished") /\ wait.outcome = "waiting" /\ wait.unseen = 0
  BY <1>3
<1>6. Wait!WaitTypeOK /\ Wait!WaitIsHonest
  BY <1>2, <1>4, <1>5 DEF Wait!WaitTypeOK, Wait!WaitIsHonest
<1>7. wait.now <= wait.next /\ wait.firstIdle <= wait.now /\ wait.now <= StartupMs
  BY <1>1, <1>5
<1>8. QED
  BY <1>2, <1>5, <1>6, <1>7 DEF WaitInv

LEMMA WaitFacts ==
    ASSUME Prompt, WaitInv
    PROVE  /\ Bounded(wait.now) /\ Bounded(wait.next) /\ Bounded(wait.firstIdle)
           /\ wait.consecutive \in Nat /\ wait.unseen \in 0..(TimeoutMs + 2)
           /\ wait.observedWorking \in BOOLEAN /\ wait.finishedBefore \in BOOLEAN
           /\ phase \in {"starting", "working", "blocked", "finished"} /\ viewed \in BOOLEAN
           /\ wait.now <= wait.next /\ wait.firstIdle <= wait.now
           /\ phase = "starting" => wait.now <= StartupMs /\ ~wait.observedWorking
           /\ wait.finishedBefore => phase = "finished"
<1>1. TimeoutMs \in Nat
  BY SizesAssumption DEF Prompt
<1>2. /\ wait.now \in 0..(TimeoutMs + 1) /\ wait.next \in 0..(TimeoutMs + 1)
      /\ wait.firstIdle \in 0..(TimeoutMs + 1)
      /\ wait.consecutive \in Nat /\ wait.unseen \in 0..(TimeoutMs + 2)
      /\ wait.observedWorking \in BOOLEAN /\ wait.finishedBefore \in BOOLEAN
      /\ phase \in {"starting", "working", "blocked", "finished"} /\ viewed \in BOOLEAN
  BY DEF WaitInv, Wait!WaitTypeOK
<1>3. Bounded(wait.now) /\ Bounded(wait.next) /\ Bounded(wait.firstIdle)
  BY <1>1, <1>2 DEF Bounded
<1>4. QED
  BY <1>2, <1>3 DEF WaitInv

LEMMA WaitIsTyped ==
    ASSUME Prompt, WaitInv, NEW w,
           w = [wait EXCEPT !.now = w.now, !.next = w.next, !.consecutive = w.consecutive,
                            !.firstIdle = w.firstIdle, !.observedWorking = w.observedWorking,
                            !.unseen = w.unseen, !.outcome = w.outcome],
           Bounded(w.now), Bounded(w.next), Bounded(w.firstIdle), w.consecutive \in Nat,
           w.observedWorking \in BOOLEAN, w.unseen \in 0..(TimeoutMs + 2), w.outcome \in {"waiting", "done", "idle", "expired"}
    PROVE  w \in [now : 0..(TimeoutMs + 1), next : 0..(TimeoutMs + 1), consecutive : Nat,
                  firstIdle : 0..(TimeoutMs + 1), observedWorking : BOOLEAN, finishedBefore : BOOLEAN,
                  unseen : 0..(TimeoutMs + 2), outcome : {"waiting", "done", "idle", "expired"}]
<1>1. /\ w.now \in 0..(TimeoutMs + 1) /\ w.next \in 0..(TimeoutMs + 1)
      /\ w.firstIdle \in 0..(TimeoutMs + 1)
  BY BoundedInRange
<1>2. QED
  BY <1>1 DEF WaitInv, Wait!WaitTypeOK

LEMMA PollKeepsWait == 
    ASSUME Prompt, WaitInv, NEW status \in Wait!Statuses, Wait!Poll(status)
    PROVE  WaitInv'
<1> DEFINE idle == status = "idle"
           consecutive == IF ~idle THEN 0
                          ELSE IF wait.consecutive < 2 THEN wait.consecutive + 1 ELSE 2
           firstIdle == IF idle /\ wait.consecutive > 0 THEN wait.firstIdle ELSE wait.now
           pause == IF TimeoutMs - wait.now < PollMs THEN TimeoutMs - wait.now ELSE PollMs
           unseen == IF status = "unknown" THEN wait.now + 1 ELSE wait.unseen
           outcome == IF status = "done" THEN "done"
                      ELSE IF idle /\ Wait!Confirmed(consecutive, firstIdle) THEN "idle"
                      ELSE IF wait.now >= TimeoutMs THEN "expired" ELSE "waiting"
<1>0. /\ TimeoutMs \in Nat \ {0} /\ PollMs \in Nat /\ StabilityMs \in Nat /\ StartupMs \in Nat
      /\ Wait!NeverWorkedIdleMs \in Nat /\ StartupMs < Wait!NeverWorkedIdleMs
      /\ Wait!NeverWorkedIdleMs <= TimeoutMs
  BY SizesAssumption, ShareOfTimeout DEF Prompt
<1>1. PICK late \in 0..1 :
        wait' = [wait EXCEPT
            !.consecutive = consecutive, !.firstIdle = firstIdle,
            !.observedWorking = wait.observedWorking \/ status = "working",
            !.unseen = unseen,
            !.next = IF wait.now < TimeoutMs THEN wait.next + pause + late ELSE wait.next,
            !.outcome = outcome]
  BY Zenon DEF Wait!Poll, Wait!Confirmations
<1>2. wait.outcome = "waiting" /\ wait.now = wait.next /\ phase' = phase /\ viewed' = viewed
  BY DEF Wait!Poll
<1>3. /\ wait.now \in Nat /\ wait.next \in Nat /\ wait.firstIdle \in Nat
      /\ wait.now <= TimeoutMs + 1 /\ wait.next <= TimeoutMs + 1
      /\ wait.consecutive \in Nat /\ wait.unseen \in Nat /\ wait.unseen <= TimeoutMs + 2
      /\ wait.observedWorking \in BOOLEAN /\ wait.finishedBefore \in BOOLEAN
      /\ phase \in {"starting", "working", "blocked", "finished"} /\ viewed \in BOOLEAN
      /\ wait.firstIdle <= wait.now
      /\ phase = "starting" => wait.now <= StartupMs /\ ~wait.observedWorking
      /\ wait.finishedBefore => phase = "finished"
  BY <1>0, WaitFacts DEF Bounded
<1>4. /\ phase = "starting" => status \in {"idle", "unknown"}
      /\ phase \in {"working", "blocked"} => status \in {phase, "unknown"}
      /\ phase = "finished" => status \in {"idle", "done", "unknown"}
  BY <1>0, <1>3 DEF Wait!AgentStatus, Wait!Statuses
<1>5. consecutive \in Nat /\ firstIdle \in Nat /\ firstIdle <= wait.now
  BY <1>0, <1>3
<1>6. outcome \in {"waiting", "done", "idle", "expired"}
  OBVIOUS
<1>7. outcome \in {"done", "idle"} => phase = "finished"
  <2>1. CASE phase = "starting"
    <3>1. wait.now - firstIdle <= StartupMs /\ ~wait.observedWorking
      BY <1>0, <1>3, <1>5, <2>1
    <3>2. ~Wait!Confirmed(consecutive, firstIdle)
      BY <3>1, <1>0, <1>3, <1>5 DEF Wait!Confirmed
    <3>3. QED
      BY <3>2, <2>1, <1>4
  <2>2. QED
    BY <1>0, <1>3, <1>4, <2>1
<1>8. ASSUME wait.finishedBefore /\ outcome # "done" /\ idle
      PROVE  /\ consecutive >= 1
             /\ \/ unseen = 0 /\ firstIdle = 0
                \/ unseen > 0 /\ firstIdle <= unseen + PollMs
             /\ outcome = "expired" => unseen > 0 /\ unseen + PollMs + Wait!NeverWorkedIdleMs > TimeoutMs
  <2>1. /\ consecutive >= 1 /\ (wait.consecutive >= 1 => consecutive = 2) /\ unseen = wait.unseen
        /\ firstIdle = IF wait.consecutive > 0 THEN wait.firstIdle ELSE wait.now
    BY <1>8, <1>3
  <2>2. \/ wait.next = 0 /\ wait.unseen = 0
        \/ wait.consecutive >= 1 /\ wait.unseen = 0 /\ wait.firstIdle = 0
        \/ wait.consecutive >= 1 /\ wait.unseen > 0 /\ wait.firstIdle <= wait.unseen + PollMs
        \/ wait.consecutive = 0 /\ wait.unseen > 0 /\ wait.next <= wait.unseen + PollMs
    BY <1>2, <1>8 DEF WaitInv
  <2>3. \/ unseen = 0 /\ firstIdle = 0
        \/ unseen > 0 /\ firstIdle <= unseen + PollMs
    <3> HIDE DEF consecutive, unseen, firstIdle
    <3>1. QED
      BY <2>1, <2>2, <1>2, <1>0, <1>3
  <2>4. outcome = "expired" => unseen > 0 /\ unseen + PollMs + Wait!NeverWorkedIdleMs > TimeoutMs
    <3>1. SUFFICES ASSUME outcome = "expired"
                   PROVE  unseen > 0 /\ unseen + PollMs + Wait!NeverWorkedIdleMs > TimeoutMs
      OBVIOUS
    <3>2. wait.now >= TimeoutMs /\ ~Wait!Confirmed(consecutive, firstIdle)
      BY <3>1, <1>8
    <3> HIDE DEF consecutive, unseen, firstIdle, outcome
    <3>3. consecutive < 2 \/ wait.now - firstIdle < Wait!NeverWorkedIdleMs
      BY <3>2, <1>0, <1>3, <1>5 DEF Wait!Confirmed, Wait!Confirmations
    <3>4. CASE wait.consecutive >= 1
      <4>1. consecutive = 2
        BY <2>1, <3>4
      <4>2. QED
        BY <4>1, <2>1, <2>3, <3>2, <3>3, <1>0, <1>3, <1>5
    <3>5. CASE ~(wait.consecutive >= 1)
      BY <2>1, <2>2, <3>2, <3>5, <1>2, <1>0, <1>3
    <3>6. QED
      BY <3>4, <3>5
  <2>5. QED
    BY <2>1, <2>3, <2>4
<1>9. wait.finishedBefore /\ outcome # "done" /\ ~idle =>
          consecutive = 0 /\ unseen = wait.now + 1 /\ unseen > 0
  BY <1>3, <1>4
<1>10. /\ wait'.next \in Nat /\ wait'.next <= TimeoutMs + 1 /\ wait.now <= wait'.next
       /\ wait.now <= TimeoutMs => wait'.next <= wait.now + PollMs + 1
  <2>1. CASE wait.now < TimeoutMs
    <3>1. wait'.next = wait.next + pause + late
      BY <1>1, <1>0, <1>3, <2>1
    <3>2. pause \in Nat /\ pause <= TimeoutMs - wait.now
      BY <1>0, <1>3, <2>1
    <3>3. QED
      BY <3>1, <3>2, <1>2, <1>0, <1>3
  <2>2. CASE ~(wait.now < TimeoutMs)
    BY <1>1, <1>2, <1>0, <1>3, <2>2
  <2>3. QED
    BY <2>1, <2>2
<1>b. DOMAIN wait = {"now", "next", "consecutive", "firstIdle", "observedWorking", "finishedBefore", "unseen", "outcome"}
  BY DEF WaitInv, Wait!WaitTypeOK
<1>11. /\ wait'.now = wait.now /\ wait'.consecutive = consecutive /\ wait'.firstIdle = firstIdle
       /\ wait'.observedWorking = (wait.observedWorking \/ status = "working")
       /\ wait'.outcome = outcome /\ wait'.finishedBefore = wait.finishedBefore /\ wait'.unseen = unseen
  BY <1>1, <1>b
<1>u. unseen \in 0..(TimeoutMs + 2)
  BY <1>0, <1>3
<1>12. wait' \in [now : 0..(TimeoutMs + 1), next : 0..(TimeoutMs + 1), consecutive : Nat,
                  firstIdle : 0..(TimeoutMs + 1), observedWorking : BOOLEAN, finishedBefore : BOOLEAN,
                  unseen : 0..(TimeoutMs + 2), outcome : {"waiting", "done", "idle", "expired"}]
  <2> HIDE DEF consecutive, firstIdle, unseen, outcome, pause, idle
  <2>1. PICK next : wait' = [wait EXCEPT
            !.consecutive = consecutive, !.firstIdle = firstIdle,
            !.observedWorking = wait.observedWorking \/ status = "working",
            !.unseen = unseen, !.next = next, !.outcome = outcome]
    BY <1>1
  <2>2. next = wait'.next
    BY <2>1, <1>b
  <2>3. /\ consecutive \in Nat /\ firstIdle \in 0..(TimeoutMs + 1) /\ next \in 0..(TimeoutMs + 1)
        /\ outcome \in {"waiting", "done", "idle", "expired"}
        /\ (wait.observedWorking \/ status = "working") \in BOOLEAN
    BY <2>2, <1>0, <1>3, <1>5, <1>6, <1>10
  <2>4. QED
    BY <2>1, <2>3, <1>u DEF WaitInv, Wait!WaitTypeOK
<1>c. wait.finishedBefore /\ outcome = "expired" =>
          unseen > 0 /\ unseen + PollMs + Wait!NeverWorkedIdleMs > TimeoutMs
  <2>1. outcome = "expired" => wait.now >= TimeoutMs
    OBVIOUS
  <2> HIDE DEF consecutive, firstIdle, outcome, unseen, idle
  <2>2. QED
    BY <1>8, <1>9, <2>1, <1>0, <1>3
<1>d. outcome = "waiting" => wait.now < TimeoutMs
  BY <1>0, <1>3
<1> HIDE DEF consecutive, firstIdle, outcome, unseen, idle
<1>13. Wait!WaitTypeOK' /\ Wait!WaitIsHonest'
  <2>1. viewed' \in BOOLEAN /\ phase' \in {"starting", "resent", "working", "blocked", "paused", "finished"}
    BY <1>2, <1>0, <1>3 DEF WaitInv, Wait!WaitTypeOK
  <2>2. QED
    BY <1>12, <1>2, <1>7, <1>c, <1>11, <2>1 DEF Wait!WaitTypeOK, Wait!WaitIsHonest
<1>14. phase' = "starting" => wait'.now <= StartupMs /\ ~wait'.observedWorking
  BY <1>2, <1>0, <1>3, <1>4, <1>11
<1>15. ASSUME wait'.finishedBefore /\ wait'.outcome = "waiting"
       PROVE  \/ wait'.next = 0 /\ wait'.unseen = 0
              \/ wait'.consecutive >= 1 /\ wait'.unseen = 0 /\ wait'.firstIdle = 0
              \/ wait'.consecutive >= 1 /\ wait'.unseen > 0 /\ wait'.firstIdle <= wait'.unseen + PollMs
              \/ wait'.consecutive = 0 /\ wait'.unseen > 0 /\ wait'.next <= wait'.unseen + PollMs
  <2>1. wait.finishedBefore /\ outcome = "waiting" /\ outcome # "done"
    BY <1>11, <1>15
  <2>2. CASE idle
    BY <1>8, <1>11, <2>1, <2>2
  <2>3. CASE ~idle
    BY <1>0, <1>3, <1>9, <1>10, <1>d, <1>11, <2>1, <2>3
  <2>4. QED
    BY <2>2, <2>3
<1>16. wait'.now <= wait'.next /\ wait'.firstIdle <= wait'.now
  BY <1>0, <1>3, <1>5, <1>10, <1>11
<1>17. QED
  BY <1>2, <1>3, <1>11, <1>13, <1>14, <1>15, <1>16 DEF WaitInv

LEMMA WaitInvNext == ASSUME Prompt, WaitInv, [Wait!WaitNext]_waitVars PROVE WaitInv'
<1>1. CASE Wait!Begins
  BY <1>1 DEF WaitInv, Wait!Begins, Wait!WaitTypeOK, Wait!WaitIsHonest
<1>2. CASE Wait!Blocks
  BY <1>2 DEF WaitInv, Wait!Blocks, Wait!WaitTypeOK, Wait!WaitIsHonest
<1>3. CASE Wait!Finishes
  BY <1>3 DEF WaitInv, Wait!Finishes, Wait!WaitTypeOK, Wait!WaitIsHonest, Prompt
<1>4. CASE Wait!Viewed
  BY <1>4 DEF WaitInv, Wait!Viewed, Wait!WaitTypeOK, Wait!WaitIsHonest
<1>5. CASE Wait!TimePasses
  <2>1. /\ TimeoutMs \in Nat /\ StartupMs \in Nat
        /\ wait.now \in Nat /\ wait.next \in Nat /\ wait.firstIdle \in Nat /\ wait.consecutive \in Nat
        /\ wait.now <= TimeoutMs + 1 /\ wait.next <= TimeoutMs + 1 /\ wait.firstIdle <= wait.now
        /\ wait.observedWorking \in BOOLEAN /\ wait.unseen \in 0..(TimeoutMs + 2)
    BY SizesAssumption, WaitFacts DEF Prompt, Bounded
  <2>2. DOMAIN wait = {"now", "next", "consecutive", "firstIdle", "observedWorking", "finishedBefore", "unseen", "outcome"}
    BY DEF WaitInv, Wait!WaitTypeOK
  <2>3. /\ wait' = [wait EXCEPT !.now = wait.now + 1] /\ phase' = phase /\ viewed' = viewed
        /\ wait.now < wait.next /\ (phase = "starting" => wait.now < StartupMs)
        /\ wait.outcome = "waiting"
    BY <1>5 DEF Wait!TimePasses
  <2>4. /\ wait'.now = wait.now + 1 /\ wait'.next = wait.next /\ wait'.firstIdle = wait.firstIdle
        /\ wait'.consecutive = wait.consecutive /\ wait'.observedWorking = wait.observedWorking
        /\ wait'.outcome = wait.outcome /\ wait'.finishedBefore = wait.finishedBefore
        /\ wait'.unseen = wait.unseen
        /\ wait' = [wait EXCEPT !.now = wait'.now, !.next = wait'.next, !.consecutive = wait'.consecutive,
                      !.firstIdle = wait'.firstIdle, !.observedWorking = wait'.observedWorking,
                      !.unseen = wait'.unseen, !.outcome = wait'.outcome]
    BY <2>2, <2>3
  <2>5. /\ Bounded(wait'.now) /\ Bounded(wait'.next) /\ Bounded(wait'.firstIdle)
        /\ wait'.now <= wait'.next /\ wait'.firstIdle <= wait'.now
    BY <2>1, <2>3, <2>4 DEF Bounded
  <2>6. Wait!WaitTypeOK'
    <3>1. wait' \in [now : 0..(TimeoutMs + 1), next : 0..(TimeoutMs + 1), consecutive : Nat,
                  firstIdle : 0..(TimeoutMs + 1), observedWorking : BOOLEAN, finishedBefore : BOOLEAN,
                  unseen : 0..(TimeoutMs + 2), outcome : {"waiting", "done", "idle", "expired"}]
      BY <2>1, <2>3, <2>4, <2>5, WaitIsTyped, ZenonT(60)
    <3>2. QED
      BY <2>3, <3>1 DEF WaitInv, Wait!WaitTypeOK
  <2>7. phase' = "starting" => wait'.now <= StartupMs /\ ~wait'.observedWorking
    BY <2>1, <2>3, <2>4 DEF WaitInv
  <2>8. QED
    BY <2>3, <2>4, <2>5, <2>6, <2>7 DEF WaitInv, Wait!WaitIsHonest
<1>6. ASSUME NEW status \in Wait!Statuses, Wait!Poll(status) PROVE WaitInv'
  BY <1>6, PollKeepsWait
<1>7. CASE UNCHANGED waitVars
  BY <1>7 DEF waitVars, WaitInv, Wait!WaitTypeOK, Wait!WaitIsHonest
<1>8. QED
  BY <1>1, <1>2, <1>3, <1>4, <1>5, <1>6, <1>7 DEF Wait!WaitNext

----------------------------------------------------------------------------
(* The chain of ticks of the widget, for any number of sessions and pokes. *)

WidgetBounds == MaxSessions \in Nat /\ MaxEpoch \in Nat

Due == {t \in Timer : timers[t] # 0}
Coming == {k \in Tick : /\ ticks[k].pc # "none"
                        /\ ticks[k].token = currentToken
                        /\ ticks[k].epoch = epoch[currentToken]}

\* One timer is set and no tick will set another, or one tick will set it.
OneChain ==
    \/ Due = {} /\ \E k \in Tick : Coming = {k}
    \/ Coming = {} /\ \E t \in Timer : Due = {t}

\* Ticks belong to sessions and epochs that have begun; only the timer that is
\* known may be set, and it is set for the current session.
WidgetInv ==
    /\ sessions \in 0..MaxSessions /\ currentToken \in {0, sessions}
    /\ epoch \in [Widget!Session -> 0..MaxEpoch]
    /\ timers \in [Timer -> 0..MaxSessions]
    /\ timer = {} \/ \E t \in Timer : timer = {t}
    /\ ticks \in [Tick -> [token : 0..MaxSessions, epoch : 0..MaxEpoch, pc : {"none", "listing", "drawn"}]]
    /\ shown \in 0..MaxSessions
    /\ \A t \in Timer : timers[t] # 0 => t \in timer /\ timers[t] = currentToken
    /\ \A k \in Tick :
          \/ ticks[k] = Widget!NoTick
          \/ ticks[k].token \in 1..sessions /\ ticks[k].epoch <= epoch[ticks[k].token]
    /\ \A s \in Widget!Session : s > sessions => epoch[s] = 0
    /\ currentToken = 0 => shown = 0
    /\ currentToken # 0 => OneChain

LEMMA WidgetInvInit == ASSUME WidgetBounds, Widget!WidgetInit PROVE WidgetInv
<1>1. 0 \in 0..MaxSessions /\ 0 \in 0..MaxEpoch
  BY DEF WidgetBounds
<1>2. Widget!NoTick \in [token : 0..MaxSessions, epoch : 0..MaxEpoch, pc : {"none", "listing", "drawn"}]
  BY <1>1 DEF Widget!NoTick
<1>3. QED
  BY <1>1, <1>2 DEF Widget!WidgetInit, WidgetInv

LEMMA WidgetCounts == ASSUME NEW S PROVE Widget!Cardinality(S) = Cardinality(S)
  BY DEF Widget!Cardinality, Cardinality

LEMMA WidgetIsRight == ASSUME WidgetBounds, WidgetInv PROVE Widget!WidgetTypeOK /\ Widget!WidgetHasOneTimer
<1>0. Cardinality({}) = 0 /\ \A x : Cardinality({x}) = 1
  BY FS_EmptySet, FS_Singleton
<1>1. Widget!Cardinality(timer) <= 1
  <2>1. CASE timer = {}
    BY <1>0, <2>1, WidgetCounts
  <2>2. ASSUME NEW t \in Timer, timer = {t} PROVE Widget!Cardinality(timer) <= 1
    <3>1. Widget!Cardinality({t}) = 1
      BY <1>0, WidgetCounts, Zenon
    <3>2. QED
      BY <2>2, <3>1
  <2>3. QED
    BY <2>1, <2>2 DEF WidgetInv
<1>a. Widget!WidgetHasOneTimer <=>
          IF currentToken = 0 THEN Due = {} /\ shown = 0
          ELSE /\ Widget!Cardinality(Due) + Widget!Cardinality(Coming) = 1
               /\ \A t \in Due : timers[t] = currentToken
  BY Zenon DEF Widget!WidgetHasOneTimer, Due, Coming
<1>2. Widget!WidgetTypeOK
  <2>1. timer \subseteq Timer
    BY DEF WidgetInv
  <2>2. currentToken \in 0..MaxSessions
    BY DEF WidgetInv, WidgetBounds
  <2>3. QED
    BY <1>1, <2>1, <2>2 DEF WidgetInv, Widget!WidgetTypeOK
<1>3. CASE currentToken = 0
  <2>1. Due = {} /\ shown = 0
    BY <1>3 DEF Due, WidgetInv
  <2>2. QED
    BY <1>2, <1>a, <1>3, <2>1
<1>4. CASE currentToken # 0
  <2>0. OneChain
    BY <1>4 DEF WidgetInv
  <2>1. Widget!Cardinality(Due) + Widget!Cardinality(Coming) = 1
    <3> HIDE DEF Due, Coming
    <3>1. Widget!Cardinality({}) = 0 /\ \A x : Widget!Cardinality({x}) = 1
      BY <1>0, WidgetCounts, Zenon
    <3>2. ASSUME NEW k \in Tick, Due = {}, Coming = {k}
          PROVE  Widget!Cardinality(Due) = 0 /\ Widget!Cardinality(Coming) = 1
      BY <3>1, <3>2, Zenon
    <3>3. ASSUME NEW t \in Timer, Coming = {}, Due = {t}
          PROVE  Widget!Cardinality(Due) = 1 /\ Widget!Cardinality(Coming) = 0
      BY <3>1, <3>3, Zenon
    <3>4. QED
      BY <2>0, <3>2, <3>3 DEF OneChain
  <2>2. \A t \in Due : timers[t] = currentToken
    BY DEF Due, WidgetInv
  <2>3. QED
    BY <1>2, <1>a, <1>4, <2>1, <2>2
<1>5. QED
  BY <1>2, <1>3, <1>4

\* Every timer that is set is the one that is known.
LEMMA TimersStop ==
    ASSUME WidgetInv
    PROVE  Widget!StoppedTimers = [t \in Timer |-> 0]
  BY DEF WidgetInv, Widget!StoppedTimers

\* A tick of the newest epoch of a session is the session's only one.
LEMMA ChainBegins ==
    ASSUME WidgetBounds, WidgetInv, NEW token \in Widget!Session, NEW e \in 0..MaxEpoch,
           Widget!NewTick(token, e),
           sessions' \in 0..MaxSessions, token = sessions', currentToken' = token, sessions <= sessions',
           epoch' \in [Widget!Session -> 0..MaxEpoch], epoch'[token] = e,
           \A s \in Widget!Session : epoch[s] <= epoch'[s],
           \A s \in Widget!Session : s > sessions' => epoch'[s] = 0,
           \A k \in Tick : ticks[k].pc # "none" /\ ticks[k].token = token => ticks[k].epoch # e,
           timers' = [t \in Timer |-> 0], timer' = {} \/ timer' = timer,
           shown' \in 0..MaxSessions
    PROVE  WidgetInv'
<1>1. PICK n \in Tick : /\ ticks[n] = Widget!NoTick
                        /\ ticks' = [ticks EXCEPT ![n] = [token |-> token, epoch |-> e, pc |-> "listing"]]
  BY DEF Widget!NewTick
<1>2. \A k \in Tick : ticks'[k] = IF k = n THEN [token |-> token, epoch |-> e, pc |-> "listing"] ELSE ticks[k]
  BY <1>1 DEF WidgetInv
<1>3. token \in 1..sessions' /\ token \in Nat /\ token # 0 /\ token \in 0..MaxSessions
  BY DEF Widget!Session, WidgetBounds
<1>4. Coming' = {n}
  <2>1. n \in Coming'
    BY <1>2 DEF Coming
  <2>2. ASSUME NEW k \in Tick, k # n PROVE k \notin Coming'
    <3>1. ticks'[k] = ticks[k]
      BY <1>2, <2>2
    <3>2. QED
      BY <3>1 DEF Coming
  <2>3. QED
    BY <2>1, <2>2 DEF Coming
<1>5. Due' = {} /\ \A t \in Timer : timers'[t] = 0
  BY DEF Due
<1>6. timers' \in [Timer -> 0..MaxSessions]
  BY DEF WidgetBounds
<1>7. ticks' \in [Tick -> [token : 0..MaxSessions, epoch : 0..MaxEpoch, pc : {"none", "listing", "drawn"}]]
  BY <1>1, <1>3 DEF WidgetInv
<1>8. ASSUME NEW k \in Tick
      PROVE  \/ ticks'[k] = Widget!NoTick
             \/ ticks'[k].token \in 1..sessions' /\ ticks'[k].epoch <= epoch'[ticks'[k].token]
  <2>1. CASE k = n
    <3>1. e <= e
      BY DEF WidgetBounds
    <3>2. QED
      BY <1>2, <1>3, <2>1, <3>1
  <2>2. CASE k # n /\ ticks[k] # Widget!NoTick
    <3>1. ticks'[k] = ticks[k] /\ ticks[k].token \in 1..sessions /\ ticks[k].epoch <= epoch[ticks[k].token]
      BY <1>2, <2>2 DEF WidgetInv
    <3>2. DEFINE s == ticks[k].token
    <3>3. ticks[k].epoch \in 0..MaxEpoch
      BY DEF WidgetInv
    <3>4. s \in Widget!Session /\ s \in 1..sessions'
      BY <3>1 DEF WidgetInv, Widget!Session, WidgetBounds
    <3>5. epoch[s] \in 0..MaxEpoch /\ epoch'[s] \in 0..MaxEpoch /\ epoch[s] <= epoch'[s]
      BY <3>4 DEF WidgetInv
    <3>6. ticks[k].epoch <= epoch'[s]
      BY <3>1, <3>3, <3>5 DEF WidgetBounds
    <3>7. QED
      BY <3>1, <3>4, <3>6
  <2>3. QED
    BY <1>2, <2>1, <2>2
<1>9. timer' = {} \/ \E t \in Timer : timer' = {t}
  BY DEF WidgetInv
<1>10. OneChain'
  BY <1>4, <1>5 DEF OneChain
<1>11. QED
  BY <1>3, <1>5, <1>6, <1>7, <1>8, <1>9, <1>10 DEF WidgetInv

LEMMA SessionStartKeepsWidget == ASSUME WidgetBounds, WidgetInv, Widget!SessionStart PROVE WidgetInv'
<1> DEFINE token == sessions + 1
<1>1. /\ sessions \in Nat /\ sessions < MaxSessions /\ sessions' = token /\ currentToken' = token
      /\ Widget!NewTick(token, 0) /\ epoch' = epoch /\ shown' = shown /\ timer' = {}
      /\ timers' = [t \in Timer |-> 0]
  BY TimersStop DEF Widget!SessionStart, WidgetInv, WidgetBounds
<1>2. token \in Widget!Session /\ token \in 0..MaxSessions /\ sessions <= token /\ token > sessions
      /\ 0 \in 0..MaxEpoch
  BY <1>1 DEF Widget!Session, WidgetBounds
<1>3. epoch \in [Widget!Session -> 0..MaxEpoch] /\ epoch[token] = 0 /\ shown \in 0..MaxSessions
  BY <1>2 DEF WidgetInv
<1>4. \A s \in Widget!Session : epoch[s] <= epoch'[s]
  BY <1>1, <1>3 DEF WidgetBounds
<1>5. \A s \in Widget!Session : s > sessions' => epoch'[s] = 0
  BY <1>1 DEF WidgetInv, Widget!Session, WidgetBounds
<1>6. \A k \in Tick : ticks[k].pc # "none" /\ ticks[k].token = token => ticks[k].epoch # 0
  <2>1. ASSUME NEW k \in Tick, ticks[k].pc # "none", ticks[k].token = token PROVE FALSE
    <3>1. ticks[k].token \in 1..sessions
      BY <2>1 DEF WidgetInv, Widget!NoTick
    <3>2. QED
      BY <1>1, <2>1, <3>1
  <2>2. QED
    BY <2>1
<1> HIDE DEF token
<1>7. QED
  BY <1>1, <1>2, <1>3, <1>4, <1>5, <1>6, ChainBegins

LEMMA PokeKeepsWidget == ASSUME WidgetBounds, WidgetInv, Widget!Poke PROVE WidgetInv'
<1> DEFINE token == currentToken
           e == epoch[token] + 1
<1>1. /\ token # 0 /\ token = sessions /\ token \in Widget!Session /\ sessions \in 0..MaxSessions
      /\ epoch \in [Widget!Session -> 0..MaxEpoch] /\ shown \in 0..MaxSessions
  BY DEF Widget!Poke, WidgetInv, Widget!Session, WidgetBounds
<1>2. /\ epoch[token] \in Nat /\ epoch[token] < MaxEpoch /\ e \in 0..MaxEpoch
  BY <1>1 DEF Widget!Poke, WidgetBounds
<1>3. /\ epoch' = [epoch EXCEPT ![token] = e] /\ epoch'[token] = e
      /\ sessions' = sessions /\ currentToken' = token /\ shown' = shown /\ timer' = {}
      /\ timers' = [t \in Timer |-> 0] /\ Widget!NewTick(token, epoch'[token])
  BY <1>1, TimersStop DEF Widget!Poke
<1>4. epoch' \in [Widget!Session -> 0..MaxEpoch]
  BY <1>1, <1>2, <1>3
<1>5. \A s \in Widget!Session : epoch[s] <= epoch'[s]
  BY <1>1, <1>2, <1>3 DEF WidgetBounds
<1>6. \A s \in Widget!Session : s > sessions' => epoch'[s] = 0
  <2>1. ASSUME NEW s \in Widget!Session, s > sessions PROVE s # token /\ epoch[s] = 0
    BY <1>1, <2>1 DEF WidgetInv, Widget!Session, WidgetBounds
  <2>2. QED
    BY <1>1, <1>3, <2>1
<1>7. \A k \in Tick : ticks[k].pc # "none" /\ ticks[k].token = token => ticks[k].epoch # e
  <2>1. ASSUME NEW k \in Tick, ticks[k].pc # "none", ticks[k].token = token, ticks[k].epoch = e PROVE FALSE
    <3>1. ticks[k].epoch <= epoch[token]
      BY <2>1 DEF WidgetInv, Widget!NoTick
    <3>2. QED
      BY <1>2, <2>1, <3>1
  <2>2. QED
    BY <2>1
<1>8. sessions <= sessions' /\ token = sessions'
  BY <1>1, <1>3 DEF WidgetBounds
<1> HIDE DEF token, e
<1>9. QED
  BY <1>1, <1>2, <1>3, <1>4, <1>5, <1>6, <1>7, <1>8, ChainBegins

LEMMA FireKeepsWidget == ASSUME WidgetBounds, WidgetInv, NEW t \in Timer, Widget!TimerFires(t) PROVE WidgetInv'
<1> DEFINE token == currentToken
           e == epoch[token]
<1>1. timers[t] # 0 /\ timers[t] = token /\ timer = {t}
  BY DEF Widget!TimerFires, WidgetInv
<1>2. /\ token # 0 /\ token = sessions /\ token \in Widget!Session /\ sessions \in 0..MaxSessions
      /\ epoch \in [Widget!Session -> 0..MaxEpoch] /\ shown \in 0..MaxSessions /\ e \in 0..MaxEpoch
  BY <1>1 DEF WidgetInv, Widget!Session, WidgetBounds
<1>3. /\ sessions' = sessions /\ currentToken' = token /\ shown' = shown /\ timer' = timer /\ epoch' = epoch
      /\ timers' = [timers EXCEPT ![t] = 0] /\ Widget!NewTick(token, e)
  BY <1>1 DEF Widget!TimerFires
<1>4. timers' = [x \in Timer |-> 0]
  BY <1>1, <1>3 DEF WidgetInv
<1>5. \A s \in Widget!Session : epoch[s] <= epoch'[s]
  BY <1>2, <1>3 DEF WidgetBounds
<1>6. \A s \in Widget!Session : s > sessions' => epoch'[s] = 0
  BY <1>3 DEF WidgetInv
<1>7. Coming = {}
  BY <1>1, <1>2 DEF WidgetInv, OneChain, Due
<1>8. \A k \in Tick : ticks[k].pc # "none" /\ ticks[k].token = token => ticks[k].epoch # e
  BY <1>7 DEF Coming
<1>9. sessions <= sessions' /\ token = sessions'
  BY <1>2, <1>3 DEF WidgetBounds
<1>10. epoch'[token] = e
  BY <1>3
<1> HIDE DEF token, e
<1>11. QED
  BY <1>2, <1>3, <1>4, <1>5, <1>6, <1>8, <1>9, <1>10, ChainBegins

LEMMA WidgetInvNext == ASSUME WidgetBounds, WidgetInv, [Widget!WidgetNext]_widgetVars PROVE WidgetInv'
<1>1. CASE Widget!SessionStart
  BY <1>1, SessionStartKeepsWidget
<1>2. CASE Widget!SessionShutdown
  <2>1. timers' = [t \in Timer |-> 0] /\ \A t \in Timer : timers'[t] = 0
    BY <1>2, TimersStop DEF Widget!SessionShutdown
  <2>2. timers' \in [Timer -> 0..MaxSessions] /\ 0 \in 0..MaxSessions
    BY <2>1 DEF WidgetBounds
  <2>3. QED
    BY <1>2, <2>1, <2>2 DEF WidgetInv, Widget!SessionShutdown
<1>3. CASE Widget!Poke
  BY <1>3, PokeKeepsWidget
<1>4. ASSUME NEW t \in Timer, Widget!TimerFires(t) PROVE WidgetInv'
  BY <1>4, FireKeepsWidget
<1>5. ASSUME NEW k \in Tick, Widget!Draw(k) PROVE WidgetInv'
  <2>1. /\ ticks[k].pc = "listing" /\ ticks' = [ticks EXCEPT ![k].pc = "drawn"]
        /\ UNCHANGED <<currentToken, sessions, epoch, timers, timer>>
    BY <1>5 DEF Widget!Draw
  <2>2. ticks[k].token # 0
    BY <2>1 DEF WidgetInv, Widget!NoTick
  <2>3. shown' \in 0..MaxSessions /\ (currentToken = 0 => shown' = shown)
    BY <1>5, <2>2 DEF Widget!Draw, WidgetInv, WidgetBounds
  <2>4. \A j \in Tick : /\ ticks'[j].token = ticks[j].token /\ ticks'[j].epoch = ticks[j].epoch
                        /\ ticks'[j].pc = IF j = k THEN "drawn" ELSE ticks[j].pc
                        /\ ticks'[j] = Widget!NoTick <=> ticks[j] = Widget!NoTick
    BY <2>1 DEF WidgetInv, Widget!NoTick
  <2>5. ticks' \in [Tick -> [token : 0..MaxSessions, epoch : 0..MaxEpoch, pc : {"none", "listing", "drawn"}]]
    BY <2>1 DEF WidgetInv
  <2>6. Coming' = Coming /\ Due' = Due
    BY <2>1, <2>4 DEF Coming, Due
  <2>7. OneChain => OneChain'
    BY <2>6 DEF OneChain
  <2>8. QED
    BY <2>1, <2>3, <2>4, <2>5, <2>7 DEF WidgetInv
<1>6. ASSUME NEW k \in Tick, Widget!Schedule(k) PROVE WidgetInv'
  <2>1. /\ ticks[k].pc = "drawn" /\ ticks' = [ticks EXCEPT ![k] = Widget!NoTick]
        /\ UNCHANGED <<currentToken, sessions, epoch, shown>>
    BY <1>6 DEF Widget!Schedule
  <2>2. \A j \in Tick : ticks'[j] = IF j = k THEN Widget!NoTick ELSE ticks[j]
    BY <2>1 DEF WidgetInv
  <2>3. ticks' \in [Tick -> [token : 0..MaxSessions, epoch : 0..MaxEpoch, pc : {"none", "listing", "drawn"}]]
    <3>1. Widget!NoTick \in [token : 0..MaxSessions, epoch : 0..MaxEpoch, pc : {"none", "listing", "drawn"}]
      BY DEF Widget!NoTick, WidgetBounds
    <3>2. QED
      BY <2>1, <3>1 DEF WidgetInv
  <2>4. Coming' = Coming \ {k}
    BY <2>1, <2>2 DEF Coming, Widget!NoTick
  <2>5. CASE k \in Coming
    <3>1. ticks[k].token = currentToken /\ ticks[k].epoch = epoch[currentToken] /\ currentToken # 0
      BY <2>1, <2>5 DEF Coming, WidgetInv, Widget!NoTick
    <3>2. PICK t \in Timer : timers[t] = 0 /\ timers' = [timers EXCEPT ![t] = currentToken] /\ timer' = {t}
      BY <1>6, <3>1 DEF Widget!Schedule
    <3>3. Due = {} /\ Coming' = {}
      BY <2>4, <2>5, <3>1 DEF WidgetInv, OneChain
    <3>4. \A x \in Timer : timers'[x] = IF x = t THEN currentToken ELSE 0
      BY <3>2, <3>3 DEF Due, WidgetInv
    <3>5. Due' = {t}
      BY <3>1, <3>4 DEF Due
    <3>6. timers' \in [Timer -> 0..MaxSessions]
      BY <3>2 DEF WidgetInv, WidgetBounds
    <3>7. OneChain'
      BY <3>3, <3>5 DEF OneChain
    <3>8. QED
      BY <2>1, <2>2, <2>3, <3>2, <3>4, <3>6, <3>7 DEF WidgetInv
  <2>6. CASE k \notin Coming
    <3>1. timers' = timers /\ timer' = timer
      BY <1>6, <2>1, <2>6 DEF Widget!Schedule, Coming
    <3>2. Coming' = Coming /\ Due' = Due
      BY <2>4, <2>6, <3>1 DEF Due
    <3>3. OneChain => OneChain'
      BY <3>2 DEF OneChain
    <3>4. QED
      BY <2>1, <2>2, <2>3, <3>1, <3>3 DEF WidgetInv
  <2>7. QED
    BY <2>5, <2>6
<1>7. CASE UNCHANGED widgetVars
  BY <1>7 DEF widgetVars, WidgetInv, OneChain, Due, Coming
<1>8. QED
  BY <1>1, <1>2, <1>3, <1>4, <1>5, <1>6, <1>7 DEF Widget!WidgetNext

----------------------------------------------------------------------------
(* The reports in the context, for any number of messages.                 *)

NoticeMessage == [kind : {"notice"}, blocks : Seq(Results!Block)]
OtherMessage == [kind : {"inspect"}, panel : Panel, texts : SUBSET Text, consumed : SUBSET Completion]
                \cup [kind : {"send", "close"}, panel : Panel]

\* The places of the blocks of the whole branch.
Places == {x \in (1..Len(messages)) \X (1..2) :
              messages[x[1]].kind = "notice" /\ x[2] <= Len(messages[x[1]].blocks)}

\* A completion is reported with one text, wherever it is.
ResultInv ==
    /\ messages \in Seq(NoticeMessage \cup OtherMessage)
    /\ Len(messages) <= MaxMessages /\ start \in 1..(Len(messages) + 1)
    /\ \A i \in 1..Len(messages) : messages[i].kind = "notice" => Len(messages[i].blocks) <= 2
    /\ \A x, y \in Places : Results!At(x).id = Results!At(y).id =>
           Results!At(x).id = Old \/ Results!At(x) = Results!At(y)

LEMMA ResultInvInit == ASSUME MaxMessages \in Nat, Results!ResultInit PROVE ResultInv
<1>1. messages = << >> /\ start = 1 /\ Len(messages) = 0 /\ messages \in Seq(NoticeMessage \cup OtherMessage)
  BY DEF Results!ResultInit
<1>2. Places = {}
  BY <1>1 DEF Places
<1>3. QED
  BY <1>1, <1>2 DEF ResultInv

\* A place is a pair.
LEMMA PlaceFacts ==
    ASSUME ResultInv, NEW x \in Places
    PROVE  /\ x[1] \in 1..Len(messages) /\ x[2] \in 1..2 /\ x = <<x[1], x[2]>>
           /\ messages[x[1]].kind = "notice" /\ messages[x[1]] \in NoticeMessage
           /\ x[2] \in 1..Len(messages[x[1]].blocks)
           /\ Results!At(x) \in Results!Block
<1>1. /\ x[1] \in 1..Len(messages) /\ x[2] \in 1..2 /\ x = <<x[1], x[2]>>
      /\ messages[x[1]].kind = "notice" /\ x[2] <= Len(messages[x[1]].blocks)
  BY DEF Places
<1>2. messages[x[1]] \in NoticeMessage \cup OtherMessage
  BY <1>1 DEF ResultInv
<1>3. messages[x[1]] \in NoticeMessage
  BY <1>1, <1>2 DEF OtherMessage
<1>4. messages[x[1]].blocks \in Seq(Results!Block)
  BY <1>3 DEF NoticeMessage
<1>5. x[2] \in 1..Len(messages[x[1]].blocks)
  BY <1>1, <1>4
<1>6. QED
  BY <1>1, <1>3, <1>4, <1>5 DEF Results!At

\* A message that is no notice brings no block; a notice brings its own.
LEMMA AddKeepsResults ==
    ASSUME MaxMessages \in Nat, ResultInv, NEW message \in NoticeMessage \cup OtherMessage, Results!Add(message),
           message.kind = "notice" =>
               /\ Len(message.blocks) <= 2
               /\ \A k \in 1..Len(message.blocks) : Results!Consistent(message.blocks[k])
               /\ \A k, l \in 1..Len(message.blocks) :
                      k # l => message.blocks[k].id # message.blocks[l].id
    PROVE  ResultInv'
<1> DEFINE n == Len(messages) + 1
<1>1. /\ messages' = Append(messages, message) /\ start' = start /\ Len(messages) < MaxMessages
      /\ messages \in Seq(NoticeMessage \cup OtherMessage)
  BY DEF Results!Add, ResultInv
<1>2. /\ Len(messages) \in Nat /\ n \in Nat /\ Len(messages') = n /\ messages'[n] = message
      /\ \A i \in 1..Len(messages) : messages'[i] = messages[i]
      /\ messages' \in Seq(NoticeMessage \cup OtherMessage)
  BY <1>1
<1>3. ASSUME NEW x \in Places'
      PROVE  \/ x \in Places /\ x[1] # n /\ Results!At(x)' = Results!At(x)
             \/ /\ x[1] = n /\ message.kind = "notice" /\ x[2] \in 1..Len(message.blocks)
                /\ Results!At(x)' = message.blocks[x[2]]
  <2>1. /\ x \in (1..n) \X (1..2)
        /\ messages'[x[1]].kind = "notice" /\ x[2] <= Len(messages'[x[1]].blocks)
    BY <1>2, <1>3 DEF Places
  <2>2. CASE x[1] # n
    <3>1. x[1] \in 1..Len(messages)
      BY <1>2, <2>1, <2>2
    <3>2. messages'[x[1]] = messages[x[1]]
      BY <1>2, <3>1
    <3>3. x \in (1..Len(messages)) \X (1..2)
      BY <2>1, <3>1
    <3>4. QED
      BY <2>1, <2>2, <3>2, <3>3 DEF Places, Results!At
  <2>3. CASE x[1] = n
    <3>1. messages'[x[1]] = message /\ message.kind = "notice" /\ x[2] <= Len(message.blocks) /\ x[2] \in 1..2
      BY <1>2, <2>1, <2>3
    <3>2. message \in NoticeMessage
      BY <3>1 DEF OtherMessage
    <3>3. Len(message.blocks) \in Nat
      BY <3>2 DEF NoticeMessage
    <3>4. x[2] \in 1..Len(message.blocks)
      BY <3>1, <3>3
    <3>5. QED
      BY <2>3, <3>1, <3>4 DEF Results!At
  <2>4. QED
    BY <2>2, <2>3
<1>4. ASSUME NEW x \in Places, NEW k \in 1..Len(message.blocks), message.kind = "notice",
             Results!At(x).id = message.blocks[k].id
      PROVE  message.blocks[k].id = Old \/ Results!At(x) = message.blocks[k]
  <2>1. /\ x[1] \in Results!Kind("notice") /\ x[2] \in 1..Len(messages[x[1]].blocks)
        /\ Results!At(x) = messages[x[1]].blocks[x[2]]
    BY PlaceFacts DEF Results!Kind, Results!At
  <2>2. Results!Consistent(message.blocks[k])
    BY <1>4
  <2>3. QED
    BY <1>4, <2>1, <2>2 DEF Results!Consistent
<1>5. ASSUME NEW x \in Places', NEW y \in Places', Results!At(x)'.id = Results!At(y)'.id
      PROVE  Results!At(x)'.id = Old \/ Results!At(x)' = Results!At(y)'
  <2>1. CASE x[1] # n /\ y[1] # n
    <3>1. x \in Places /\ y \in Places /\ Results!At(x)' = Results!At(x) /\ Results!At(y)' = Results!At(y)
      BY <1>3, <2>1
    <3>2. QED
      BY <1>5, <3>1 DEF ResultInv
  <2>2. CASE x[1] = n /\ y[1] # n
    BY <1>3, <1>4, <1>5, <2>2
  <2>3. CASE x[1] # n /\ y[1] = n
    BY <1>3, <1>4, <1>5, <2>3
  <2>4. CASE x[1] = n /\ y[1] = n
    <3>1. /\ message.kind = "notice" /\ x[2] \in 1..Len(message.blocks) /\ y[2] \in 1..Len(message.blocks)
          /\ Results!At(x)' = message.blocks[x[2]] /\ Results!At(y)' = message.blocks[y[2]]
      BY <1>3, <2>4
    <3>2. x[2] = y[2]
      BY <1>5, <3>1
    <3>3. QED
      BY <3>1, <3>2
  <2>5. QED
    BY <2>1, <2>2, <2>3, <2>4
<1>6. ASSUME NEW i \in 1..Len(messages'), messages'[i].kind = "notice" PROVE Len(messages'[i].blocks) <= 2
  <2>1. CASE i = n
    BY <1>2, <1>6, <2>1
  <2>2. CASE i # n
    <3>1. i \in 1..Len(messages) /\ messages'[i] = messages[i]
      BY <1>2, <2>2
    <3>2. QED
      BY <1>6, <3>1 DEF ResultInv
  <2>3. QED
    BY <2>1, <2>2
<1>7. Len(messages') <= MaxMessages /\ start' \in 1..(Len(messages') + 1)
  <2>1. start \in 1..(Len(messages) + 1)
    BY DEF ResultInv
  <2>2. start' \in 1..(Len(messages') + 1)
    BY <1>1, <1>2, <2>1
  <2>3. Len(messages) + 1 <= MaxMessages
    BY <1>1, <1>2
  <2>4. QED
    BY <1>2, <2>2, <2>3
<1>8. QED
  BY <1>2, <1>5, <1>6, <1>7 DEF ResultInv

LEMMA ResultInvNext ==
    ASSUME MaxMessages \in Nat, ResultInv, [Results!ResultNext]_resultVars
    PROVE  ResultInv'
<1>1. ASSUME NEW b \in Results!Block, Results!ReportArrives(b) PROVE ResultInv'
  <2> DEFINE message == Results!Notice(<<b>>)
  <2>1. /\ message \in NoticeMessage /\ Results!Add(message) /\ Results!Consistent(b)
        /\ message.blocks = <<b>>
    BY <1>1 DEF Results!ReportArrives, Results!Notice, NoticeMessage
  <2>2. /\ Len(message.blocks) <= 2
        /\ \A k \in 1..Len(message.blocks) : Results!Consistent(message.blocks[k])
        /\ \A k, l \in 1..Len(message.blocks) : k # l => message.blocks[k].id # message.blocks[l].id
    <3> HIDE DEF message
    <3>1. Len(message.blocks) = 1 /\ message.blocks[1] = b
      BY <2>1
    <3>2. 1..Len(message.blocks) = {1}
      BY <3>1
    <3>3. QED
      BY <2>1, <3>1, <3>2
  <2> HIDE DEF message
  <2>3. QED
    BY <2>1, <2>2, AddKeepsResults
<1>2. ASSUME NEW b \in Results!Block, NEW c \in Results!Block, Results!GroupArrives(b, c) PROVE ResultInv'
  <2> DEFINE message == Results!Notice(<<b, c>>)
  <2>1. /\ message \in NoticeMessage /\ Results!Add(message) /\ Results!Consistent(b) /\ Results!Consistent(c)
        /\ message.blocks = <<b, c>> /\ b.id # c.id
    BY <1>2 DEF Results!GroupArrives, Results!Notice, NoticeMessage
  <2>2. /\ Len(message.blocks) <= 2
        /\ \A k \in 1..Len(message.blocks) : Results!Consistent(message.blocks[k])
        /\ \A k, l \in 1..Len(message.blocks) : k # l => message.blocks[k].id # message.blocks[l].id
    <3> HIDE DEF message
    <3>1. Len(message.blocks) = 2 /\ message.blocks[1] = b /\ message.blocks[2] = c
      BY <2>1
    <3>2. 1..Len(message.blocks) = {1, 2}
      BY <3>1
    <3>3. QED
      BY <2>1, <3>1, <3>2
  <2> HIDE DEF message
  <2>3. QED
    BY <2>1, <2>2, AddKeepsResults
<1>3. ASSUME NEW p \in Panel, NEW texts \in SUBSET Text, NEW ids \in SUBSET Completion,
             Results!Inspect(p, texts, ids)
      PROVE  ResultInv'
  <2> DEFINE message == Results!Inspection(p, texts, ids)
  <2>1. message \in OtherMessage /\ Results!Add(message) /\ message.kind = "inspect"
    BY <1>3 DEF Results!Inspect, Results!Inspection, OtherMessage
  <2> HIDE DEF message
  <2>2. QED
    BY <2>1, AddKeepsResults
<1>4. ASSUME NEW p \in Panel, NEW kind \in {"send", "close"}, Results!Add(Results!Action(kind, p)) PROVE ResultInv'
  <2> DEFINE message == Results!Action(kind, p)
  <2>1. message \in OtherMessage /\ message.kind # "notice"
    BY DEF Results!Action, OtherMessage
  <2>2. Results!Add(message)
    BY <1>4
  <2> HIDE DEF message
  <2>3. QED
    BY <2>1, <2>2, AddKeepsResults
<1>5. CASE Results!Compact
  <2>1. /\ messages' = messages /\ start' \in (start + 1)..(Len(messages) + 1)
        /\ start \in 1..(Len(messages) + 1) /\ Len(messages) \in Nat
    BY <1>5 DEF Results!Compact, ResultInv
  <2>2. start' \in 1..(Len(messages') + 1)
    BY <2>1
  <2>3. QED
    BY <2>1, <2>2 DEF ResultInv, Places, Results!At
<1>6. CASE UNCHANGED resultVars
  BY <1>6 DEF resultVars, ResultInv, Places, Results!At
<1>7. QED
  BY <1>1, <1>2, <1>3, <1>4, <1>5, <1>6 DEF Results!ResultNext

\* Every non-empty set of natural numbers has a least element.
LEMMA LeastNumber ==
    ASSUME NEW T, T \subseteq Nat, T # {}
    PROVE  \E x \in T : \A y \in T : x <= y
<1>1. PICK n \in T : TRUE
  OBVIOUS
<1> DEFINE S == 0..n
           R == StrictSubsetOrdering(S)
           TT == {0..t : t \in {u \in T : u <= n}}
<1>2. IsWellFoundedOn(R, SUBSET S)
  <2>1. IsFiniteSet(S)
    BY <1>1, FS_Interval
  <2>2. FiniteSubsetsOf(S) = SUBSET S
    BY <2>1, FS_FiniteSubsetsOfFinite
  <2>3. QED
    BY <2>2, FS_StrictSubsetOrderingWellFounded
<1>3. TT \subseteq SUBSET S /\ TT # {}
  BY <1>1
<1>4. PICK X \in TT : \A Y \in TT : ~(<<Y, X>> \in R)
  BY <1>2, <1>3, WFMin
<1>5. PICK x \in T : x <= n /\ X = 0..x
  BY <1>4
<1>6. ASSUME NEW y \in T, y < x PROVE FALSE
  <2>1. 0..y \in TT /\ 0..y \subseteq 0..x /\ 0..y # 0..x
    BY <1>5, <1>6, <1>1
  <2>2. <<0..y, X>> \in R
    BY <2>1, <1>3, <1>5 DEF StrictSubsetOrdering
  <2>3. QED
    BY <2>1, <2>2, <1>4
<1>7. QED
  BY <1>5, <1>6

LEMMA ResultCounts == ASSUME NEW S PROVE Results!Cardinality(S) = Cardinality(S)
  BY DEF Results!Cardinality, Cardinality

LEMMA BlocksArePlaces ==
    ASSUME ResultInv, NEW x \in Results!Blocks
    PROVE  x \in Places /\ x[1] \in Results!InContext("notice")
  BY DEF Results!Blocks, Results!InContext, Results!Kind, Places

\* A completion is told where the context first reports it.
LEMMA FirstIsTold ==
    ASSUME ResultInv, NEW x \in Results!Blocks, Results!At(x).id # Old,
           Results!At(x).id \notin Results!Consumed
    PROVE  \E y \in Results!Remaining : Results!At(y) = Results!At(x)
<1> DEFINE Rank(y) == 2 * y[1] + y[2]
           Same == {y \in Results!Blocks : Results!At(y).id = Results!At(x).id}
           T == {Rank(y) : y \in Same}
<1>1. \A y \in Same : Rank(y) \in Nat
  BY BlocksArePlaces, PlaceFacts
<1>2. x \in Same
  OBVIOUS
<1>3. PICK n \in T : \A t \in T : n <= t
  <2>1. T \subseteq Nat /\ T # {}
    BY <1>1, <1>2
  <2> HIDE DEF T
  <2>2. QED
    BY <2>1, LeastNumber
<1>4. PICK y \in Same : \A z \in Same : Rank(y) <= Rank(z)
  BY <1>3
<1>5. Results!At(y) = Results!At(x)
  BY BlocksArePlaces DEF ResultInv
<1>6. ASSUME NEW z \in Results!Blocks, Results!Before(z, y), Results!At(z).id = Results!At(y).id PROVE FALSE
  <2>1. z \in Same /\ z \in Places /\ y \in Places
    BY <1>5, <1>6, BlocksArePlaces
  <2>2. z[1] \in Nat /\ y[1] \in Nat /\ z[2] \in 1..2 /\ y[2] \in 1..2
    BY <2>1, PlaceFacts
  <2>3. Rank(y) <= Rank(z)
    BY <1>4, <2>1
  <2>4. QED
    BY <1>6, <2>2, <2>3 DEF Results!Before
<1>7. ~Results!Removed(y)
  BY <1>5, <1>6 DEF Results!Removed
<1>8. QED
  BY <1>5, <1>7 DEF Results!Remaining

\* A report that is told can be read, where it stands or where it refers to.
LEMMA ToldIsReadable ==
    ASSUME NEW y \in Results!Remaining, NEW x, Results!At(y).text = Results!At(x).text
    PROVE  Results!Readable(x)
<1>1. CASE Results!Referred(y)
  <2>1. PICK j \in Results!InContext("inspect") : Results!At(y).text \in messages[j].texts
    BY <1>1 DEF Results!Referred, Results!AlreadyVisible
  <2>2. QED
    BY <2>1 DEF Results!Readable
<1>2. CASE ~Results!Referred(y)
  BY <1>2 DEF Results!Readable
<1>3. QED
  BY <1>1, <1>2

\* New work of a panel tells the messages before it from those after it.
LEMMA WorkParts ==
    ASSUME ResultInv, NEW p, NEW i \in Nat, NEW j \in Nat, NEW s \in Results!InContext("send"),
           messages[s].panel = p, i < s, s < j
    PROVE  Results!Epoch(p, i) # Results!Epoch(p, j)
<1> DEFINE Work(n) == {k \in Results!InContext("send") : k < n /\ messages[k].panel = p}
<1>1. Results!InContext("send") \subseteq 1..Len(messages) /\ Len(messages) \in Nat
  BY DEF Results!InContext, Results!Kind, ResultInv
<1>2. IsFiniteSet(Work(j))
  <2>1. Work(j) \subseteq 1..Len(messages)
    BY <1>1
  <2>2. IsFiniteSet(1..Len(messages))
    BY <1>1, FS_Interval
  <2> HIDE DEF Work
  <2>3. QED
    BY <2>1, <2>2, FS_Subset
<1>3. Work(i) \subseteq Work(j) /\ s \in Work(j) /\ s \notin Work(i)
  BY <1>1
<1>4. /\ Results!Epoch(p, i) = Cardinality(Work(i))
      /\ Results!Epoch(p, j) = Cardinality(Work(j))
  BY ResultCounts DEF Results!Epoch
<1> HIDE DEF Work
<1>5. Cardinality(Work(i)) # Cardinality(Work(j))
  BY <1>2, <1>3, FS_Subset
<1>6. QED
  BY <1>4, <1>5

LEMMA ResultsAreRight == ASSUME ResultInv PROVE Results!ReportsStayReadable
<1>1. ASSUME NEW x \in Results!Blocks, Results!At(x).id \notin Results!Consumed PROVE Results!Readable(x)
  <2>1. CASE x \in Results!Remaining
    BY <2>1, ToldIsReadable
  <2>2. CASE x \notin Results!Remaining /\ Results!At(x).id = Old
    <3>1. Results!AlreadyVisible(Results!At(x), x[1])
      BY <2>2 DEF Results!Remaining, Results!Removed
    <3>2. PICK j \in Results!InContext("inspect") : Results!At(x).text \in messages[j].texts
      BY <3>1 DEF Results!AlreadyVisible
    <3>3. QED
      BY <3>2 DEF Results!Readable
  <2>3. CASE Results!At(x).id # Old
    <3>1. PICK y \in Results!Remaining : Results!At(y) = Results!At(x)
      BY <1>1, <2>3, FirstIsTold
    <3>2. QED
      BY <3>1, ToldIsReadable
  <2>4. QED
    BY <2>1, <2>2, <2>3
<1>2. ASSUME NEW x \in Results!Blocks, x \notin Results!Remaining, Results!At(x).id = Old
      PROVE  \E j \in Results!InContext("inspect") :
                /\ messages[j].panel = Results!At(x).panel
                /\ ~\E s \in Results!InContext("send") :
                    /\ messages[s].panel = Results!At(x).panel
                    /\ (j < s /\ s < x[1]) \/ (x[1] < s /\ s < j)
  <2> DEFINE p == Results!At(x).panel
  <2>1. Results!AlreadyVisible(Results!At(x), x[1])
    BY <1>2 DEF Results!Remaining, Results!Removed
  <2>2. PICK j \in Results!InContext("inspect") :
            messages[j].panel = p /\ Results!Epoch(p, j) = Results!Epoch(p, x[1])
    BY <2>1 DEF Results!AlreadyVisible
  <2>3. j \in Nat /\ x[1] \in Nat
    BY BlocksArePlaces, PlaceFacts DEF Results!InContext, Results!Kind
  <2> HIDE DEF p
  <2>4. ASSUME NEW s \in Results!InContext("send"), messages[s].panel = p, (j < s /\ s < x[1]) \/ (x[1] < s /\ s < j)
        PROVE  FALSE
    BY <2>2, <2>3, <2>4, WorkParts
  <2>5. QED
    BY <2>2, <2>4 DEF p
<1>3. ASSUME NEW x \in Results!Remaining, NEW y \in Results!Remaining, x # y,
             Results!At(x).id = Results!At(y).id, Results!At(x).id # Old
      PROVE  FALSE
  <2>1. x \in Results!Blocks /\ y \in Results!Blocks /\ ~Results!Removed(x) /\ ~Results!Removed(y)
    BY DEF Results!Remaining
  <2>2. /\ x = <<x[1], x[2]>> /\ y = <<y[1], y[2]>> /\ x[1] \in Nat /\ x[2] \in Nat /\ y[1] \in Nat /\ y[2] \in Nat
    BY <2>1, BlocksArePlaces, PlaceFacts
  <2>3. x[1] # y[1] \/ x[2] # y[2]
    BY <1>3, <2>2
  <2>4. Results!Before(x, y) \/ Results!Before(y, x)
    BY <2>2, <2>3 DEF Results!Before
  <2>5. QED
    BY <1>3, <2>1, <2>4 DEF Results!Removed
<1>4. ASSUME NEW x \in Results!Blocks \ Results!Remaining
      PROVE  Results!At(x).panel \notin Results!Directives(x[1])
  BY DEF Results!Directives
<1>5. QED
  BY <1>1, <1>2, <1>3, <1>4, Zenon DEF Results!ReportsStayReadable

----------------------------------------------------------------------------
(* What is done with the subagents that run                                *)

\* A wait for a subagent ends well only when the subagent has finished, however
\* briefly it is idle before it begins, and does not time out when it had
\* finished before (actions.ts waitForFinished); every variable beside it has
\* its type.
THEOREM WaitsAreHonest == ASSUME Careful, Prompt PROVE RegistrySpec => []WaitIsHonest
<1> DEFINE All == Inv /\ WaitInv /\ ResultInv /\ WidgetInv
<1>1. WidgetBounds /\ MaxMessages \in Nat
  BY SizesAssumption DEF WidgetBounds
<1>2. RegistryInit => All
  BY <1>1, InitInv, WaitInvInit, ResultInvInit, WidgetInvInit DEF RegistryInit
<1>3. ASSUME All, [RegistryNext]_<<focus, vars, waitVars, resultVars, widgetVars>> PROVE All'
  <2>1. /\ [Next]_vars /\ [Wait!WaitNext]_waitVars
        /\ [Results!ResultNext]_resultVars /\ [Widget!WidgetNext]_widgetVars
    BY <1>3 DEF RegistryNext
  <2>2. QED
    BY <1>1, <1>3, <2>1, NextInv, WaitInvNext, ResultInvNext, WidgetInvNext
<1>4. All => WaitIsHonest
  <2>1. Inv => TypeOK
    BY DEF Inv
  <2>2. WaitInv => Wait!WaitTypeOK /\ Wait!WaitIsHonest
    BY DEF WaitInv
  <2>3. ResultInv => Results!ResultTypeOK
    BY DEF ResultInv, Results!ResultTypeOK
  <2>4. WidgetInv => Widget!WidgetTypeOK
    BY <1>1, WidgetIsRight
  <2>5. QED
    BY <2>1, <2>2, <2>3, <2>4 DEF WaitIsHonest
<1> HIDE DEF All
<1>5. QED
  BY <1>2, <1>3, <1>4, PTL DEF RegistrySpec

\* No report is lost from the context, told twice, or asked for again once it
\* was dropped, whatever is read, removed and compacted (notifications.ts
\* refreshSubagentResultGuidance).
THEOREM NoReportIsUnreadable == RegistrySpec => []ReportsStayReadable
<1>1. RegistryInit => ResultInv
  BY SizesAssumption, ResultInvInit DEF RegistryInit
<1>2. ASSUME ResultInv, [RegistryNext]_<<focus, vars, waitVars, resultVars, widgetVars>> PROVE ResultInv'
  <2>1. [Results!ResultNext]_resultVars
    BY <1>2 DEF RegistryNext
  <2>2. QED
    BY <1>2, <2>1, SizesAssumption, ResultInvNext
<1>3. ResultInv => ReportsStayReadable
  BY ResultsAreRight DEF ReportsStayReadable
<1>4. QED
  BY <1>1, <1>2, <1>3, PTL DEF RegistrySpec

\* However sessions, pokes and ticks overlap, the widget of a session is
\* refreshed by one chain of ticks, and without a session by none
\* (overview-widget.ts schedule and pokeActive).
THEOREM OneChainOfTicks == RegistrySpec => []WidgetHasOneTimer
<1>0. WidgetBounds
  BY SizesAssumption DEF WidgetBounds
<1>1. RegistryInit => WidgetInv
  BY <1>0, WidgetInvInit DEF RegistryInit
<1>2. ASSUME WidgetInv, [RegistryNext]_<<focus, vars, waitVars, resultVars, widgetVars>> PROVE WidgetInv'
  <2>1. [Widget!WidgetNext]_widgetVars
    BY <1>2 DEF RegistryNext
  <2>2. QED
    BY <1>0, <1>2, <2>1, WidgetInvNext
<1>3. WidgetInv => WidgetHasOneTimer
  BY <1>0, WidgetIsRight DEF WidgetHasOneTimer
<1>4. QED
  BY <1>1, <1>2, <1>3, PTL DEF RegistrySpec
=============================================================================
