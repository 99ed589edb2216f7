------------------------- MODULE ProjectInstructions -------------------------
(***************************************************************************)
(* The private instructions of a project (project-agents/storage.ts,       *)
(* index.ts): where they are kept, which the Git layout decides; how pi    *)
(* processes edit, remove and read them at the same time; crashes.         *)
(***************************************************************************)
EXTENDS Naturals, FiniteSets, FiniteSetsExt

CONSTANTS
    Process,        \* pi processes
    Depth,          \* directories 1..Depth, each inside the one before
    Instructions,   \* the texts that are saved
    LayoutFaults    \* a subset of {"git_init"}: the layout changes under a process

VARIABLES
    marker,         \* what .git is in each directory
    metadata,       \* the Git directory that a .git file names
    saved,          \* the instructions file of each location
    temporary,      \* the temporary file of each process
    process         \* what each process does, where, and its cachedLocation

instructionsVars == <<marker, metadata, saved, temporary, process>>

Dir == 1..Depth
Markers == {"absent", "directory", "symlink", "file", "malformed"}
Locations == {"path", "git", "marker"} \X Dir
Unlocated == <<"failure", 0>>
Absent == "absent"
Partial == "partial"

Idle(d) == [at |-> "idle", cwd |-> d, location |-> Unlocated, cached |-> Unlocated,
            text |-> Absent, told |-> Absent]

InstructionsTypeOK ==
    /\ marker \in [Dir -> Markers]
    /\ saved \in [Locations -> Instructions \cup {Absent, Partial}]
    /\ temporary \in [Process -> Instructions \cup {Absent, Partial}]
    /\ \A p \in Process :
        /\ process[p].at \in {"idle", "start", "edit", "editor", "write", "remove", "confirm"}
        /\ process[p].at # "idle" => process[p].location \in Locations
        /\ process[p].at = "write" => process[p].text \in Instructions

\* The metadata of a worktree lies in the Git directory of a repository, has a
\* backlink to its worktree, and names the common directory; a separate Git
\* directory has neither.
InstructionsInit ==
    /\ marker \in [Dir -> Markers]
    /\ metadata \in [separate : BOOLEAN, backlink : {0} \cup Dir, common : Dir, inside : BOOLEAN]
    /\ metadata.separate => metadata = [separate |-> TRUE, backlink |-> 0, common |-> 1, inside |-> FALSE]
    /\ saved = [l \in Locations |-> Absent]
    /\ temporary = [p \in Process |-> Absent]
    /\ process \in [Process -> {Idle(d) : d \in Dir}]

-----------------------------------------------------------------------------
(* storage.ts: locateProjectInstructions                                   *)

\* findGitMarker: the nearest directory around d that has a .git; 0 is none.
Root(d) == Max({0} \cup {e \in 1..d : marker[e] # "absent"})

\* resolveGitIdentityPath for a .git file.
WorktreeIdentity(root) ==
    IF metadata.separate THEN <<"marker", root>>
    ELSE IF metadata.backlink = root /\ metadata.inside THEN <<"git", metadata.common>>
    ELSE Unlocated

Located(d) ==
    CASE Root(d) = 0 -> <<"path", d>>
      [] Root(d) > 0 /\ marker[Root(d)] = "directory" -> <<"git", Root(d)>>
      [] Root(d) > 0 /\ marker[Root(d)] = "file" -> WorktreeIdentity(Root(d))
      [] OTHER -> Unlocated

-----------------------------------------------------------------------------
(* index.ts                                                                *)

Goes(p, now) == process' = [process EXCEPT ![p] = now]
Ends(p) == Goes(p, [process[p] EXCEPT !.at = "idle", !.location = Unlocated, !.text = Absent])

\* getLocation, then the command or the start of an agent.
Begin(p, what) ==
    LET s == process[p]
        location == IF s.cached # Unlocated THEN s.cached ELSE Located(s.cwd) IN
    /\ s.at = "idle"
    /\ Goes(p, IF location # Unlocated
               THEN [s EXCEPT !.at = what, !.location = location, !.cached = location, !.told = Absent]
               ELSE [s EXCEPT !.told = IF what = "start" THEN "unavailable" ELSE @])
    /\ UNCHANGED <<marker, metadata, saved, temporary>>

\* before_agent_start: what the file holds, or that it cannot be read.
StartAgent(p) ==
    /\ process[p].at = "start"
    /\ \E told \in {saved[process[p].location], "unavailable"} :
        Goes(p, [process[p] EXCEPT !.at = "idle", !.location = Unlocated, !.told = told])
    /\ UNCHANGED <<marker, metadata, saved, temporary>>

\* editInstructions, removeInstructions: the file is read first.
ReadFirst(p) ==
    /\ \/ process[p].at = "edit" /\ Goes(p, [process[p] EXCEPT !.at = "editor"])
       \/ process[p].at = "remove" /\ saved[process[p].location] # Absent
          /\ Goes(p, [process[p] EXCEPT !.at = "confirm"])
       \/ process[p].at \in {"edit", "remove"} /\ Ends(p)
    /\ UNCHANGED <<marker, metadata, saved, temporary>>

Edited(p, text) ==
    /\ process[p].at = "editor"
    /\ Goes(p, [process[p] EXCEPT !.at = "write", !.text = text])
    /\ UNCHANGED <<marker, metadata, saved, temporary>>

Cancelled(p) ==
    /\ process[p].at \in {"editor", "confirm"}
    /\ Ends(p)
    /\ UNCHANGED <<marker, metadata, saved, temporary>>

\* removeProjectInstructions: the editor left nothing, or the user agreed.
Remove(p) ==
    /\ process[p].at \in {"editor", "confirm"}
    /\ saved' = [saved EXCEPT ![process[p].location] = Absent]
    /\ Ends(p)
    /\ UNCHANGED <<marker, metadata, temporary>>

\* writeProjectInstructions: a write is not atomic; the rename is.
WriteTemporary(p) ==
    /\ process[p].at = "write" /\ temporary[p] \in {Absent, Partial}
    /\ temporary' = [temporary EXCEPT ![p] = IF @ = Absent THEN Partial ELSE process[p].text]
    /\ UNCHANGED <<marker, metadata, saved, process>>

Rename(p) ==
    /\ process[p].at = "write" /\ temporary[p] = process[p].text
    /\ saved' = [saved EXCEPT ![process[p].location] = process[p].text]
    /\ temporary' = [temporary EXCEPT ![p] = Absent]
    /\ Ends(p)
    /\ UNCHANGED <<marker, metadata>>

\* A step of the write fails: the temporary file is removed.
WriteFails(p) ==
    /\ process[p].at = "write"
    /\ temporary' = [temporary EXCEPT ![p] = Absent]
    /\ Ends(p)
    /\ UNCHANGED <<marker, metadata, saved>>

\* The next process of the user starts afresh, with other temporary names.
Crash(p) ==
    /\ process[p].at # "idle"
    /\ temporary' = [temporary EXCEPT ![p] = Absent]
    /\ Goes(p, Idle(process[p].cwd))
    /\ UNCHANGED <<marker, metadata, saved>>

\* Git makes a repository of a directory, or repairs it.
Layout(d) ==
    /\ "git_init" \in LayoutFaults \/ \A p \in Process : process[p].cached = Unlocated
    /\ marker[d] = "absent" /\ marker' = [marker EXCEPT ![d] = "directory"]
    /\ process' = [p \in Process |-> [process[p] EXCEPT !.told = Absent]]
    /\ UNCHANGED <<metadata, saved, temporary>>

InstructionsNext ==
    \/ \E p \in Process :
        \/ \E what \in {"start", "edit", "remove"} : Begin(p, what)
        \/ StartAgent(p) \/ ReadFirst(p) \/ Cancelled(p) \/ Remove(p)
        \/ \E text \in Instructions : Edited(p, text)
        \/ WriteTemporary(p) \/ Rename(p) \/ WriteFails(p) \/ Crash(p)
    \/ \E d \in Dir : Layout(d)

-----------------------------------------------------------------------------
(* Properties                                                              *)

\* The file of a project is whole or absent, whoever crashes, and an agent is
\* told it only where the layout makes it that project's: no directory takes on
\* the identity of another checkout by naming its metadata.
InstructionsAreKept ==
    /\ \A l \in Locations : saved[l] # Partial
    /\ \A p \in Process : process[p].told # Partial
    /\ \A p \in Process : process[p].at # "idle" => process[p].location = Located(process[p].cwd)
    /\ \A d, e \in Dir :
        (Located(d) = Located(e) /\ Located(d) # Unlocated) =>
            Root(d) = Root(e) \/ "directory" \in {marker[Root(d)], marker[Root(e)]}
=============================================================================
