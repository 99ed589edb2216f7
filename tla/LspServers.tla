----------------------------- MODULE LspServers ------------------------------
(***************************************************************************)
(* Which language server serves a file, from which directory, and which    *)
(* program it is (lsp/server.ts, config.ts, and their use in runtime.ts).  *)
(* The directories 0..Depth lie one in another; cwd is one of them, and so *)
(* is the directory of the file.                                           *)
(***************************************************************************)
EXTENDS Naturals, FiniteSets, FiniteSetsExt

CONSTANTS
    Depth,
    None,           \* no directory, no program
    LookupFaults    \* a subset of {"dotted", "symlink"}: a directory in cwd has a
                    \* name that begins with two dots; cwd is a symbolic link

VARIABLES
    dirs,           \* cwd, the directory of the file, and the names with dots
    config,         \* agent/lsp.json, for each server
    marked,         \* the directories with a root marker of each server
    installed       \* where a program is: directories, Agent, Path

serversVars == <<dirs, config, marked, installed>>

Dir == 0..Depth
Agent == Depth + 1  \* the packages of pi
Path == Depth + 2   \* the PATH
ServerId == {"typescript", "eslint", "rust-analyzer", "own"}

\* builtinServers: of the table, what a choice depends on.
Builtin == [id \in ServerId \ {"own"} |->
    [strictRoot |-> id = "rust-analyzer", navigation |-> id # "eslint",
     matches |-> id # "rust-analyzer"]]

\* parseServerConfig: the fields that the user sets, to another value.
Fields == {"disabled", "command", "extensions", "strictRoot"}

ServersTypeOK ==
    /\ dirs \in [cwd : Dir, file : Dir, dotted : SUBSET Dir, symlink : BOOLEAN]
    /\ config \in [ServerId -> SUBSET Fields]
    /\ marked \in [ServerId -> SUBSET Dir]
    /\ installed \subseteq (Dir \cup {Agent, Path})

ServersInit ==
    /\ dirs \in [cwd : Dir, file : Dir,
                 dotted : IF "dotted" \in LookupFaults THEN SUBSET Dir ELSE {{}},
                 symlink : IF "symlink" \in LookupFaults THEN BOOLEAN ELSE {FALSE}]
    /\ config = [id \in ServerId |-> {}]
    /\ marked = [id \in ServerId |-> {}]
    /\ installed = {}

-----------------------------------------------------------------------------
(* server.ts                                                               *)

\* isWithin: the relative path from parent does not begin with two dots.
IsWithin(child, parent) ==
    child = parent \/ (child > parent /\ parent + 1 \notin dirs.dotted)

\* The loop that findServerRoot, findInNodeModules and resolveNodeModuleFile
\* share: the first directory with what is looked for, upwards from start to
\* stop.
Ascend(start, stop, found) ==
    LET up[d \in Dir] ==
            IF ~IsWithin(d, stop) THEN None
            ELSE IF d \in found THEN d
            ELSE IF d = stop \/ d = 0 THEN None ELSE up[d - 1]
    IN up[start]

\* mergeServerConfig: None when the server is disabled, or has no command.
Merged(id) ==
    LET user == config[id]
        base == IF id = "own"
                THEN [strictRoot |-> FALSE, navigation |-> TRUE, matches |-> FALSE]
                ELSE Builtin[id] IN
    IF "disabled" \in user \/ (id = "own" /\ "command" \notin user) THEN None
    ELSE [strictRoot |-> base.strictRoot # ("strictRoot" \in user),
          navigation |-> base.navigation,
          matches |-> base.matches # ("extensions" \in user)]

\* buildServerRegistry, and the choice of runtime.ts by extension and capability.
Registry == {id \in ServerId : Merged(id) # None}
Serving(capability) ==
    {id \in Registry : Merged(id).matches /\ (capability = "navigation" => Merged(id).navigation)}

FindServerRoot(id) ==
    LET root == Ascend(dirs.file, dirs.cwd, marked[id]) IN
    IF root # None THEN root
    ELSE IF Merged(id).strictRoot THEN None ELSE dirs.cwd

\* findExecutable: in the packages from the root to cwd, in those of cwd, of pi,
\* and on the path.  A root is canonical, cwd is not: beneath a link no
\* directory of a root is within it.
FindExecutable(root) ==
    LET above == IF dirs.symlink THEN None ELSE Ascend(root, dirs.cwd, installed) IN
    IF above # None THEN above
    ELSE IF dirs.cwd \in installed THEN dirs.cwd
    ELSE IF Agent \in installed THEN Agent
    ELSE IF Path \in installed THEN Path ELSE None

-----------------------------------------------------------------------------
(* What happens to the project.  To bound the states, one server is        *)
(* configured, one is marked, and no program comes after a configuration.  *)

\* A runtime reads the configuration when it begins.
Configure(id, user) ==
    /\ user # {} /\ installed = {}
    /\ \A other \in ServerId : config[other] = {}
    /\ config' = [config EXCEPT ![id] = user]
    /\ UNCHANGED <<dirs, marked, installed>>

Mark(id, d) ==
    /\ d \notin marked[id]
    /\ \A other \in ServerId \ {id} : marked[other] = {}
    /\ marked' = [marked EXCEPT ![id] = @ \cup {d}]
    /\ UNCHANGED <<dirs, config, installed>>

Install(place) ==
    /\ place \notin installed /\ \A id \in ServerId : config[id] = {}
    /\ installed' = installed \cup {place}
    /\ UNCHANGED <<dirs, config, marked>>

ServersNext ==
    \/ \E id \in {"eslint", "rust-analyzer", "own"}, user \in SUBSET Fields : Configure(id, user)
    \/ \E id \in {"typescript", "rust-analyzer"}, d \in Dir : Mark(id, d)
    \/ \E place \in Dir \cup {Agent, Path} : Install(place)

-----------------------------------------------------------------------------
(* Properties                                                              *)

\* A server runs in the nearest directory around the file that has a marker of
\* it and lies in cwd, so that files of one package share a server; never in a
\* directory around cwd; a strict one runs nowhere else.  The program is the one
\* nearest to it, and an installed one is found.  What the user disables serves
\* no file.
RootIsNearest ==
    \A id \in Serving("diagnostics") :
        LET inside == {d \in marked[id] : dirs.cwd <= d /\ d <= dirs.file}
            root == FindServerRoot(id)
            packages == {d \in installed \cap Dir : root # None /\ dirs.cwd <= d /\ d <= root} IN
        /\ "disabled" \notin config[id]
        /\ root = IF inside # {} THEN Max(inside)
                  ELSE IF Merged(id).strictRoot THEN None ELSE dirs.cwd
        /\ root # None =>
            FindExecutable(root) = IF packages # {} THEN Max(packages)
                                   ELSE IF Agent \in installed THEN Agent
                                   ELSE IF Path \in installed THEN Path ELSE None
=============================================================================
