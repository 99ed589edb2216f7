----------------------------- MODULE StatusLine ------------------------------
(***************************************************************************)
(* The branch and the pull request in the status line (statusline/         *)
(* repository/index.ts, core/runtime.ts): a loop asks git every 5 seconds, *)
(* a loop asks gh every 60, and every end of a turn starts a fiber of its  *)
(* own; each writes what it was answered into the state of the session.    *)
(***************************************************************************)
EXTENDS Naturals

CONSTANTS
    Branch,         \* the branches
    Turn,           \* the fibers of turns that run at the same time
    MaxSwitches,    \* a bound on how often the user changes branches
    MaxRuntimes     \* a bound on the sessions

VARIABLES
    head,           \* what git answers: the branch that is checked out
    switches,       \* how often it has changed
    runtime,        \* StatusLineRuntime: which one, and is it disposed
    repository,     \* REPOSITORY_STATUS: the branch, and whose pull request
    fiber           \* what each fiber does

lineVars == <<head, switches, runtime, repository, fiber>>

Job == {"git", "github"} \cup Turn
Nowhere == "Unavailable"    \* no repository, no branch, or git has failed
Unknown == "Unknown"
Told == Branch \cup {Nowhere, Unknown}

Asleep == [at |-> "asleep", answer |-> Unknown]
Doing(at, answer) == [at |-> at, answer |-> answer]
Initial == [branch |-> Unknown, pullRequest |-> Unknown]

LineTypeOK ==
    /\ head \in Branch \cup {Nowhere} /\ switches \in 0..MaxSwitches
    /\ runtime \in [number : 0..MaxRuntimes, up : BOOLEAN]
    /\ repository \in [branch : Told, pullRequest : Told]
    /\ fiber \in [Job -> [at : {"asleep", "askedGit", "pullRequest", "askedGh"}, answer : Told]]

LineInit ==
    /\ head \in Branch \cup {Nowhere} /\ switches = 0
    /\ runtime = [number |-> 0, up |-> FALSE]
    /\ repository = Initial
    /\ fiber = [j \in Job |-> Asleep]

-----------------------------------------------------------------------------
(* core/runtime.ts, index.ts                                               *)

\* session_start: a new runtime with a state of its own.
Start ==
    /\ ~runtime.up /\ runtime.number < MaxRuntimes
    /\ runtime' = [number |-> runtime.number + 1, up |-> TRUE]
    /\ repository' = Initial
    /\ UNCHANGED <<head, switches, fiber>>

\* session_shutdown: the fibers are interrupted.
Shutdown ==
    /\ runtime.up
    /\ runtime' = [runtime EXCEPT !.up = FALSE]
    /\ fiber' = [j \in Job |-> Asleep]
    /\ UNCHANGED <<head, switches, repository>>

Checkout(b) ==
    /\ switches < MaxSwitches /\ b # head
    /\ head' = b /\ switches' = switches + 1
    /\ UNCHANGED <<runtime, repository, fiber>>

-----------------------------------------------------------------------------
(* repository/index.ts                                                     *)

Fiber(j, now) == fiber' = [fiber EXCEPT ![j] = now]

\* refreshGitStatus asks; git answers what is checked out, or fails.
AskGit(j) ==
    /\ runtime.up /\ j # "github" /\ fiber[j] = Asleep
    /\ \E answer \in {head, Nowhere} : Fiber(j, Doing("askedGit", answer))
    /\ UNCHANGED <<head, switches, runtime, repository>>

\* The answer is stored; when it changes the state, the pull request follows.
StoreBranch(j) ==
    /\ fiber[j].at = "askedGit"
    /\ repository' = [repository EXCEPT !.branch = fiber[j].answer]
    /\ Fiber(j, IF repository' = repository THEN Asleep ELSE Doing("pullRequest", Unknown))
    /\ UNCHANGED <<head, switches, runtime>>

\* The loop of gh begins with the pull request.  Mutant: with the profile only.
WakeGitHub_Profile ==
    /\ runtime.up /\ fiber["github"] = Asleep
    /\ UNCHANGED lineVars

WakeGitHub ==
    /\ runtime.up /\ fiber["github"] = Asleep
    /\ Fiber("github", Doing("pullRequest", Unknown))
    /\ UNCHANGED <<head, switches, runtime, repository>>

\* refreshPullRequest without a branch.
ForgetPullRequest(j) ==
    /\ fiber[j].at = "pullRequest" /\ repository.branch \notin Branch
    /\ repository' = [repository EXCEPT !.pullRequest = Unknown]
    /\ Fiber(j, Asleep)
    /\ UNCHANGED <<head, switches, runtime>>

\* gh is asked for the branch that is shown now; it answers, or fails.
AskGh(j) ==
    /\ fiber[j].at = "pullRequest" /\ repository.branch \in Branch
    /\ \E answer \in {repository.branch, Nowhere} : Fiber(j, Doing("askedGh", answer))
    /\ UNCHANGED <<head, switches, runtime, repository>>

StorePullRequest(j) ==
    /\ fiber[j].at = "askedGh"
    /\ repository' = [repository EXCEPT !.pullRequest = fiber[j].answer]
    /\ Fiber(j, Asleep)
    /\ UNCHANGED <<head, switches, runtime>>

Step(j) == StoreBranch(j) \/ ForgetPullRequest(j) \/ AskGh(j) \/ StorePullRequest(j)

LineNext ==
    \/ Start \/ Shutdown
    \/ \E b \in Branch \cup {Nowhere} : Checkout(b)
    \/ \E j \in Job : AskGit(j) \/ Step(j)
    \/ WakeGitHub

\* The loops go on, and commands end: they have timeouts.
LineFairness ==
    /\ WF_lineVars(AskGit("git")) /\ WF_lineVars(WakeGitHub)
    /\ \A j \in Job : WF_lineVars(Step(j))

-----------------------------------------------------------------------------
(* Properties                                                              *)

\* Fibers overlap, and the answer about a branch that was left may be the last
\* to arrive; still, once the user stays on a branch, the status line does not
\* keep the pull request of another one.
Current == runtime.up => repository.pullRequest \in {repository.branch, Nowhere, Unknown}
StatusCatchesUp == []<>Current
=============================================================================
