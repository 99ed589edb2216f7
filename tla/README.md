# A verification project for the pi extensions

The repository holds extensions of the pi coding agent, which are programs with
state: they spawn subagents in panes of the terminal multiplexer herdr and tell
the orchestrating agent when these finish, run language servers, relay the
session to a browser, reset the context to a checkpoint, and more. Whether they
do it right depends on the order of tool calls, timers, messages, polls, file
writes, crashes and restarts. This project models those parts in TLA+, checks
them with TLC, and proves some of the properties with TLAPS.

Paths below that begin with no directory of the repository are relative to
`src/agent/extensions/`; those of section 2.1 to `herdr-subagent/` in it.

## 1. Inventory

| Part | State | Operations | Module |
|---|---|---|---|
| Notification manager, `herdr-subagent/notifications.ts` | `watchers`, `groups`, `keyToGroup`, ids delivered, early results, the batch of arms | arming, delivery, inspection, cancel, batch and group timers, callbacks of pane watches | `NotificationManager`, `Notifications`, `ReportLedger` |
| Completion coordinator, RPC, entry point: `completion.ts`, `subagent-rpc.ts`, `index.ts` | send queue, locals of calls in progress, arm file and outbox of each subagent | `execute` around each tool action; write the arm, persist, push and remove a result; session events | `Completion` |
| Actions, registry, worktrees: `actions.ts`, `store.ts`, `worktree.ts` | one JSON file per subagent, tabs, git worktrees | spawn, send, wait, inspect, close | `Registry`, `NameOwnership`, `SubagentWait` |
| Report receipts, `notifications.ts` 232-362 | none: a function of the session's branch | `refreshSubagentResultGuidance` | `ResultContext` |
| Overview widget, `overview-widget.ts` | token, epoch, timer | poke, tick | `OverviewWidget` |
| LSP runtime and lookup, `lsp/runtime.ts`, `server.ts`, `config.ts` | clients, spawns in flight, broken servers, permissions | a call locates, spawns and awaits servers; restart, shutdown | `LspRuntime`, `LspServers` |
| LSP client, `lsp/client.ts` | open documents, diagnostics, life of the process | open, diagnostics, shutdown | `LspClient` |
| LSP tool and permissions, `lsp/tool.ts`, `permissions.ts` | one call; the permission file and its copies | eleven operations, edits after approval; allow, deny, reset | `LspTool`, `LspEdits`, `LspPermissions` |
| Web relay, `web-herdr-relay/` | connection and generation, bootstrap timer, command in flight, write transfers | bootstrap, connect, publish, commands, reload | `WebRelay`, `RelaySnapshot` |
| Agent state, `herdr-agent-state.ts` | state, queue, sequence numbers | publish, drain, reload | `AgentState` |
| Session title, `session-title.ts` | one attempt per session | ask a model, set the name | `SessionTitle` |
| Smart context, `smart-context/` | reset, coordinator, compaction; history pages | checkpoint, reset, continue; list, search, read | `SmartContext`, `ContextHistory` |
| Project agents, `project-agents/` | an instructions file per project, cached location | locate, edit, remove, tell | `ProjectInstructions` |
| Status line, `statusline/` | cached branch, pull request, route | three kinds of fibers; reading of streams | `StatusLine`, `FableRouting` |
| Web tools, `web-tools/` | one call with its timer | fetch, redirect, retry, read, convert | `WebRequests` |
| Small extensions, skills, prompts, themes, vendored SDK | none of note | | not modelled |

How a completion travels: the coordinator gives each spawn or send an **arm id**,
writes it to the subagent's arm file and arms a **watcher** in the manager. The
subagent, another process, reads the file at each input and at each start of a
run, in its own time; when its turn settles it writes a **result** that carries
the arm it read last to the outbox, pushes the same result over RPC,
and removes the outbox copy if the push is acknowledged in time. The manager
takes the result from the push or from the watcher's poll of the outbox,
compares ids, times and arms, and then reports it at once or **holds** it for
the other members of its **group**: the subagents armed within 150 ms of each
other.

What is hard about it: calls are asynchronous and interleave with each other
and with results; results come early, late, twice or never; a watch may resolve
when its watcher is gone; members leave a group for four different reasons;
either process may end at any point. `PROJECT.json` lists these hazards at their
lines, each with the properties that cover it or the reason why none does.

What makes each part correct:

- manager: a completion is reported at most once; an accepted report is told or
  dismissed by its owner and not lost; a group waits only for members that will
  report or leave, and not for ever; old results do not pass for new ones;
- coordinator and RPC: the arm file names the call a turn answers; a call that
  returned is watched; its result is reported once, and by the time all is
  quiet; a completion that beats its own call leaves no futile watcher;
- registry and worktrees: one owner per name; nothing is left of a spawn that
  failed; no work is lost with its worktree;
- LSP: one process per root and server and none forgotten; every caller gets an
  answer; versions and texts in order; edits approved and exact, file by file,
  and told apart from those that were not made;
- relay and agent state: one pursuit of a connection, a view that is that of
  the session, commands that end; the last state is the reported one;
- smart context: what a reset drops is covered by a checkpoint; Escape holds;
- files (permissions, instructions): no update lost, none half written.

## 2. Modules

### 2.1 Completion delivery

`NotificationManager` is the manager as data. The code is one closure of
synchronous functions over a few maps, so a manager is one record (`Manager`),
and each function an operator from a manager to a manager with the function's
name (`arm` is `ArmWatcher`, `cancelKey` is `CancelKey`, and so on). What a
function calls is composed, never left to a later step. Messages sent are the
sequence `sent`, which only grows.

| Code | Record |
|---|---|
| `watchers` (a slot has its arming time, accepted arms, source, and what its watch has found) | `watchers` |
| `groups`, `keyToGroup`, `timeoutHandle` | `groups`, `groupOf`, `timer`: unset, running, or spent when the handle is that of a timer which already ran |
| `deliveredCompletionIds`, `deliveredArmIds` | `seen`, `doneArms` |
| `pendingExternal`, `readyReports` | `early`, `ready` |
| `currentArmBatch`, `nextBatchId` | `batch`, `nextBatch` |

`Notifications` drives the manager by everything that may call it: reservations,
arming after a spawn and after a send, cancels, inspections in two steps,
results delivered any number of times, pane watches that find something now and
call back later, both timers, and the end of the session. Each is an action.
The constant `Calls` names the optional callers of a run.

`ReportLedger` is the abstract specification: a completion is open, then
perhaps held, then told or dismissed for good; a new session forgets what was
open or held. `Notifications` implements it (`FollowsLedger`) under the
refinement mapping `StandingOf`, which reads the standing of an id off the
messages, the groups, the ids seen and the session's time.

`Completion` composes the manager with the coordinator, the arm files, the
outbox, the pushes and the subagents. Every await of `runInput`, of the actions
it wraps and of `reconcile` separates two actions; a call's `stage` is where it
stands. A call is identified with the arm id it draws. `call` with `sendQueue`
is the promise chain of sends, `transit` the pushes on their way, `subagent` what
a subagent process knows. The constant `Faults` names the faults of a run.

What a call typed waits in the pane (`typed`) until pi there takes it. The
subagent's handlers of `input` and `agent_start` (`index.ts:232`) read the arm
file whenever they run: `TakeInput` takes one or more inputs and reads,
`StartRun` reads again. By then the orchestrator may be at another call. A read
is *in step* (`InStep`) if the arm it finds is that of an input taken, or of an
older call; the fault `misread` lets it find any. What a run was really asked is
history: `turn` the calls whose input it took, `answers` the same for each result.
`AbortSend` is the signal of a call (`completion.ts:219`): it ends the call where
it stands and restores nothing. `latest` and `waived` are history too: the last
call that succeeded, or was interrupted after its arm was written; and the calls
whose report a later call, a wait, a close, a failure or a restart made unwanted.

Some awaits are not apart in the model. `PrepareSend` joins `resolvePane` and the
reading of the arm file with the acceptance that follows: only the head of the
queue and spawns write the file, and a pane that closes in between takes the
watcher with it that would accept the arm; the arm is then written for a subagent
that is gone, and written back when the input fails.
`FailSpawn` joins the clean-up of a spawn; its steps, each of which may fail, are
those of `Registry`.

Abstractions:

- A name stands for its pane: a pane is made by one spawn and hosts one
  subagent. Cancelling by pane and by name differ in one point, which `Cancel`
  keeps.
- A report is its completion id and whether it fits in the context untruncated;
  envelopes, summaries and texts are left out. An inspection that shows the
  report, and one that does not, are both possible.
- Polling is abstracted to what it can conclude: a watch with an RPC source
  takes a result from the outbox or sees its pane blocked, one without sees it
  settled. The confirmations that delay the conclusion are timing. In
  `Notifications` a watch of either source may conclude that its pane settled,
  which is more than an RPC watch does on a done or idle pane.
- Timer lengths are left out: a timer that runs may fire at any time. Ordinary
  and straggler timers differ only in length.
- Restarts follow `session_shutdown` and `session_start`; adoption of the
  active subagents is one step. A shutdown and the next session are separated
  by a tick of the clock.
- `readyReports` and `deliveredArmIds` forget their oldest of 256 entries in the
  code and nothing in the model.
- Timestamps of results and arms come from one clock that need not tick between
  two events, so equal times are covered.
- In `Notifications` a result's number is drawn when it is sent; the number of a
  pane watch's own completion is drawn when it is reported.

### 2.2 Subagents and their files

`Registry` follows the files of entries through spawn, hints and close. Every
session is a process, so each file, git or herdr operation is an action, and a
call's `stage` says which comes next: `reserveEntry` alone is `CreateEntry`,
`ReadExisting`, `TakeOver` and `RetryCreate`, and `CreationBreaksOff` when the
writing of the new file fails. An entry file is its owner, its phase, its age and
whether it can be decoded; a spawn also names the tab, the worktree and the task
files it makes. A step that fails leads to the clean-up the code has, in its
order; each part of the clean-up may fail too, is then kept in the history `stuck`,
and the next part goes on. `NameOwnership` is
the abstract specification: a name belongs to nobody or to one subagent, and
never returns to one that gave it up.

`SubagentWait` is the poll of `waitForFinished` against an agent that starts
idle, works, blocks, finishes and is looked at; time has units. A poll may find no
status (`unknown`), and starts the confirmations again. `ResultContext`
is `refreshSubagentResultGuidance` as operators on a branch of notices,
inspections and actions, with compactions. `OverviewWidget` has the token, the
epoch, the timers of the process and the ticks under way as variables.

### 2.3 Language servers

`LspRuntime` follows one root and server: `clients`, `broken`, `spawning`, the
deferreds, the processes. A call's `stage` moves through the awaits of
`clientsForFileEffect` and `spawnForMatchEffect`; a client, its process and its
deferred have the name of the call that made them. `LspClient` is one client and
one document, with the queue of messages to the server and those from it;
`LspTool` one call of the tool on a few servers, from its parameters to its
report; `LspEdits` the texts, as sequences of characters, with `offsetAt` and
`applyTextEdits` translated and compared with what the protocol says of edits
(`Meant`). It edits file by file: whether the edits of a file overlap, or it can be
read at all, is found when its turn comes; a file is emptied and then written, and
a write may stop in between. `LspServers` the search for roots and programs along a path of
directories; `LspPermissions` the permission file, its lock in a process, and
the copies in memory.

### 2.4 What a session tells of itself

`WebRelay` has the relay's generations: each session start is one, and what was
begun for an older one (a request for credentials, a socket) may end at any
time. `view` is what the browser has been told; `write` and `heard` follow a
file's content and what the relay was told to do with it. `RelaySnapshot` is the
normalization: which entries are retained, which tools at which of their
entries, what fits in the bytes. `AgentState` has one queue and one report under
way for each instance of the extension, attempts that are late or lost, and
herdr's rule on sequence numbers. `reportSession` draws from the same numbers and
is left out: the order of the state reports among themselves stays the same, and
whether herdr compares numbers across its methods is not in the repository. `StatusLine` has the two loops and the fibers
of turns; `FableRouting` a response and what it has said; `SessionTitle` the
fibers that ask for a title.

### 2.5 The other extensions

`SmartContext` is the reset: `reset`, `coordinator`, the command, pi's
compaction, Escape, input that waits, and the branch as a sequence of entries.
`ContextHistory` pages over the entries of a branch that grows or is left.
`ProjectInstructions` has the git layout (`.git` directories, files, worktrees
with backlinks), the saved and the temporary files, and processes with their
cached location; the awaits of `locate` are one step, since only the
fault `git_init` changes the layout it reads. `WebRequests` is one call with its timer,
redirects, retry, body and content kind. It follows the redirects of `web_fetch`; a
search provider's own `fetch` (`exa.ts:29`) follows its redirects inside the
runtime, where no code of the repository counts them.

### 2.6 Composition

`MCNotifications` and `MCCompletion` add the symmetry of names and of arms.
`Completion` composes the manager with everything around it. Parts that share no
state with each other are checked in one run by an MC module that instances
them: the variable `focus` says which one a behaviour is of, the others keep
their initial values. Nothing is gained or lost by this: the states of a part
are those it has alone, and a conjunct of a property speaks of its part.

Abstractions common to these modules: a text is a number, a revision or a
member of a small set, except in `LspEdits`, where its characters matter; a
timer that is set may fire at any time, except in `SubagentWait`, where its
length matters; a call on a system (git, herdr, fetch) is an action that
succeeds or, where the code handles it, fails.

## 3. Runs

| Run | Instance | Checks |
|---|---|---|
| `groups` | 3 subagents, 1 batch, 2 results, watches; fair | `TypeOK`, `HeldReportIsTimed`, `HeldReportIsSent` |
| `callers` | 3 subagents, 1 arm, 1 batch, 2 results, 2 times; cancels, inspections, session end | `ReportedOnce`, `MembersAreAwaited`, `HeldReportIsKept`, `FollowsLedger` |
| `stale_timer` | 3 subagents, cancels and inspections | finds `HeldReportIsTimed` violated |
| `lost_report` | 2 subagents, re-arming while a report is held | finds `HeldReportIsKept` violated |
| `faults` | 1 subagent, 2 calls, 2 batches, 2 times; failed input, interrupted calls, arms read out of step, lost pushes, blocked panes, quiet calls, respawns, restarts | `NoFutileWatcher`, `NoStrandedResult` |
| `adopted` | 1 subagent that may be at work at the start, 2 calls, 2 batches, 2 times; arms read out of step, lost pushes, restarts, panes closed early | `ReportedOnce` |
| `delivery` | 2 subagents, 2 calls, 2 batches, 2 times; inputs taken and arms read late, failed input and restarts | `ReturnedCallIsWatched`, `DeliveredAtRest`, `DurableArmIsLatest` |
| `ambiguous` | 1 subagent, 2 calls, failed input | finds `AttemptStaysAccepted` violated |
| `registry` | 3 calls on 1 name with failing steps, failing clean-up and sessions that end; a wait of 10 units polled every 2 by polls that may find no status; 3 messages about 2 panels, 2 texts and 2 completions; 2 sessions of the widget with a poke | `HoldersAreRegistered`, `WorkIsPreserved`, `NothingLeftBehind`, `FollowsOwnership`, `WaitIsHonest`, `ReportsStayReadable`, `WidgetHasOneTimer` |
| `lsp` | 3 calls on a server that crashes, fails to start, with aborts, restart and shutdown; 2 openers of a document of 2 revisions; 2 files with 2 edits, written one after the other and failing anywhere; 3 directories; 1 call on 2 servers | `NoForgottenServer`, `OneServer`, `ShutdownIsFinal`, `NoSpontaneousRestart`, `EveryCallReturns`, `FilesAreServed`, `EditsAreExact` |
| `reports` | 2 commands, 1 write, 3 generations of the relay; snapshots of 4 entries with room for 2; 3 reports to herdr and a reload; 2 branches, 2 switches; 3 stream events; 2 sessions of 3 prompts | `OnePursuit`, `ViewIsCurrent`, `WritesAgree`, `Reconnects`, `CommandsEnd`, `SnapshotsAreCurrent`, `StateIsReported`, `ShownIsTrue` |
| `extensions` | 2 callers in 2 processes with 2 servers; 5 entries and 2 resets; histories of 3 entries; 2 processes in 2 directories; 2 redirects, 2 chunks | `FilesAreKept`, `ResetsAreWarranted`, `PagesAreWhole`, `RequestsAreBounded`, `WaitsEnd` |

Every run ends with the whole bounded state space explored; none has more
than about 2 million states. Deadlock is not checked: clocks, calls and results are
bounded, and a session in which nothing is left to happen is at rest. The
properties that join several parts also state the types of the parts' variables
once, in one conjunct.

The properties in words:

- `ReportedOnce`: no completion id is in two messages. Within a session ids
  that were delivered are remembered; across a restart, which forgets them, only
  the time of the call keeps an outbox copy from being told again.
- `FollowsLedger`: refinement of `ReportLedger`; among other things an expired
  result is never told, and nothing that was told or dismissed returns.
- `MembersAreAwaited`: a member a group still waits for is keyed to that group
  and has a watcher, or a spawn in progress that will arm or release it.
- `HeldReportIsTimed`, `HeldReportIsSent`: a held report has a running timer,
  and is sent in the end.
- `HeldReportIsKept` (action property): a held report leaves its group only for
  a message, a cancel of its subagent, an inspection that began when this report
  was the latest, or the session's end.
- `ReturnedCallIsWatched`: a call that returned and is still wanted has its arm
  in a watcher, or its result held or told.
- `DeliveredAtRest`: when every call, push, watch and timer is over, the result
  of each run that took the input of a wanted call has been told, whatever arm
  it carries.
- `DurableArmIsLatest`: between calls the arm file names the last call that
  succeeded, or was interrupted once its arm was written; it fails as soon as
  sends are not serialized.
- `NoFutileWatcher`, `NoStrandedResult`: no watcher waits for arms that were all
  delivered, or while a result it would take lies in the early buffer.
- `HoldersAreRegistered`: who holds a name, from its reservation on and as long
  as its tab is open, is the one its entry names. `FollowsOwnership` (refinement
  of `NameOwnership`): no entry is overwritten by another subagent's and none
  comes back after its removal.
- `WorkIsPreserved`: what a subagent changed is in its worktree or on a branch,
  whichever git command fails and whoever closes it too. `NothingLeftBehind`: a
  failed spawn leaves of its tab, tree, files and entry only what the step that
  was to remove it failed to remove; no failure keeps a later step from its part.
- `WaitIsHonest`: a wait ends well only if the subagent has finished, and does
  not time out if it had finished before, unless a poll found no status with too
  little time left to begin the confirmations again. `ReportsStayReadable`: every report
  stays readable in the context or was consumed by an inspection, and none is
  told twice. `WidgetHasOneTimer`: one timer, or one tick that will set it.
- `NoForgottenServer`, `OneServer`, `ShutdownIsFinal`: a live process is the one
  of the map or is being initialized; there is at most one; after shutdown none
  is kept. `NoSpontaneousRestart`: a server that failed starts again only after
  a restart by the user. `EveryCallReturns`: each call ends.
- `FilesAreServed`: a file is served from the nearest root by the nearest
  program; a document is opened once, changed in rising versions, and ends with
  the client's text. `EditsAreExact`: wherever an operation stops, each file
  before that place has exactly what the server meant, each after it is as it was,
  a write that failed left a beginning of what was meant, and nothing was done
  before approval; the tool's report leaves no server out.
- `OnePursuit`: an interactive session has a client, or asks for credentials, or
  waits to ask: exactly one of the three. `ViewIsCurrent`: a connected browser
  shows its own session as it is. `WritesAgree`: a write is completed or
  discarded, not both, and available only with its content. `Reconnects`,
  `CommandsEnd`: in the end.
- `SnapshotsAreCurrent`: a snapshot keeps its limits, the newest messages without
  a gap, and each tool's latest state. `StateIsReported`: at rest herdr shows
  what pi does. `ShownIsTrue`: the status line does not keep the pull request of
  a branch that was left, nor tells a fallback as a direct answer; titles are of
  their session and never replace the user's name.
- `FilesAreKept`: no permission is lost to another, no instructions are half
  written or told to another project. `ResetsAreWarranted`: at a compaction for a
  reset the last checkpoint covers all input, and nothing that Escape stopped is
  continued. `PagesAreWhole`: pages show each item of their snapshot once.
  `RequestsAreBounded`: limits on bodies and requests hold, and a call ends with
  its true reason. `WaitsEnd`: settlements and web calls end.

### Bounds

Three subagents are the smallest number for which a group survives the loss of
a member; two results let one be held while another arrives, or a subagent
report twice. One batch in the runs on groups means one group at a time: groups
share no state but the key map, which two batches exercise in `lost_report`,
`delivery`, `faults` and `adopted`. Two times tell old from new. Two calls give
every ordered pair of spawns and sends on one subagent or on two. The early
buffer holds one or two results in place of 32, so that it overflows. An arm
set of one, with results that have it or none, gives matching and legacy
results in `callers`; the runs of `Completion` have two arms, so that one can be
wrong, and `adopted` begins with a turn that has none. `MaxTime`,
`MaxResult` and `BatchId` are their only bounds; each stands in a guard.

In `registry` three calls are a spawn, one that closes it and one that takes its
name; the wait has time for several polls before and after each change; three
messages over two panels, two texts and two completions let a panel show another
report, and a text come back with another completion. In `lsp` three calls are the one that spawns,
one that waits for it and one that finds what is left; two edits meet in all ways
two ranges can; three directories are cwd, a package and its sources. In
`reports` three generations are an old one, the current and a new one; a
snapshot with room for two messages and one tool overflows with four entries. In
`extensions` two callers can be in one process or in two. Five entries have room
for a checkpoint, input after it, a boundary and a compaction that would drop that
input, after what was there before; the second reset has one entry less (`Room`). A redirect limit of two
lets the limit be met with and without the retry.

### What is left out of a run, and why

Some properties hold only without certain callers or faults. They are left out
of the run by name, and TLC confirms each violation if they are put back:

- `HeldReportIsTimed` without cancels and inspections, and both it and
  `HeldReportIsKept` without re-arming a held subagent: findings, see below. Nor
  do they hold when a name that is in use is spawned again.
- `MembersAreAwaited` without spawning a name that is in use. A reservation for
  such a name is indistinguishable from the old membership; the store refuses
  the spawn later.
- `ReturnedCallIsWatched` and `DeliveredAtRest` without arms read out of step
  (`misread`) and `DeliveredAtRest` without interrupted calls (`abort`): findings,
  see below.
- `ReturnedCallIsWatched` without calls that ask for no report: the result of
  such a turn carries no arm, and a result without an arm takes any watcher; the
  turn of an adopted subagent that is at work (`busy`) is such a turn too. And
  without blocked panes and respawns, for which see the next two.
- `DeliveredAtRest` without lost pushes: a watch deletes the outbox file before
  its callback runs, and a re-arm in between discards it. And without blocked
  panes: a block seen before a follow-up's input counts as its completion.
  Nor with a pane closed before its spawn has returned (`closing`): `close`
  deletes the name from `directResultNames` and the spawn adds it again, for a
  subagent that is gone. When the name is used again, a send that comes between
  the new subagent's report and the end of its spawn arms a watcher, which
  discards the older report, and may fail. TLC finds this with three calls.
- `DeliveredAtRest` with a buffer that has room for all early results
  (`PendingLimit` is 32 in the code): the oldest give way.
- `DurableArmIsLatest` without respawns: spawns are not in the queue of sends.

The other modules name theirs in constants (`Faults`, `ToolFaults`, ...). With
the fault in, TLC finds the property violated, except where the table says that
nothing fails; each is a limit of the code:

| Module | Fault | What then fails |
|---|---|---|
| `Registry` | `jams` | Nothing: two spawns whose clean-ups both fail are cut from the run for their number of states, and the theorems include them |
| | `torn` | A session ends between the truncation of an entry and its rewriting, or the rewriting lands in the file of the next owner: an entry that nobody can read, or one that came back |
| | `slow`, `takeovers` | A spawn of more than five minutes is taken for dead; two calls take over one reservation |
| | `overlap` | A call on an older entry of a name removes the entry of its new owner |
| `SubagentWait` | `pause`, `resend` | An agent that rests within its turn, or that was just sent more work, passes for finished |
| `LspRuntime` | `abort_any` | An aborted spawn leaves its deferred pending and whoever waits for it waiting (`runtime.ts:284`); a server being initialized is forgotten |
| | `overlap` | A restart forgets a spawn in progress (`runtime.ts:187`), and a second server is started |
| `LspClient` | `abort`, `pull_only` | A text is recorded and never sent; problems that were fixed are kept (`client.ts:754`) |
| `LspEdits` | `same_start`, `past_line`, `twice`, `stale` | Two insertions at one place are made in reverse order; a character past its line is taken on the next; a file named twice gets its last edits only; edits are made in a text that has changed |
| `LspTool` | `null` | A null answer is reported as malformed |
| `LspServers` | `dotted`, `symlink` | A directory whose name begins with two dots counts as outside of cwd (`server.ts:58`); a root is compared by its canonical path, cwd by its own |
| `LspPermissions` | `processes` | Two pi processes share no lock, and one change is lost |
| `WebRelay` | `reload_fails`, `compact_fails`, `reused` | A flag stays set (`index.ts:596`, `:818`); and if one instance served several sessions, a half-closed connection of the last would be used by the next (`index.ts:121`) |
| `AgentState` | `lost`, `prompt_reload` | A report whose attempts all fail is not sent again; a reload forgets open prompts |
| `FableRouting` | `fetch_rejects`, `bad_json` | The status line waits for a response that never comes (`fetch-observer.ts:71`) |
| `SessionTitle` | `one_instance` | If the extension outlived its session, a late title would name the next |
| `SmartContext` | `late_messages`, `lost_command` | Another extension's message comes after the check; pi drops the command that would end the wait |
| `ProjectInstructions` | `git_init` | The cached location is that of an earlier layout (`index.ts:108`) |
| `WebRequests` | `error_body` | The body of a search provider's error is read without limit (`exa.ts:54`) |

### Findings

- `stale_timer`. `onGroupTimeout` (`notifications.ts:714`) returns before it clears
  the handle when the group holds nothing. After the only held report of a group
  of three was dismissed and its timer ran out, `startGroupTimeout` takes the
  handle for a running timer: the next report waits until all others are done.
- `lost_report`. A subagent whose report is held gets a follow-up. Its next
  report overwrites the held one, or another arming drops it.
- `ambiguous`. ADR 0002 promises that a failed send keeps its arm accepted. The
  arm lives in the watcher of an earlier call; when that call's result comes
  during the send, the watcher goes, and nothing accepts the arm any longer.
- `index.ts:232`, found by TLC with `misread` in the faults of `delivery`. A subagent
  reads from a file which call it answers. If a follow-up writes its arm before the
  subagent takes its earlier input, the earlier run settles under the follow-up's
  arm: its result takes the follow-up's watcher, and if the follow-up then succeeds
  its own result is not awaited, if it fails the earlier call is not.
- `completion.ts:219`, found by TLC with `abort`. The signal of a call interrupts it,
  and `Effect.result` (`:121`) catches failures only, so that the arm written at
  `:115` is not restored. If the send was accepted by no watcher, the subagent's
  next result carries an arm that nobody waits for.
- `lsp/client.ts:625`, read in the code: `closing` is set before the `exit`
  notification is sent, and sending is refused while it is set, so that `exit`
  is never sent and each server ends by the signal that follows. `LspClient`
  models what happens.

## 4. Fairness

`HeldReportIsSent`: `FairSpec` of `Notifications` assumes weak fairness of
`BatchWindowEnds` and of `GroupTimerFires` for each group: a timer set with
`setTimeout` and not cleared fires. Nothing is assumed of subagents, deliveries,
watches or callers, which may stop for ever; a held report is sent even so.

`EveryCallReturns`: `RuntimeFairness` lets each call's fiber go on, which
includes the user's answer to a prompt and the time limits of initialization and
shutdown. No server need crash, no call be aborted, nobody restart.

`Reconnects`, `CommandsEnd`: `RelayFairness` lets the bootstrap timer fire,
requests for credentials be answered, compactions and commands end. Strong
fairness says two things of the world: a broker that is asked again and again
answers at last with credentials, and a connection that is tried again and again
is accepted. Without them no program reconnects. A reload that was accepted
ends the session, unless the fault `reload_fails` is in.

`ShownIsTrue`: `LineFairness` lets the two loops wake, and their commands return,
which their time limits guarantee.

`WaitsEnd`: `ContextFairness` lets pi end turns, call `agent_settled` handlers,
run compactions, and run the command that was sent; strong fairness of
`AgentSettled` says that every run of the agent settles, though its turns go on.
`WebFairness` lets the timer fire and the tool's own steps run, and assumes
nothing of the server.

## 5. Proofs

TLAPS proves the theorems below for all values of the constants: any sets of
names, arms, batches, calls, sessions and any bounds. Of the 40 pairs of a
passing run and one of its properties, six are liveness; each of the other 34 has
its theorem, but for a few invariants (see the end of this section).

| Module | About |
|---|---|
| `Manager_proofs` | every operator of `NotificationManager`: it keeps the types and sends no report twice; who is a member, who is waited for, where a held report goes; the watchers and the early buffers; which answers are handed over |
| `Notifications_proofs` | theorems of `Notifications`, one lemma per action; extends `Manager_proofs` |
| `Completion_proofs`, `Delivery_proofs` | theorems of `Completion`; the second extends the first, which extends `Manager_proofs` |
| `Registry_proofs` | `Registry`, `SubagentWait`, `ResultContext`, `OverviewWidget`, by `MCRegistry` |
| `Lsp_proofs` | `LspRuntime`, `LspClient`, `LspServers`, by `MCLsp` |
| `WebRelay_proofs` | `WebRelay`, and `AgentState` by `MCReports` |
| `Extensions_proofs` | `WebRequests`, `LspPermissions`, `ProjectInstructions`, `SmartContext`, `ContextHistory`, by `MCExtensions` |

The assumptions are those the modules name: `None` is a value of its own, no
record the manager stores, no call, no file and no directory
(`ConstantsAssumption`, `RecordsAssumption`, `CallsAssumption`, `NoneIsNoFile`,
`NoneIsNoCall`), `PendingLimit` is a positive number, the faults are those
listed, and the bounds and sizes of a run are numbers (`SizesAssumption`,
`ReportSizesAssumption`, `LspSizesAssumption`, `ExtensionsAssumption`). A theorem
that holds only without some fault or caller names it as its hypothesis. Section
3 says for each what goes wrong with it; two hypotheses are there for the types
only, which a property states for all parts of its run: `Careful` in
`WaitsAreHonest`, `Orderly` in `FilesStayServed`.

The theorems that are about a part of an MC module are about its specification.
The other parts keep their variables while one is in focus, so that each
invariant is proved of the steps of its own part.

### Notifications

| Theorem | Property | Without |
|---|---|---|
| `TypeCorrect` | `[]TypeOK` | |
| `ReportedAtMostOnce` | `[]ReportedOnce` | |
| `ImplementsLedger` | `FollowsLedger` | |
| `NoGroupAwaitsGhosts` | `[]MembersAreAwaited` | `respawn` |
| `HeldReportsAreKept` | `HeldReportIsKept` | `respawn`, `rearm` |
| `HeldReportsAreTimed` | `[]HeldReportIsTimed` | `respawn`, `rearm`, `dismiss` |

`ReportedOnce` is not inductive. A report could be held and already sent; the
same report could be held twice; a buffered or found result could be an
invention; an unseen result could have an id that was told. `Inv` therefore
says, through `Sound`, that the ids sent, held and ready to be accepted are kept
apart, that buffers and watches hold only results of this world, and that ids in
use stay below the counter. A group hands its reports over in one step, so the
lemmas on groups share one notion, `Clean`: what leaves a group goes to one
message or to none. The refinement of `ReportLedger` adds that each result has an
id of its own; each step then moves the standing of at most the ids of one
message, one hold or one dismissal, and every other step is a stutter.

`Retained` filters a sequence by a recursive function. The provers take no
induction principle over formulas, so `Manager_proofs` argues by a least
counterexample, which exists by the well-foundedness of finite sets.

The three theorems on groups add invariants of their own. `Members`: the groups
are the value sets of the key map, a batch is newer than all groups, and a key
that is waited for has a watcher or is being spawned. `Separate`: no subagent is
waited for while a report of it is held, which is what re-arming breaks.
`Timely`: a group that holds a report has a running timer, one that holds none
has no handle, which is what `stale_timer` breaks. Most operators move members
and reports in few ways (`Moves`, `Advances`, `Offered`, `Dropped`), so each
operator is classified once and each class keeps the invariants once.

### Completion

| Theorem | Property | Without |
|---|---|---|
| `CompletionTypes` | `[]TypeOK`: with it, a send is in the queue exactly while it is pending | |
| `NoDuplicateReports` | `[]ReportedOnce` | |
| `WatchersAwaitSomething` | `[]NoFutileWatcher` | |
| `EarlyResultsAreTaken` | `[]NoStrandedResult` | |
| `DurableArmIsTheLatest` | `[]DurableArmIsLatest` | `respawn` |
| `ReturnedCallsAreWatched` | `[]ReturnedCallIsWatched` | `quiet`, `busy`, `blocked`, `respawn` (`Undisturbed`) |
| `ResultsAreDelivered` | `[]DeliveredAtRest` | these, `rpc` and `closing`, with `MaxResult <= PendingLimit` (`Reliable`) |

When the session began is no variable of `Completion`, so `Inv` says that some
time serves: `\E t \in 0..clock : Session(t)`. A restart moves it to the clock,
and results from before it are those that no watch accepts any more. The queue
of sends (`Lined`) is without repetition, and only its head runs.

`WatchInv` needs what the subagents know: an arm in a file, in a subagent's
memory or in a result is that of a call made to this subagent (`ArmsAreAsked`),
and a watcher has an arm that is not delivered yet, since an arm is delivered
through its own subagent only (`Tidy`).

`ReturnedCallIsWatched` and `DeliveredAtRest` follow one report through every
place it can be. The first needs, for each call whose report is wanted, that its
arm is watched from the moment the call can return without watching it again,
or that its answer is in a group or sent (`Served`, in `Serving`). That rests on
who is owed what: until a call's input is typed no turn answers it (`Asking`),
and input that is typed takes the place of what was asked before, as does the
absence of the subagent (`Superseded`). An answer, once accepted, goes from the
group to a message and nowhere else unless its subagent is cancelled
(`Keeps`, one lemma per operator of the manager).

For the second, `Delivering` adds what happens between turn and watcher: a
result whose report is due is on its way or in the early buffer, and no watcher
there is is younger than it (`Outstanding`); so that at rest, when nothing is on
its way and no buffer holds what a watcher would take, none is due. The steps
that could break it are those that arm: `ArmWatcher` discards what is older than
the new watcher. `Registered` says that a name is watched directly only after
its spawn has returned, so that no send arms in between (what `closing` breaks),
and `NothingDue` that a send which arms finds nothing due. Every group with
reports has a timer (`AllTimed`), so that at rest none is held.

`DurableArmIsLatest` speaks of rest; `ArmIsKept` says what holds between: the
durable arm is the latest, or a send that overwrote it remembers the latest as
its `prev`. That there is one such send is the queue; that no spawn writes the
file meanwhile is `SpawnsAreAlone`.

### Registry

`RegistryTypes`, `NamesAreHeldByOne` (`HoldersAreRegistered`), `NoWorkIsLost`
(`WorkIsPreserved`), `FailuresLeaveNothing` (`NothingLeftBehind`) and
`RegistryOwnsNames` (`FollowsOwnership`), under `Careful`: a session does not end
amid the rewriting of an entry, no spawn takes longer than its reservation, no
two calls take over one reservation, and no name is reserved while a call works
on an older entry of it. Steps that fail, sessions that end anywhere else, and
any number of calls on a name are included.

The inductive invariant is about files: each was made by a call that still
holds the name, or whose session ended (`FilesAreOwned`); what a visiting call
has read of an entry is still true or the name is free (`VisitsAreCurrent`); a
file is removed only by one who may (`RemovalIsWarranted`, `TakeoversAreSafe`);
and changes are in the tree, on a branch, or were never made
(`WorkIsAccounted`, `FailuresAreCleaned`). The exclusive creation of the file is
the only point where calls meet.

Beside it, for what is done with a running subagent:

| Theorem | Property | Hypothesis |
|---|---|---|
| `WaitsAreHonest` | `[]WaitIsHonest` | `Prompt`: a start-up is shorter than the time an idle agent is watched (`startupIdleStabilityMs`: 10 s, or three fifths of a shorter time limit), and the agent neither pauses nor is sent more (`pause`, `resend`) |
| `NoReportIsUnreadable` | `[]ReportsStayReadable` | |
| `OneChainOfTicks` | `[]WidgetHasOneTimer` | |

`WaitInv` says that an agent that has not begun was never seen to work, and that
one that had finished before the wait has been seen idle by every poll since the
first, or since the last that found no status. `ResultInv` adds to the types only that a completion has one text wherever
it is reported; the rest is that `refreshSubagentResultGuidance`, as a function
of the branch, drops nothing that is not shown elsewhere. `OneChain` says that
one timer is set and no tick of the current session and epoch is under way, or
that no timer is set and one such tick is: ticks of older epochs may be anywhere.

### Language servers

`RuntimeTypes`, `NoServerIsForgotten` (`NoForgottenServer`), `OneServerRuns`
(`OneServer`), `ShutdownLeavesNothing` (`ShutdownIsFinal`) and `FailureStays`
(`NoSpontaneousRestart`, an action property), under `Orderly`: the faults
`abort_any` and `overlap` do not occur. The crash of a server, a spawn that
fails and the abort of a call nobody waits for are included.

Whether a new server meets an old one depends on what the calls that spawn may
assume. `SpawnIsAlone` says that from the prompt to the end of the
initialization, however long the user and the server take, the map is empty, no
restart is under way and nothing has failed since the last one, and that no
other call spawns. `SpawnHasServer` and `ClientIsKnown` tie each process to its
call or to the map, `FailureIsKept` says where a failure is on record. Mutual
exclusion rests on `spawning` until the session ends, and on `shuttingDown`
afterwards, when `spawning` is cleared under the spawner.

`FilesStayServed` (`FilesAreServed`), without `abort` and `pull_only` of
`LspClient` and without `dotted` and `symlink` of `LspServers`:

- The client. A version is recorded in one step and sent in another, with other
  calls in between. `VersionsRise` orders the versions over all the places they
  can be: what the server has, what is in the pipe, what a call holds that
  has not sent it yet, and what the client has recorded. `NothingIsMissed` says
  that the first and the last version are in one of these places, `SavesFollow`
  that a save is behind a text, and `ReportsFollow` that problems which are not
  of the server's text will be replaced by a report on its way. TLC checked this
  invariant with three openers before it was proved.
- The lookup. `Ascend` is a recursive function on directories. The provers
  cannot induct over formulas; the proof gives the function's solution in closed
  form (`NearestIn`: the greatest directory between stop and start that has
  what is looked for), shows that it satisfies the recursion at each directory
  (`NearestStep`), and that a least directory where the function differs from it
  cannot be (`AscendIsNearest`, with `LeastNumber`).

### What a session tells of itself

| Theorem | Property | Without |
|---|---|---|
| `RelayTypeCorrect` | `[]TypeOK`: with it, `commandInFlight` stands for one command or a reload | |
| `PursuitIsOne` | `[]OnePursuit` | |
| `WritesAlwaysAgree` | `[]WritesAgree` | |
| `BrowserSeesTheSession` | `[]ViewIsCurrent` | `reused`, `compact_fails` |
| `HerdrShowsTheAgent` (`AgentState`) | `[]StateIsReported` | `lost`, `prompt_reload` (`Heard`) |

`OnePursuit` becomes inductive with: nothing is asked for a session that has not
started, nor for the current one while none is interactive, and a client has a
connection (`Linked`). `WritesAgree` needs that the relay is told nothing before
the tool is settled (`Written`). For the view, each way of publishing has a
lemma that it shows what is current, and `AtWork` says by whom a compaction in
flight will be ended: while pi compacts no command awaits the end of an earlier
compaction, and afterwards the agent runs or the command is of this session.

`HerdrInv` says where the newest report is: in the queue of an instance, being
sent, late, or at herdr, and that no other report has its number. At rest the
first three are empty, and the newest is that of the state pi is in, which the
blocks and the run that are counted determine.

### The other extensions

| Theorem | Property | Without |
|---|---|---|
| `FilesStayKept` | `[]FilesAreKept` | `processes`, `git_init`; `error_body`, for the types (`NoFaults`) |
| `ResetsStayWarranted` | `ResetsAreWarranted` (an action property) | `late_messages` |
| `PagesStayWhole` | `[]PagesAreWhole` | |
| `RequestsStayBounded` | `[]RequestsAreBounded` | `error_body` |

- `PermissionsInv`: who is between lock and write is alone in its process and has
  read what the file has. `ProjectInv`: a cached location is that of the
  directory, and what a process writes is a text of its own.
- `ResetInv` relates the turn, the reset, pi's compaction and the branch: from
  the moment a reset is asked for until it is compacted, no input is later than
  the checkpoint (`Covered`); a run that Escape stopped is in no reset, and the
  command that may continue is the one whose compaction was the last
  (`Unstopped`). It is inductive only with both, since what may be added to the
  branch depends on the turn.
- `HistoryInv`: ids grow along the branch, so that an id stands for one prefix;
  what has been told is what matched in that prefix up to the offset. The
  matches are a function of the prefix only, and two branches that share an
  entry share all before it.
- `WebInv` counts requests against redirects and attempts (`FetchesCounted`) and
  what was read of a body against its length and the limit, stage by stage.

### Only model-checked

- Liveness: `HeldReportIsSent`, `EveryCallReturns`, `Reconnects`, `CommandsEnd`,
  `ShownIsTrue`, `WaitsEnd`. These need fairness, which is out of the prover's
  reach; `ShownIsTrue` and `WaitsEnd` carry their parts' safety with them.
- `EditsAreExact`: what `applyTextEdits` makes of a text is a sort and a fold over
  sequences, compared with the meaning of the edits. This is an induction over
  data on both sides, and no closed form as for `Ascend` is simpler than the
  function.
- `SnapshotsAreCurrent`: the size of a snapshot is a sum over a set, and the cut
  is a search by that sum: again induction over data.

## 6. Not modelled

`PROJECT.json` lists every component with its status. What is left out:

- presentation: rendering of the status line, overview rows, envelopes, tool
  output, `context.ts` and other views;
- conversions without control: HTML to Markdown, language ids, the wire format
  of single fields;
- stateless calls of SDKs: pane access, agents, models, workspaces;
- small extensions of a few lines, and text: skills, prompts, themes;
- the migration of the old registry file and its pruning, which run once at the
  start and before anything else;
- several roots, panes or documents at once, where the code keeps them apart by
  keys of one map.

## 7. Plan

What a maintainer can take up next:

- the two invariants that are only checked, once an induction principle over
  sequences can be used: first that `OffsetAt` is monotonic, then the fold of
  `ApplyTextEdits` by the number of edits; for `SnapshotsAreCurrent` the lemma
  that a sum over a set grows with the set;
- a proof that `Registry` needs `Careful` only where a session ends inside a
  rewriting, if `store.ts` should come to write entries by rename;
- when `close` waits for a spawn under way on its name, the hypothesis on
  `closing` of `ResultsAreDelivered` can go;
- `MCLsp` and `MCReports` with two clients or relays, should the code let them
  share more than a map.
