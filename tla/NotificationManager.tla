------------------------- MODULE NotificationManager -------------------------
(***************************************************************************)
(* The manager of createSubagentNotificationManager                        *)
(* (agent/extensions/herdr-subagent/notifications.ts): it decides which    *)
(* finished subagents are reported to the orchestrating model, when, and   *)
(* in which message.                                                       *)
(*                                                                         *)
(* The manager is synchronous, single-threaded code over a handful of maps *)
(* that live in one closure.  A manager is therefore one record, and every *)
(* function of the closure an operator from a manager to a manager, so that *)
(* a call that makes further calls is the composition of their operators.  *)
(* The state machines that drive it are Notifications and Completion.      *)
(*                                                                         *)
(* A panel hosts one subagent, so a subagent's name stands for its pane.   *)
(***************************************************************************)
EXTENDS Naturals, Sequences, FiniteSets

CONSTANTS
    Name,           \* subagent names (watcherKey is the identity)
    Arm,            \* completion arm ids
    None,           \* JavaScript's undefined
    Settled,        \* a pane watch saw its subagent done, idle or blocked
    BatchId,        \* batch numbers, from 1; all of Nat in the code
    PendingLimit    \* how many early results are buffered per subagent (32)

ASSUME ConstantsAssumption ==
    /\ None \notin Name \cup Arm \cup Nat \cup {Settled}
    /\ BatchId \subseteq Nat

ASSUME PendingLimitAssumption == PendingLimit \in Nat \ {0}

----------------------------------------------------------------------------
(* The data the manager handles.                                           *)

\* A result as the subagent sent it: its completion id, the arm it answers
\* (absent in legacy results), the time it was sent, and whether the report
\* fits in the model's context untruncated.
Result == [id : Nat, name : Name, arm : Arm \cup {None}, at : Nat, final : BOOLEAN]

\* A report on its way to the model.  A pane tail and a truncated result are
\* samples: only a final report can be acknowledged by reading the pane.
Delivery == [id : Nat, name : Name, final : BOOLEAN]

\* "found" is what the asynchronous pane watch has resolved with: a result it
\* took from the outbox, Settled for a status it observed, or None.
Slot == [since : Nat, arms : SUBSET Arm, source : {"rpc", "poll"},
         found : Result \cup {Settled, None}]

\* "spent" is a handle of a timer that has already run: onGroupTimeout returns
\* before it forgets the handle of a group that holds nothing.
Group == [members : SUBSET Name, completed : SUBSET Delivery,
          timer : {"unset", "running", "spent"}]

Batch == [id : BatchId, keys : SUBSET Name]

ASSUME RecordsAssumption ==
    /\ None \notin Result \cup Delivery \cup Slot \cup Group \cup Batch
    /\ Settled \notin Result

\* The reports of one message, and the subagents it announces as pending.
Message == [reports : SUBSET Delivery, pending : SUBSET Name]

Manager ==
    [watchers  : [Name -> Slot \cup {None}],
     groups    : [BatchId -> Group \cup {None}],
     groupOf   : [Name -> BatchId \cup {None}],
     seen      : SUBSET Nat,
     doneArms  : SUBSET Arm,
     early     : [Name -> Seq(Result)],
     ready     : [Name -> Delivery \cup {None}],
     nextBatch : Nat,
     batch     : Batch \cup {None},
     sent      : Seq(Message)]

EmptyManager ==
    [watchers  |-> [k \in Name |-> None],
     groups    |-> [g \in BatchId |-> None],
     groupOf   |-> [k \in Name |-> None],
     seen      |-> {},
     doneArms  |-> {},
     early     |-> [k \in Name |-> << >>],
     ready     |-> [k \in Name |-> None],
     nextBatch |-> 1,
     batch     |-> None,
     sent      |-> << >>]

Named(ds, k) == {d \in ds : d.name = k}

NamesOf(ds) == {d.name : d \in ds}

IdsOf(ds) == {d.id : d \in ds}

SentIds(m) == UNION {IdsOf(m.sent[i].reports) : i \in DOMAIN m.sent}

AtMostOne(keys) == \A j, k \in keys : j = k

Send(m, reports, pending) ==
    [m EXCEPT !.sent = Append(@, [reports |-> reports, pending |-> pending])]

----------------------------------------------------------------------------
(* Groups: reports of subagents armed together are joined in one message.  *)

OpenGroups(m) == {g \in BatchId : m.groups[g] # None}

Held(m) == UNION {m.groups[g].completed : g \in OpenGroups(m)}

Ungroup(m, keys) ==
    [m EXCEPT !.groupOf = [k \in Name |-> IF k \in keys THEN None ELSE @[k]]]

CleanupGroup(m, g) ==
    IF m.groups[g] = None
    THEN m
    ELSE [Ungroup(m, m.groups[g].members) EXCEPT !.groups[g] = None]

\* Mutant: the stragglers' group remembers the timer that has just run.
Waiting_KeepsHandle(keys) == [members |-> keys, completed |-> {}, timer |-> "spent"]

\* Members that have not reported yet wait on without a timer.
Waiting(keys) == [members |-> keys, completed |-> {}, timer |-> "unset"]

DeliverGroup(m, g) == Send(CleanupGroup(m, g), m.groups[g].completed, {})

\* Mutant: the reports of a group wait for all of its members.
StartGroupTimeout_Never(m, g) == m

StartGroupTimeout(m, g) ==
    IF m.groups[g].timer = "unset"
    THEN [m EXCEPT !.groups[g].timer = "running"]
    ELSE m

\* Sizes are compared in the code; completed reports belong to members.
MaybeDeliverCompletedGroup(m, g) ==
    LET held == m.groups[g].completed
    IN  IF m.groups[g].members \subseteq NamesOf(held) THEN DeliverGroup(m, g)
        ELSE IF held # {} THEN StartGroupTimeout(m, g)
        ELSE m

OnGroupTimeout(m, g) ==
    LET held == m.groups[g].completed
        remaining == m.groups[g].members \ NamesOf(held)
        reported == Send([Ungroup(m, NamesOf(held)) EXCEPT !.groups[g] = Waiting(remaining)],
                         held, remaining)
    IN  IF held = {} THEN [m EXCEPT !.groups[g].timer = "spent"]
        ELSE IF remaining = {} THEN CleanupGroup(reported, g)
        ELSE reported

ShrinkGroup(m, g, k) ==
    [m EXCEPT !.groupOf[k] = None,
              !.groups[g].members = @ \ {k},
              !.groups[g].completed = @ \ Named(@, k)]

\* Mutant: a group that falls apart forgets the report it holds.
DissolveGroup_Drops(m, g) == CleanupGroup(m, g)

\* One member is no group: it is watched alone, and its report is due at once.
DissolveGroup(m, g) ==
    IF m.groups[g].completed = {} THEN CleanupGroup(m, g) ELSE DeliverGroup(m, g)

RemoveKeyFromGroup(m, k) ==
    LET g == m.groupOf[k]
        shrunk == ShrinkGroup(m, g, k)
    IN  IF g = None THEN m
        ELSE IF m.groups[g] = None THEN Ungroup(m, {k})
        ELSE IF AtMostOne(shrunk.groups[g].members) THEN DissolveGroup(shrunk, g)
        ELSE MaybeDeliverCompletedGroup(shrunk, g)

----------------------------------------------------------------------------
(* The arm batch: subagents armed within one window form a group.          *)

InBatch(m, k) == m.batch # None /\ k \in m.batch.keys

\* Bound: there is a number left for a new batch.
MayOpenBatch(m) == m.batch # None \/ m.nextBatch \in BatchId

AddKeyToBatch(m, k) ==
    IF m.batch = None
    THEN [m EXCEPT !.batch = [id |-> m.nextBatch, keys |-> {k}],
                   !.nextBatch = @ + 1]
    ELSE [m EXCEPT !.batch.keys = @ \cup {k}]

RemoveKeyFromBatch(m, k) ==
    LET rest == m.batch.keys \ {k}
    IN  IF ~InBatch(m, k)
        THEN m
        ELSE [m EXCEPT !.batch = IF rest = {} THEN None
                                 ELSE [id |-> m.batch.id, keys |-> rest]]

FinalizeBatch(m) ==
    LET id == m.batch.id
        keys == m.batch.keys
    IN  IF AtMostOne(keys)
        THEN [m EXCEPT !.batch = None]
        ELSE [m EXCEPT
                !.batch = None,
                !.groups[id] = Waiting(keys),
                !.groupOf = [k \in Name |-> IF k \in keys THEN id ELSE @[k]]]

----------------------------------------------------------------------------
(* Completions.                                                            *)

Hold(m, g, d) ==
    [m EXCEPT !.groups[g].completed = (@ \ Named(@, d.name)) \cup {d}]

ProcessCompletion(m, d) ==
    LET noted == [m EXCEPT !.ready[d.name] = d]
        closed == IF InBatch(noted, d.name) THEN FinalizeBatch(noted) ELSE noted
        done == [closed EXCEPT !.watchers[d.name] = None]
        g == done.groupOf[d.name]
    IN  IF g = None THEN Send(done, {d}, {})
        ELSE IF done.groups[g] = None THEN Send(Ungroup(done, {d.name}), {d}, {})
        ELSE MaybeDeliverCompletedGroup(Hold(done, g, d), g)

\* Mutant: a watcher takes whatever its subagent sends.
ArmMatches_Any(slot, r) == TRUE

ArmMatches(slot, r) == r.arm = None \/ slot.arms = {} \/ r.arm \in slot.arms

\* Mutant: a completion id is not remembered.
Consumes_Twice(m, r) ==
    /\ m.watchers[r.name] # None
    /\ r.at >= m.watchers[r.name].since
    /\ ArmMatches(m.watchers[r.name], r)

\* Mutant: the time a result was sent is not looked at.
Consumes_Stale(m, r) ==
    /\ r.id \notin m.seen
    /\ m.watchers[r.name] # None
    /\ ArmMatches(m.watchers[r.name], r)

\* A watcher is there, the result is not older than it, and answers its arm.
Consumes(m, r) ==
    /\ r.id \notin m.seen
    /\ m.watchers[r.name] # None
    /\ r.at >= m.watchers[r.name].since
    /\ ArmMatches(m.watchers[r.name], r)

\* No watcher yet, or one that waits for another arm: kept for a later arm.
Buffers(m, r) ==
    /\ r.id \notin m.seen
    /\ \/ m.watchers[r.name] = None
       \/ /\ r.at >= m.watchers[r.name].since
          /\ ~ArmMatches(m.watchers[r.name], r)

DeliveryOf(r) == [id |-> r.id, name |-> r.name, final |-> r.final]

ConsumeResult(m, r) ==
    ProcessCompletion(
        [m EXCEPT !.seen = @ \cup {r.id},
                  !.doneArms = IF r.arm = None THEN @ ELSE @ \cup {r.arm}],
        DeliveryOf(r))

\* Mutant: the buffer is not trimmed.
LastOf_All(q, n) == q

LastOf(q, n) == SubSeq(q, IF Len(q) > n THEN Len(q) - n + 1 ELSE 1, Len(q))

\* Mutant: a result that comes before its watcher is dropped.
QueueEarly_Drops(m, r) == m

QueueEarly(m, r) ==
    IF \E i \in DOMAIN m.early[r.name] : m.early[r.name][i].id = r.id
    THEN m
    ELSE [m EXCEPT !.early[r.name] = LastOf(Append(@, r), PendingLimit)]

ProcessExternalResult(m, r) ==
    IF Consumes(m, r) THEN ConsumeResult(m, r)
    ELSE IF Buffers(m, r) THEN QueueEarly(m, r)
    ELSE m

\* The results of q that are kept for a later arm, in their order.
Retained(m, q) ==
    LET kept[i \in 0..Len(q)] ==
            IF i = 0 THEN << >>
            ELSE IF Buffers(m, q[i]) THEN Append(kept[i - 1], q[i])
            ELSE kept[i - 1]
    IN  kept[Len(q)]

\* The buffered results are offered to a new watcher in their order up to the
\* first it consumes; what it cannot take yet and what is left go back.
DrainEarly(m, k) ==
    LET q == m.early[k]
        hits == {i \in DOMAIN q : Consumes(m, q[i])}
        first == CHOOSE i \in hits : \A j \in hits : i <= j
    IN  IF hits = {}
        THEN [m EXCEPT !.early[k] = Retained(m, q)]
        ELSE ConsumeResult(
               [m EXCEPT !.early[k] = Retained(m, SubSeq(q, 1, first - 1))
                                        \o SubSeq(q, first + 1, Len(q))],
               q[first])

----------------------------------------------------------------------------
(* The manager's interface.                                                *)

BeginMember(m, k) == AddKeyToBatch(m, k)

\* Mutant: a spawn that fails after its batch has closed stays in the group.
ReleaseMember_BatchOnly(m, k) ==
    IF m.watchers[k] # None
    THEN m
    ELSE RemoveKeyFromBatch([m EXCEPT !.early[k] = << >>], k)

ReleaseMember(m, k) ==
    IF m.watchers[k] # None
    THEN m
    ELSE RemoveKeyFromGroup(
           RemoveKeyFromBatch([m EXCEPT !.early[k] = << >>], k), k)

NewSlot(since, arms, source) ==
    [since |-> since, arms |-> arms, source |-> source, found |-> None]

\* Membership reserved by a spawn that has no watcher yet is kept.
Reserved(m, k) == InBatch(m, k) \/ (m.groupOf[k] # None /\ m.watchers[k] = None)

Replace(m, k) ==
    IF m.watchers[k] = None
    THEN m
    ELSE RemoveKeyFromGroup(
           RemoveKeyFromBatch([m EXCEPT !.watchers[k] = None], k), k)

\* Mutant: results that came early are not offered to the new watcher.
ArmWatcher_Undrained(m, k, since, arms, source) ==
    LET slotted == [Replace(m, k) EXCEPT !.watchers[k] = NewSlot(since, arms, source)]
    IN  IF Reserved(m, k) THEN slotted ELSE AddKeyToBatch(slotted, k)

ArmWatcher(m, k, since, arms, source) ==
    LET slotted == [Replace(m, k) EXCEPT !.watchers[k] = NewSlot(since, arms, source)]
    IN  DrainEarly(IF Reserved(m, k) THEN slotted ELSE AddKeyToBatch(slotted, k), k)

AcceptArm(m, k, a) ==
    IF m.watchers[k] = None
    THEN m
    ELSE [m EXCEPT !.watchers[k].arms = @ \cup {a}]

\* The watch's promise resolves: the slot is still installed.
WatchResolved(m, k, id) ==
    LET found == m.watchers[k].found
    IN  IF found = Settled
        THEN ProcessCompletion(
               [m EXCEPT !.doneArms = @ \cup m.watchers[k].arms],
               [id |-> id, name |-> k, final |-> FALSE])
        ELSE LET offered == ProcessExternalResult(m, found)
             IN  IF Consumes(m, found)
                 THEN offered
                 ELSE [offered EXCEPT !.watchers[k].found = None]

WatchRejected(m, k) ==
    RemoveKeyFromGroup(RemoveKeyFromBatch([m EXCEPT !.watchers[k] = None], k), k)

\* The inspected text holds the report d that was ready when it began.
AcknowledgeInspection(m, d) ==
    LET g == m.groupOf[d.name]
    IN  IF g # None /\ m.groups[g] # None
           /\ \E e \in Named(m.groups[g].completed, d.name) : e.id = d.id
        THEN RemoveKeyFromGroup(m, d.name)
        ELSE m

CancelKey(m, k) ==
    RemoveKeyFromGroup(
      RemoveKeyFromBatch([m EXCEPT !.watchers[k] = None, !.early[k] = << >>], k), k)

\* The coordinator cancels by pane; only a cancel by name also forgets early
\* results of a subagent that has neither a watcher nor a held report.
Cancel(m, k, byName) ==
    IF m.watchers[k] # None \/ Named(Held(m), k) # {} THEN CancelKey(m, k)
    ELSE IF byName THEN [m EXCEPT !.early[k] = << >>]
    ELSE m

CancelAll(m) == [EmptyManager EXCEPT !.nextBatch = m.nextBatch, !.sent = m.sent]
=============================================================================
