--------------------------- MODULE Manager_proofs ---------------------------
(***************************************************************************)
(* What each operation of the notification manager does to its queues, its *)
(* groups, its batch and its watchers, whatever state it starts from.      *)
(* Notifications_proofs and Completion_proofs use these lemmas,            *)
(* one lemma per operation.  First that the manager stays well-formed, no  *)
(* completion is in two messages and none that was sent is still held;     *)
(* then who is a member of what, whom a group still waits for, which       *)
(* reports it holds and with which timer; then the watchers and the        *)
(* results that came early; last, where reports go.                        *)
(***************************************************************************)
EXTENDS NotificationManager, TLAPS, FiniteSetTheorems, SequenceTheorems

----------------------------------------------------------------------------
(* The buffer of early results: what Retained, LastOf and the search for   *)
(* the first consumable result return.  Retained is recursive, so its      *)
(* lemma is an induction; the provers take no induction principle that     *)
(* quantifies over operators, so the induction is a least counterexample,  *)
(* whose existence follows from the well-foundedness of finite sets.       *)

\* Every non-empty set of natural numbers has a least element.
LEMMA LeastNumber ==
    ASSUME NEW T, T \subseteq Nat, T # {}
    PROVE  \E x \in T : \A y \in T : x <= y
<1>1. PICK n \in T : TRUE
  OBVIOUS
<1> DEFINE S == 0..n
           R == StrictSubsetOrdering(S)
           TT == {0..t : t \in {u \in T : u <= n}}
<1>2. IsWellFoundedOn(R, SUBSET S)
  <2>1. IsFiniteSet(S)
    BY <1>1, FS_Interval
  <2>2. FiniteSubsetsOf(S) = SUBSET S
    BY <2>1, FS_FiniteSubsetsOfFinite
  <2>3. QED
    BY <2>2, FS_StrictSubsetOrderingWellFounded
<1>3. TT \subseteq SUBSET S /\ TT # {}
  BY <1>1
<1>4. PICK X \in TT : \A Y \in TT : ~(<<Y, X>> \in R)
  BY <1>2, <1>3, WFMin
<1>5. PICK x \in T : x <= n /\ X = 0..x
  BY <1>4
<1>6. ASSUME NEW y \in T, y < x PROVE FALSE
  <2>1. 0..y \in TT /\ 0..y \subseteq 0..x /\ 0..y # 0..x
    BY <1>5, <1>6, <1>1
  <2>2. <<0..y, X>> \in R
    BY <2>1, <1>3, <1>5 DEF StrictSubsetOrdering
  <2>3. QED
    BY <2>1, <2>2, <1>4
<1>7. QED
  BY <1>5, <1>6

\* One step of the recursion of Retained.
RetainedStep(m, q, f, i) ==
    IF i = 0 THEN << >>
    ELSE IF Buffers(m, q[i]) THEN Append(f[i - 1], q[i])
    ELSE f[i - 1]

\* The recursion has a solution.
LEMMA RetainedExists ==
    ASSUME NEW m, NEW q, Len(q) \in Nat
    PROVE  \E f : f = [i \in 0..Len(q) |-> RetainedStep(m, q, f, i)]
<1> DEFINE T == {n \in 0..Len(q) : ~ \E f : f = [i \in 0..n |-> RetainedStep(m, q, f, i)]}
<1>1. SUFFICES ASSUME T # {} PROVE FALSE
  <2>1. Len(q) \notin T
    BY <1>1
  <2>2. QED
    BY <2>1
<1>2. PICK n \in T : \A y \in T : n <= y
  <2>1. T \subseteq Nat
    OBVIOUS
  <2> HIDE DEF T
  <2>2. QED
    BY <1>1, <2>1, LeastNumber
<1>3. n \in 0..Len(q)
  OBVIOUS
<1>4. n # 0
  <2>1. [i \in 0..0 |-> << >>] = [i \in 0..0 |-> RetainedStep(m, q, [j \in 0..0 |-> << >>], i)]
    BY DEF RetainedStep
  <2>2. QED
    BY <2>1
<1>5. n - 1 \in 0..Len(q) /\ n - 1 \notin T
  BY <1>2, <1>3, <1>4
<1>6. PICK f : f = [i \in 0..(n - 1) |-> RetainedStep(m, q, f, i)]
  BY <1>5
<1> DEFINE g == [i \in 0..n |-> IF i < n THEN f[i] ELSE RetainedStep(m, q, f, n)]
<1>7. \A i \in 0..n : g[i] = RetainedStep(m, q, g, i)
  <2> SUFFICES ASSUME NEW i \in 0..n PROVE g[i] = RetainedStep(m, q, g, i)
    OBVIOUS
  <2>1. i # 0 => i - 1 \in 0..n /\ g[i - 1] = f[i - 1]
    BY <1>3, <1>4
  <2>2. RetainedStep(m, q, g, i) = RetainedStep(m, q, f, i)
    BY <2>1 DEF RetainedStep
  <2>3. i < n => g[i] = f[i] /\ f[i] = RetainedStep(m, q, f, i)
    BY <1>3, <1>6
  <2>4. QED
    BY <2>2, <2>3, <1>3
<1>8. g = [i \in 0..n |-> RetainedStep(m, q, g, i)]
  BY <1>7
<1>9. QED
  BY <1>2, <1>8

\* What is retained of a buffer comes from it and is no longer than it.
LEMMA RetainedType ==
    ASSUME NEW m, NEW S, NEW q \in Seq(S)
    PROVE  Retained(m, q) \in Seq(S) /\ Len(Retained(m, q)) <= Len(q)
<1> DEFINE kept == CHOOSE f : f = [i \in 0..Len(q) |-> RetainedStep(m, q, f, i)]
           T == {n \in 0..Len(q) : ~(kept[n] \in Seq(S) /\ Len(kept[n]) <= n)}
<1>1. Len(q) \in Nat
  OBVIOUS
<1>2. kept = [i \in 0..Len(q) |-> RetainedStep(m, q, kept, i)]
  BY <1>1, RetainedExists
<1> HIDE DEF kept
<1>3. \A i \in 0..Len(q) : kept[i] = RetainedStep(m, q, kept, i)
  BY <1>2
<1>4. T = {}
  <2> SUFFICES ASSUME T # {} PROVE FALSE
    OBVIOUS
  <2>1. PICK n \in T : \A y \in T : n <= y
    <3>1. T \subseteq Nat
      OBVIOUS
    <3> HIDE DEF T
    <3>2. QED
      BY <3>1, LeastNumber
  <2>2. n # 0
    <3>1. kept[0] = << >>
      BY <1>1, <1>3 DEF RetainedStep
    <3>2. kept[0] \in Seq(S) /\ Len(kept[0]) <= 0
      BY <3>1
    <3>3. QED
      BY <3>2, <2>1
  <2>3. n \in 1..Len(q) /\ n - 1 \in 0..Len(q) /\ n - 1 \notin T
    BY <2>1, <2>2, <1>1
  <2>4. kept[n - 1] \in Seq(S) /\ Len(kept[n - 1]) <= n - 1
    BY <2>3
  <2>5. q[n] \in S
    BY <2>3
  <2>6. kept[n] \in Seq(S) /\ Len(kept[n]) <= n
    <3>1. kept[n] = IF Buffers(m, q[n]) THEN Append(kept[n - 1], q[n]) ELSE kept[n - 1]
      BY <2>2, <2>3, <1>3 DEF RetainedStep
    <3>2. /\ Append(kept[n - 1], q[n]) \in Seq(S)
          /\ Len(Append(kept[n - 1], q[n])) = Len(kept[n - 1]) + 1
      BY <2>4, <2>5, AppendProperties
    <3>3. Len(kept[n - 1]) \in Nat
      BY <2>4
    <3> HIDE DEF T
    <3>4. CASE Buffers(m, q[n])
      BY <3>1, <3>2, <3>3, <3>4, <2>3, <2>4
    <3>5. CASE ~Buffers(m, q[n])
      BY <3>1, <3>3, <3>5, <2>3, <2>4
    <3>6. QED
      BY <3>4, <3>5
  <2>7. QED
    BY <2>6, <2>3
<1>5. Retained(m, q) = kept[Len(q)]
  BY DEF Retained, kept, RetainedStep
<1>6. QED
  BY <1>1, <1>4, <1>5

\* The end of a sequence, at most n long.
LEMMA LastOfType ==
    ASSUME NEW S, NEW q \in Seq(S), NEW n \in Nat \ {0}
    PROVE  LastOf(q, n) \in Seq(S) /\ Len(LastOf(q, n)) <= n
<1>1. Len(q) \in Nat
  OBVIOUS
<1>2. CASE Len(q) > n
  <2>1. LastOf(q, n) = SubSeq(q, Len(q) - n + 1, Len(q))
    BY <1>2 DEF LastOf
  <2>2. QED
    BY <1>1, <1>2, <2>1, SubSeqProperties
<1>3. CASE ~(Len(q) > n)
  <2>1. LastOf(q, n) = SubSeq(q, 1, Len(q))
    BY <1>3 DEF LastOf
  <2>2. QED
    BY <1>1, <1>3, <2>1, SubSeqProperties
<1>4. QED
  BY <1>2, <1>3

\* What comes before and after one element of a sequence.
LEMMA SplitType ==
    ASSUME NEW S, NEW q \in Seq(S), NEW i \in 1..Len(q)
    PROVE  /\ SubSeq(q, 1, i - 1) \in Seq(S) /\ Len(SubSeq(q, 1, i - 1)) = i - 1
           /\ SubSeq(q, i + 1, Len(q)) \in Seq(S)
           /\ Len(SubSeq(q, i + 1, Len(q))) = Len(q) - i
<1>1. Len(q) \in Nat /\ \A j \in 1..Len(q) : q[j] \in S
  OBVIOUS
<1>2. SubSeq(q, 1, i - 1) \in Seq(S) /\ Len(SubSeq(q, 1, i - 1)) = i - 1
  <2>1. 1 \in Int /\ i - 1 \in Int /\ \A j \in 1..i - 1 : q[j] \in S
    BY <1>1
  <2>2. /\ SubSeq(q, 1, i - 1) \in Seq(S)
        /\ Len(SubSeq(q, 1, i - 1)) = IF 1 <= i - 1 THEN i - 1 - 1 + 1 ELSE 0
    BY <2>1, SubSeqProperties
  <2>3. QED
    BY <1>1, <2>2
<1>3. /\ SubSeq(q, i + 1, Len(q)) \in Seq(S)
      /\ Len(SubSeq(q, i + 1, Len(q))) = Len(q) - i
  <2>1. i + 1 \in Int /\ Len(q) \in Int /\ \A j \in i + 1..Len(q) : q[j] \in S
    BY <1>1
  <2>2. /\ SubSeq(q, i + 1, Len(q)) \in Seq(S)
        /\ Len(SubSeq(q, i + 1, Len(q))) =
               IF i + 1 <= Len(q) THEN Len(q) - (i + 1) + 1 ELSE 0
    BY <2>1, SubSeqProperties
  <2>3. QED
    BY <1>1, <2>2
<1>4. QED
  BY <1>2, <1>3

----------------------------------------------------------------------------
(* The reports the manager holds and has sent.                             *)

\* The completions the model has been told of, or soon will be.
KnownIds(m) == SentIds(m) \cup IdsOf(Held(m))

SentOnce(m) ==
    \A i, j \in DOMAIN m.sent :
        i # j => IdsOf(m.sent[i].reports) \cap IdsOf(m.sent[j].reports) = {}

HeldIsUnsent(m) == IdsOf(Held(m)) \cap SentIds(m) = {}

HeldOnce(m) ==
    \A g, h \in OpenGroups(m) :
        g # h => IdsOf(m.groups[g].completed) \cap IdsOf(m.groups[h].completed) = {}

Clean(m) == m \in Manager /\ SentOnce(m) /\ HeldIsUnsent(m) /\ HeldOnce(m)

\* The operations on groups leave the rest of the manager alone.
SameButGroups(m, n) ==
    /\ n.watchers = m.watchers
    /\ n.seen = m.seen
    /\ n.early = m.early
    /\ n.ready = m.ready
    /\ n.doneArms = m.doneArms
    /\ n.nextBatch = m.nextBatch
    /\ n.batch = m.batch

Regrouped(m, n) ==
    /\ Clean(n)
    /\ SameButGroups(m, n)
    /\ KnownIds(n) \subseteq KnownIds(m)
    /\ SentIds(m) \subseteq SentIds(n)

Fields == {"watchers", "groups", "groupOf", "seen", "doneArms", "early", "ready",
           "nextBatch", "batch", "sent"}

\* A manager has these fields and no others.
LEMMA FieldsOfManager == \A m \in Manager : DOMAIN m = Fields
  BY DEF Manager, Fields

----------------------------------------------------------------------------
(* Groups.                                                                 *)

\* An operation after which every group holds at most what it held before, and
\* which sends nothing, keeps the manager clean.
LEMMA GroupsShrink ==
    ASSUME NEW m, Clean(m), NEW n, n \in Manager, n.sent = m.sent,
           \A g \in OpenGroups(n) :
               \/ n.groups[g].completed = {}
               \/ g \in OpenGroups(m) /\ n.groups[g].completed \subseteq m.groups[g].completed
    PROVE  Clean(n) /\ KnownIds(n) \subseteq KnownIds(m) /\ SentIds(m) \subseteq SentIds(n)
<1>1. Held(n) \subseteq Held(m)
  BY DEF Held
<1>2. SentIds(n) = SentIds(m)
  BY DEF SentIds
<1>3. IdsOf(Held(n)) \subseteq IdsOf(Held(m))
  BY <1>1 DEF IdsOf
<1>4. HeldOnce(n)
  BY DEF HeldOnce, Clean, IdsOf
<1>5. SentOnce(n)
  BY DEF SentOnce, Clean
<1>6. QED
  BY <1>2, <1>3, <1>4, <1>5 DEF Clean, HeldIsUnsent, KnownIds

\* Sending reports nobody knows of keeps the manager clean.
LEMMA SendClean ==
    ASSUME NEW m, Clean(m), NEW reports \in SUBSET Delivery, NEW pending \in SUBSET Name,
           IdsOf(reports) \cap KnownIds(m) = {}
    PROVE  /\ Clean(Send(m, reports, pending))
           /\ KnownIds(Send(m, reports, pending)) = KnownIds(m) \cup IdsOf(reports)
           /\ SentIds(Send(m, reports, pending)) = SentIds(m) \cup IdsOf(reports)
           /\ SameButGroups(m, Send(m, reports, pending))
           /\ Send(m, reports, pending).groups = m.groups
           /\ Send(m, reports, pending).groupOf = m.groupOf
<1> DEFINE msg == [reports |-> reports, pending |-> pending]
           n == Send(m, reports, pending)
<1>1. m.sent \in Seq(Message) /\ msg \in Message
  BY DEF Clean, Manager, Message
<1>2. n = [m EXCEPT !.sent = Append(m.sent, msg)]
  BY DEF Send
<1>3. n \in Manager /\ n.sent = Append(m.sent, msg) /\ n.groups = m.groups
      /\ n.groupOf = m.groupOf /\ SameButGroups(m, n)
  <2>1. DOMAIN m = Fields
    BY FieldsOfManager DEF Clean
  <2>2. n.sent = Append(m.sent, msg)
    BY <1>2, <2>1 DEF Fields
  <2>3. n = [watchers |-> m.watchers, groups |-> m.groups, groupOf |-> m.groupOf,
             seen |-> m.seen, doneArms |-> m.doneArms, early |-> m.early,
             ready |-> m.ready, nextBatch |-> m.nextBatch, batch |-> m.batch,
             sent |-> Append(m.sent, msg)]
    BY <1>1, <1>2, <2>1 DEF Clean, Manager, Fields
  <2>4. Append(m.sent, msg) \in Seq(Message)
    BY <1>1
  <2>5. n \in Manager
    BY <2>3, <2>4 DEF Clean, Manager
  <2>6. QED
    BY <1>2, <2>1, <2>2, <2>5 DEF SameButGroups, Fields
<1>4. /\ Len(n.sent) = Len(m.sent) + 1
      /\ \A i \in 1..Len(m.sent) : n.sent[i] = m.sent[i]
      /\ n.sent[Len(m.sent) + 1] = msg
      /\ DOMAIN n.sent = 1..Len(m.sent) + 1
      /\ DOMAIN m.sent = 1..Len(m.sent)
      /\ Len(m.sent) \in Nat
  BY <1>1, <1>3
<1>5. SentIds(n) = SentIds(m) \cup IdsOf(reports)
  BY <1>4 DEF SentIds
<1>6. Held(n) = Held(m)
  BY <1>3 DEF Held, OpenGroups
<1>7. HeldOnce(n)
  BY <1>3 DEF HeldOnce, OpenGroups, Clean
<1>8. \A i \in DOMAIN m.sent : IdsOf(m.sent[i].reports) \subseteq KnownIds(m)
  BY DEF KnownIds, SentIds
<1>9. SentOnce(n)
  <2> SUFFICES ASSUME NEW i \in DOMAIN n.sent, NEW j \in DOMAIN n.sent, i # j
               PROVE  IdsOf(n.sent[i].reports) \cap IdsOf(n.sent[j].reports) = {}
    BY DEF SentOnce
  <2>1. CASE i \in DOMAIN m.sent /\ j \in DOMAIN m.sent
    BY <2>1, <1>4 DEF SentOnce, Clean
  <2>2. CASE i \notin DOMAIN m.sent
    BY <2>2, <1>4, <1>8 DEF Message
  <2>3. CASE j \notin DOMAIN m.sent
    BY <2>3, <1>4, <1>8
  <2>4. QED
    BY <2>1, <2>2, <2>3
<1>10. QED
  BY <1>3, <1>5, <1>6, <1>7, <1>9 DEF Clean, HeldIsUnsent, KnownIds

\* Forgetting which group some subagents are in (keyToGroup.delete) disturbs no report.
LEMMA UngroupClean ==
    ASSUME NEW m, Clean(m), NEW keys \in SUBSET Name
    PROVE  /\ Regrouped(m, Ungroup(m, keys))
           /\ Ungroup(m, keys).groups = m.groups
           /\ Ungroup(m, keys).sent = m.sent
<1> DEFINE n == Ungroup(m, keys)
<1>1. DOMAIN m = Fields
  BY FieldsOfManager DEF Clean
<1>2. n.groupOf \in [Name -> BatchId \cup {None}] /\ n.groups = m.groups
      /\ n.sent = m.sent /\ SameButGroups(m, n)
  BY <1>1 DEF Clean, Manager, SameButGroups, Ungroup, Fields
<1>3. n \in Manager
  BY <1>1, <1>2 DEF Clean, Manager, SameButGroups, Ungroup, Fields
<1>4. QED
  BY <1>2, <1>3, GroupsShrink DEF Regrouped, OpenGroups

\* Group operations may be composed.
LEMMA RegroupedIsTransitive ==
    ASSUME NEW a, NEW b, NEW c, Regrouped(a, b), Regrouped(b, c)
    PROVE  Regrouped(a, c)
  BY DEF Regrouped, SameButGroups

WithGroup(m, g, x) == [m EXCEPT !.groups[g] = x]

\* A group may be replaced by none, or by one that holds no more than it did.
LEMMA SetGroup ==
    ASSUME NEW m, Clean(m), NEW g \in BatchId, NEW x \in Group \cup {None},
           x # None => m.groups[g] # None /\ x.completed \subseteq m.groups[g].completed
    PROVE  /\ Regrouped(m, WithGroup(m, g, x))
           /\ WithGroup(m, g, x).groups = [m.groups EXCEPT ![g] = x]
           /\ WithGroup(m, g, x).groupOf = m.groupOf
           /\ WithGroup(m, g, x).sent = m.sent
<1> DEFINE n == WithGroup(m, g, x)
<1>1. DOMAIN m = Fields
  BY FieldsOfManager DEF Clean
<1>2. n.groups = [m.groups EXCEPT ![g] = x] /\ n.groupOf = m.groupOf
      /\ n.sent = m.sent /\ SameButGroups(m, n)
  BY <1>1 DEF SameButGroups, Fields, WithGroup
<1>3. n.groups \in [BatchId -> Group \cup {None}] /\ m.groups \in [BatchId -> Group \cup {None}]
  BY <1>2 DEF Clean, Manager
<1>4. n \in Manager
  BY <1>1, <1>2, <1>3 DEF Clean, Manager, Fields, WithGroup
<1>5. \A h \in OpenGroups(n) :
        h \in OpenGroups(m) /\ n.groups[h].completed \subseteq m.groups[h].completed
  BY <1>2, <1>3 DEF OpenGroups
<1>6. Clean(n) /\ KnownIds(n) \subseteq KnownIds(m) /\ SentIds(m) \subseteq SentIds(n)
  BY <1>2, <1>4, <1>5, GroupsShrink
<1>7. QED
  BY <1>2, <1>6 DEF Regrouped

\* cleanupGroup: the group is gone, everything else is as it was.
LEMMA CleanupGroupClean ==
    ASSUME NEW m, Clean(m), NEW g \in BatchId
    PROVE  /\ Regrouped(m, CleanupGroup(m, g))
           /\ CleanupGroup(m, g).groups = [m.groups EXCEPT ![g] = None]
           /\ CleanupGroup(m, g).sent = m.sent
<1>1. m.groups \in [BatchId -> Group \cup {None}]
  BY DEF Clean, Manager
<1>2. CASE m.groups[g] = None
  BY <1>1, <1>2 DEF CleanupGroup, Regrouped, SameButGroups
<1>3. CASE m.groups[g] # None
  <2> DEFINE u == Ungroup(m, m.groups[g].members)
  <2>1. m.groups[g].members \in SUBSET Name
    BY <1>1, <1>3 DEF Group
  <2>2. Regrouped(m, u) /\ u.groups = m.groups /\ u.sent = m.sent
    BY <2>1, UngroupClean
  <2>3. CleanupGroup(m, g) = WithGroup(u, g, None)
    BY <1>3 DEF CleanupGroup, WithGroup
  <2>4. Clean(u)
    BY <2>2 DEF Regrouped
  <2> HIDE DEF u
  <2>5. /\ Regrouped(u, WithGroup(u, g, None))
        /\ WithGroup(u, g, None).groups = [u.groups EXCEPT ![g] = None]
        /\ WithGroup(u, g, None).sent = u.sent
    BY <2>4, SetGroup
  <2>6. QED
    BY <2>2, <2>3, <2>5, RegroupedIsTransitive
<1>4. QED
  BY <1>2, <1>3

\* What a group holds may be sent once the group no longer holds it.
LEMMA HandOver ==
    ASSUME NEW m, Clean(m), NEW g \in OpenGroups(m), NEW c, Regrouped(m, c), c.sent = m.sent,
           \A h \in OpenGroups(c) :
               /\ h \in OpenGroups(m)
               /\ c.groups[h].completed \subseteq m.groups[h].completed
               /\ h = g => c.groups[h].completed = {},
           NEW pending \in SUBSET Name
    PROVE  /\ Regrouped(m, Send(c, m.groups[g].completed, pending))
           /\ Send(c, m.groups[g].completed, pending).groups = c.groups
           /\ KnownIds(c) \cup IdsOf(m.groups[g].completed)
                  \subseteq KnownIds(Send(c, m.groups[g].completed, pending))
<1> DEFINE held == m.groups[g].completed
<1>1. held \in SUBSET Delivery /\ IdsOf(held) \subseteq IdsOf(Held(m))
  BY DEF Clean, Manager, OpenGroups, Group, Held, IdsOf
<1>2. IdsOf(held) \cap SentIds(c) = {}
  BY <1>1 DEF Clean, HeldIsUnsent, SentIds
<1>3. \A h \in OpenGroups(c) : IdsOf(held) \cap IdsOf(c.groups[h].completed) = {}
  <2> SUFFICES ASSUME NEW h \in OpenGroups(c), h # g
               PROVE  IdsOf(held) \cap IdsOf(c.groups[h].completed) = {}
    BY DEF IdsOf
  <2>1. IdsOf(held) \cap IdsOf(m.groups[h].completed) = {}
    BY DEF Clean, HeldOnce
  <2>2. QED
    BY <2>1 DEF IdsOf
<1>4. IdsOf(held) \cap IdsOf(Held(c)) = {}
  BY <1>3 DEF Held, IdsOf
<1>5. IdsOf(held) \cap KnownIds(c) = {}
  BY <1>2, <1>4 DEF KnownIds
<1>6. /\ Clean(Send(c, held, pending))
      /\ KnownIds(Send(c, held, pending)) = KnownIds(c) \cup IdsOf(held)
      /\ SentIds(c) \subseteq SentIds(Send(c, held, pending))
      /\ SameButGroups(c, Send(c, held, pending))
      /\ Send(c, held, pending).groups = c.groups
  BY <1>1, <1>5, SendClean DEF Regrouped
<1>7. IdsOf(held) \subseteq KnownIds(m)
  BY <1>1 DEF KnownIds
<1>8. QED
  BY <1>6, <1>7 DEF Regrouped, SameButGroups

\* deliverGroup: the reports of a group move into one message.
LEMMA DeliverGroupClean ==
    ASSUME NEW m, Clean(m), NEW g \in OpenGroups(m)
    PROVE  Regrouped(m, DeliverGroup(m, g)) /\ KnownIds(m) \subseteq KnownIds(DeliverGroup(m, g))
<1> DEFINE c == CleanupGroup(m, g)
<1>1. g \in BatchId /\ m.groups \in [BatchId -> Group \cup {None}]
  BY DEF OpenGroups, Clean, Manager
<1>2. Regrouped(m, c) /\ c.sent = m.sent /\ c.groups = [m.groups EXCEPT ![g] = None]
  BY <1>1, CleanupGroupClean
<1>3. \A h \in OpenGroups(c) : h # g /\ h \in OpenGroups(m) /\ c.groups[h] = m.groups[h]
  BY <1>1, <1>2 DEF OpenGroups
<1>4. /\ Regrouped(m, DeliverGroup(m, g))
      /\ KnownIds(c) \cup IdsOf(m.groups[g].completed) \subseteq KnownIds(DeliverGroup(m, g))
  <2>1. DeliverGroup(m, g) = Send(c, m.groups[g].completed, {})
    BY DEF DeliverGroup
  <2> HIDE DEF c
  <2>2. {} \in SUBSET Name
    OBVIOUS
  <2>3. \A h \in OpenGroups(c) :
            /\ h \in OpenGroups(m)
            /\ c.groups[h].completed \subseteq m.groups[h].completed
            /\ h = g => c.groups[h].completed = {}
    BY <1>3
  <2>4. Regrouped(m, Send(c, m.groups[g].completed, {}))
    BY <1>2, <2>2, <2>3, HandOver
  <2>5. KnownIds(c) \cup IdsOf(m.groups[g].completed)
            \subseteq KnownIds(Send(c, m.groups[g].completed, {}))
    BY <1>2, <2>2, <2>3, HandOver
  <2>6. QED
    BY <2>1, <2>4, <2>5
<1>5. \A h \in OpenGroups(m) : h # g => h \in OpenGroups(c) /\ c.groups[h] = m.groups[h]
  BY <1>1, <1>2 DEF OpenGroups
<1>6. IdsOf(Held(m)) \subseteq IdsOf(Held(c)) \cup IdsOf(m.groups[g].completed)
  BY <1>5 DEF Held, IdsOf
<1>7. SentIds(c) = SentIds(m)
  BY <1>2 DEF SentIds
<1>8. QED
  BY <1>4, <1>6, <1>7 DEF KnownIds

\* startGroupTimeout: only a timer handle changes.
LEMMA StartGroupTimeoutClean ==
    ASSUME NEW m, Clean(m), NEW g \in OpenGroups(m)
    PROVE  /\ Regrouped(m, StartGroupTimeout(m, g))
           /\ KnownIds(m) \subseteq KnownIds(StartGroupTimeout(m, g))
<1>1. g \in BatchId /\ m.groups[g] \in Group /\ m.groups[g] # None
  BY DEF OpenGroups, Clean, Manager
<1> DEFINE x == [m.groups[g] EXCEPT !.timer = "running"]
<1>2. x \in Group /\ x.completed = m.groups[g].completed
  BY <1>1 DEF Group
<1>3. [m EXCEPT !.groups[g].timer = "running"] = WithGroup(m, g, x)
  BY DEF WithGroup
<1>4. /\ Regrouped(m, WithGroup(m, g, x))
      /\ WithGroup(m, g, x).groups = [m.groups EXCEPT ![g] = x]
      /\ WithGroup(m, g, x).sent = m.sent
  <2>1. x.completed \subseteq m.groups[g].completed
    BY <1>2
  <2> HIDE DEF x
  <2>2. QED
    BY <1>1, <1>2, <2>1, SetGroup
<1>5. Regrouped(m, m)
  BY DEF Regrouped, SameButGroups
<1>6. KnownIds(m) \subseteq KnownIds(WithGroup(m, g, x))
  <2>1. \A h \in OpenGroups(m) : h \in OpenGroups(WithGroup(m, g, x))
            /\ WithGroup(m, g, x).groups[h].completed = m.groups[h].completed
    BY <1>1, <1>2, <1>4, RecordsAssumption DEF OpenGroups, Clean, Manager
  <2>2. QED
    BY <1>4, <2>1 DEF KnownIds, Held, IdsOf, SentIds
<1>7. QED
  BY <1>3, <1>4, <1>5, <1>6 DEF StartGroupTimeout

\* maybeDeliverCompletedGroup: deliver, arm the timer, or do nothing.
LEMMA MaybeDeliverClean ==
    ASSUME NEW m, Clean(m), NEW g \in OpenGroups(m)
    PROVE  /\ Regrouped(m, MaybeDeliverCompletedGroup(m, g))
           /\ KnownIds(m) \subseteq KnownIds(MaybeDeliverCompletedGroup(m, g))
<1>1. Regrouped(m, m)
  BY DEF Regrouped, SameButGroups
<1>2. QED
  BY <1>1, DeliverGroupClean, StartGroupTimeoutClean DEF MaybeDeliverCompletedGroup

\* onGroupTimeout: what the group holds is sent, and held no longer.
LEMMA OnGroupTimeoutClean ==
    ASSUME NEW m, Clean(m), NEW g \in OpenGroups(m)
    PROVE  Regrouped(m, OnGroupTimeout(m, g))
<1> DEFINE held == m.groups[g].completed
           remaining == m.groups[g].members \ NamesOf(held)
           u == Ungroup(m, NamesOf(held))
           c == WithGroup(u, g, Waiting(remaining))
           reported == Send(c, held, remaining)
<1>1. g \in BatchId /\ m.groups[g] \in Group /\ m.groups[g] # None
      /\ m.groups \in [BatchId -> Group \cup {None}]
  BY DEF OpenGroups, Clean, Manager
<1>2. NamesOf(held) \in SUBSET Name /\ remaining \in SUBSET Name
  BY <1>1 DEF Group, Delivery, NamesOf
<1>3. Regrouped(m, u) /\ u.groups = m.groups /\ u.sent = m.sent
  BY <1>2, UngroupClean
<1>4. Waiting(remaining) \in Group /\ Waiting(remaining).completed = {}
  BY <1>2 DEF Waiting, Group
<1>5. Regrouped(u, c) /\ c.sent = u.sent /\ c.groups = [u.groups EXCEPT ![g] = Waiting(remaining)]
  <2>1. Clean(u) /\ u.groups[g] # None
    BY <1>1, <1>3 DEF Regrouped
  <2>2. Waiting(remaining).completed \subseteq u.groups[g].completed
    BY <1>4
  <2> HIDE DEF u, remaining
  <2>3. QED
    BY <1>1, <1>4, <2>1, <2>2, SetGroup
<1>6. Regrouped(m, c)
  BY <1>3, <1>5, RegroupedIsTransitive
<1>7. \A h \in OpenGroups(c) :
          /\ h \in OpenGroups(m)
          /\ c.groups[h].completed \subseteq m.groups[h].completed
          /\ h = g => c.groups[h].completed = {}
  BY <1>1, <1>3, <1>4, <1>5 DEF OpenGroups
<1>8. Regrouped(m, reported)
  BY <1>2, <1>3, <1>5, <1>6, <1>7, HandOver
<1>9. Regrouped(m, CleanupGroup(reported, g))
  <2>1. Clean(reported)
    BY <1>8 DEF Regrouped
  <2> HIDE DEF reported
  <2>2. Regrouped(reported, CleanupGroup(reported, g))
    BY <1>1, <2>1, CleanupGroupClean
  <2>3. QED
    BY <1>8, <2>2, RegroupedIsTransitive
<1>10. Regrouped(m, [m EXCEPT !.groups[g].timer = "spent"])
  <2> DEFINE x == [m.groups[g] EXCEPT !.timer = "spent"]
  <2>1. x \in Group /\ x.completed = m.groups[g].completed
    BY <1>1 DEF Group
  <2>2. [m EXCEPT !.groups[g].timer = "spent"] = WithGroup(m, g, x)
    BY DEF WithGroup
  <2>3. Regrouped(m, WithGroup(m, g, x))
    BY <1>1, <2>1, SetGroup
  <2>4. QED
    BY <2>2, <2>3
<1>11. QED
  BY <1>8, <1>9, <1>10 DEF OnGroupTimeout, WithGroup

\* removeKeyFromGroup takes a member and its report out of its group.
LEMMA ShrinkGroupClean ==
    ASSUME NEW m, Clean(m), NEW g \in OpenGroups(m), NEW k \in Name
    PROVE  Regrouped(m, ShrinkGroup(m, g, k)) /\ g \in OpenGroups(ShrinkGroup(m, g, k))
<1> DEFINE x == [m.groups[g] EXCEPT !.members = @ \ {k}, !.completed = @ \ Named(@, k)]
           n == ShrinkGroup(m, g, k)
<1>1. g \in BatchId /\ m.groups[g] \in Group /\ m.groups[g] # None
      /\ m.groups \in [BatchId -> Group \cup {None}]
  BY DEF OpenGroups, Clean, Manager
<1>2. x \in Group /\ x.completed \subseteq m.groups[g].completed
  BY <1>1 DEF Group
<1>3. x # None
  BY <1>2, RecordsAssumption
<1>4. DOMAIN m = Fields
  BY FieldsOfManager DEF Clean
<1>5. /\ n.groups = [m.groups EXCEPT ![g] = x]
      /\ n.groupOf = [m.groupOf EXCEPT ![k] = None]
      /\ n.sent = m.sent
      /\ SameButGroups(m, n)
  BY <1>1, <1>4 DEF SameButGroups, ShrinkGroup, Fields
<1>6. n \in Manager
  <2>1. n.groups \in [BatchId -> Group \cup {None}] /\ n.groupOf \in [Name -> BatchId \cup {None}]
    BY <1>1, <1>2, <1>5 DEF Clean, Manager
  <2>2. QED
    BY <1>4, <1>5, <2>1 DEF Clean, Manager, ShrinkGroup, SameButGroups, Fields
<1>7. \A h \in OpenGroups(n) :
        h \in OpenGroups(m) /\ n.groups[h].completed \subseteq m.groups[h].completed
  BY <1>1, <1>2, <1>5 DEF OpenGroups
<1>8. Clean(n) /\ KnownIds(n) \subseteq KnownIds(m) /\ SentIds(m) \subseteq SentIds(n)
  BY <1>5, <1>6, <1>7, GroupsShrink
<1>9. QED
  BY <1>1, <1>3, <1>5, <1>8 DEF Regrouped, OpenGroups

\* removeKeyFromGroup, with the delivery or timer that it may cause.
LEMMA RemoveKeyFromGroupClean ==
    ASSUME NEW m, Clean(m), NEW k \in Name
    PROVE  Regrouped(m, RemoveKeyFromGroup(m, k))
<1> DEFINE g == m.groupOf[k]
           s == ShrinkGroup(m, g, k)
<1>1. g \in BatchId \cup {None}
  BY DEF Clean, Manager
<1>2. CASE g = None
  BY <1>2 DEF RemoveKeyFromGroup, Regrouped, SameButGroups
<1>3. CASE g # None /\ m.groups[g] = None
  BY <1>3, UngroupClean DEF RemoveKeyFromGroup
<1>4. CASE g # None /\ m.groups[g] # None
  <2>1. g \in OpenGroups(m) /\ g \in BatchId
    BY <1>1, <1>4 DEF OpenGroups
  <2>2. Regrouped(m, s) /\ Clean(s) /\ g \in OpenGroups(s)
    BY <2>1, ShrinkGroupClean DEF Regrouped
  <2>3. Regrouped(s, DissolveGroup(s, g)) /\ Regrouped(s, MaybeDeliverCompletedGroup(s, g))
    <3> HIDE DEF s, g
    <3>1. QED
      BY <2>1, <2>2, CleanupGroupClean, DeliverGroupClean, MaybeDeliverClean DEF DissolveGroup
  <2>4. RemoveKeyFromGroup(m, k) \in {DissolveGroup(s, g), MaybeDeliverCompletedGroup(s, g)}
    BY <1>4 DEF RemoveKeyFromGroup
  <2>5. QED
    BY <2>2, <2>3, <2>4, RegroupedIsTransitive
<1>5. QED
  BY <1>2, <1>3, <1>4

----------------------------------------------------------------------------
(* The whole manager, with the results R that subagents have sent, the     *)
(* time t at which the session began, and the completion ids I in use.     *)

Sound(m, R, t, I) ==
    /\ Clean(m)
    /\ KnownIds(m) \subseteq I
    /\ \A k \in Name : m.early[k] \in Seq(R) /\ Len(m.early[k]) <= PendingLimit
    /\ \A k \in Name : m.watchers[k] # None =>
           m.watchers[k].since >= t /\ m.watchers[k].found \in R \cup {Settled, None}
    /\ \A r \in R : r.id \in KnownIds(m) /\ r.at >= t => r.id \in m.seen

ResultsOf(R, I) == R \subseteq Result /\ \A r \in R : r.id \in I

\* An operation that makes no completion known.
Quiet(m, n, R, t, I) ==
    /\ Sound(n, R, t, I)
    /\ KnownIds(n) \subseteq KnownIds(m)
    /\ SentIds(m) \subseteq SentIds(n)
    /\ n.seen = m.seen

\* What an operation that makes the completions ids known does to the others.
Accepts(m, n, ids) ==
    /\ SentIds(m) \subseteq SentIds(n)
    /\ KnownIds(n) \subseteq KnownIds(m) \cup ids
    /\ ids \subseteq KnownIds(n)

\* An operation that takes results of this session, each for the first time,
\* and makes what it takes known.
Takes(m, n, R, t) ==
    \E ids \in SUBSET Nat :
        /\ Accepts(m, n, ids)
        /\ n.seen = m.seen \cup ids
        /\ \A i \in ids : i \notin m.seen /\ \E r \in R : r.id = i /\ r.at >= t

\* Group operations keep the whole manager sound and make nothing known.
LEMMA RegroupedQuiet ==
    ASSUME NEW R, NEW t, NEW I, NEW m, Sound(m, R, t, I), NEW n, Regrouped(m, n)
    PROVE  Quiet(m, n, R, t, I)
  BY DEF Sound, Regrouped, SameButGroups, Quiet

\* Operations that make nothing known may be composed.
LEMMA QuietIsTransitive ==
    ASSUME NEW R, NEW t, NEW I, NEW a, NEW b, NEW c, Quiet(a, b, R, t, I), Quiet(b, c, R, t, I)
    PROVE  Quiet(a, c, R, t, I)
  BY DEF Quiet

\* Doing nothing makes nothing known.
LEMMA QuietSelf ==
    ASSUME NEW R, NEW t, NEW I, NEW m, Sound(m, R, t, I)
    PROVE  Quiet(m, m, R, t, I)
  BY DEF Quiet

\* An operation that makes nothing known takes nothing.
LEMMA QuietTakes ==
    ASSUME NEW R, NEW t, NEW I, NEW m, NEW n, Quiet(m, n, R, t, I)
    PROVE  Takes(m, n, R, t)
<1>1. Accepts(m, n, {}) /\ n.seen = m.seen \cup {} /\ {} \in SUBSET Nat
  BY DEF Quiet, Accepts
<1>2. QED
  BY <1>1 DEF Takes

\* What follows an operation that makes nothing known may take a result.
LEMMA TakesAfterQuiet ==
    ASSUME NEW R, NEW t, NEW I, NEW a, NEW b, NEW c, Quiet(a, b, R, t, I), Takes(b, c, R, t)
    PROVE  Takes(a, c, R, t)
<1>1. PICK ids \in SUBSET Nat :
        /\ Accepts(b, c, ids)
        /\ c.seen = b.seen \cup ids
        /\ \A i \in ids : i \notin b.seen /\ \E r \in R : r.id = i /\ r.at >= t
  BY DEF Takes
<1>2. Accepts(a, c, ids) /\ b.seen = a.seen
  BY <1>1 DEF Quiet, Accepts
<1>3. QED
  BY <1>1, <1>2 DEF Takes

\* removeKeyFromGroup on a sound manager.
LEMMA RemoveKeyFromGroupQuiet ==
    ASSUME NEW R, NEW t, NEW I, NEW m, Sound(m, R, t, I), NEW k \in Name
    PROVE  Quiet(m, RemoveKeyFromGroup(m, k), R, t, I)
  BY RemoveKeyFromGroupClean, RegroupedQuiet DEF Sound

\* Changes of the other fields leave the groups and the messages alone.
LEMMA SameGroupsClean ==
    ASSUME NEW m, Clean(m), NEW n, n \in Manager, n.groups = m.groups, n.sent = m.sent
    PROVE  Clean(n) /\ KnownIds(n) \subseteq KnownIds(m) /\ SentIds(m) \subseteq SentIds(n)
  BY GroupsShrink DEF OpenGroups

\* removeKeyFromBatch on a sound manager.
LEMMA RemoveKeyFromBatchQuiet ==
    ASSUME NEW R, NEW t, NEW I, NEW m, Sound(m, R, t, I), NEW k \in Name
    PROVE  Quiet(m, RemoveKeyFromBatch(m, k), R, t, I)
<1> DEFINE n == RemoveKeyFromBatch(m, k)
<1>1. CASE ~InBatch(m, k)
  BY <1>1, QuietSelf DEF RemoveKeyFromBatch
<1>2. CASE InBatch(m, k)
  <2>1. DOMAIN m = Fields /\ m \in Manager
    BY FieldsOfManager DEF Sound, Clean
  <2>2. m.batch \in Batch
    BY <1>2, <2>1 DEF InBatch, Manager
  <2> DEFINE rest == m.batch.keys \ {k}
             b == IF rest = {} THEN None ELSE [id |-> m.batch.id, keys |-> rest]
  <2>3. b \in Batch \cup {None}
    BY <2>2 DEF Batch
  <2>4. n = [m EXCEPT !.batch = b]
    BY <1>2 DEF RemoveKeyFromBatch
  <2> HIDE DEF b
  <2>5. /\ n \in Manager
        /\ n.groups = m.groups /\ n.sent = m.sent /\ n.watchers = m.watchers
        /\ n.early = m.early /\ n.seen = m.seen
    BY <2>1, <2>3, <2>4 DEF Manager, Fields
  <2>6. QED
    BY <2>5, SameGroupsClean DEF Quiet, Sound
<1>3. QED
  BY <1>1, <1>2

\* addKeyToBatch on a sound manager, with a batch number to spare.
LEMMA AddKeyToBatchQuiet ==
    ASSUME NEW R, NEW t, NEW I, NEW m, Sound(m, R, t, I), NEW k \in Name, MayOpenBatch(m)
    PROVE  Quiet(m, AddKeyToBatch(m, k), R, t, I)
<1> DEFINE n == AddKeyToBatch(m, k)
<1>1. DOMAIN m = Fields /\ m \in Manager /\ m.batch \in Batch \cup {None} /\ m.nextBatch \in Nat
  BY FieldsOfManager DEF Sound, Clean, Manager
<1>2. /\ n \in Manager
      /\ n.groups = m.groups /\ n.sent = m.sent /\ n.watchers = m.watchers
      /\ n.early = m.early /\ n.seen = m.seen
  <2>1. CASE m.batch = None
    <3> DEFINE b == [id |-> m.nextBatch, keys |-> {k}]
    <3>1. b \in Batch
      BY <2>1 DEF Batch, MayOpenBatch
    <3>2. n = [m EXCEPT !.batch = b, !.nextBatch = m.nextBatch + 1]
      BY <2>1 DEF AddKeyToBatch
    <3> DEFINE nb == m.nextBatch + 1
    <3>3. nb \in Nat
      BY <1>1
    <3> HIDE DEF b, nb
    <3>4. n = [m EXCEPT !.batch = b, !.nextBatch = nb]
      BY <3>2 DEF nb
    <3> HIDE DEF n
    <3>5. QED
      BY <1>1, <3>1, <3>3, <3>4 DEF Manager, Fields
  <2>2. CASE m.batch # None
    <3> DEFINE b == [m.batch EXCEPT !.keys = @ \cup {k}]
    <3>1. b \in Batch
      BY <1>1, <2>2 DEF Batch
    <3>2. n = [m EXCEPT !.batch = b]
      BY <2>2 DEF AddKeyToBatch
    <3> HIDE DEF b
    <3>3. QED
      BY <1>1, <3>1, <3>2 DEF Manager, Fields
  <2>3. QED
    BY <2>1, <2>2
<1>3. QED
  BY <1>2, SameGroupsClean DEF Quiet, Sound

\* finalizeBatch: a new group holds no report yet.
LEMMA FinalizeBatchQuiet ==
    ASSUME NEW R, NEW t, NEW I, NEW m, Sound(m, R, t, I), m.batch # None
    PROVE  Quiet(m, FinalizeBatch(m), R, t, I) /\ FinalizeBatch(m).watchers = m.watchers
<1> DEFINE n == FinalizeBatch(m)
           w == Waiting(m.batch.keys)
<1>1. DOMAIN m = Fields /\ m \in Manager /\ m.batch \in Batch
  BY FieldsOfManager DEF Sound, Clean, Manager
<1>2. w \in Group /\ w.completed = {}
  BY <1>1 DEF Waiting, Group, Batch
<1>3. m.batch.id \in BatchId /\ m.batch.keys \in SUBSET Name
  BY <1>1 DEF Batch
<1>4. CASE AtMostOne(m.batch.keys)
  <2>1. n = [m EXCEPT !.batch = None]
    BY <1>4 DEF FinalizeBatch
  <2>2. /\ n \in Manager
        /\ n.groups = m.groups /\ n.sent = m.sent /\ n.watchers = m.watchers
        /\ n.early = m.early /\ n.seen = m.seen
    BY <1>1, <2>1 DEF Manager, Fields
  <2>3. QED
    BY <2>2, SameGroupsClean DEF Quiet, Sound
<1>5. CASE ~AtMostOne(m.batch.keys)
  <2> DEFINE go == [k \in Name |-> IF k \in m.batch.keys THEN m.batch.id ELSE m.groupOf[k]]
             gs == [m.groups EXCEPT ![m.batch.id] = w]
  <2>1. go \in [Name -> BatchId \cup {None}] /\ gs \in [BatchId -> Group \cup {None}]
    BY <1>1, <1>2, <1>3 DEF Manager
  <2>2. n = [m EXCEPT !.batch = None, !.groups = gs, !.groupOf = go]
    BY <1>1, <1>5 DEF FinalizeBatch, Fields
  <2>3. \A g \in BatchId : gs[g] = IF g = m.batch.id THEN w ELSE m.groups[g]
    BY <1>1 DEF Manager
  <2> HIDE DEF go, gs, w
  <2>4. /\ n \in Manager
        /\ n.groups = gs /\ n.sent = m.sent /\ n.watchers = m.watchers
        /\ n.early = m.early /\ n.seen = m.seen
    BY <1>1, <2>1, <2>2 DEF Manager, Fields
  <2>5. \A g \in OpenGroups(n) :
          \/ n.groups[g].completed = {}
          \/ g \in OpenGroups(m) /\ n.groups[g].completed \subseteq m.groups[g].completed
    BY <1>2, <2>3, <2>4 DEF OpenGroups
  <2>6. Clean(n) /\ KnownIds(n) \subseteq KnownIds(m) /\ SentIds(m) \subseteq SentIds(n)
    BY <2>4, <2>5, GroupsShrink DEF Sound
  <2>7. QED
    BY <2>4, <2>6 DEF Quiet, Sound
<1>6. QED
  BY <1>4, <1>5

WithWatcher(m, k, x) == [m EXCEPT !.watchers[k] = x]

\* A watcher slot may be set to one of this session (watchers.set).
LEMMA SetWatcher ==
    ASSUME NEW R, NEW t, NEW I, NEW m, Sound(m, R, t, I), NEW k \in Name,
           NEW x \in Slot \cup {None},
           x # None => x.since >= t /\ x.found \in R \cup {Settled, None}
    PROVE  /\ Quiet(m, WithWatcher(m, k, x), R, t, I)
           /\ WithWatcher(m, k, x).batch = m.batch
           /\ WithWatcher(m, k, x).nextBatch = m.nextBatch
<1> DEFINE n == WithWatcher(m, k, x)
           w == [m.watchers EXCEPT ![k] = x]
<1>1. DOMAIN m = Fields /\ m \in Manager /\ m.watchers \in [Name -> Slot \cup {None}]
  BY FieldsOfManager DEF Sound, Clean, Manager
<1>2. w \in [Name -> Slot \cup {None}] /\ \A j \in Name : w[j] = IF j = k THEN x ELSE m.watchers[j]
  BY <1>1
<1>3. n = [m EXCEPT !.watchers = w]
  BY <1>1 DEF WithWatcher, Fields
<1> HIDE DEF w
<1>4. /\ n \in Manager
      /\ n.watchers = w
      /\ n.groups = m.groups /\ n.sent = m.sent
      /\ n.early = m.early /\ n.seen = m.seen
      /\ n.batch = m.batch /\ n.nextBatch = m.nextBatch
  BY <1>1, <1>2, <1>3 DEF Manager, Fields
<1>5. Clean(n) /\ KnownIds(n) \subseteq KnownIds(m) /\ SentIds(m) \subseteq SentIds(n)
  BY <1>4, SameGroupsClean DEF Sound
<1>6. Quiet(m, n, R, t, I)
  BY <1>2, <1>4, <1>5 DEF Quiet, Sound
<1>7. QED
  BY <1>4, <1>6

WithEarly(m, k, q) == [m EXCEPT !.early[k] = q]

\* A buffer of early results may be replaced by one within the limit.
LEMMA SetEarly ==
    ASSUME NEW R, NEW t, NEW I, ResultsOf(R, I), NEW m, Sound(m, R, t, I), NEW k \in Name,
           NEW q \in Seq(R), Len(q) <= PendingLimit
    PROVE  /\ Quiet(m, WithEarly(m, k, q), R, t, I)
           /\ WithEarly(m, k, q).watchers = m.watchers
<1> DEFINE n == WithEarly(m, k, q)
           e == [m.early EXCEPT ![k] = q]
<1>1. DOMAIN m = Fields /\ m \in Manager /\ m.early \in [Name -> Seq(Result)]
  BY FieldsOfManager DEF Sound, Clean, Manager
<1>2. q \in Seq(Result)
  BY SeqMonotonic DEF ResultsOf
<1>3. e \in [Name -> Seq(Result)] /\ \A j \in Name : e[j] = IF j = k THEN q ELSE m.early[j]
  BY <1>1, <1>2
<1>4. n = [m EXCEPT !.early = e]
  BY <1>1 DEF WithEarly, Fields
<1> HIDE DEF e
<1>5. /\ n \in Manager
      /\ n.early = e
      /\ n.groups = m.groups /\ n.sent = m.sent /\ n.watchers = m.watchers /\ n.seen = m.seen
  BY <1>1, <1>3, <1>4 DEF Manager, Fields
<1>6. Clean(n) /\ KnownIds(n) \subseteq KnownIds(m) /\ SentIds(m) \subseteq SentIds(n)
  BY <1>5, SameGroupsClean DEF Sound
<1>7. QED
  BY <1>3, <1>5, <1>6 DEF Quiet, Sound

----------------------------------------------------------------------------
(* Completions.                                                            *)

\* An operation that makes one completion known.
Reports(m, n, d) ==
    /\ Clean(n)
    /\ SameButGroups(m, n)
    /\ KnownIds(n) \subseteq KnownIds(m) \cup {d.id}
    /\ d.id \in KnownIds(n)
    /\ SentIds(m) \subseteq SentIds(n)

\* A report that nobody knows of may be held in a group (completed.set).
LEMMA HoldReports ==
    ASSUME NEW m, Clean(m), NEW g \in OpenGroups(m), NEW d \in Delivery, d.id \notin KnownIds(m)
    PROVE  Reports(m, Hold(m, g, d), d) /\ g \in OpenGroups(Hold(m, g, d))
<1> DEFINE n == Hold(m, g, d)
           x == [m.groups[g] EXCEPT !.completed = (@ \ Named(@, d.name)) \cup {d}]
<1>1. g \in BatchId /\ m.groups[g] \in Group /\ m.groups[g] # None
      /\ m.groups \in [BatchId -> Group \cup {None}] /\ DOMAIN m = Fields
  BY FieldsOfManager DEF OpenGroups, Clean, Manager
<1>2. x \in Group /\ x.completed \subseteq m.groups[g].completed \cup {d}
  BY <1>1 DEF Group
<1>3. x # None
  BY <1>2, RecordsAssumption
<1>4. n = WithGroup(m, g, x)
  BY <1>1 DEF Hold, WithGroup
<1> HIDE DEF x
<1>5. /\ n.groups = [m.groups EXCEPT ![g] = x]
      /\ n.groupOf = m.groupOf
      /\ n.sent = m.sent /\ SameButGroups(m, n)
  BY <1>1, <1>4 DEF WithGroup, SameButGroups, Fields
<1>6. n.groups \in [BatchId -> Group \cup {None}]
      /\ \A h \in BatchId : n.groups[h] = IF h = g THEN x ELSE m.groups[h]
  BY <1>1, <1>2, <1>5
<1>7. n \in Manager
  BY <1>1, <1>4, <1>5, <1>6 DEF Clean, Manager, Fields, WithGroup
<1>8. OpenGroups(n) = OpenGroups(m)
  BY <1>1, <1>3, <1>6 DEF OpenGroups
<1>9. \A h \in OpenGroups(n) : IdsOf(n.groups[h].completed) \subseteq
          IdsOf(m.groups[h].completed) \cup (IF h = g THEN {d.id} ELSE {})
  BY <1>2, <1>6, <1>8 DEF IdsOf, OpenGroups
<1>10. \A h \in OpenGroups(m) : IdsOf(m.groups[h].completed) \subseteq IdsOf(Held(m))
  BY DEF Held, IdsOf
<1>11. IdsOf(Held(n)) \subseteq IdsOf(Held(m)) \cup {d.id}
  BY <1>2, <1>6, <1>8 DEF Held, IdsOf, OpenGroups
<1>12. SentIds(n) = SentIds(m)
  BY <1>5 DEF SentIds
<1>13. HeldOnce(n)
  <2> SUFFICES ASSUME NEW f \in OpenGroups(n), NEW h \in OpenGroups(n), f # h
               PROVE  IdsOf(n.groups[f].completed) \cap IdsOf(n.groups[h].completed) = {}
    BY DEF HeldOnce
  <2>1. IdsOf(m.groups[f].completed) \cap IdsOf(m.groups[h].completed) = {}
    BY <1>8 DEF Clean, HeldOnce
  <2>2. d.id \notin IdsOf(m.groups[f].completed) /\ d.id \notin IdsOf(m.groups[h].completed)
    BY <1>8, <1>10 DEF KnownIds
  <2>3. QED
    BY <2>1, <2>2, <1>9
<1>14. SentOnce(n) /\ HeldIsUnsent(n)
  BY <1>5, <1>11, <1>12 DEF Clean, SentOnce, HeldIsUnsent, KnownIds
<1>15. d.id \in IdsOf(Held(n))
  BY <1>1, <1>5, <1>6, <1>8 DEF Held, IdsOf, x
<1>16. QED
  BY <1>5, <1>7, <1>8, <1>11, <1>12, <1>13, <1>14, <1>15 DEF Clean, Reports, KnownIds

\* A report that nobody knows of may be sent at once.
LEMMA SendReports ==
    ASSUME NEW m, Clean(m), NEW d \in Delivery, d.id \notin KnownIds(m)
    PROVE  Reports(m, Send(m, {d}, {}), d)
<1>1. IdsOf({d}) = {d.id}
  BY DEF IdsOf
<1>2. {d} \in SUBSET Delivery /\ {} \in SUBSET Name
  OBVIOUS
<1>3. /\ Clean(Send(m, {d}, {}))
      /\ KnownIds(Send(m, {d}, {})) = KnownIds(m) \cup IdsOf({d})
      /\ SentIds(Send(m, {d}, {})) = SentIds(m) \cup IdsOf({d})
      /\ SameButGroups(m, Send(m, {d}, {}))
  <2>1. IdsOf({d}) \cap KnownIds(m) = {}
    BY <1>1
  <2>2. QED
    BY <1>2, <2>1, SendClean
<1>4. QED
  BY <1>1, <1>3 DEF Reports

\* A completion that nobody knows of yet, and that is not a result still to be
\* accepted, may be reported.
LEMMA ProcessCompletionSound ==
    ASSUME NEW R, NEW t, NEW I, NEW m, Sound(m, R, t, I), NEW d \in Delivery,
           d.id \notin KnownIds(m), d.id \in I, \A r \in R : r.id = d.id => r.id \in m.seen
    PROVE  /\ Sound(ProcessCompletion(m, d), R, t, I)
           /\ Accepts(m, ProcessCompletion(m, d), {d.id})
           /\ ProcessCompletion(m, d).seen = m.seen
<1> DEFINE k == d.name
           noted == [m EXCEPT !.ready[k] = d]
           closed == IF InBatch(noted, k) THEN FinalizeBatch(noted) ELSE noted
           done == WithWatcher(closed, k, None)
           g == done.groupOf[k]
           n == ProcessCompletion(m, d)
<1>1. k \in Name
  BY DEF Delivery
<1>2. Quiet(m, noted, R, t, I)
  <2> DEFINE rd == [m.ready EXCEPT ![k] = d]
  <2>1. DOMAIN m = Fields /\ m \in Manager
    BY FieldsOfManager DEF Sound, Clean
  <2>2. rd \in [Name -> Delivery \cup {None}]
    BY <2>1, <1>1 DEF Manager
  <2>3. noted = [m EXCEPT !.ready = rd]
    BY <2>1 DEF Fields
  <2> HIDE DEF rd, noted
  <2>4. /\ noted \in Manager
        /\ noted.groups = m.groups /\ noted.sent = m.sent /\ noted.watchers = m.watchers
        /\ noted.early = m.early /\ noted.seen = m.seen
    BY <2>1, <2>2, <2>3 DEF Manager, Fields
  <2>5. QED
    BY <2>4, SameGroupsClean DEF Quiet, Sound
<1>3. Quiet(m, closed, R, t, I)
  <2> HIDE DEF noted
  <2>1. InBatch(noted, k) => noted.batch # None
    BY DEF InBatch
  <2>2. InBatch(noted, k) => Quiet(noted, FinalizeBatch(noted), R, t, I)
    BY <2>1, <1>2, FinalizeBatchQuiet DEF Quiet
  <2>3. QED
    BY <2>2, <1>2, QuietIsTransitive
<1>4. Quiet(m, done, R, t, I)
  <2> HIDE DEF closed
  <2>1. Quiet(closed, done, R, t, I)
    BY <1>1, <1>3, SetWatcher DEF Quiet
  <2>2. QED
    BY <2>1, <1>3, QuietIsTransitive
<1>5. n = IF g = None THEN Send(done, {d}, {})
          ELSE IF done.groups[g] = None THEN Send(Ungroup(done, {k}), {d}, {})
          ELSE MaybeDeliverCompletedGroup(Hold(done, g, d), g)
  BY DEF ProcessCompletion, WithWatcher
<1> HIDE DEF done, n
<1>6. /\ Clean(done) /\ d.id \notin KnownIds(done) /\ done.groupOf[k] \in BatchId \cup {None}
  BY <1>1, <1>4 DEF Quiet, Sound, Clean, Manager
<1>7. Reports(done, n, d)
  <2>1. CASE g = None
    BY <2>1, <1>5, <1>6, SendReports
  <2>2. CASE g # None /\ done.groups[g] = None
    <3>1. {k} \in SUBSET Name
      BY <1>1
    <3>2. Regrouped(done, Ungroup(done, {k}))
      BY <3>1, <1>6, UngroupClean
    <3>3. Reports(Ungroup(done, {k}), n, d)
      BY <3>2, <2>2, <1>5, <1>6, SendReports DEF Regrouped
    <3>4. QED
      BY <3>2, <3>3 DEF Regrouped, Reports, SameButGroups
  <2>3. CASE g # None /\ done.groups[g] # None
    <3>1. g \in OpenGroups(done)
      BY <2>3, <1>6 DEF OpenGroups
    <3> DEFINE h == Hold(done, g, d)
    <3>2. Reports(done, h, d) /\ g \in OpenGroups(h)
      BY <3>1, <1>6, HoldReports
    <3> HIDE DEF h
    <3>3. /\ Regrouped(h, MaybeDeliverCompletedGroup(h, g))
          /\ KnownIds(h) \subseteq KnownIds(MaybeDeliverCompletedGroup(h, g))
      BY <3>2, MaybeDeliverClean DEF Reports
    <3>4. n = MaybeDeliverCompletedGroup(h, g)
      BY <2>3, <1>5 DEF h
    <3>5. QED
      BY <3>2, <3>3, <3>4 DEF Regrouped, Reports, SameButGroups
  <2>4. QED
    BY <2>1, <2>2, <2>3
<1>8. Sound(n, R, t, I)
  <2>1. Sound(done, R, t, I) /\ done.seen = m.seen
    BY <1>4 DEF Quiet
  <2>2. /\ Clean(n) /\ KnownIds(n) \subseteq KnownIds(done) \cup {d.id}
        /\ n.watchers = done.watchers /\ n.early = done.early /\ n.seen = done.seen
    BY <1>7 DEF Reports, SameButGroups
  <2>3. QED
    BY <2>1, <2>2 DEF Sound
<1>9. Accepts(m, n, {d.id}) /\ n.seen = m.seen
  BY <1>4, <1>7 DEF Quiet, Reports, SameButGroups, Accepts
<1>10. QED
  BY <1>8, <1>9 DEF n

\* A result that a watcher consumes is one that nobody knows of.
LEMMA ConsumedIsUnknown ==
    ASSUME NEW R, NEW t, NEW I, ResultsOf(R, I), t \in Nat, NEW m, Sound(m, R, t, I),
           NEW r \in R, Consumes(m, r)
    PROVE  r.id \notin KnownIds(m) /\ r.id \notin m.seen /\ r.at >= t
<1>1. r \in Result /\ r.name \in Name /\ r.at \in Nat
  BY DEF ResultsOf, Result
<1>2. m.watchers[r.name] \in Slot
  BY <1>1 DEF Sound, Clean, Manager, Consumes
<1>3. m.watchers[r.name].since \in Nat /\ m.watchers[r.name].since >= t
  BY <1>1, <1>2 DEF Slot, Sound, Consumes
<1>4. r.at >= t /\ r.id \notin m.seen
  BY <1>1, <1>3 DEF Consumes
<1>5. QED
  BY <1>4 DEF Sound

\* consumeResult: an id that was not seen is marked, then reported or held.
LEMMA ConsumeResultSound ==
    ASSUME NEW R, NEW t, NEW I, ResultsOf(R, I), t \in Nat, NEW m, Sound(m, R, t, I),
           NEW r \in R, Consumes(m, r)
    PROVE  Sound(ConsumeResult(m, r), R, t, I) /\ Takes(m, ConsumeResult(m, r), R, t)
<1> DEFINE seen == m.seen \cup {r.id}
           arms == IF r.arm = None THEN m.doneArms ELSE m.doneArms \cup {r.arm}
           c == [m EXCEPT !.seen = seen, !.doneArms = arms]
           d == DeliveryOf(r)
<1>1. r \in Result /\ r.id \in I
  BY DEF ResultsOf
<1>2. DOMAIN m = Fields /\ m \in Manager
  BY FieldsOfManager DEF Sound, Clean
<1>3. seen \in SUBSET Nat /\ arms \in SUBSET Arm
  BY <1>1, <1>2 DEF Manager, Result
<1>4. d \in Delivery /\ d.id = r.id
  BY <1>1 DEF DeliveryOf, Delivery, Result
<1>5. ConsumeResult(m, r) = ProcessCompletion(c, d)
  BY <1>2 DEF ConsumeResult, Fields
<1>6. r.id \in seen /\ m.seen \subseteq seen
  OBVIOUS
<1> HIDE DEF seen, arms, d
<1>7. /\ c \in Manager /\ c.seen = seen
      /\ c.groups = m.groups /\ c.sent = m.sent /\ c.watchers = m.watchers /\ c.early = m.early
  BY <1>2, <1>3 DEF Manager, Fields
<1> HIDE DEF c
<1>8. Clean(c) /\ KnownIds(c) \subseteq KnownIds(m) /\ SentIds(m) \subseteq SentIds(c)
  BY <1>7, SameGroupsClean DEF Sound
<1>9. Sound(c, R, t, I)
  BY <1>6, <1>7, <1>8 DEF Sound
<1>10. d.id \notin KnownIds(c)
  BY <1>4, <1>8, ConsumedIsUnknown
<1>11. \A s \in R : s.id = d.id => s.id \in c.seen
  BY <1>4, <1>6, <1>7
<1>12. /\ Sound(ProcessCompletion(c, d), R, t, I)
       /\ Accepts(c, ProcessCompletion(c, d), {d.id})
       /\ ProcessCompletion(c, d).seen = seen
  BY <1>1, <1>4, <1>7, <1>9, <1>10, <1>11, ProcessCompletionSound
<1>13. /\ Accepts(m, ProcessCompletion(c, d), {r.id})
       /\ ProcessCompletion(c, d).seen = m.seen \cup {r.id}
  BY <1>4, <1>8, <1>12 DEF Accepts, seen
<1>14. {r.id} \in SUBSET Nat
  BY <1>1 DEF Result
<1>15. \A i \in {r.id} : i \notin m.seen /\ \E s \in R : s.id = i /\ s.at >= t
  BY ConsumedIsUnknown
<1>16. Takes(m, ProcessCompletion(c, d), R, t)
  BY <1>13, <1>14, <1>15 DEF Takes
<1>17. QED
  BY <1>5, <1>12, <1>16

\* queuePendingExternal keeps the buffer within its limit.
LEMMA QueueEarlyQuiet ==
    ASSUME NEW R, NEW t, NEW I, ResultsOf(R, I), NEW m, Sound(m, R, t, I), NEW r \in R
    PROVE  Quiet(m, QueueEarly(m, r), R, t, I) /\ QueueEarly(m, r).watchers = m.watchers
<1> DEFINE k == r.name
           q == LastOf(Append(m.early[k], r), PendingLimit)
<1>1. k \in Name
  BY DEF ResultsOf, Result
<1>2. Append(m.early[k], r) \in Seq(R)
  BY <1>1 DEF Sound
<1>3. q \in Seq(R) /\ Len(q) <= PendingLimit
  BY <1>2, LastOfType, PendingLimitAssumption
<1>4. QueueEarly(m, r) \in {m, WithEarly(m, k, q)}
  BY DEF QueueEarly, WithEarly
<1> HIDE DEF q, k
<1>5. /\ Quiet(m, WithEarly(m, k, q), R, t, I)
      /\ WithEarly(m, k, q).watchers = m.watchers
  BY <1>1, <1>3, SetEarly
<1>6. QED
  BY <1>4, <1>5, QuietSelf

\* processExternalResult: consumed, buffered or ignored.
LEMMA ProcessExternalResultSound ==
    ASSUME NEW R, NEW t, NEW I, ResultsOf(R, I), t \in Nat, NEW m, Sound(m, R, t, I), NEW r \in R
    PROVE  /\ Sound(ProcessExternalResult(m, r), R, t, I)
           /\ Takes(m, ProcessExternalResult(m, r), R, t)
           /\ ~Consumes(m, r) =>
                /\ Quiet(m, ProcessExternalResult(m, r), R, t, I)
                /\ ProcessExternalResult(m, r).watchers = m.watchers
<1>1. Consumes(m, r) =>
          Sound(ConsumeResult(m, r), R, t, I) /\ Takes(m, ConsumeResult(m, r), R, t)
  BY ConsumeResultSound
<1>2. Quiet(m, QueueEarly(m, r), R, t, I) /\ QueueEarly(m, r).watchers = m.watchers
  BY QueueEarlyQuiet
<1>3. Quiet(m, m, R, t, I)
  BY QuietSelf
<1>4. Takes(m, QueueEarly(m, r), R, t) /\ Takes(m, m, R, t)
  BY <1>2, <1>3, QuietTakes
<1>5. QED
  BY <1>1, <1>2, <1>3, <1>4 DEF ProcessExternalResult, Quiet

\* The loop of arm over the early results, up to the first one consumed.
LEMMA DrainEarlySound ==
    ASSUME NEW R, NEW t, NEW I, ResultsOf(R, I), t \in Nat, NEW m, Sound(m, R, t, I), NEW k \in Name
    PROVE  Sound(DrainEarly(m, k), R, t, I) /\ Takes(m, DrainEarly(m, k), R, t)
<1> DEFINE q == m.early[k]
           hits == {i \in DOMAIN q : Consumes(m, q[i])}
           first == CHOOSE i \in hits : \A j \in hits : i <= j
<1>1. q \in Seq(R) /\ Len(q) \in Nat /\ Len(q) <= PendingLimit /\ DOMAIN q = 1..Len(q)
  BY DEF Sound
<1>2. \A e \in Seq(R) : Len(e) <= PendingLimit =>
          /\ Quiet(m, WithEarly(m, k, e), R, t, I)
          /\ WithEarly(m, k, e).watchers = m.watchers
  BY SetEarly
<1>3. CASE hits = {}
  <2>1. Retained(m, q) \in Seq(R) /\ Len(Retained(m, q)) <= Len(q)
    BY <1>1, RetainedType
  <2>2. Len(Retained(m, q)) \in Nat
    BY <2>1
  <2>3. Len(Retained(m, q)) <= PendingLimit
    BY <1>1, <2>1, <2>2, PendingLimitAssumption
  <2>4. DrainEarly(m, k) = WithEarly(m, k, Retained(m, q))
    BY <1>3 DEF DrainEarly, WithEarly
  <2> HIDE DEF q
  <2>5. Quiet(m, WithEarly(m, k, Retained(m, q)), R, t, I)
    BY <1>2, <2>1, <2>3
  <2>6. QED
    BY <2>4, <2>5, QuietTakes DEF Quiet
<1>4. CASE hits # {}
  <2> DEFINE front == SubSeq(q, 1, first - 1)
             before == Retained(m, front)
             after == SubSeq(q, first + 1, Len(q))
             rest == before \o after
  <2>1. \E i \in hits : \A j \in hits : i <= j
    <3>1. hits \subseteq Nat
      BY <1>1
    <3> HIDE DEF hits
    <3>2. QED
      BY <1>4, <3>1, LeastNumber
  <2>2. first \in hits
    <3> HIDE DEF hits
    <3>1. QED
      BY <2>1
  <2>3. first \in 1..Len(q) /\ Consumes(m, q[first])
    BY <1>1, <2>2
  <2>4. DrainEarly(m, k) = ConsumeResult(WithEarly(m, k, rest), q[first])
    BY <1>4 DEF DrainEarly, WithEarly
  <2> HIDE DEF first, hits, q
  <2>5. q[first] \in R
    BY <1>1, <2>3
  <2>6. q \in Seq(R) /\ first \in 1..Len(q)
    BY <1>1, <2>3
  <2>7. front \in Seq(R) /\ Len(front) = first - 1
    BY <2>6, SplitType
  <2>8. after \in Seq(R) /\ Len(after) = Len(q) - first
    BY <2>6, SplitType
  <2>9. before \in Seq(R) /\ Len(before) <= first - 1 /\ Len(before) \in Nat
    <3> HIDE DEF front
    <3>1. before \in Seq(R) /\ Len(before) <= Len(front)
      BY <2>7, RetainedType
    <3>2. QED
      BY <2>7, <3>1
  <2> HIDE DEF before, after
  <2>10. rest \in Seq(R) /\ Len(rest) = Len(before) + Len(after)
    BY <2>8, <2>9
  <2>11. Len(rest) <= PendingLimit
    BY <1>1, <2>3, <2>8, <2>9, <2>10, PendingLimitAssumption
  <2> HIDE DEF rest
  <2>12. /\ Quiet(m, WithEarly(m, k, rest), R, t, I)
         /\ WithEarly(m, k, rest).watchers = m.watchers
    BY <1>2, <2>10, <2>11
  <2>13. Consumes(WithEarly(m, k, rest), q[first])
    BY <2>3, <2>12 DEF Consumes, Quiet
  <2>14. Sound(WithEarly(m, k, rest), R, t, I)
    BY <2>12 DEF Quiet
  <2>15. /\ Sound(ConsumeResult(WithEarly(m, k, rest), q[first]), R, t, I)
         /\ Takes(WithEarly(m, k, rest), ConsumeResult(WithEarly(m, k, rest), q[first]), R, t)
    BY <2>5, <2>13, <2>14, ConsumeResultSound
  <2>16. QED
    BY <2>4, <2>12, <2>15, TakesAfterQuiet
<1>5. QED
  BY <1>3, <1>4

----------------------------------------------------------------------------
(* The manager's interface.                                                *)

\* CancelKey and WatchRejected leave the batch and the group in this way.
LEMMA LeaveQuiet ==
    ASSUME NEW R, NEW t, NEW I, NEW m, NEW n, Quiet(m, n, R, t, I), NEW k \in Name
    PROVE  Quiet(m, RemoveKeyFromGroup(RemoveKeyFromBatch(n, k), k), R, t, I)
<1> DEFINE b == RemoveKeyFromBatch(n, k)
<1>1. Quiet(n, b, R, t, I)
  BY RemoveKeyFromBatchQuiet DEF Quiet
<1> HIDE DEF b
<1>2. Quiet(b, RemoveKeyFromGroup(b, k), R, t, I)
  BY <1>1, RemoveKeyFromGroupQuiet DEF Quiet
<1>3. Quiet(m, b, R, t, I)
  BY <1>1, QuietIsTransitive
<1>4. QED
  BY <1>2, <1>3, QuietIsTransitive DEF b

\* Removing a watcher (watchers.delete) makes nothing known.
LEMMA UnwatchQuiet ==
    ASSUME NEW R, NEW t, NEW I, NEW m, Sound(m, R, t, I), NEW k \in Name
    PROVE  /\ Quiet(m, [m EXCEPT !.watchers[k] = None], R, t, I)
           /\ [m EXCEPT !.watchers[k] = None].batch = m.batch
           /\ [m EXCEPT !.watchers[k] = None].nextBatch = m.nextBatch
<1>1. [m EXCEPT !.watchers[k] = None] = WithWatcher(m, k, None)
  BY DEF WithWatcher
<1>2. /\ Quiet(m, WithWatcher(m, k, None), R, t, I)
      /\ WithWatcher(m, k, None).batch = m.batch
      /\ WithWatcher(m, k, None).nextBatch = m.nextBatch
  BY SetWatcher
<1>3. QED
  BY <1>1, <1>2

\* The rejection handler of a pane watch.
LEMMA WatchRejectedQuiet ==
    ASSUME NEW R, NEW t, NEW I, NEW m, Sound(m, R, t, I), NEW k \in Name
    PROVE  Quiet(m, WatchRejected(m, k), R, t, I)
<1> DEFINE n == [m EXCEPT !.watchers[k] = None]
<1>1. Quiet(m, n, R, t, I)
  BY UnwatchQuiet
<1>2. WatchRejected(m, k) = RemoveKeyFromGroup(RemoveKeyFromBatch(n, k), k)
  BY DEF WatchRejected
<1> HIDE DEF n
<1>3. QED
  BY <1>1, <1>2, LeaveQuiet

\* Dropping the early results of a subagent makes nothing known.
LEMMA ForgetEarlyQuiet ==
    ASSUME NEW R, NEW t, NEW I, ResultsOf(R, I), NEW m, Sound(m, R, t, I), NEW k \in Name
    PROVE  Quiet(m, [m EXCEPT !.early[k] = << >>], R, t, I)
<1>1. << >> \in Seq(R) /\ Len(<< >>) <= PendingLimit
  BY PendingLimitAssumption
<1>2. [m EXCEPT !.early[k] = << >>] = WithEarly(m, k, << >>)
  BY DEF WithEarly
<1>3. Quiet(m, WithEarly(m, k, << >>), R, t, I)
  BY <1>1, SetEarly
<1>4. QED
  BY <1>2, <1>3

\* releaseBatchMember.
LEMMA ReleaseMemberQuiet ==
    ASSUME NEW R, NEW t, NEW I, ResultsOf(R, I), NEW m, Sound(m, R, t, I), NEW k \in Name
    PROVE  Quiet(m, ReleaseMember(m, k), R, t, I)
<1> DEFINE n == [m EXCEPT !.early[k] = << >>]
<1>1. Quiet(m, n, R, t, I)
  BY ForgetEarlyQuiet
<1>2. ReleaseMember(m, k) \in {m, RemoveKeyFromGroup(RemoveKeyFromBatch(n, k), k)}
  BY DEF ReleaseMember
<1> HIDE DEF n
<1>3. QED
  BY <1>1, <1>2, LeaveQuiet, QuietSelf

\* cancelKey.
LEMMA CancelKeyQuiet ==
    ASSUME NEW R, NEW t, NEW I, ResultsOf(R, I), NEW m, Sound(m, R, t, I), NEW k \in Name
    PROVE  Quiet(m, CancelKey(m, k), R, t, I)
<1> DEFINE u == [m EXCEPT !.watchers[k] = None]
           n == [u EXCEPT !.early[k] = << >>]
<1>1. CancelKey(m, k) = RemoveKeyFromGroup(RemoveKeyFromBatch(n, k), k)
  BY DEF CancelKey
<1>2. Quiet(m, u, R, t, I)
  BY UnwatchQuiet
<1> HIDE DEF u
<1>3. Quiet(u, n, R, t, I)
  <2>1. Sound(u, R, t, I)
    BY <1>2 DEF Quiet
  <2>2. QED
    BY <2>1, ForgetEarlyQuiet
<1> HIDE DEF n
<1>4. Quiet(m, n, R, t, I)
  BY <1>2, <1>3, QuietIsTransitive
<1>5. QED
  BY <1>1, <1>4, LeaveQuiet

\* cancel and cancelPane.
LEMMA CancelQuiet ==
    ASSUME NEW R, NEW t, NEW I, ResultsOf(R, I), NEW m, Sound(m, R, t, I), NEW k \in Name,
           NEW byName \in BOOLEAN
    PROVE  Quiet(m, Cancel(m, k, byName), R, t, I)
  BY CancelKeyQuiet, ForgetEarlyQuiet, QuietSelf DEF Cancel

\* acknowledgeInspection.
LEMMA AcknowledgeInspectionQuiet ==
    ASSUME NEW R, NEW t, NEW I, NEW m, Sound(m, R, t, I), NEW d \in Delivery
    PROVE  Quiet(m, AcknowledgeInspection(m, d), R, t, I)
<1>1. d.name \in Name
  BY DEF Delivery
<1>2. QED
  BY <1>1, RemoveKeyFromGroupQuiet, QuietSelf DEF AcknowledgeInspection

\* acceptArm.
LEMMA AcceptArmQuiet ==
    ASSUME NEW R, NEW t, NEW I, NEW m, Sound(m, R, t, I), NEW k \in Name, NEW a \in Arm
    PROVE  Quiet(m, AcceptArm(m, k, a), R, t, I)
<1>1. CASE m.watchers[k] = None
  BY <1>1, QuietSelf DEF AcceptArm
<1>2. CASE m.watchers[k] # None
  <2> DEFINE x == [m.watchers[k] EXCEPT !.arms = @ \cup {a}]
  <2>1. m.watchers[k] \in Slot
    BY <1>2 DEF Sound, Clean, Manager
  <2>2. x \in Slot /\ x.since = m.watchers[k].since /\ x.found = m.watchers[k].found
    BY <2>1 DEF Slot
  <2>3. AcceptArm(m, k, a) = WithWatcher(m, k, x)
    BY <1>2 DEF AcceptArm, WithWatcher
  <2>4. x.since >= t /\ x.found \in R \cup {Settled, None}
    BY <1>2, <2>2 DEF Sound
  <2> HIDE DEF x
  <2>5. Quiet(m, WithWatcher(m, k, x), R, t, I)
    BY <2>2, <2>4, SetWatcher
  <2>6. QED
    BY <2>3, <2>5
<1>3. QED
  BY <1>1, <1>2

\* arm first drops the watcher it replaces, with its membership.
LEMMA ReplaceQuiet ==
    ASSUME NEW R, NEW t, NEW I, NEW m, Sound(m, R, t, I), NEW k \in Name
    PROVE  /\ Quiet(m, Replace(m, k), R, t, I)
           /\ ~InBatch(m, k) =>
                Replace(m, k).batch = m.batch /\ Replace(m, k).nextBatch = m.nextBatch
<1>1. CASE m.watchers[k] = None
  BY <1>1, QuietSelf DEF Replace
<1>2. CASE m.watchers[k] # None
  <2> DEFINE n == [m EXCEPT !.watchers[k] = None]
             o == RemoveKeyFromBatch(n, k)
  <2>1. Replace(m, k) = RemoveKeyFromGroup(o, k)
    BY <1>2 DEF Replace
  <2>2. Quiet(m, n, R, t, I) /\ n.batch = m.batch /\ n.nextBatch = m.nextBatch
    BY UnwatchQuiet
  <2> HIDE DEF n
  <2>3. Quiet(m, RemoveKeyFromGroup(o, k), R, t, I)
    BY <2>2, LeaveQuiet
  <2>4. Sound(o, R, t, I)
    BY <2>2, RemoveKeyFromBatchQuiet DEF Quiet
  <2>5. ~InBatch(m, k) => o.batch = m.batch /\ o.nextBatch = m.nextBatch
    BY <2>2 DEF InBatch, RemoveKeyFromBatch
  <2> HIDE DEF o
  <2>6. Regrouped(o, RemoveKeyFromGroup(o, k))
    BY <2>4, RemoveKeyFromGroupClean DEF Sound
  <2>7. QED
    BY <2>1, <2>3, <2>5, <2>6 DEF Regrouped, SameButGroups
<1>3. QED
  BY <1>1, <1>2

\* arm: replace, install, join a batch, and drain the early results.
LEMMA ArmWatcherSound ==
    ASSUME NEW R, NEW t, NEW I, ResultsOf(R, I), t \in Nat, NEW m, Sound(m, R, t, I),
           NEW k \in Name, NEW since \in Nat, since >= t, NEW arms \in SUBSET Arm,
           NEW source \in {"rpc", "poll"}, MayOpenBatch(m)
    PROVE  /\ Sound(ArmWatcher(m, k, since, arms, source), R, t, I)
           /\ Takes(m, ArmWatcher(m, k, since, arms, source), R, t)
<1> DEFINE x == NewSlot(since, arms, source)
           p == Replace(m, k)
           s == WithWatcher(p, k, x)
           b == IF Reserved(m, k) THEN s ELSE AddKeyToBatch(s, k)
<1>1. x \in Slot /\ x.since = since /\ x.found = None
  BY DEF NewSlot, Slot
<1>2. ArmWatcher(m, k, since, arms, source) = DrainEarly(b, k)
  BY DEF ArmWatcher, WithWatcher
<1>3. Quiet(m, p, R, t, I) /\ (~Reserved(m, k) => MayOpenBatch(p))
  BY ReplaceQuiet DEF Reserved, MayOpenBatch
<1> HIDE DEF p, x
<1>4. Quiet(p, s, R, t, I) /\ s.batch = p.batch /\ s.nextBatch = p.nextBatch
  BY <1>1, <1>3, SetWatcher DEF Quiet
<1> HIDE DEF s
<1>5. Quiet(s, b, R, t, I)
  BY <1>3, <1>4, AddKeyToBatchQuiet, QuietSelf DEF Quiet, MayOpenBatch
<1> HIDE DEF b
<1>6. Quiet(m, b, R, t, I)
  BY <1>3, <1>4, <1>5, QuietIsTransitive
<1>7. Sound(DrainEarly(b, k), R, t, I) /\ Takes(b, DrainEarly(b, k), R, t)
  BY <1>5, DrainEarlySound DEF Quiet
<1>8. QED
  BY <1>2, <1>6, <1>7, TakesAfterQuiet

\* A watch that saw its subagent settle makes up a completion of its own.
LEMMA WatchSettledSound ==
    ASSUME NEW R, NEW t, NEW I, ResultsOf(R, I), NEW m, Sound(m, R, t, I), NEW k \in Name,
           m.watchers[k] # None, m.watchers[k].found = Settled,
           NEW id \in Nat, id \notin I
    PROVE  /\ Sound(WatchResolved(m, k, id), R, t, I \cup {id})
           /\ Accepts(m, WatchResolved(m, k, id), {id})
           /\ WatchResolved(m, k, id).seen = m.seen
<1> DEFINE arms == m.doneArms \cup m.watchers[k].arms
           n == [m EXCEPT !.doneArms = arms]
           d == [id |-> id, name |-> k, final |-> FALSE]
<1>1. DOMAIN m = Fields /\ m \in Manager /\ m.watchers[k] \in Slot
  BY FieldsOfManager DEF Sound, Clean, Manager
<1>2. arms \in SUBSET Arm
  BY <1>1 DEF Manager, Slot
<1>3. d \in Delivery /\ d.id = id
  BY DEF Delivery
<1>4. WatchResolved(m, k, id) = ProcessCompletion(n, d)
  BY <1>1 DEF WatchResolved, Fields
<1> HIDE DEF arms, d
<1>5. /\ n \in Manager /\ n.seen = m.seen
      /\ n.groups = m.groups /\ n.sent = m.sent /\ n.watchers = m.watchers /\ n.early = m.early
  BY <1>1, <1>2 DEF Manager, Fields
<1> HIDE DEF n
<1>6. Clean(n) /\ KnownIds(n) \subseteq KnownIds(m) /\ SentIds(m) \subseteq SentIds(n)
  BY <1>5, SameGroupsClean DEF Sound
<1>7. Sound(n, R, t, I \cup {id})
  BY <1>5, <1>6 DEF Sound
<1>8. d.id \notin KnownIds(n) /\ \A r \in R : r.id # d.id
  BY <1>3, <1>6 DEF Sound, ResultsOf
<1>9. /\ Sound(ProcessCompletion(n, d), R, t, I \cup {id})
      /\ Accepts(n, ProcessCompletion(n, d), {id})
      /\ ProcessCompletion(n, d).seen = n.seen
  <2>1. d.id \in I \cup {id}
    BY <1>3
  <2>2. \A r \in R : r.id = d.id => r.id \in n.seen
    BY <1>8
  <2>3. QED
    BY <1>3, <1>7, <1>8, <2>1, <2>2, ProcessCompletionSound
<1>10. QED
  BY <1>4, <1>5, <1>6, <1>9 DEF Accepts

\* The pane watch resolved with a result it took from the outbox.
LEMMA WatchTookSound ==
    ASSUME NEW R, NEW t, NEW I, ResultsOf(R, I), t \in Nat, NEW m, Sound(m, R, t, I),
           NEW k \in Name, m.watchers[k] # None,
           m.watchers[k].found # Settled, m.watchers[k].found # None, NEW id
    PROVE  Sound(WatchResolved(m, k, id), R, t, I) /\ Takes(m, WatchResolved(m, k, id), R, t)
<1> DEFINE found == m.watchers[k].found
           offered == ProcessExternalResult(m, found)
           x == [m.watchers[k] EXCEPT !.found = None]
<1>1. found \in R /\ m.watchers[k] \in Slot
  BY DEF Sound, Clean, Manager
<1>2. /\ Sound(offered, R, t, I) /\ Takes(m, offered, R, t)
      /\ ~Consumes(m, found) => Quiet(m, offered, R, t, I) /\ offered.watchers = m.watchers
  BY <1>1, ProcessExternalResultSound
<1>3. x \in Slot /\ x.since >= t /\ x.found = None
  BY <1>1 DEF Slot, Sound
<1>4. CASE Consumes(m, found)
  <2>1. WatchResolved(m, k, id) = offered
    BY <1>4 DEF WatchResolved
  <2>2. QED
    BY <1>2, <2>1
<1>5. CASE ~Consumes(m, found)
  <2>1. WatchResolved(m, k, id) = [offered EXCEPT !.watchers[k].found = None]
    BY <1>5 DEF WatchResolved
  <2>2. offered.watchers[k] = m.watchers[k]
    BY <1>2, <1>5
  <2> HIDE DEF offered
  <2>3. WatchResolved(m, k, id) = WithWatcher(offered, k, x)
    BY <2>1, <2>2 DEF WithWatcher
  <2> HIDE DEF x
  <2>4. Quiet(offered, WithWatcher(offered, k, x), R, t, I)
    BY <1>2, <1>3, SetWatcher
  <2>5. Quiet(m, WithWatcher(offered, k, x), R, t, I)
    BY <1>2, <1>5, <2>4, QuietIsTransitive
  <2>6. QED
    BY <2>3, <2>5, QuietTakes DEF Quiet
<1>6. QED
  BY <1>4, <1>5

----------------------------------------------------------------------------
(* Groups and the batch.                                                   *)

Shaped(m) ==
    /\ DOMAIN m = Fields
    /\ m.watchers \in [Name -> Slot \cup {None}]
    /\ m.groups \in [BatchId -> Group \cup {None}]
    /\ m.groupOf \in [Name -> BatchId \cup {None}]
    /\ m.batch \in Batch \cup {None}
    /\ m.nextBatch \in Nat
    /\ m.ready \in [Name -> Delivery \cup {None}]
    /\ m.sent \in Seq(Message)

\* keyToGroup and the groups agree.
Keyed(m) ==
    /\ \A k \in Name : m.groupOf[k] # None =>
           m.groupOf[k] \in OpenGroups(m) /\ k \in m.groups[m.groupOf[k]].members
    /\ \A g \in OpenGroups(m) : \A k \in m.groups[g].members : m.groupOf[k] = g

\* A group holds reports of its members, one of each.
OneReportEach(m) ==
    \A g \in OpenGroups(m) :
        /\ \A d \in m.groups[g].completed : d.name \in m.groups[g].members
        /\ \A d, e \in m.groups[g].completed : d.name = e.name => d = e

\* A batch becomes a group of its own, of subagents that are in none.
BatchIsNew(m) ==
    /\ \A g \in OpenGroups(m) : g < m.nextBatch
    /\ m.batch # None =>
           /\ m.batch.id < m.nextBatch
           /\ m.batch.id \notin OpenGroups(m)
           /\ \A k \in m.batch.keys : m.groupOf[k] = None

ReadyIsOwn(m) == \A k \in Name : m.ready[k] # None => m.ready[k].name = k

Struct(m) == Shaped(m) /\ Keyed(m) /\ OneReportEach(m) /\ BatchIsNew(m) /\ ReadyIsOwn(m)

\* Whom a group waits for, now or when its batch is closed.
Expected(m) ==
    UNION {m.groups[g].members \ NamesOf(m.groups[g].completed) : g \in OpenGroups(m)}

Waits(m) == Expected(m) \cup (IF m.batch = None THEN {} ELSE m.batch.keys)

IsTimed(x) == x.timer = IF x.completed = {} THEN "unset" ELSE "running"

Timed(m) == \A g \in OpenGroups(m) : IsTimed(m.groups[g])

\* Nobody joins and nothing new is held; only of the subagents K is a held
\* report dropped unsent.
Moves(m, n, K) ==
    /\ Struct(n)
    /\ Waits(n) \subseteq Waits(m)
    /\ Held(n) \subseteq Held(m)
    /\ SentIds(m) \subseteq SentIds(n)
    /\ \A k \in Name : m.groupOf[k] = None => n.groupOf[k] = None
    /\ \A d \in Held(m) : d.name \in K \/ d \in Held(n) \/ d.id \in SentIds(n)
    /\ Timed(m) /\ (\A d \in Held(m) : d.name \notin K) => Timed(n)

\* Such operations may be composed.
LEMMA MovesIsTransitive ==
    ASSUME NEW a, NEW b, NEW c, NEW K, Moves(a, b, K), Moves(b, c, K)
    PROVE  Moves(a, c, K)
  BY DEF Moves

\* Dropping fewer reports is allowed.
LEMMA MovesMore ==
    ASSUME NEW m, NEW n, NEW K, NEW L, Moves(m, n, K), K \subseteq L
    PROVE  Moves(m, n, L)
  BY DEF Moves

\* The fields the groups do not depend on.
SameGroups(m, n) ==
    /\ n.groups = m.groups
    /\ n.groupOf = m.groupOf
    /\ n.batch = m.batch
    /\ n.nextBatch = m.nextBatch
    /\ n.sent = m.sent

\* An operation that leaves the groups alone.
LEMMA SameGroupsMoves ==
    ASSUME NEW m, Struct(m), NEW n, Shaped(n), SameGroups(m, n), ReadyIsOwn(n)
    PROVE  Moves(m, n, {})
<1>1. OpenGroups(n) = OpenGroups(m)
  BY DEF SameGroups, OpenGroups
<1>2. Held(n) = Held(m) /\ SentIds(n) = SentIds(m) /\ Waits(n) = Waits(m)
  BY <1>1 DEF SameGroups, Held, SentIds, Waits, Expected
<1>3. Struct(n)
  BY <1>1 DEF Struct, SameGroups, Keyed, OneReportEach, BatchIsNew
<1>4. Timed(m) => Timed(n)
  BY <1>1 DEF Timed, SameGroups
<1>5. QED
  BY <1>2, <1>3, <1>4 DEF Moves, SameGroups

\* The common form of all operations on one group g: the members U leave it,
\* and x is what becomes of it.
LEMMA RegroupMoves ==
    ASSUME NEW m, Struct(m), NEW g \in OpenGroups(m), NEW x \in Group \cup {None},
           NEW U \in SUBSET m.groups[g].members, NEW K,
           NEW n, Shaped(n), n.groups = [m.groups EXCEPT ![g] = x],
           \A k \in Name : n.groupOf[k] = IF k \in U THEN None ELSE m.groupOf[k],
           n.batch = m.batch, n.nextBatch = m.nextBatch, n.ready = m.ready,
           SentIds(m) \subseteq SentIds(n),
           x = None => U = m.groups[g].members,
           x # None =>
             /\ x.members = m.groups[g].members \ U
             /\ x.completed \subseteq m.groups[g].completed
             /\ \A d \in x.completed : d.name \notin U
             /\ x.members \ NamesOf(x.completed)
                    \subseteq m.groups[g].members \ NamesOf(m.groups[g].completed)
             /\ Timed(m) /\ (\A d \in Held(m) : d.name \notin K) => IsTimed(x),
           \A d \in m.groups[g].completed :
               \/ d.name \in K
               \/ d.id \in SentIds(n)
               \/ x # None /\ d \in x.completed
    PROVE  Moves(m, n, K)
<1>1. /\ g \in BatchId /\ m.groups[g] \in Group /\ m.groups[g] # None
      /\ m.groups \in [BatchId -> Group \cup {None}]
      /\ m.groupOf \in [Name -> BatchId \cup {None}]
      /\ U \in SUBSET Name
  BY DEF OpenGroups, Struct, Shaped, Group
<1>2. \A h \in BatchId : n.groups[h] = IF h = g THEN x ELSE m.groups[h]
  BY <1>1
<1>3. \A h \in OpenGroups(n) : h \in OpenGroups(m) /\ (h # g => n.groups[h] = m.groups[h])
  BY <1>1, <1>2 DEF OpenGroups
<1>4. g \in OpenGroups(n) => x # None /\ n.groups[g] = x
  BY <1>1, <1>2 DEF OpenGroups
<1>5. \A h \in OpenGroups(m) : h # g => h \in OpenGroups(n)
  BY <1>1, <1>2 DEF OpenGroups
<1>6. x # None => g \in OpenGroups(n)
  BY <1>1, <1>2 DEF OpenGroups
<1>7. Keyed(n)
  <2>1. \A h \in OpenGroups(n) : \A k \in n.groups[h].members : n.groupOf[k] = h
    <3> SUFFICES ASSUME NEW h \in OpenGroups(n), NEW k \in n.groups[h].members
                 PROVE  n.groupOf[k] = h
      OBVIOUS
    <3>1. k \in m.groups[h].members /\ m.groupOf[k] = h /\ (h = g => k \notin U)
      BY <1>3, <1>4 DEF Struct, Keyed
    <3>2. k \in Name
      BY <1>1, <1>3, <3>1 DEF OpenGroups, Group
    <3>3. h # g => k \notin U
      BY <3>1 DEF Struct, Keyed
    <3>4. QED
      BY <3>1, <3>2, <3>3
  <2>2. \A k \in Name : n.groupOf[k] # None =>
            n.groupOf[k] \in OpenGroups(n) /\ k \in n.groups[n.groupOf[k]].members
    <3> SUFFICES ASSUME NEW k \in Name, n.groupOf[k] # None
                 PROVE  n.groupOf[k] \in OpenGroups(n) /\ k \in n.groups[n.groupOf[k]].members
      OBVIOUS
    <3>1. /\ k \notin U /\ n.groupOf[k] = m.groupOf[k]
          /\ m.groupOf[k] \in OpenGroups(m) /\ k \in m.groups[m.groupOf[k]].members
      BY DEF Struct, Keyed
    <3>2. CASE m.groupOf[k] = g
      BY <3>1, <3>2, <1>4, <1>6
    <3>3. CASE m.groupOf[k] # g
      BY <3>1, <3>3, <1>3, <1>5
    <3>4. QED
      BY <3>2, <3>3
  <2>3. QED
    BY <2>1, <2>2 DEF Keyed
<1>8. OneReportEach(n)
  BY <1>3, <1>4 DEF Struct, OneReportEach
<1>9. BatchIsNew(n)
  <2>1. n.batch # None => m.batch \in Batch
    BY DEF Struct, Shaped
  <2>2. \A k \in Name : m.groupOf[k] = None => n.groupOf[k] = None
    OBVIOUS
  <2>3. n.batch # None => n.batch.keys \subseteq Name
    BY <2>1 DEF Batch
  <2>4. QED
    BY <1>3, <2>2, <2>3 DEF Struct, BatchIsNew
<1>10. Struct(n)
  BY <1>7, <1>8, <1>9 DEF Struct, ReadyIsOwn
<1>11. Waits(n) \subseteq Waits(m)
  BY <1>3, <1>4 DEF Waits, Expected
<1>12. Held(n) \subseteq Held(m)
  BY <1>3, <1>4 DEF Held
<1>13. \A d \in Held(m) : d.name \in K \/ d \in Held(n) \/ d.id \in SentIds(n)
  BY <1>4, <1>5, <1>6, <1>3 DEF Held
<1>14. Timed(m) /\ (\A d \in Held(m) : d.name \notin K) => Timed(n)
  BY <1>3, <1>4 DEF Timed
<1>15. QED
  BY <1>10, <1>11, <1>12, <1>13, <1>14 DEF Moves

----------------------------------------------------------------------------
(* The operations on one group.                                            *)

\* Sending leaves the groups alone.
LEMMA SendShape ==
    ASSUME NEW m, Shaped(m), NEW reports \in SUBSET Delivery, NEW pending \in SUBSET Name
    PROVE  /\ Shaped(Send(m, reports, pending))
           /\ SameButGroups(m, Send(m, reports, pending))
           /\ Send(m, reports, pending).groups = m.groups
           /\ Send(m, reports, pending).groupOf = m.groupOf
           /\ SentIds(Send(m, reports, pending)) = SentIds(m) \cup IdsOf(reports)
<1> DEFINE msg == [reports |-> reports, pending |-> pending]
           s == Append(m.sent, msg)
           n == Send(m, reports, pending)
<1>1. m.sent \in Seq(Message) /\ msg \in Message /\ msg.reports = reports
  BY DEF Shaped, Message
<1>2. s \in Seq(Message)
  BY <1>1
<1>3. /\ DOMAIN s = 1..Len(m.sent) + 1
      /\ DOMAIN m.sent = 1..Len(m.sent)
      /\ Len(m.sent) \in Nat
      /\ \A i \in 1..Len(m.sent) : s[i] = m.sent[i]
      /\ s[Len(m.sent) + 1] = msg
  BY <1>1
<1>4. n = [m EXCEPT !.sent = s]
  BY DEF Send
<1> HIDE DEF s, msg
<1>5. Shaped(n) /\ SameButGroups(m, n) /\ n.groups = m.groups /\ n.groupOf = m.groupOf /\ n.sent = s
  BY <1>2, <1>4 DEF Shaped, SameButGroups, Fields
<1>6. SentIds(n) = SentIds(m) \cup IdsOf(reports)
  BY <1>1, <1>3, <1>5 DEF SentIds
<1>7. QED
  BY <1>5, <1>6

\* The fields of cleanupGroup.
LEMMA CleanupShape ==
    ASSUME NEW m, Shaped(m), NEW g \in OpenGroups(m)
    PROVE  /\ Shaped(CleanupGroup(m, g))
           /\ SameButGroups(m, CleanupGroup(m, g))
           /\ CleanupGroup(m, g).groups = [m.groups EXCEPT ![g] = None]
           /\ \A k \in Name : CleanupGroup(m, g).groupOf[k] =
                  IF k \in m.groups[g].members THEN None ELSE m.groupOf[k]
           /\ CleanupGroup(m, g).sent = m.sent
<1> DEFINE U == m.groups[g].members
           go == [k \in Name |-> IF k \in U THEN None ELSE m.groupOf[k]]
           gs == [m.groups EXCEPT ![g] = None]
           n == CleanupGroup(m, g)
<1>1. m.groups[g] # None
  BY DEF OpenGroups
<1>2. go \in [Name -> BatchId \cup {None}] /\ gs \in [BatchId -> Group \cup {None}]
  BY DEF Shaped
<1>3. n = [[m EXCEPT !.groupOf = go] EXCEPT !.groups = gs]
  BY <1>1 DEF CleanupGroup, Ungroup, Shaped, Fields
<1>4. \A k \in Name : go[k] = IF k \in U THEN None ELSE m.groupOf[k]
  OBVIOUS
<1> HIDE DEF go, gs, n
<1>5. Shaped(n) /\ SameButGroups(m, n) /\ n.groups = gs /\ n.groupOf = go /\ n.sent = m.sent
  BY <1>2, <1>3 DEF Shaped, SameButGroups, Fields
<1>6. QED
  BY <1>4, <1>5 DEF n, gs

\* cleanupGroup, of a group that holds nothing.
LEMMA CleanupMoves ==
    ASSUME NEW m, Struct(m), NEW g \in OpenGroups(m), m.groups[g].completed = {}
    PROVE  /\ Moves(m, CleanupGroup(m, g), {})
           /\ SameButGroups(m, CleanupGroup(m, g))
<1> DEFINE n == CleanupGroup(m, g)
           U == m.groups[g].members
<1>1. /\ Shaped(n) /\ SameButGroups(m, n)
      /\ n.groups = [m.groups EXCEPT ![g] = None]
      /\ \A k \in Name : n.groupOf[k] = IF k \in U THEN None ELSE m.groupOf[k]
      /\ n.sent = m.sent
  BY CleanupShape DEF Struct
<1>2. SentIds(m) \subseteq SentIds(n)
  BY <1>1 DEF SentIds
<1>3. U \in SUBSET m.groups[g].members /\ None \in Group \cup {None}
  OBVIOUS
<1> HIDE DEF n
<1>4. n.batch = m.batch /\ n.nextBatch = m.nextBatch /\ n.ready = m.ready
  BY <1>1 DEF SameButGroups
<1>5. Moves(m, n, {})
  BY <1>1, <1>2, <1>3, <1>4, RegroupMoves
<1>6. QED
  BY <1>1, <1>5 DEF n

\* deliverGroup: what the group holds is sent.
LEMMA DeliverMoves ==
    ASSUME NEW m, Struct(m), NEW g \in OpenGroups(m)
    PROVE  /\ Moves(m, DeliverGroup(m, g), {})
           /\ SameButGroups(m, DeliverGroup(m, g))
           /\ DeliverGroup(m, g).groups = [m.groups EXCEPT ![g] = None]
<1> DEFINE c == CleanupGroup(m, g)
           held == m.groups[g].completed
           U == m.groups[g].members
           n == Send(c, held, {})
<1>1. /\ Shaped(c) /\ SameButGroups(m, c)
      /\ c.groups = [m.groups EXCEPT ![g] = None]
      /\ \A k \in Name : c.groupOf[k] = IF k \in U THEN None ELSE m.groupOf[k]
      /\ c.sent = m.sent
  BY CleanupShape DEF Struct
<1>2. held \in SUBSET Delivery /\ {} \in SUBSET Name
  BY DEF OpenGroups, Struct, Shaped, Group
<1>3. n = DeliverGroup(m, g)
  BY DEF DeliverGroup
<1> HIDE DEF c, held
<1>4. /\ Shaped(n) /\ SameButGroups(c, n) /\ n.groups = c.groups /\ n.groupOf = c.groupOf
      /\ SentIds(n) = SentIds(c) \cup IdsOf(held)
  BY <1>1, <1>2, SendShape
<1>5. SentIds(c) = SentIds(m)
  BY <1>1 DEF SentIds
<1> HIDE DEF n
<1>6. \A d \in m.groups[g].completed : d.name \in {} \/ d.id \in SentIds(n)
  BY <1>4 DEF IdsOf, held
<1>7. SameButGroups(m, n) /\ SentIds(m) \subseteq SentIds(n)
  BY <1>1, <1>4, <1>5 DEF SameButGroups
<1>8. n.batch = m.batch /\ n.nextBatch = m.nextBatch /\ n.ready = m.ready
  BY <1>7 DEF SameButGroups
<1>9. U \in SUBSET m.groups[g].members /\ None \in Group \cup {None}
      /\ n.groups = [m.groups EXCEPT ![g] = None]
      /\ \A k \in Name : n.groupOf[k] = IF k \in U THEN None ELSE m.groupOf[k]
  BY <1>1, <1>4
<1> HIDE DEF U
<1>10. U = m.groups[g].members /\ Shaped(n)
  BY <1>4 DEF U
<1>11. Moves(m, n, {})
  BY <1>6, <1>7, <1>8, <1>9, <1>10, RegroupMoves
<1>12. QED
  BY <1>3, <1>7, <1>9, <1>11

\* startGroupTimeout, when the group holds something.
LEMMA StartTimeoutMoves ==
    ASSUME NEW m, Struct(m), NEW g \in OpenGroups(m), m.groups[g].completed # {}
    PROVE  /\ Moves(m, StartGroupTimeout(m, g), {})
           /\ SameButGroups(m, StartGroupTimeout(m, g))
           /\ (\A h \in OpenGroups(m) \ {g} : IsTimed(m.groups[h]))
                /\ m.groups[g].timer # "spent" => Timed(StartGroupTimeout(m, g))
<1> DEFINE x == [m.groups[g] EXCEPT !.timer = "running"]
           gs == [m.groups EXCEPT ![g] = x]
           n == [m EXCEPT !.groups = gs]
<1>1. /\ g \in BatchId /\ m.groups[g] \in Group /\ m.groups[g] # None
      /\ m.groups \in [BatchId -> Group \cup {None}]
  BY DEF OpenGroups, Struct, Shaped
<1>2. /\ x \in Group /\ x.completed = m.groups[g].completed
      /\ x.members = m.groups[g].members /\ x.timer = "running"
  BY <1>1 DEF Group
<1>3. gs \in [BatchId -> Group \cup {None}]
      /\ \A h \in BatchId : gs[h] = IF h = g THEN x ELSE m.groups[h]
  BY <1>1, <1>2
<1>4. m.groups[g].timer = "unset" => StartGroupTimeout(m, g) = n
  BY DEF StartGroupTimeout, Struct, Shaped, Fields
<1>5. m.groups[g].timer # "unset" => StartGroupTimeout(m, g) = m
  BY DEF StartGroupTimeout
<1>6. gs = [m.groups EXCEPT ![g] = x] /\ x # None
  BY <1>2, RecordsAssumption
<1> HIDE DEF x, gs
<1>7. Shaped(n) /\ SameButGroups(m, n) /\ n.groups = gs /\ n.groupOf = m.groupOf /\ n.sent = m.sent
  BY <1>3 DEF Struct, Shaped, SameButGroups, Fields
<1> HIDE DEF n
<1>8. SentIds(m) \subseteq SentIds(n) /\ {} \in SUBSET m.groups[g].members
  BY <1>7 DEF SentIds
<1>9. IsTimed(x)
  BY <1>2 DEF IsTimed
<1>10. n.batch = m.batch /\ n.nextBatch = m.nextBatch /\ n.ready = m.ready
  BY <1>7 DEF SameButGroups
<1>11. Moves(m, n, {})
  BY <1>2, <1>6, <1>7, <1>8, <1>9, <1>10, RegroupMoves
<1>12. Moves(m, m, {}) /\ SameButGroups(m, m)
  BY DEF Moves, SameButGroups
<1>13. (\A h \in OpenGroups(m) \ {g} : IsTimed(m.groups[h])) => Timed(n)
  BY <1>1, <1>3, <1>7, <1>9 DEF Timed, OpenGroups
<1>14. m.groups[g].timer = "running" => IsTimed(m.groups[g])
  BY DEF IsTimed
<1>15. m.groups[g].timer \in {"unset", "running", "spent"}
  BY <1>1 DEF Group
<1>16. CASE m.groups[g].timer = "unset"
  BY <1>16, <1>4, <1>7, <1>11, <1>13
<1>17. CASE m.groups[g].timer # "unset"
  BY <1>17, <1>5, <1>12, <1>14, <1>15 DEF Timed
<1>18. QED
  BY <1>16, <1>17

\* maybeDeliverCompletedGroup.
LEMMA MaybeDeliverMoves ==
    ASSUME NEW m, Struct(m), NEW g \in OpenGroups(m)
    PROVE  /\ Moves(m, MaybeDeliverCompletedGroup(m, g), {})
           /\ SameButGroups(m, MaybeDeliverCompletedGroup(m, g))
<1>1. Moves(m, m, {}) /\ SameButGroups(m, m)
  BY DEF Moves, SameButGroups
<1>2. QED
  BY <1>1, DeliverMoves, StartTimeoutMoves DEF MaybeDeliverCompletedGroup

\* The fields of onGroupTimeout, of a group that holds something.
LEMMA TimeoutMoves ==
    ASSUME NEW m, Struct(m), NEW g \in OpenGroups(m), m.groups[g].timer = "running"
    PROVE  Moves(m, OnGroupTimeout(m, g), {}) /\ SameButGroups(m, OnGroupTimeout(m, g))
<1> DEFINE held == m.groups[g].completed
           U == NamesOf(held)
           rest == m.groups[g].members \ U
           go == [k \in Name |-> IF k \in U THEN None ELSE m.groupOf[k]]
           gs == [m.groups EXCEPT ![g] = Waiting(rest)]
           c == [[m EXCEPT !.groupOf = go] EXCEPT !.groups = gs]
           n == Send(c, held, rest)
<1>1. /\ g \in BatchId /\ m.groups[g] \in Group /\ m.groups[g] # None
      /\ m.groups \in [BatchId -> Group \cup {None}]
  BY DEF OpenGroups, Struct, Shaped
<1>2. /\ held \in SUBSET Delivery /\ U \in SUBSET m.groups[g].members
      /\ rest \in SUBSET Name /\ m.groups[g].members \in SUBSET Name
  BY <1>1 DEF Group, NamesOf, Struct, OneReportEach
<1>3. /\ Waiting(rest) \in Group /\ Waiting(rest).completed = {}
      /\ Waiting(rest).members = rest /\ IsTimed(Waiting(rest))
  BY <1>2 DEF Waiting, Group, IsTimed
<1>4. go \in [Name -> BatchId \cup {None}] /\ gs \in [BatchId -> Group \cup {None}]
      /\ \A k \in Name : go[k] = IF k \in U THEN None ELSE m.groupOf[k]
  BY <1>1, <1>3 DEF Struct, Shaped
<1>5. held # {} => OnGroupTimeout(m, g) = IF rest = {} THEN CleanupGroup(n, g) ELSE n
  BY DEF OnGroupTimeout, Ungroup, Struct, Shaped, Fields
<1>6. OnGroupTimeout(m, g) =
          IF held = {} THEN [m EXCEPT !.groups[g].timer = "spent"]
          ELSE IF rest = {} THEN CleanupGroup(n, g) ELSE n
  BY <1>5 DEF OnGroupTimeout
<1>7. Waiting(rest) # None
  BY <1>3, RecordsAssumption
<1> HIDE DEF go, gs
<1>8. Shaped(c) /\ SameButGroups(m, c) /\ c.groups = gs /\ c.groupOf = go /\ c.sent = m.sent
  BY <1>4 DEF Struct, Shaped, SameButGroups, Fields
<1> HIDE DEF c, held, rest, U
<1>9. /\ Shaped(n) /\ SameButGroups(c, n) /\ n.groups = c.groups /\ n.groupOf = c.groupOf
      /\ SentIds(n) = SentIds(c) \cup IdsOf(held)
  BY <1>2, <1>8, SendShape
<1>10. SentIds(c) = SentIds(m)
  BY <1>8 DEF SentIds
<1> HIDE DEF n
<1>11. \A d \in m.groups[g].completed : d.id \in SentIds(n)
  BY <1>9 DEF IdsOf, held
<1>12. SameButGroups(m, n) /\ SentIds(m) \subseteq SentIds(n)
  BY <1>8, <1>9, <1>10 DEF SameButGroups
<1>13. n.batch = m.batch /\ n.nextBatch = m.nextBatch /\ n.ready = m.ready
  BY <1>12 DEF SameButGroups
<1>14. n.groups = [m.groups EXCEPT ![g] = Waiting(rest)]
  BY <1>8, <1>9 DEF gs
<1>15. Moves(m, n, {})
  <2> DEFINE x == Waiting(rest)
  <2>1. /\ x \in Group \cup {None} /\ x # None /\ IsTimed(x)
        /\ x.members = m.groups[g].members \ U /\ x.completed = {}
    BY <1>3, <1>7 DEF rest
  <2>2. x.members \ NamesOf(x.completed)
            \subseteq m.groups[g].members \ NamesOf(m.groups[g].completed)
    BY <2>1 DEF U, held
  <2>3. n.groups = [m.groups EXCEPT ![g] = x]
    BY <1>14
  <2>4. \A k \in Name : n.groupOf[k] = IF k \in U THEN None ELSE m.groupOf[k]
    BY <1>4, <1>8, <1>9
  <2>5. /\ x.completed \subseteq m.groups[g].completed
        /\ \A d \in x.completed : d.name \notin U
    BY <2>1
  <2>6. \A d \in m.groups[g].completed : d.name \in {} \/ d.id \in SentIds(n)
    BY <1>11
  <2> HIDE DEF x
  <2>7. /\ U \in SUBSET m.groups[g].members /\ Shaped(n) /\ SentIds(m) \subseteq SentIds(n)
        /\ Struct(m) /\ g \in OpenGroups(m)
    BY <1>2, <1>9, <1>12
  <2>8. QED
    BY ONLY <1>13, <2>1, <2>2, <2>3, <2>4, <2>5, <2>6, <2>7, RegroupMoves
<1>16. rest = {} => Moves(m, CleanupGroup(n, g), {}) /\ SameButGroups(m, CleanupGroup(n, g))
  <2>1. g \in OpenGroups(n) /\ n.groups[g].completed = {}
    BY <1>1, <1>3, <1>7, <1>14 DEF OpenGroups
  <2>2. Moves(n, CleanupGroup(n, g), {}) /\ SameButGroups(n, CleanupGroup(n, g))
    BY <1>15, <2>1, CleanupMoves DEF Moves
  <2>3. QED
    BY <1>12, <1>15, <2>2, MovesIsTransitive DEF SameButGroups
<1>17. CASE held # {}
  BY <1>6, <1>12, <1>15, <1>16, <1>17
<1>18. CASE held = {}
  <2> DEFINE x == [m.groups[g] EXCEPT !.timer = "spent"]
             ss == [m.groups EXCEPT ![g] = x]
             o == [m EXCEPT !.groups = ss]
  <2>1. /\ x \in Group /\ x.completed = {} /\ x.members = m.groups[g].members
        /\ ss \in [BatchId -> Group \cup {None}]
    BY <1>1, <1>18 DEF Group, held
  <2>2. OnGroupTimeout(m, g) = o
    BY <1>6, <1>18 DEF Struct, Shaped, Fields
  <2>3. ss = [m.groups EXCEPT ![g] = x] /\ x # None
    BY <2>1, RecordsAssumption
  <2>4. ~Timed(m)
    BY <1>18 DEF Timed, IsTimed, held
  <2> HIDE DEF x, ss
  <2>5. Shaped(o) /\ SameButGroups(m, o) /\ o.groups = ss /\ o.groupOf = m.groupOf /\ o.sent = m.sent
    BY <2>1 DEF Struct, Shaped, SameButGroups, Fields
  <2> HIDE DEF o
  <2>6. SentIds(m) \subseteq SentIds(o) /\ {} \in SUBSET m.groups[g].members
    BY <2>5 DEF SentIds
  <2>7. o.batch = m.batch /\ o.nextBatch = m.nextBatch /\ o.ready = m.ready
    BY <2>5 DEF SameButGroups
  <2>8. /\ m.groups[g].completed = {} /\ x.members = m.groups[g].members \ {}
        /\ x.members \ NamesOf(x.completed)
               \subseteq m.groups[g].members \ NamesOf(m.groups[g].completed)
    BY <1>18, <2>1 DEF held
  <2>9. /\ \A k \in Name : o.groupOf[k] = IF k \in {} THEN None ELSE m.groupOf[k]
        /\ Shaped(o) /\ o.groups = [m.groups EXCEPT ![g] = x]
        /\ x.completed = {} /\ x \in Group \cup {None}
    BY <2>1, <2>3, <2>5
  <2> HIDE DEF held
  <2>10. Moves(m, o, {})
    BY <2>3, <2>4, <2>6, <2>7, <2>8, <2>9, RegroupMoves
  <2>11. QED
    BY <2>2, <2>5, <2>10
<1>19. QED
  BY <1>17, <1>18

\* After maybeDeliverCompletedGroup a group that holds something has a timer.
LEMMA MaybeDeliverTimes ==
    ASSUME NEW m, Struct(m), NEW g \in OpenGroups(m), m.groups[g].completed # {},
           m.groups[g].timer # "spent", \A h \in OpenGroups(m) \ {g} : IsTimed(m.groups[h])
    PROVE  Timed(MaybeDeliverCompletedGroup(m, g))
<1> DEFINE n == DeliverGroup(m, g)
<1>1. n.groups = [m.groups EXCEPT ![g] = None]
  BY DeliverMoves
<1>2. m.groups \in [BatchId -> Group \cup {None}] /\ g \in BatchId
  BY DEF Struct, Shaped, OpenGroups
<1> HIDE DEF n
<1>3. Timed(n)
  BY <1>1, <1>2 DEF Timed, OpenGroups
<1>4. Timed(StartGroupTimeout(m, g))
  BY StartTimeoutMoves
<1>5. QED
  BY <1>3, <1>4 DEF MaybeDeliverCompletedGroup, n

\* shrinking a group by the member k.
LEMMA ShrinkMoves ==
    ASSUME NEW m, Struct(m), NEW k \in Name, m.groupOf[k] # None
    PROVE  /\ Moves(m, ShrinkGroup(m, m.groupOf[k], k), {k})
           /\ SameButGroups(m, ShrinkGroup(m, m.groupOf[k], k))
           /\ m.groupOf[k] \in OpenGroups(ShrinkGroup(m, m.groupOf[k], k))
           /\ ShrinkGroup(m, m.groupOf[k], k).groupOf[k] = None
<1> DEFINE g == m.groupOf[k]
           old == m.groups[g]
           x == [old EXCEPT !.members = old.members \ {k},
                            !.completed = old.completed \ Named(old.completed, k)]
           gs == [m.groups EXCEPT ![g] = x]
           go == [m.groupOf EXCEPT ![k] = None]
           n == ShrinkGroup(m, g, k)
           U == {k}
<1>1. /\ g \in OpenGroups(m) /\ k \in m.groups[g].members
      /\ g \in BatchId /\ old \in Group /\ old # None
      /\ m.groups \in [BatchId -> Group \cup {None}]
      /\ m.groupOf \in [Name -> BatchId \cup {None}]
  BY DEF OpenGroups, Struct, Shaped, Keyed
<1>2. /\ x \in Group /\ x.members = old.members \ {k} /\ x.timer = old.timer
      /\ x.completed = old.completed \ Named(old.completed, k)
  BY <1>1 DEF Group
<1>3. gs \in [BatchId -> Group \cup {None}] /\ go \in [Name -> BatchId \cup {None}]
      /\ \A j \in Name : go[j] = IF j \in U THEN None ELSE m.groupOf[j]
  BY <1>1, <1>2
<1>4. n = [[m EXCEPT !.groups = gs] EXCEPT !.groupOf = go]
  BY DEF ShrinkGroup, Struct, Shaped, Fields
<1>5. gs = [m.groups EXCEPT ![g] = x] /\ x # None /\ gs[g] = x
  BY <1>1, <1>2, RecordsAssumption
<1> HIDE DEF x, gs, go, n
<1>6. Shaped(n) /\ SameButGroups(m, n) /\ n.groups = gs /\ n.groupOf = go /\ n.sent = m.sent
  BY <1>3, <1>4 DEF Struct, Shaped, SameButGroups, Fields
<1>7. SentIds(m) \subseteq SentIds(n) /\ U \in SUBSET m.groups[g].members
  BY <1>1, <1>6 DEF SentIds
<1>8. n.batch = m.batch /\ n.nextBatch = m.nextBatch /\ n.ready = m.ready
  BY <1>6 DEF SameButGroups
<1>9. \A d \in old.completed : d.name \in {k} \/ d \in x.completed
  BY <1>2 DEF Named
<1>10. \A d \in x.completed : d.name \notin U
  BY <1>2 DEF Named
<1>11. x.completed \subseteq m.groups[g].completed /\ x.members = m.groups[g].members \ U
  BY <1>2
<1>12. x.members \ NamesOf(x.completed)
           \subseteq m.groups[g].members \ NamesOf(m.groups[g].completed)
  BY <1>2, <1>9 DEF NamesOf
<1>13. Timed(m) /\ (\A d \in Held(m) : d.name \notin {k}) => IsTimed(x)
  <2> SUFFICES ASSUME Timed(m), \A d \in Held(m) : d.name \notin {k} PROVE IsTimed(x)
    OBVIOUS
  <2>1. Named(old.completed, k) = {}
    BY <1>1 DEF Held, Named
  <2>2. IsTimed(old)
    BY <1>1 DEF Timed
  <2>3. QED
    BY <1>2, <2>1, <2>2 DEF IsTimed
<1>14. /\ n.groups = [m.groups EXCEPT ![g] = x] /\ x \in Group \cup {None}
       /\ \A j \in Name : n.groupOf[j] = IF j \in U THEN None ELSE m.groupOf[j]
       /\ \A d \in m.groups[g].completed :
              d.name \in {k} \/ d.id \in SentIds(n) \/ (x # None /\ d \in x.completed)
  BY <1>2, <1>3, <1>5, <1>6, <1>9
<1> HIDE DEF U
<1>15. Struct(m) /\ Shaped(n) /\ g \in OpenGroups(m) /\ x # None
  BY <1>1, <1>5, <1>6
<1> HIDE DEF g
<1>16. Moves(m, n, {k})
  BY ONLY <1>7, <1>8, <1>10, <1>11, <1>12, <1>13, <1>14, <1>15, RegroupMoves
<1>17. g \in OpenGroups(n) /\ n.groupOf[k] = None
  BY <1>1, <1>5, <1>6 DEF OpenGroups, go
<1>18. QED
  BY <1>6, <1>16, <1>17 DEF n, g

\* removeKeyFromGroup: only a report of k is dropped.
LEMMA RemoveKeyFromGroupMoves ==
    ASSUME NEW m, Struct(m), NEW k \in Name
    PROVE  /\ Moves(m, RemoveKeyFromGroup(m, k), {k})
           /\ SameButGroups(m, RemoveKeyFromGroup(m, k))
           /\ RemoveKeyFromGroup(m, k).groupOf[k] = None
<1> DEFINE g == m.groupOf[k]
           s == ShrinkGroup(m, g, k)
           n == RemoveKeyFromGroup(m, k)
<1>1. CASE g = None
  BY <1>1 DEF RemoveKeyFromGroup, Moves, SameButGroups
<1>2. CASE g # None
  <2>1. /\ Moves(m, s, {k}) /\ SameButGroups(m, s)
        /\ g \in OpenGroups(s) /\ s.groupOf[k] = None
    BY <1>2, ShrinkMoves
  <2>2. m.groups[g] # None
    BY <1>2 DEF Struct, Keyed, OpenGroups
  <2>3. \/ n = CleanupGroup(s, g) /\ s.groups[g].completed = {}
        \/ n = DeliverGroup(s, g)
        \/ n = MaybeDeliverCompletedGroup(s, g)
    BY <1>2, <2>2 DEF RemoveKeyFromGroup, DissolveGroup
  <2> HIDE DEF s, g, n
  <2>4. Struct(s)
    BY <2>1 DEF Moves
  <2>5. Moves(s, n, {}) /\ SameButGroups(s, n)
    <3>1. CASE n = CleanupGroup(s, g) /\ s.groups[g].completed = {}
      BY <2>1, <2>4, <3>1, CleanupMoves
    <3>2. CASE n = DeliverGroup(s, g)
      BY <2>1, <2>4, <3>2, DeliverMoves
    <3>3. CASE n = MaybeDeliverCompletedGroup(s, g)
      BY <2>1, <2>4, <3>3, MaybeDeliverMoves
    <3>4. QED
      BY <2>3, <3>1, <3>2, <3>3
  <2>6. Moves(s, n, {k})
    BY <2>5, MovesMore
  <2>7. n.groupOf[k] = None
    BY <2>1, <2>5 DEF Moves
  <2>8. QED
    BY <2>1, <2>5, <2>6, <2>7, MovesIsTransitive DEF SameButGroups, n
<1>3. QED
  BY <1>1, <1>2

----------------------------------------------------------------------------
(* Leaving the batch and the group, and the fields around them.            *)

\* Setting a watcher, or none, leaves the groups alone.
LEMMA WatcherMoves ==
    ASSUME NEW m, Struct(m), NEW k \in Name, NEW x \in Slot \cup {None}
    PROVE  /\ Moves(m, WithWatcher(m, k, x), {})
           /\ SameGroups(m, WithWatcher(m, k, x))
           /\ WithWatcher(m, k, x).watchers = [m.watchers EXCEPT ![k] = x]
           /\ WithWatcher(m, k, x).early = m.early
<1> DEFINE w == [m.watchers EXCEPT ![k] = x]
           n == [m EXCEPT !.watchers = w]
<1>1. w \in [Name -> Slot \cup {None}]
  BY DEF Struct, Shaped
<1>2. WithWatcher(m, k, x) = n
  BY DEF WithWatcher, Struct, Shaped, Fields
<1> HIDE DEF w
<1>3. /\ Shaped(n) /\ SameGroups(m, n) /\ n.ready = m.ready
      /\ n.watchers = w /\ n.early = m.early
  BY <1>1 DEF Struct, Shaped, SameGroups, Fields
<1> HIDE DEF n
<1>4. Moves(m, n, {})
  BY <1>3, SameGroupsMoves DEF Struct, ReadyIsOwn
<1>5. QED
  BY <1>2, <1>3, <1>4 DEF w

\* So does setting a buffer of early results.
LEMMA EarlyMoves ==
    ASSUME NEW m, Struct(m), NEW k \in Name, NEW q
    PROVE  /\ Moves(m, WithEarly(m, k, q), {})
           /\ SameGroups(m, WithEarly(m, k, q))
           /\ WithEarly(m, k, q).watchers = m.watchers
<1> DEFINE e == [m.early EXCEPT ![k] = q]
           n == [m EXCEPT !.early = e]
<1>1. WithEarly(m, k, q) = n
  BY DEF WithEarly, Struct, Shaped, Fields
<1> HIDE DEF e
<1>2. Shaped(n) /\ SameGroups(m, n) /\ n.ready = m.ready /\ n.watchers = m.watchers
  BY DEF Struct, Shaped, SameGroups, Fields
<1> HIDE DEF n
<1>3. Moves(m, n, {})
  BY <1>2, SameGroupsMoves DEF Struct, ReadyIsOwn
<1>4. QED
  BY <1>1, <1>2, <1>3

\* removeKeyFromBatch.
LEMMA UnbatchMoves ==
    ASSUME NEW m, Struct(m), NEW k \in Name
    PROVE  /\ Moves(m, RemoveKeyFromBatch(m, k), {})
           /\ RemoveKeyFromBatch(m, k).watchers = m.watchers
           /\ RemoveKeyFromBatch(m, k).early = m.early
           /\ RemoveKeyFromBatch(m, k).nextBatch = m.nextBatch
           /\ ~InBatch(RemoveKeyFromBatch(m, k), k)
           /\ ~InBatch(m, k) => RemoveKeyFromBatch(m, k).batch = m.batch
<1>1. CASE ~InBatch(m, k)
  BY <1>1 DEF RemoveKeyFromBatch, Moves
<1>2. CASE InBatch(m, k)
  <2> DEFINE rest == m.batch.keys \ {k}
             x == IF rest = {} THEN None ELSE [id |-> m.batch.id, keys |-> rest]
             n == [m EXCEPT !.batch = x]
  <2>1. RemoveKeyFromBatch(m, k) = n
    BY <1>2 DEF RemoveKeyFromBatch
  <2>2. m.batch \in Batch /\ m.batch # None
    BY <1>2 DEF InBatch, Struct, Shaped
  <2>3. /\ x \in Batch \cup {None}
        /\ x # None => x.id = m.batch.id /\ x.keys = m.batch.keys \ {k}
    BY <2>2 DEF Batch
  <2> HIDE DEF x
  <2>4. /\ Shaped(n) /\ n.batch = x /\ n.watchers = m.watchers /\ n.early = m.early
        /\ n.groups = m.groups /\ n.groupOf = m.groupOf /\ n.nextBatch = m.nextBatch
        /\ n.sent = m.sent /\ n.ready = m.ready
    BY <2>3 DEF Struct, Shaped, Fields
  <2> HIDE DEF n
  <2>5. OpenGroups(n) = OpenGroups(m)
    BY <2>4 DEF OpenGroups
  <2>6. Held(n) = Held(m) /\ SentIds(n) = SentIds(m) /\ Expected(n) = Expected(m)
    BY <2>4, <2>5 DEF Held, SentIds, Expected
  <2>7. Waits(n) \subseteq Waits(m)
    BY <2>2, <2>3, <2>4, <2>6 DEF Waits
  <2>8. BatchIsNew(n)
    BY <2>2, <2>3, <2>4, <2>5 DEF Struct, BatchIsNew
  <2>9. Keyed(n) /\ OneReportEach(n) /\ ReadyIsOwn(n)
    BY <2>4, <2>5 DEF Struct, Keyed, OneReportEach, ReadyIsOwn
  <2>10. Timed(m) => Timed(n)
    BY <2>4, <2>5 DEF Timed
  <2>11. Moves(m, n, {})
    BY <2>4, <2>6, <2>7, <2>8, <2>9, <2>10 DEF Moves, Struct
  <2>12. ~InBatch(n, k)
    BY <2>3, <2>4 DEF InBatch
  <2>13. QED
    BY <1>2, <2>1, <2>4, <2>11, <2>12
<1>3. QED
  BY <1>1, <1>2

\* Nobody waits for a subagent that is in no group and no batch.
LEMMA OutsiderIsNotAwaited ==
    ASSUME NEW m, Struct(m), NEW k \in Name, m.groupOf[k] = None, ~InBatch(m, k)
    PROVE  k \notin Waits(m)
<1>1. \A g \in OpenGroups(m) : g # None
  BY ConstantsAssumption DEF OpenGroups
<1>2. \A g \in OpenGroups(m) : k \notin m.groups[g].members
  BY <1>1 DEF Struct, Keyed
<1>3. QED
  BY <1>2 DEF Waits, Expected, InBatch

Leave(m, k) == RemoveKeyFromGroup(RemoveKeyFromBatch(m, k), k)

\* Whoever leaves batch and group is awaited no more.
LEMMA LeaveMoves ==
    ASSUME NEW m, Struct(m), NEW k \in Name
    PROVE  /\ Moves(m, Leave(m, k), {k})
           /\ Leave(m, k).watchers = m.watchers
           /\ Leave(m, k).early = m.early
           /\ Leave(m, k).groupOf[k] = None
           /\ ~InBatch(Leave(m, k), k)
           /\ k \notin Waits(Leave(m, k))
           /\ ~InBatch(m, k) => Leave(m, k).batch = m.batch /\ Leave(m, k).nextBatch = m.nextBatch
<1> DEFINE b == RemoveKeyFromBatch(m, k)
           n == RemoveKeyFromGroup(b, k)
<1>1. /\ Moves(m, b, {}) /\ b.watchers = m.watchers /\ b.early = m.early
      /\ b.nextBatch = m.nextBatch
      /\ ~InBatch(b, k) /\ (~InBatch(m, k) => b.batch = m.batch)
  BY UnbatchMoves
<1>2. Leave(m, k) = n
  BY DEF Leave
<1> HIDE DEF b
<1>3. Struct(b) /\ Moves(m, b, {k})
  BY <1>1, MovesMore DEF Moves
<1>4. /\ Moves(b, n, {k}) /\ SameButGroups(b, n) /\ n.groupOf[k] = None
  BY <1>3, RemoveKeyFromGroupMoves
<1> HIDE DEF n
<1>5. Moves(m, n, {k}) /\ Struct(n)
  BY <1>3, <1>4, MovesIsTransitive DEF Moves
<1>6. ~InBatch(n, k)
  BY <1>1, <1>4 DEF InBatch, SameButGroups
<1>7. k \notin Waits(n)
  BY <1>4, <1>5, <1>6, OutsiderIsNotAwaited
<1>8. QED
  BY <1>1, <1>2, <1>4, <1>5, <1>6, <1>7 DEF SameButGroups

----------------------------------------------------------------------------
(* Operations by which the subagents J come to be awaited and the reports  *)
(* D to be held, and held reports only of the subagents K are dropped.     *)

Advances(m, n, J, D, K) ==
    /\ Struct(n)
    /\ Waits(n) \subseteq Waits(m) \cup J
    /\ Held(n) \subseteq Held(m) \cup D
    /\ SentIds(m) \subseteq SentIds(n)
    /\ \A d \in Held(m) : d.name \in K \/ d \in Held(n) \/ d.id \in SentIds(n)
    /\ Timed(m) /\ (\A d \in Held(m) : d.name \notin K) => Timed(n)

\* Where nobody joins and nothing comes to be held.
LEMMA MovesAdvances ==
    ASSUME NEW m, NEW n, NEW K, Moves(m, n, K)
    PROVE  Advances(m, n, {}, {}, K)
  BY DEF Moves, Advances

\* Operations that hold nothing new may be composed.
LEMMA AdvancesIsTransitive ==
    ASSUME NEW a, NEW b, NEW c, NEW J, NEW L, NEW K, NEW M,
           Advances(a, b, J, {}, K), Advances(b, c, L, {}, M)
    PROVE  Advances(a, c, J \cup L, {}, K \cup M)
  BY DEF Advances

\* Closing the batch: its subagents become a group that waits for all of them.
LEMMA FinalizeBatchAdvances ==
    ASSUME NEW m, Struct(m), m.batch # None
    PROVE  /\ Advances(m, FinalizeBatch(m), {}, {}, {})
           /\ FinalizeBatch(m).watchers = m.watchers
           /\ FinalizeBatch(m).batch = None
<1> DEFINE id == m.batch.id
           keys == m.batch.keys
<1>1. /\ id \in BatchId /\ keys \in SUBSET Name /\ id \notin OpenGroups(m)
      /\ id < m.nextBatch /\ m.groups[id] = None /\ id # None
      /\ \A k \in keys : m.groupOf[k] = None
      /\ Waits(m) = Expected(m) \cup keys
  BY ConstantsAssumption DEF Struct, Shaped, Batch, BatchIsNew, OpenGroups, Waits
<1>2. CASE AtMostOne(keys)
  <2> DEFINE n == [m EXCEPT !.batch = None]
  <2>1. FinalizeBatch(m) = n
    BY <1>2 DEF FinalizeBatch
  <2>2. /\ Shaped(n) /\ n.batch = None /\ n.watchers = m.watchers
        /\ n.groups = m.groups /\ n.groupOf = m.groupOf /\ n.nextBatch = m.nextBatch
        /\ n.sent = m.sent /\ n.ready = m.ready
    BY DEF Struct, Shaped, Fields
  <2> HIDE DEF n
  <2>3. OpenGroups(n) = OpenGroups(m)
    BY <2>2 DEF OpenGroups
  <2>4. Held(n) = Held(m) /\ SentIds(n) = SentIds(m) /\ Expected(n) = Expected(m)
    BY <2>2, <2>3 DEF Held, SentIds, Expected
  <2>5. Waits(n) \subseteq Waits(m)
    BY <2>2, <2>4 DEF Waits
  <2>6. BatchIsNew(n) /\ Keyed(n) /\ OneReportEach(n) /\ ReadyIsOwn(n)
    BY <2>2, <2>3 DEF Struct, BatchIsNew, Keyed, OneReportEach, ReadyIsOwn
  <2>7. Timed(m) => Timed(n)
    BY <2>2, <2>3 DEF Timed
  <2>8. QED
    BY <2>1, <2>2, <2>4, <2>5, <2>6, <2>7 DEF Advances, Struct
<1>3. CASE ~AtMostOne(keys)
  <2> DEFINE x == Waiting(keys)
             gs == [m.groups EXCEPT ![id] = x]
             go == [k \in Name |-> IF k \in keys THEN id ELSE m.groupOf[k]]
             n == [[[m EXCEPT !.batch = None] EXCEPT !.groups = gs] EXCEPT !.groupOf = go]
  <2>1. FinalizeBatch(m) = n
    BY <1>3 DEF FinalizeBatch, Struct, Shaped, Fields
  <2>2. /\ x \in Group /\ x # None /\ x.members = keys /\ x.completed = {} /\ IsTimed(x)
    BY <1>1, RecordsAssumption DEF Waiting, Group, IsTimed
  <2>3. /\ gs \in [BatchId -> Group \cup {None}]
        /\ \A g \in BatchId : gs[g] = IF g = id THEN x ELSE m.groups[g]
        /\ go \in [Name -> BatchId \cup {None}]
        /\ \A k \in Name : go[k] = IF k \in keys THEN id ELSE m.groupOf[k]
    BY <1>1, <2>2 DEF Struct, Shaped
  <2> HIDE DEF x, gs, go
  <2>4. /\ Shaped(n) /\ n.batch = None /\ n.watchers = m.watchers
        /\ n.groups = gs /\ n.groupOf = go /\ n.nextBatch = m.nextBatch
        /\ n.sent = m.sent /\ n.ready = m.ready
    BY <2>3 DEF Struct, Shaped, Fields
  <2> HIDE DEF n
  <2>5. OpenGroups(n) = OpenGroups(m) \cup {id}
    BY <1>1, <2>2, <2>3, <2>4 DEF OpenGroups
  <2>6. n.groups[id] = x /\ \A g \in OpenGroups(m) : g # id /\ n.groups[g] = m.groups[g]
    BY <1>1, <2>3, <2>4 DEF OpenGroups
  <2>7. Held(n) = Held(m)
    BY <2>2, <2>5, <2>6 DEF Held
  <2>8. SentIds(n) = SentIds(m)
    BY <2>4 DEF SentIds
  <2>9. Waits(n) \subseteq Waits(m)
    BY <1>1, <2>2, <2>4, <2>5, <2>6 DEF Waits, Expected
  <2>10. Keyed(n)
    <3>1. \A g \in OpenGroups(n) : \A k \in n.groups[g].members : n.groupOf[k] = g
      <4> SUFFICES ASSUME NEW g \in OpenGroups(n), NEW k \in n.groups[g].members
                   PROVE  n.groupOf[k] = g
        OBVIOUS
      <4>1. CASE g = id
        BY <1>1, <2>2, <2>3, <2>4, <2>6, <4>1
      <4>2. CASE g # id
        <5>1. g \in OpenGroups(m) /\ k \in m.groups[g].members /\ m.groupOf[k] = g
          BY <2>5, <2>6, <4>2 DEF Struct, Keyed
        <5>2. g # None
          BY <5>1, ConstantsAssumption DEF OpenGroups
        <5>3. m.groups[g] \in Group /\ k \in Name
          BY <5>1 DEF OpenGroups, Struct, Shaped, Group
        <5>4. QED
          BY <1>1, <2>3, <2>4, <5>1, <5>2, <5>3
      <4>3. QED
        BY <4>1, <4>2
    <3>2. \A k \in Name : n.groupOf[k] # None =>
              n.groupOf[k] \in OpenGroups(n) /\ k \in n.groups[n.groupOf[k]].members
      BY <2>2, <2>3, <2>4, <2>5, <2>6 DEF Struct, Keyed
    <3>3. QED
      BY <3>1, <3>2 DEF Keyed
  <2>11. OneReportEach(n)
    BY <2>2, <2>5, <2>6 DEF Struct, OneReportEach
  <2>12. BatchIsNew(n)
    BY <1>1, <2>4, <2>5 DEF Struct, BatchIsNew
  <2>13. ReadyIsOwn(n)
    BY <2>4 DEF Struct, ReadyIsOwn
  <2>14. Timed(m) => Timed(n)
    BY <2>2, <2>5, <2>6 DEF Timed
  <2>15. QED
    BY <2>1, <2>4, <2>7, <2>8, <2>9, <2>10, <2>11, <2>12, <2>13, <2>14 DEF Advances, Struct
<1>4. QED
  BY <1>2, <1>3

\* Joining the batch, of a subagent that is in no group.
LEMMA AddKeyToBatchAdvances ==
    ASSUME NEW m, Struct(m), NEW k \in Name, m.groupOf[k] = None, MayOpenBatch(m)
    PROVE  /\ Advances(m, AddKeyToBatch(m, k), {k}, {}, {})
           /\ AddKeyToBatch(m, k).watchers = m.watchers
           /\ AddKeyToBatch(m, k).early = m.early
<1> DEFINE x == IF m.batch = None THEN [id |-> m.nextBatch, keys |-> {k}]
                ELSE [id |-> m.batch.id, keys |-> m.batch.keys \cup {k}]
           nb == IF m.batch = None THEN m.nextBatch + 1 ELSE m.nextBatch
           n == [[m EXCEPT !.batch = x] EXCEPT !.nextBatch = nb]
<1>1. m.batch # None => m.batch \in Batch
  BY DEF Struct, Shaped
<1>2. m.nextBatch \in Nat
  BY DEF Struct, Shaped
<1>3. AddKeyToBatch(m, k) = n
  <2>1. CASE m.batch = None
    BY <2>1 DEF AddKeyToBatch, Struct, Shaped, Fields
  <2>2. CASE m.batch # None
    <3>1. [m.batch EXCEPT !.keys = @ \cup {k}] = x
      BY <1>1, <2>2 DEF Batch
    <3>2. AddKeyToBatch(m, k) = [m EXCEPT !.batch = x]
      BY <2>2, <3>1 DEF AddKeyToBatch, Struct, Shaped, Fields
    <3>3. QED
      BY <2>2, <3>2 DEF Struct, Shaped, Fields
  <2>3. QED
    BY <2>1, <2>2
<1>4. /\ x \in Batch /\ x # None /\ nb \in Nat
      /\ x.id < nb /\ x.id \notin OpenGroups(m) /\ m.nextBatch <= nb
  BY <1>1, <1>2, RecordsAssumption DEF Batch, MayOpenBatch, Struct, BatchIsNew
<1>5. /\ x.keys = (IF m.batch = None THEN {} ELSE m.batch.keys) \cup {k}
      /\ \A j \in x.keys : m.groupOf[j] = None
  BY <1>1 DEF Struct, BatchIsNew
<1> HIDE DEF x, nb
<1>6. /\ Shaped(n) /\ n.batch = x /\ n.watchers = m.watchers /\ n.early = m.early
      /\ n.groups = m.groups /\ n.groupOf = m.groupOf /\ n.nextBatch = nb
      /\ n.sent = m.sent /\ n.ready = m.ready
  BY <1>4 DEF Struct, Shaped, Fields
<1> HIDE DEF n
<1>7. OpenGroups(n) = OpenGroups(m)
  BY <1>6 DEF OpenGroups
<1>8. Held(n) = Held(m) /\ SentIds(n) = SentIds(m) /\ Expected(n) = Expected(m)
  BY <1>6, <1>7 DEF Held, SentIds, Expected
<1>9. Waits(n) \subseteq Waits(m) \cup {k}
  BY <1>4, <1>5, <1>6, <1>8 DEF Waits
<1>10. \A g \in OpenGroups(n) : g < n.nextBatch
  <2> SUFFICES ASSUME NEW g \in OpenGroups(n) PROVE g < n.nextBatch
    OBVIOUS
  <2>1. g < m.nextBatch /\ g \in Nat
    BY <1>7, ConstantsAssumption DEF Struct, BatchIsNew, OpenGroups
  <2>2. QED
    BY <1>2, <1>4, <1>6, <2>1
<1>11. BatchIsNew(n)
  BY <1>4, <1>5, <1>6, <1>7, <1>10 DEF BatchIsNew
<1>12. Keyed(n) /\ OneReportEach(n) /\ ReadyIsOwn(n)
  BY <1>6, <1>7 DEF Struct, Keyed, OneReportEach, ReadyIsOwn
<1>13. Timed(m) => Timed(n)
  BY <1>6, <1>7 DEF Timed
<1>14. QED
  BY <1>3, <1>6, <1>8, <1>9, <1>11, <1>12, <1>13 DEF Advances, Struct

----------------------------------------------------------------------------
(* Completions.                                                            *)

\* Sending a message.
LEMMA SendAdvances ==
    ASSUME NEW m, Struct(m), NEW reports \in SUBSET Delivery
    PROVE  /\ Advances(m, Send(m, reports, {}), {}, {}, {})
           /\ Waits(Send(m, reports, {})) = Waits(m)
           /\ SameButGroups(m, Send(m, reports, {}))
<1> DEFINE n == Send(m, reports, {})
<1>1. /\ Shaped(n) /\ SameButGroups(m, n) /\ n.groups = m.groups /\ n.groupOf = m.groupOf
      /\ SentIds(n) = SentIds(m) \cup IdsOf(reports)
  BY SendShape DEF Struct
<1> HIDE DEF n
<1>2. OpenGroups(n) = OpenGroups(m)
  BY <1>1 DEF OpenGroups
<1>3. Held(n) = Held(m) /\ Expected(n) = Expected(m)
  BY <1>1, <1>2 DEF Held, Expected
<1>4. Waits(n) = Waits(m)
  BY <1>1, <1>3 DEF Waits, SameButGroups
<1>5. BatchIsNew(n) /\ Keyed(n) /\ OneReportEach(n) /\ ReadyIsOwn(n)
  BY <1>1, <1>2 DEF Struct, BatchIsNew, Keyed, OneReportEach, ReadyIsOwn, SameButGroups
<1>6. Timed(m) => Timed(n)
  BY <1>1, <1>2 DEF Timed
<1>7. QED
  BY <1>1, <1>3, <1>4, <1>5, <1>6 DEF Advances, Struct, n

\* A group holds a report of its member in the place of an older one.
LEMMA HoldShape ==
    ASSUME NEW m, Struct(m), NEW d \in Delivery, NEW g \in OpenGroups(m),
           m.groupOf[d.name] = g, ~InBatch(m, d.name)
    PROVE  /\ Struct(Hold(m, g, d))
           /\ Waits(Hold(m, g, d)) \subseteq Waits(m) \ {d.name}
           /\ Held(Hold(m, g, d)) \subseteq Held(m) \cup {d}
           /\ SentIds(Hold(m, g, d)) = SentIds(m)
           /\ \A e \in Held(m) : e.name = d.name \/ e \in Held(Hold(m, g, d))
           /\ SameButGroups(m, Hold(m, g, d))
           /\ g \in OpenGroups(Hold(m, g, d))
           /\ Hold(m, g, d).groups[g].completed # {}
           /\ Hold(m, g, d).groups[g].timer = m.groups[g].timer
           /\ \A h \in OpenGroups(Hold(m, g, d)) \ {g} :
                  h \in OpenGroups(m) /\ Hold(m, g, d).groups[h] = m.groups[h]
<1> DEFINE k == d.name
           old == m.groups[g]
           kept == old.completed \ Named(old.completed, k)
           x == [old EXCEPT !.completed = kept \cup {d}]
           gs == [m.groups EXCEPT ![g] = x]
           n == [m EXCEPT !.groups = gs]
<1>1. /\ k \in Name /\ g \in BatchId /\ old \in Group /\ old # None
      /\ m.groups \in [BatchId -> Group \cup {None}] /\ k \in old.members
  <2>1. g \in BatchId /\ g # None /\ k \in Name
    BY ConstantsAssumption DEF Delivery, OpenGroups
  <2>2. k \in m.groups[m.groupOf[k]].members
    BY <2>1 DEF Struct, Keyed
  <2>3. QED
    BY <2>1, <2>2 DEF OpenGroups, Struct, Shaped
<1>2. /\ x \in Group /\ x # None /\ x.members = old.members /\ x.timer = old.timer
      /\ x.completed = kept \cup {d}
  BY <1>1, RecordsAssumption DEF Group
<1>3. /\ gs \in [BatchId -> Group \cup {None}]
      /\ \A h \in BatchId : gs[h] = IF h = g THEN x ELSE m.groups[h]
  BY <1>1, <1>2
<1>4. Hold(m, g, d) = n
  BY DEF Hold, Struct, Shaped, Fields
<1>5. /\ kept \subseteq old.completed
      /\ \A e \in kept : e.name # k
      /\ \A e \in old.completed : e.name = k \/ e \in kept
  BY DEF Named
<1> HIDE DEF x, gs, kept
<1>6. /\ Shaped(n) /\ SameButGroups(m, n) /\ n.groups = gs /\ n.groupOf = m.groupOf
      /\ n.sent = m.sent /\ n.batch = m.batch /\ n.nextBatch = m.nextBatch /\ n.ready = m.ready
  BY <1>3 DEF Struct, Shaped, SameButGroups, Fields
<1> HIDE DEF n
<1>7. OpenGroups(n) = OpenGroups(m)
  BY <1>1, <1>2, <1>3, <1>6 DEF OpenGroups
<1>8. n.groups[g] = x /\ \A h \in OpenGroups(m) : h # g => n.groups[h] = m.groups[h]
  BY <1>1, <1>3, <1>6 DEF OpenGroups
<1>9. SentIds(n) = SentIds(m)
  BY <1>6 DEF SentIds
<1>10. Held(n) \subseteq Held(m) \cup {d}
  BY <1>2, <1>5, <1>7, <1>8 DEF Held
<1>11. \A e \in Held(m) : e.name = k \/ e \in Held(n)
  BY <1>2, <1>5, <1>7, <1>8 DEF Held
<1>12. Waits(n) \subseteq Waits(m) \ {k}
  <2>1. Expected(n) \subseteq Expected(m)
    <3> SUFFICES ASSUME NEW h \in OpenGroups(n),
                        NEW j \in n.groups[h].members \ NamesOf(n.groups[h].completed)
                 PROVE  j \in m.groups[h].members \ NamesOf(m.groups[h].completed)
      BY <1>7 DEF Expected
    <3>1. CASE h = g
      BY <1>2, <1>5, <1>8, <3>1 DEF NamesOf
    <3>2. CASE h # g
      BY <1>7, <1>8, <3>2
    <3>3. QED
      BY <3>1, <3>2
  <2>2. k \notin Expected(n)
    <3>1. \A h \in OpenGroups(m) : h # g => k \notin m.groups[h].members
      BY DEF Struct, Keyed
    <3>2. k \in NamesOf(x.completed)
      BY <1>2 DEF NamesOf
    <3>3. QED
      BY <1>7, <1>8, <3>1, <3>2 DEF Expected
  <2>3. k \notin Waits(n)
    BY <1>6, <2>2 DEF Waits, InBatch
  <2>4. Waits(n) \subseteq Waits(m)
    BY <1>6, <2>1 DEF Waits
  <2>5. QED
    BY <2>3, <2>4
<1>13. Keyed(n)
  BY <1>2, <1>6, <1>7, <1>8 DEF Struct, Keyed
<1>14. OneReportEach(n)
  <2>1. \A e \in x.completed : e.name \in x.members
    BY <1>1, <1>2, <1>5 DEF Struct, OneReportEach
  <2>2. \A e, f \in x.completed : e.name = f.name => e = f
    BY <1>2, <1>5 DEF Struct, OneReportEach
  <2>3. QED
    BY <1>7, <1>8, <2>1, <2>2 DEF Struct, OneReportEach
<1>15. BatchIsNew(n) /\ ReadyIsOwn(n)
  BY <1>6, <1>7 DEF Struct, BatchIsNew, ReadyIsOwn
<1>16. n.groups[g].completed # {} /\ n.groups[g].timer = m.groups[g].timer
  BY <1>2, <1>8
<1>17. QED
  BY <1>4, <1>6, <1>7, <1>8, <1>9, <1>10, <1>11, <1>12, <1>13, <1>14, <1>15, <1>16 DEF Struct

\* The watcher of d's subagent is gone, d is held or sent, and only an older
\* held report of its subagent may have been dropped.
Reported(m, n, d) ==
    /\ Advances(m, n, {}, {d}, {d.name})
    /\ n.watchers = [m.watchers EXCEPT ![d.name] = None]
    /\ d.name \notin Waits(n)

\* Recording the report for inspections.
LEMMA NoteMoves ==
    ASSUME NEW m, Struct(m), NEW d \in Delivery
    PROVE  /\ Moves(m, [m EXCEPT !.ready[d.name] = d], {})
           /\ SameGroups(m, [m EXCEPT !.ready[d.name] = d])
           /\ [m EXCEPT !.ready[d.name] = d].watchers = m.watchers
<1> DEFINE rd == [m.ready EXCEPT ![d.name] = d]
           n == [m EXCEPT !.ready = rd]
<1>1. /\ rd \in [Name -> Delivery \cup {None}]
      /\ \A k \in Name : rd[k] = IF k = d.name THEN d ELSE m.ready[k]
  BY DEF Struct, Shaped
<1>2. [m EXCEPT !.ready[d.name] = d] = n
  BY DEF Struct, Shaped, Fields
<1> HIDE DEF rd
<1>3. Shaped(n) /\ SameGroups(m, n) /\ n.ready = rd /\ n.watchers = m.watchers
  BY <1>1 DEF Struct, Shaped, SameGroups, Fields
<1> HIDE DEF n
<1>4. ReadyIsOwn(n)
  BY <1>1, <1>3 DEF Struct, ReadyIsOwn
<1>5. Moves(m, n, {})
  BY <1>3, <1>4, SameGroupsMoves
<1>6. QED
  BY <1>2, <1>3, <1>5

\* The end of processCompletion: the report goes to its group, or is sent.
LEMMA HandInReports ==
    ASSUME NEW m, Struct(m), NEW d \in Delivery, ~InBatch(m, d.name), NEW n,
           n = LET g == m.groupOf[d.name]
               IN  IF g = None THEN Send(m, {d}, {})
                   ELSE IF m.groups[g] = None THEN Send(Ungroup(m, {d.name}), {d}, {})
                   ELSE MaybeDeliverCompletedGroup(Hold(m, g, d), g)
    PROVE  /\ Advances(m, n, {}, {d}, {d.name})
           /\ n.watchers = m.watchers
           /\ d.name \notin Waits(n)
<1> DEFINE g == m.groupOf[d.name]
<1>1. d.name \in Name /\ {d} \in SUBSET Delivery
  BY DEF Delivery
<1>2. CASE g = None
  <2> DEFINE s == Send(m, {d}, {})
  <2>1. Advances(m, s, {}, {}, {}) /\ Waits(s) = Waits(m) /\ SameButGroups(m, s)
    BY <1>1, SendAdvances
  <2>2. d.name \notin Waits(m)
    BY <1>1, <1>2, OutsiderIsNotAwaited
  <2>3. n = s
    BY <1>2
  <2> HIDE DEF s
  <2>4. QED
    BY <2>1, <2>2, <2>3 DEF Advances, SameButGroups
<1>3. CASE g # None
  <2> DEFINE h == Hold(m, g, d)
             f == MaybeDeliverCompletedGroup(h, g)
  <2>1. g \in OpenGroups(m) /\ m.groups[g] # None
    BY <1>1, <1>3 DEF Struct, Keyed, OpenGroups
  <2>2. /\ Struct(h)
        /\ Waits(h) \subseteq Waits(m) \ {d.name}
        /\ Held(h) \subseteq Held(m) \cup {d}
        /\ SentIds(h) = SentIds(m)
        /\ \A e \in Held(m) : e.name = d.name \/ e \in Held(h)
        /\ SameButGroups(m, h)
        /\ g \in OpenGroups(h)
        /\ h.groups[g].completed # {}
        /\ h.groups[g].timer = m.groups[g].timer
        /\ \A j \in OpenGroups(h) \ {g} : j \in OpenGroups(m) /\ h.groups[j] = m.groups[j]
    BY <2>1, HoldShape
  <2>3. n = f
    BY <1>3, <2>1
  <2> HIDE DEF h, g
  <2>4. Moves(h, f, {}) /\ SameButGroups(h, f)
    BY <2>2, MaybeDeliverMoves
  <2>5. ASSUME Timed(m) PROVE Timed(f)
    <3>1. m.groups[g].timer # "spent"
      BY <2>1, <2>5 DEF Timed, IsTimed
    <3>2. \A j \in OpenGroups(h) \ {g} : IsTimed(h.groups[j])
      BY <2>2, <2>5 DEF Timed
    <3>3. QED
      BY <2>2, <3>1, <3>2, MaybeDeliverTimes
  <2> HIDE DEF f
  <2>6. d.name \notin Waits(f) /\ f.watchers = m.watchers
    BY <2>2, <2>4 DEF Moves, SameButGroups
  <2>7. Advances(m, f, {}, {d}, {d.name})
    BY <2>2, <2>4, <2>5 DEF Moves, Advances
  <2>8. QED
    BY <2>3, <2>6, <2>7
<1>4. QED
  BY <1>2, <1>3

\* processCompletion.
LEMMA ProcessCompletionReports ==
    ASSUME NEW m, Struct(m), NEW d \in Delivery
    PROVE  Reported(m, ProcessCompletion(m, d), d)
<1> DEFINE k == d.name
           noted == [m EXCEPT !.ready[d.name] = d]
           closed == IF InBatch(noted, k) THEN FinalizeBatch(noted) ELSE noted
           done == WithWatcher(closed, k, None)
           n == ProcessCompletion(m, d)
<1>1. k \in Name
  BY DEF Delivery
<1>2. Moves(m, noted, {}) /\ noted.watchers = m.watchers
  BY NoteMoves
<1>3. n = LET g == done.groupOf[k]
          IN  IF g = None THEN Send(done, {d}, {})
              ELSE IF done.groups[g] = None THEN Send(Ungroup(done, {k}), {d}, {})
              ELSE MaybeDeliverCompletedGroup(Hold(done, g, d), g)
  BY DEF ProcessCompletion, WithWatcher
<1> HIDE DEF noted
<1>4. Struct(noted) /\ Advances(m, noted, {}, {}, {})
  BY <1>2, MovesAdvances DEF Moves
<1>5. Advances(noted, closed, {}, {}, {}) /\ closed.watchers = m.watchers /\ ~InBatch(closed, k)
  <2>1. CASE InBatch(noted, k)
    BY <1>2, <1>4, <2>1, FinalizeBatchAdvances DEF InBatch
  <2>2. CASE ~InBatch(noted, k)
    <3>1. Advances(noted, noted, {}, {}, {})
      BY <1>4 DEF Advances
    <3>2. QED
      BY <1>2, <2>2, <3>1
  <2>3. QED
    BY <2>1, <2>2
<1> HIDE DEF closed
<1>6. Struct(closed) /\ Advances(m, closed, {}, {}, {})
  <2>1. Advances(m, closed, {} \cup {}, {}, {} \cup {})
    BY <1>4, <1>5, AdvancesIsTransitive
  <2>2. {} \cup {} = {}
    OBVIOUS
  <2>3. QED
    BY <1>5, <2>1, <2>2 DEF Advances
<1>7. /\ Moves(closed, done, {}) /\ SameGroups(closed, done)
      /\ done.watchers = [closed.watchers EXCEPT ![k] = None]
  BY <1>1, <1>6, WatcherMoves
<1> HIDE DEF done
<1>8. Struct(done) /\ ~InBatch(done, k) /\ done.watchers = [m.watchers EXCEPT ![k] = None]
  BY <1>5, <1>7 DEF Moves, SameGroups, InBatch
<1> HIDE DEF n
<1>9. /\ Advances(done, n, {}, {d}, {k})
      /\ n.watchers = done.watchers
      /\ k \notin Waits(n)
  BY <1>3, <1>8, HandInReports
<1>10. Advances(m, n, {}, {d}, {k})
  BY <1>6, <1>7, <1>9 DEF Moves, Advances
<1>11. QED
  BY <1>8, <1>9, <1>10 DEF Reported, n

SameWatched(m, n) == \A k \in Name : n.watchers[k] = None <=> m.watchers[k] = None

\* A result was offered: nothing happens to groups and watchers, or it is
\* taken by the watcher of its subagent.
Offered(m, n) ==
    \/ Moves(m, n, {}) /\ SameWatched(m, n)
    \/ \E d \in Delivery : m.watchers[d.name] # None /\ Reported(m, n, d)

\* An operation that leaves groups and watchers alone may come first.
LEMMA OfferedAfterMoves ==
    ASSUME NEW a, NEW b, NEW c, Moves(a, b, {}), b.watchers = a.watchers, Offered(b, c)
    PROVE  Offered(a, c)
<1>1. CASE Moves(b, c, {}) /\ SameWatched(b, c)
  BY <1>1, MovesIsTransitive DEF Offered, SameWatched
<1>2. CASE \E d \in Delivery : b.watchers[d.name] # None /\ Reported(b, c, d)
  <2>1. PICK d \in Delivery : b.watchers[d.name] # None /\ Reported(b, c, d)
    BY <1>2
  <2>2. Advances(a, c, {}, {d}, {d.name})
    BY <2>1 DEF Reported, Moves, Advances
  <2>3. QED
    BY <2>1, <2>2 DEF Reported, Offered
<1>3. QED
  BY <1>1, <1>2 DEF Offered

\* A result that a watcher takes.
LEMMA ConsumeResultReports ==
    ASSUME NEW m, Struct(m), NEW r \in Result, m.watchers[r.name] # None
    PROVE  Offered(m, ConsumeResult(m, r))
<1> DEFINE d == DeliveryOf(r)
           arms == IF r.arm = None THEN m.doneArms ELSE m.doneArms \cup {r.arm}
           c == [m EXCEPT !.seen = m.seen \cup {r.id}, !.doneArms = arms]
           n == ProcessCompletion(c, d)
<1>1. d \in Delivery /\ d.name = r.name
  BY DEF DeliveryOf, Delivery, Result
<1>2. ConsumeResult(m, r) = n
  BY DEF ConsumeResult, Struct, Shaped, Fields
<1> HIDE DEF d, arms
<1>3. Shaped(c) /\ SameGroups(m, c) /\ c.ready = m.ready /\ c.watchers = m.watchers
  BY DEF Struct, Shaped, SameGroups, Fields
<1> HIDE DEF c
<1>4. Moves(m, c, {})
  BY <1>3, SameGroupsMoves DEF Struct, ReadyIsOwn
<1>5. Reported(c, n, d)
  BY <1>1, <1>4, ProcessCompletionReports DEF Moves
<1> HIDE DEF n
<1>6. Offered(c, n)
  BY <1>1, <1>3, <1>5 DEF Offered
<1>7. QED
  BY <1>2, <1>3, <1>4, <1>6, OfferedAfterMoves

\* Doing nothing.
LEMMA NothingMoves ==
    ASSUME NEW m, Struct(m)
    PROVE  Moves(m, m, {}) /\ Offered(m, m)
  BY DEF Moves, Offered, SameWatched

\* processExternalResult.
LEMMA ProcessExternalResultOffers ==
    ASSUME NEW m, Struct(m), NEW r \in Result
    PROVE  /\ Offered(m, ProcessExternalResult(m, r))
           /\ ~Consumes(m, r) =>
                /\ Moves(m, ProcessExternalResult(m, r), {})
                /\ ProcessExternalResult(m, r).watchers = m.watchers
<1> DEFINE q == LastOf(Append(m.early[r.name], r), PendingLimit)
           e == WithEarly(m, r.name, q)
<1>1. r.name \in Name
  BY DEF Result
<1>2. QueueEarly(m, r) \in {m, e}
  BY DEF QueueEarly, WithEarly
<1> HIDE DEF q
<1>3. Moves(m, e, {}) /\ e.watchers = m.watchers
  BY <1>1, EarlyMoves
<1> HIDE DEF e
<1>4. Moves(m, QueueEarly(m, r), {}) /\ QueueEarly(m, r).watchers = m.watchers
  BY <1>2, <1>3, NothingMoves
<1>5. Offered(m, QueueEarly(m, r))
  BY <1>4 DEF Offered, SameWatched
<1>6. Consumes(m, r) => Offered(m, ConsumeResult(m, r))
  BY ConsumeResultReports DEF Consumes
<1>7. QED
  BY <1>4, <1>5, <1>6, NothingMoves DEF ProcessExternalResult

\* The early results are offered to a watcher.
LEMMA DrainEarlyOffers ==
    ASSUME NEW m, Struct(m), NEW k \in Name, m.early[k] \in Seq(Result)
    PROVE  Offered(m, DrainEarly(m, k))
<1> DEFINE q == m.early[k]
           hits == {i \in DOMAIN q : Consumes(m, q[i])}
           first == CHOOSE i \in hits : \A j \in hits : i <= j
<1>1. q \in Seq(Result) /\ Len(q) \in Nat /\ DOMAIN q = 1..Len(q)
  OBVIOUS
<1>2. CASE hits = {}
  <2>1. DrainEarly(m, k) = WithEarly(m, k, Retained(m, q))
    BY <1>2 DEF DrainEarly, WithEarly
  <2>2. /\ Moves(m, WithEarly(m, k, Retained(m, q)), {})
        /\ WithEarly(m, k, Retained(m, q)).watchers = m.watchers
    BY EarlyMoves
  <2>3. QED
    BY <2>1, <2>2 DEF Offered, SameWatched
<1>3. CASE hits # {}
  <2> DEFINE rest == Retained(m, SubSeq(q, 1, first - 1)) \o SubSeq(q, first + 1, Len(q))
             e == WithEarly(m, k, rest)
  <2>1. \E i \in hits : \A j \in hits : i <= j
    <3>1. hits \subseteq Nat
      BY <1>1
    <3> HIDE DEF hits
    <3>2. QED
      BY <1>3, <3>1, LeastNumber
  <2>2. first \in hits
    <3> HIDE DEF hits
    <3>1. QED
      BY <2>1
  <2>3. first \in 1..Len(q) /\ Consumes(m, q[first])
    BY <1>1, <2>2
  <2>4. DrainEarly(m, k) = ConsumeResult(e, q[first])
    BY <1>3 DEF DrainEarly, WithEarly
  <2> HIDE DEF first, hits, q
  <2>5. q[first] \in Result
    BY <1>1, <2>3
  <2> HIDE DEF rest
  <2>6. Moves(m, e, {}) /\ e.watchers = m.watchers
    BY EarlyMoves
  <2> HIDE DEF e
  <2>7. Struct(e) /\ e.watchers[q[first].name] # None
    BY <2>3, <2>6 DEF Moves, Consumes
  <2>8. Offered(e, ConsumeResult(e, q[first]))
    BY <2>5, <2>7, ConsumeResultReports
  <2>9. QED
    BY <2>4, <2>6, <2>8, OfferedAfterMoves
<1>4. QED
  BY <1>2, <1>3

\* The callback of a pane watch.
LEMMA WatchResolvedOffers ==
    ASSUME NEW m, Struct(m), NEW k \in Name, m.watchers[k] # None,
           m.watchers[k].found # None, NEW id \in Nat
    PROVE  Offered(m, WatchResolved(m, k, id))
<1> DEFINE found == m.watchers[k].found
<1>1. m.watchers[k] \in Slot /\ found \in Result \cup {Settled}
  BY DEF Struct, Shaped, Slot
<1>2. CASE found = Settled
  <2> DEFINE c == [m EXCEPT !.doneArms = m.doneArms \cup m.watchers[k].arms]
             d == [id |-> id, name |-> k, final |-> FALSE]
             n == ProcessCompletion(c, d)
  <2>1. WatchResolved(m, k, id) = n
    BY <1>2 DEF WatchResolved, Struct, Shaped, Fields
  <2>2. d \in Delivery /\ d.name = k
    BY DEF Delivery
  <2>3. Shaped(c) /\ SameGroups(m, c) /\ c.ready = m.ready /\ c.watchers = m.watchers
    BY DEF Struct, Shaped, SameGroups, Fields
  <2> HIDE DEF c, d
  <2>4. Moves(m, c, {})
    BY <2>3, SameGroupsMoves DEF Struct, ReadyIsOwn
  <2>5. Reported(c, n, d)
    BY <2>2, <2>4, ProcessCompletionReports DEF Moves
  <2> HIDE DEF n
  <2>6. Offered(c, n)
    BY <2>2, <2>3, <2>5 DEF Offered
  <2>7. QED
    BY <2>1, <2>3, <2>4, <2>6, OfferedAfterMoves
<1>3. CASE found # Settled
  <2> DEFINE o == ProcessExternalResult(m, found)
             x == [m.watchers[k] EXCEPT !.found = None]
  <2>1. /\ Offered(m, o)
        /\ ~Consumes(m, found) => Moves(m, o, {}) /\ o.watchers = m.watchers
    BY <1>1, <1>3, ProcessExternalResultOffers
  <2>2. Consumes(m, found) => WatchResolved(m, k, id) = o
    BY <1>3 DEF WatchResolved
  <2>3. x \in Slot /\ x # None
    BY <1>1, RecordsAssumption DEF Slot
  <2>4. ~Consumes(m, found) => WatchResolved(m, k, id) = WithWatcher(o, k, x)
    <3>1. ~Consumes(m, found) => WatchResolved(m, k, id) = [o EXCEPT !.watchers[k].found = None]
      BY <1>3 DEF WatchResolved
    <3> HIDE DEF o
    <3>2. QED
      BY <2>1, <3>1 DEF WithWatcher
  <2> HIDE DEF o, x, found
  <2>5. ASSUME ~Consumes(m, found) PROVE Offered(m, WithWatcher(o, k, x))
    <3>1. Moves(m, o, {}) /\ o.watchers = m.watchers /\ Struct(o)
      BY <2>1, <2>5 DEF Moves
    <3>2. /\ Moves(o, WithWatcher(o, k, x), {})
          /\ WithWatcher(o, k, x).watchers = [o.watchers EXCEPT ![k] = x]
      BY <2>3, <3>1, WatcherMoves
    <3>3. SameWatched(o, WithWatcher(o, k, x))
      <4>1. o.watchers \in [Name -> Slot \cup {None}] /\ o.watchers[k] # None
        BY <3>1 DEF Struct, Shaped
      <4> HIDE DEF Struct
      <4>2. QED
        BY <2>3, <3>2, <4>1 DEF SameWatched
    <3>4. QED
      BY <3>1, <3>2, <3>3, OfferedAfterMoves DEF Offered
  <2>6. QED
    BY <2>1, <2>2, <2>4, <2>5
<1>4. QED
  BY <1>2, <1>3

----------------------------------------------------------------------------
(* The manager's interface.                                                *)

\* The watcher of k is removed, and k leaves batch and group.
Dropped(m, n, k) ==
    /\ Moves(m, n, {k})
    /\ n.watchers = [m.watchers EXCEPT ![k] = None]
    /\ k \notin Waits(n)

\* The common part of replace, cancel and the rejection of a watch.
LEMMA UnwatchAndLeave ==
    ASSUME NEW m, Struct(m), NEW k \in Name
    PROVE  /\ Dropped(m, Leave(WithWatcher(m, k, None), k), k)
           /\ Leave(WithWatcher(m, k, None), k).early = m.early
           /\ Leave(WithWatcher(m, k, None), k).groupOf[k] = None
           /\ ~InBatch(m, k) /\ MayOpenBatch(m) => MayOpenBatch(Leave(WithWatcher(m, k, None), k))
<1> DEFINE w == WithWatcher(m, k, None)
           n == Leave(w, k)
<1>1. /\ Moves(m, w, {}) /\ SameGroups(m, w) /\ w.early = m.early
      /\ w.watchers = [m.watchers EXCEPT ![k] = None]
  BY WatcherMoves
<1> HIDE DEF w
<1>2. Struct(w) /\ Moves(m, w, {k}) /\ (~InBatch(m, k) => ~InBatch(w, k))
  BY <1>1, MovesMore DEF Moves, InBatch, SameGroups
<1>3. /\ Moves(w, n, {k}) /\ n.watchers = w.watchers /\ n.early = w.early
      /\ n.groupOf[k] = None /\ k \notin Waits(n)
      /\ ~InBatch(w, k) => n.batch = w.batch /\ n.nextBatch = w.nextBatch
  BY <1>2, LeaveMoves
<1> HIDE DEF n
<1>4. Moves(m, n, {k})
  BY <1>2, <1>3, MovesIsTransitive
<1>5. ~InBatch(m, k) /\ MayOpenBatch(m) => MayOpenBatch(n)
  BY <1>1, <1>2, <1>3 DEF MayOpenBatch, SameGroups
<1>6. QED
  BY <1>1, <1>3, <1>4, <1>5 DEF Dropped, n, w

\* The rejection handler of a pane watch.
LEMMA WatchRejectedDrops ==
    ASSUME NEW m, Struct(m), NEW k \in Name
    PROVE  Dropped(m, WatchRejected(m, k), k)
<1>1. WatchRejected(m, k) = Leave(WithWatcher(m, k, None), k)
  BY DEF WatchRejected, Leave, WithWatcher
<1>2. QED
  BY <1>1, UnwatchAndLeave

\* cancel: the watcher and the membership go, or nothing but early results.
LEMMA CancelDrops ==
    ASSUME NEW m, Struct(m), NEW k \in Name, NEW byName \in BOOLEAN
    PROVE  \/ Dropped(m, Cancel(m, k, byName), k)
           \/ Moves(m, Cancel(m, k, byName), {}) /\ Cancel(m, k, byName).watchers = m.watchers
<1> DEFINE w == WithWatcher(m, k, None)
           e == WithEarly(w, k, << >>)
           n == Leave(e, k)
<1>1. CancelKey(m, k) = n
  BY DEF CancelKey, Leave, WithWatcher, WithEarly
<1>2. Moves(m, w, {}) /\ w.watchers = [m.watchers EXCEPT ![k] = None]
  BY WatcherMoves
<1> HIDE DEF w
<1>3. Struct(w)
  BY <1>2 DEF Moves
<1>4. Moves(w, e, {}) /\ e.watchers = w.watchers
  BY <1>3, EarlyMoves
<1> HIDE DEF e
<1>5. Moves(m, e, {k}) /\ Struct(e)
  BY <1>2, <1>4, MovesIsTransitive, MovesMore DEF Moves
<1>6. Moves(e, n, {k}) /\ n.watchers = e.watchers /\ k \notin Waits(n)
  BY <1>5, LeaveMoves
<1> HIDE DEF n
<1>7. Dropped(m, n, k)
  BY <1>2, <1>4, <1>5, <1>6, MovesIsTransitive DEF Dropped
<1>8. /\ Moves(m, WithEarly(m, k, << >>), {})
      /\ WithEarly(m, k, << >>).watchers = m.watchers
  BY EarlyMoves
<1>9. Cancel(m, k, byName) \in {n, WithEarly(m, k, << >>), m}
  BY <1>1 DEF Cancel, WithEarly
<1>10. QED
  BY <1>7, <1>8, <1>9, NothingMoves

\* releaseBatchMember: a subagent without a watcher is awaited no more.
LEMMA ReleaseMemberMoves ==
    ASSUME NEW m, Struct(m), NEW k \in Name
    PROVE  /\ Moves(m, ReleaseMember(m, k), {k})
           /\ ReleaseMember(m, k).watchers = m.watchers
           /\ m.watchers[k] = None => k \notin Waits(ReleaseMember(m, k))
<1> DEFINE e == WithEarly(m, k, << >>)
           n == Leave(e, k)
<1>1. m.watchers[k] = None => ReleaseMember(m, k) = n
  BY DEF ReleaseMember, Leave, WithEarly
<1>2. Moves(m, e, {}) /\ e.watchers = m.watchers
  BY EarlyMoves
<1> HIDE DEF e
<1>3. Moves(m, e, {k}) /\ Struct(e)
  BY <1>2, MovesMore DEF Moves
<1>4. Moves(e, n, {k}) /\ n.watchers = e.watchers /\ k \notin Waits(n)
  BY <1>3, LeaveMoves
<1> HIDE DEF n
<1>5. Moves(m, n, {k})
  BY <1>3, <1>4, MovesIsTransitive
<1>6. m.watchers[k] # None => ReleaseMember(m, k) = m
  BY DEF ReleaseMember
<1>7. Moves(m, m, {k})
  BY NothingMoves, MovesMore
<1>8. QED
  BY <1>1, <1>2, <1>4, <1>5, <1>6, <1>7

\* acknowledgeInspection drops a report with the id of the one inspected.
LEMMA AcknowledgeInspectionMoves ==
    ASSUME NEW m, Struct(m), NEW d \in Delivery
    PROVE  /\ Moves(m, AcknowledgeInspection(m, d), {d.name})
           /\ AcknowledgeInspection(m, d).watchers = m.watchers
           /\ \A e \in Held(m) :
                 \/ e.id = d.id
                 \/ e \in Held(AcknowledgeInspection(m, d))
                 \/ e.id \in SentIds(AcknowledgeInspection(m, d))
<1> DEFINE g == m.groupOf[d.name]
           n == AcknowledgeInspection(m, d)
           found == /\ g # None /\ m.groups[g] # None
                    /\ \E e \in Named(m.groups[g].completed, d.name) : e.id = d.id
<1>1. d.name \in Name
  BY DEF Delivery
<1>2. CASE found
  <2>1. n = RemoveKeyFromGroup(m, d.name)
    BY <1>2 DEF AcknowledgeInspection
  <2>2. Moves(m, n, {d.name}) /\ n.watchers = m.watchers
    BY <1>1, <2>1, RemoveKeyFromGroupMoves DEF SameButGroups
  <2>3. ASSUME NEW e \in Held(m), e.name = d.name PROVE e.id = d.id
    <3>1. PICK h \in OpenGroups(m) : e \in m.groups[h].completed
      BY DEF Held
    <3>2. h = g
      BY <2>3, <3>1 DEF Struct, OneReportEach, Keyed
    <3>3. PICK f \in m.groups[g].completed : f.name = d.name /\ f.id = d.id
      BY <1>2 DEF Named
    <3>4. f = e
      BY <2>3, <3>1, <3>2, <3>3 DEF Struct, OneReportEach
    <3>5. QED
      BY <3>3, <3>4
  <2> HIDE DEF n
  <2>4. \A e \in Held(m) : e.id = d.id \/ e \in Held(n) \/ e.id \in SentIds(n)
    BY <2>2, <2>3 DEF Moves
  <2>5. QED
    BY <2>2, <2>4 DEF n
<1>3. CASE ~found
  <2>1. n = m
    BY <1>3 DEF AcknowledgeInspection
  <2>2. Moves(m, m, {d.name})
    BY NothingMoves, MovesMore
  <2>3. QED
    BY <2>1, <2>2
<1>4. QED
  BY <1>2, <1>3

\* arm: k is watched and joins, and then its early results are offered.
LEMMA ArmWatcherOffers ==
    ASSUME NEW m, Struct(m), NEW k \in Name, NEW since \in Nat, NEW arms \in SUBSET Arm,
           NEW source \in {"rpc", "poll"}, m.early[k] \in Seq(Result), MayOpenBatch(m)
    PROVE  \E b :
             /\ Advances(m, b, {k}, {}, {k})
             /\ \E x \in Slot : b.watchers = [m.watchers EXCEPT ![k] = x]
             /\ Offered(b, ArmWatcher(m, k, since, arms, source))
<1> DEFINE x == NewSlot(since, arms, source)
           p == Replace(m, k)
           s == WithWatcher(p, k, x)
           b == IF Reserved(m, k) THEN s ELSE AddKeyToBatch(s, k)
<1>1. x \in Slot /\ x # None
  BY RecordsAssumption DEF NewSlot, Slot
<1>2. ArmWatcher(m, k, since, arms, source) = DrainEarly(b, k)
  BY DEF ArmWatcher, WithWatcher
<1>3. /\ Moves(m, p, {k}) /\ p.early = m.early
      /\ p.watchers = m.watchers \/ p.watchers = [m.watchers EXCEPT ![k] = None]
      /\ ~Reserved(m, k) => p.groupOf[k] = None /\ MayOpenBatch(p)
  <2>1. CASE m.watchers[k] = None
    <3>1. p = m
      BY <2>1 DEF Replace
    <3>2. Moves(m, m, {k})
      BY NothingMoves, MovesMore
    <3>3. QED
      BY <2>1, <3>1, <3>2 DEF Reserved
  <2>2. CASE m.watchers[k] # None
    <3>1. p = Leave(WithWatcher(m, k, None), k)
      BY <2>2 DEF Replace, Leave, WithWatcher
    <3> HIDE DEF p
    <3>2. QED
      BY <3>1, UnwatchAndLeave DEF Dropped, Reserved
  <2>3. QED
    BY <2>1, <2>2
<1> HIDE DEF p, x
<1>4. Struct(p)
  BY <1>3 DEF Moves
<1>5. /\ Moves(p, s, {}) /\ SameGroups(p, s) /\ s.early = p.early
      /\ s.watchers = [p.watchers EXCEPT ![k] = x]
  BY <1>1, <1>4, WatcherMoves
<1>6. [p.watchers EXCEPT ![k] = x] = [m.watchers EXCEPT ![k] = x]
  <2>1. m.watchers \in [Name -> Slot \cup {None}]
    BY DEF Struct, Shaped
  <2>2. p.watchers \in [Name -> Slot \cup {None}] /\ \A j \in Name : j # k => p.watchers[j] = m.watchers[j]
    BY <1>3, <1>4, <2>1 DEF Struct, Shaped
  <2>3. QED
    BY <2>1, <2>2
<1> HIDE DEF s
<1>7. Moves(m, s, {k}) /\ Struct(s)
  <2>1. Moves(p, s, {k})
    BY <1>5, MovesMore
  <2>2. QED
    BY <1>3, <1>5, <2>1, MovesIsTransitive DEF Moves
<1>8. Advances(m, s, {}, {}, {k})
  BY <1>7, MovesAdvances
<1>9. Advances(m, b, {k}, {}, {k}) /\ b.watchers = s.watchers /\ b.early = s.early
  <2>1. CASE Reserved(m, k)
    BY <1>8, <2>1 DEF Advances
  <2>2. CASE ~Reserved(m, k)
    <3>1. s.groupOf[k] = None /\ MayOpenBatch(s)
      BY <1>3, <1>5, <2>2 DEF SameGroups, MayOpenBatch
    <3>2. /\ Advances(s, AddKeyToBatch(s, k), {k}, {}, {})
          /\ AddKeyToBatch(s, k).watchers = s.watchers
          /\ AddKeyToBatch(s, k).early = s.early
      BY <1>7, <3>1, AddKeyToBatchAdvances
    <3>3. Advances(m, AddKeyToBatch(s, k), {} \cup {k}, {}, {k} \cup {})
      BY <1>8, <3>2, AdvancesIsTransitive
    <3>4. {} \cup {k} = {k} /\ {k} \cup {} = {k}
      OBVIOUS
    <3>5. QED
      BY <2>2, <3>2, <3>3, <3>4
  <2>3. QED
    BY <2>1, <2>2
<1> HIDE DEF b
<1>10. Struct(b) /\ b.early[k] \in Seq(Result)
  BY <1>3, <1>5, <1>9 DEF Advances
<1>11. Offered(b, DrainEarly(b, k))
  BY <1>10, DrainEarlyOffers
<1>12. QED
  BY <1>1, <1>2, <1>5, <1>6, <1>9, <1>11

\* cancelAll: no groups, no batch, no watchers.
LEMMA CancelAllShape ==
    ASSUME NEW m, Struct(m)
    PROVE  /\ Struct(CancelAll(m)) /\ Waits(CancelAll(m)) = {} /\ Held(CancelAll(m)) = {}
           /\ Timed(CancelAll(m))
<1> DEFINE n == CancelAll(m)
<1>1. /\ Shaped(n) /\ n.batch = None
      /\ \A g \in BatchId : n.groups[g] = None
      /\ \A k \in Name : n.groupOf[k] = None /\ n.ready[k] = None
  BY DEF CancelAll, EmptyManager, Struct, Shaped, Fields
<1> HIDE DEF n
<1>2. OpenGroups(n) = {}
  BY <1>1 DEF OpenGroups
<1>3. Struct(n) /\ Waits(n) = {} /\ Held(n) = {} /\ Timed(n)
  BY <1>1, <1>2 DEF Struct, Keyed, OneReportEach, BatchIsNew, ReadyIsOwn, Waits, Expected, Held, Timed
<1>4. QED
  BY <1>3 DEF n

\* The new manager.
LEMMA EmptyShape ==
    /\ Struct(EmptyManager) /\ Waits(EmptyManager) = {} /\ Held(EmptyManager) = {}
    /\ Timed(EmptyManager)
<1> DEFINE n == EmptyManager
<1>1. /\ Shaped(n) /\ n.batch = None
      /\ \A g \in BatchId : n.groups[g] = None
      /\ \A k \in Name : n.groupOf[k] = None /\ n.ready[k] = None
  BY DEF EmptyManager, Shaped, Fields
<1> HIDE DEF n
<1>2. OpenGroups(n) = {}
  BY <1>1 DEF OpenGroups
<1>3. Struct(n) /\ Waits(n) = {} /\ Held(n) = {} /\ Timed(n)
  BY <1>1, <1>2 DEF Struct, Keyed, OneReportEach, BatchIsNew, ReadyIsOwn, Waits, Expected, Held, Timed
<1>4. QED
  BY <1>3 DEF n

----------------------------------------------------------------------------
(* What callers keep, where S are the subagents being spawned.             *)

\* Whoever is awaited is watched or being spawned.
Awaited(m, S) == Struct(m) /\ \A k \in Waits(m) : m.watchers[k] # None \/ k \in S

\* A subagent is watched, or being spawned, or has a report held: one of them.
Apart(m, S) ==
    /\ \A d \in Held(m) : m.watchers[d.name] = None /\ d.name \notin S
    /\ \A k \in S : m.watchers[k] = None

\* Every held report is held on or sent.
KeepsReports(m, n) == \A d \in Held(m) : d \in Held(n) \/ d.id \in SentIds(n)

\* Groups are groups of subagents and hold reports.
LEMMA GroupsAreTyped ==
    ASSUME NEW m, Struct(m)
    PROVE  Waits(m) \subseteq Name /\ Held(m) \subseteq Delivery
<1>1. \A g \in OpenGroups(m) : m.groups[g] \in Group
  BY DEF OpenGroups, Struct, Shaped
<1>2. m.batch # None => m.batch \in Batch
  BY DEF Struct, Shaped
<1>3. QED
  BY <1>1, <1>2 DEF Waits, Expected, Held, Group, Batch

\* An operation that drops no report and adds nobody.
LEMMA AdvanceKeeps ==
    ASSUME NEW m, Struct(m), NEW n, Advances(m, n, {}, {}, {}), SameWatched(m, n),
           NEW S \in SUBSET Name
    PROVE  /\ Awaited(m, S) => Awaited(n, S)
           /\ Apart(m, S) => Apart(n, S)
           /\ KeepsReports(m, n)
           /\ Timed(m) => Timed(n)
<1>1. Struct(n) /\ Waits(n) \subseteq Waits(m) /\ Held(n) \subseteq Held(m)
  BY DEF Advances
<1>2. Waits(m) \subseteq Name /\ \A d \in Held(m) : d.name \in Name
  BY GroupsAreTyped DEF Delivery
<1>3. Awaited(m, S) => Awaited(n, S)
  BY <1>1, <1>2 DEF Awaited, SameWatched
<1>4. Apart(m, S) => Apart(n, S)
  BY <1>1, <1>2 DEF Apart, SameWatched
<1>5. KeepsReports(m, n) /\ (Timed(m) => Timed(n))
  BY DEF Advances, KeepsReports
<1>6. QED
  BY <1>3, <1>4, <1>5

\* Offering a result, while watchers and held reports are apart.
LEMMA OfferKeeps ==
    ASSUME NEW m, Struct(m), NEW n, Offered(m, n), NEW S \in SUBSET Name
    PROVE  /\ Awaited(m, S) => Awaited(n, S)
           /\ Apart(m, S) => Apart(n, S) /\ KeepsReports(m, n) /\ (Timed(m) => Timed(n))
<1>1. CASE Moves(m, n, {}) /\ SameWatched(m, n)
  BY <1>1, MovesAdvances, AdvanceKeeps
<1>2. CASE \E d \in Delivery : m.watchers[d.name] # None /\ Reported(m, n, d)
  <2>1. PICK d \in Delivery : m.watchers[d.name] # None /\ Reported(m, n, d)
    BY <1>2
  <2>2. /\ Struct(n) /\ Waits(n) \subseteq Waits(m) /\ Held(n) \subseteq Held(m) \cup {d}
        /\ d.name \notin Waits(n)
    BY <2>1 DEF Reported, Advances
  <2>3. Waits(m) \subseteq Name /\ (\A e \in Held(m) : e.name \in Name) /\ d.name \in Name
    BY GroupsAreTyped DEF Delivery
  <2>4. \A k \in Name : n.watchers[k] = IF k = d.name THEN None ELSE m.watchers[k]
    BY <2>1 DEF Reported, Struct, Shaped
  <2>5. Awaited(m, S) => Awaited(n, S)
    BY <2>2, <2>3, <2>4 DEF Awaited
  <2>6. Apart(m, S) => Apart(n, S)
    BY <2>1, <2>2, <2>3, <2>4 DEF Apart
  <2>7. Apart(m, S) => \A e \in Held(m) : e.name \notin {d.name}
    BY <2>1 DEF Apart
  <2>8. Apart(m, S) => KeepsReports(m, n) /\ (Timed(m) => Timed(n))
    BY <2>1, <2>7 DEF Reported, Advances, KeepsReports
  <2>9. QED
    BY <2>5, <2>6, <2>8
<1>3. QED
  BY <1>1, <1>2 DEF Offered

\* The watcher of k goes, and k with it.
LEMMA DropKeeps ==
    ASSUME NEW m, Struct(m), NEW n, NEW k \in Name, Dropped(m, n, k), NEW S \in SUBSET Name
    PROVE  /\ Awaited(m, S) => Awaited(n, S)
           /\ Apart(m, S) => Apart(n, S)
           /\ \A d \in Held(m) : d.name = k \/ d \in Held(n) \/ d.id \in SentIds(n)
           /\ Timed(m) /\ (\A d \in Held(m) : d.name # k) => Timed(n)
<1>1. /\ Struct(n) /\ Waits(n) \subseteq Waits(m) /\ Held(n) \subseteq Held(m)
      /\ k \notin Waits(n)
  BY DEF Dropped, Moves
<1>2. Waits(m) \subseteq Name /\ \A d \in Held(m) : d.name \in Name
  BY GroupsAreTyped DEF Delivery
<1>3. \A j \in Name : n.watchers[j] = IF j = k THEN None ELSE m.watchers[j]
  BY DEF Dropped, Struct, Shaped
<1>4. Awaited(m, S) => Awaited(n, S)
  BY <1>1, <1>2, <1>3 DEF Awaited
<1>5. Apart(m, S) => Apart(n, S)
  BY <1>1, <1>2, <1>3 DEF Apart
<1>6. QED
  BY <1>4, <1>5 DEF Dropped, Moves

\* A watcher is installed for k, which was or was not being spawned.
LEMMA ArmKeeps ==
    ASSUME NEW m, Struct(m), NEW b, NEW n, NEW k \in Name, Advances(m, b, {k}, {}, {k}),
           NEW x \in Slot, b.watchers = [m.watchers EXCEPT ![k] = x], Offered(b, n),
           NEW S \in SUBSET Name
    PROVE  /\ Awaited(m, S) => Awaited(n, S \ {k})
           /\ Apart(m, S) /\ (\A d \in Held(m) : d.name # k) =>
                /\ Apart(n, S \ {k})
                /\ KeepsReports(m, n)
                /\ Timed(m) => Timed(n)
<1>1. /\ Struct(b) /\ Waits(b) \subseteq Waits(m) \cup {k} /\ Held(b) \subseteq Held(m)
      /\ SentIds(m) \subseteq SentIds(b)
  BY DEF Advances
<1>2. Waits(m) \subseteq Name /\ \A d \in Held(m) : d.name \in Name
  BY GroupsAreTyped DEF Delivery
<1>3. x # None /\ \A j \in Name : b.watchers[j] = IF j = k THEN x ELSE m.watchers[j]
  BY RecordsAssumption DEF Struct, Shaped
<1>4. Awaited(m, S) => Awaited(b, S \ {k})
  BY <1>1, <1>2, <1>3 DEF Awaited
<1>5. Awaited(b, S \ {k}) => Awaited(n, S \ {k})
  BY <1>1, OfferKeeps
<1>6. ASSUME Apart(m, S), \A d \in Held(m) : d.name # k
      PROVE  Apart(n, S \ {k}) /\ KeepsReports(m, n) /\ (Timed(m) => Timed(n))
  <2>1. Apart(b, S \ {k})
    BY <1>1, <1>2, <1>3, <1>6 DEF Apart
  <2>2. KeepsReports(m, b) /\ (Timed(m) => Timed(b))
    BY <1>6 DEF Advances, KeepsReports
  <2>3. Apart(n, S \ {k}) /\ KeepsReports(b, n) /\ (Timed(b) => Timed(n))
    BY <1>1, <2>1, OfferKeeps
  <2>4. SentIds(b) \subseteq SentIds(n)
    BY DEF Offered, Reported, Advances, Moves
  <2>5. KeepsReports(m, n)
    BY <2>2, <2>3, <2>4 DEF KeepsReports
  <2>6. QED
    BY <2>2, <2>3, <2>5
<1>7. QED
  BY <1>4, <1>5, <1>6

----------------------------------------------------------------------------
(* Watchers: a watcher always waits for an arm that has not been delivered,*)
(* and no early result is one it would take.                               *)

\* The results of a buffer.
Items(q) == {q[i] : i \in DOMAIN q}

\* An operation that leaves watchers and results alone.
SameWatch(m, n) ==
    /\ DOMAIN n = Fields
    /\ n.watchers = m.watchers
    /\ n.seen = m.seen
    /\ n.early = m.early
    /\ n.doneArms = m.doneArms

----------------------------------------------------------------------------
(* Groups and batches.                                                     *)

LEMMA SameWatchIsTransitive ==
    ASSUME NEW a, NEW b, NEW c, SameWatch(a, b), SameWatch(b, c)
    PROVE  SameWatch(a, c)
  BY DEF SameWatch

LEMMA SendWatch ==
    ASSUME NEW m, DOMAIN m = Fields, NEW reports, NEW pending
    PROVE  SameWatch(m, Send(m, reports, pending))
  BY DEF Send, SameWatch, Fields

LEMMA UngroupWatch ==
    ASSUME NEW m, DOMAIN m = Fields, NEW keys
    PROVE  SameWatch(m, Ungroup(m, keys))
  BY DEF Ungroup, SameWatch, Fields

LEMMA CleanupGroupWatch ==
    ASSUME NEW m, DOMAIN m = Fields, NEW g
    PROVE  SameWatch(m, CleanupGroup(m, g))
<1> DEFINE u == Ungroup(m, m.groups[g].members)
<1>1. SameWatch(m, u)
  BY UngroupWatch
<1>2. SameWatch(m, m)
  BY DEF SameWatch
<1> HIDE DEF u
<1>3. SameWatch(u, [u EXCEPT !.groups[g] = None])
  BY <1>1 DEF SameWatch, Fields
<1>4. CleanupGroup(m, g) \in {m, [u EXCEPT !.groups[g] = None]}
  BY DEF CleanupGroup, u
<1>5. QED
  BY <1>1, <1>2, <1>3, <1>4, SameWatchIsTransitive

LEMMA DeliverGroupWatch ==
    ASSUME NEW m, DOMAIN m = Fields, NEW g
    PROVE  SameWatch(m, DeliverGroup(m, g))
<1> DEFINE c == CleanupGroup(m, g)
<1>1. SameWatch(m, c)
  BY CleanupGroupWatch
<1> HIDE DEF c
<1>2. SameWatch(c, Send(c, m.groups[g].completed, {}))
  BY <1>1, SendWatch DEF SameWatch
<1>3. QED
  BY <1>1, <1>2, SameWatchIsTransitive DEF DeliverGroup, c

LEMMA MaybeDeliverWatch ==
    ASSUME NEW m, DOMAIN m = Fields, NEW g
    PROVE  SameWatch(m, MaybeDeliverCompletedGroup(m, g))
<1>1. SameWatch(m, m)
  BY DEF SameWatch
<1>2. SameWatch(m, [m EXCEPT !.groups[g].timer = "running"])
  BY DEF SameWatch, Fields
<1>3. SameWatch(m, DeliverGroup(m, g))
  BY DeliverGroupWatch
<1>4. QED
  BY <1>1, <1>2, <1>3 DEF MaybeDeliverCompletedGroup, StartGroupTimeout

LEMMA OnGroupTimeoutWatch ==
    ASSUME NEW m, DOMAIN m = Fields, NEW g
    PROVE  SameWatch(m, OnGroupTimeout(m, g))
<1> DEFINE held == m.groups[g].completed
           remaining == m.groups[g].members \ NamesOf(held)
           u == Ungroup(m, NamesOf(held))
           c == [u EXCEPT !.groups[g] = Waiting(remaining)]
           s == Send(c, held, remaining)
<1>1. SameWatch(m, [m EXCEPT !.groups[g].timer = "spent"])
  BY DEF SameWatch, Fields
<1>2. SameWatch(m, u)
  BY UngroupWatch
<1>3. OnGroupTimeout(m, g) \in {[m EXCEPT !.groups[g].timer = "spent"], CleanupGroup(s, g), s}
  BY DEF OnGroupTimeout
<1> HIDE DEF u
<1>4. SameWatch(u, c)
  BY <1>2 DEF SameWatch, Fields
<1> HIDE DEF c
<1>5. SameWatch(c, s)
  BY <1>4, SendWatch DEF SameWatch
<1>6. SameWatch(m, s)
  BY <1>2, <1>4, <1>5, SameWatchIsTransitive
<1> HIDE DEF s
<1>7. SameWatch(s, CleanupGroup(s, g))
  BY <1>6, CleanupGroupWatch DEF SameWatch
<1>8. QED
  BY <1>1, <1>3, <1>6, <1>7, SameWatchIsTransitive

LEMMA RemoveKeyFromGroupWatch ==
    ASSUME NEW m, DOMAIN m = Fields, NEW k
    PROVE  SameWatch(m, RemoveKeyFromGroup(m, k))
<1> DEFINE g == m.groupOf[k]
           s == ShrinkGroup(m, g, k)
<1>1. SameWatch(m, m) /\ SameWatch(m, Ungroup(m, {k}))
  BY UngroupWatch DEF SameWatch
<1>2. SameWatch(m, s)
  BY DEF ShrinkGroup, SameWatch, Fields
<1>3. RemoveKeyFromGroup(m, k) \in {m, Ungroup(m, {k}), CleanupGroup(s, g), DeliverGroup(s, g),
                                    MaybeDeliverCompletedGroup(s, g)}
  BY DEF RemoveKeyFromGroup, DissolveGroup
<1> HIDE DEF s, g
<1>4. /\ SameWatch(s, CleanupGroup(s, g)) /\ SameWatch(s, DeliverGroup(s, g))
      /\ SameWatch(s, MaybeDeliverCompletedGroup(s, g))
  BY <1>2, CleanupGroupWatch, DeliverGroupWatch, MaybeDeliverWatch DEF SameWatch
<1>5. QED
  BY <1>1, <1>2, <1>3, <1>4, SameWatchIsTransitive

LEMMA BatchWatch ==
    ASSUME NEW m, DOMAIN m = Fields, NEW k
    PROVE  /\ SameWatch(m, AddKeyToBatch(m, k))
           /\ SameWatch(m, RemoveKeyFromBatch(m, k))
           /\ SameWatch(m, FinalizeBatch(m))
<1>1. SameWatch(m, AddKeyToBatch(m, k))
  BY DEF AddKeyToBatch, SameWatch, Fields
<1>2. SameWatch(m, RemoveKeyFromBatch(m, k))
  BY DEF RemoveKeyFromBatch, SameWatch, Fields
<1>3. SameWatch(m, FinalizeBatch(m))
  BY DEF FinalizeBatch, SameWatch, Fields
<1>4. QED
  BY <1>1, <1>2, <1>3

\* CancelKey, WatchRejected, Replace and ReleaseMember leave in this way.
LEMMA LeaveWatch ==
    ASSUME NEW m, DOMAIN m = Fields, NEW k
    PROVE  SameWatch(m, RemoveKeyFromGroup(RemoveKeyFromBatch(m, k), k))
<1> DEFINE b == RemoveKeyFromBatch(m, k)
<1>1. SameWatch(m, b)
  BY BatchWatch
<1> HIDE DEF b
<1>2. SameWatch(b, RemoveKeyFromGroup(b, k))
  BY <1>1, RemoveKeyFromGroupWatch DEF SameWatch
<1>3. QED
  BY <1>1, <1>2, SameWatchIsTransitive DEF b

----------------------------------------------------------------------------
(* Completions.                                                            *)

\* The watcher of k is gone, and nothing else of what is watched changes.
Unwatches(m, n, k) ==
    /\ DOMAIN n = Fields
    /\ n.watchers = [m.watchers EXCEPT ![k] = None]
    /\ n.seen = m.seen
    /\ n.early = m.early
    /\ n.doneArms = m.doneArms

\* A completion ends the watch of its subagent.
LEMMA ProcessCompletionWatch ==
    ASSUME NEW m, DOMAIN m = Fields, NEW d
    PROVE  Unwatches(m, ProcessCompletion(m, d), d.name)
<1> DEFINE k == d.name
           noted == [m EXCEPT !.ready[k] = d]
           closed == IF InBatch(noted, k) THEN FinalizeBatch(noted) ELSE noted
           done == [closed EXCEPT !.watchers[k] = None]
           g == done.groupOf[k]
           ug == Ungroup(done, {k})
           h == Hold(done, g, d)
           n == ProcessCompletion(m, d)
<1>1. SameWatch(m, noted)
  BY DEF SameWatch, Fields
<1> HIDE DEF noted
<1>2. SameWatch(m, closed)
  BY <1>1, BatchWatch, SameWatchIsTransitive DEF SameWatch
<1> HIDE DEF closed
<1>3. Unwatches(m, done, k)
  BY <1>2 DEF SameWatch, Unwatches, Fields
<1>4. n \in {Send(done, {d}, {}), Send(ug, {d}, {}), MaybeDeliverCompletedGroup(h, g)}
  BY DEF ProcessCompletion, closed, noted
<1> HIDE DEF done, g, n
<1>5. SameWatch(done, ug)
  BY <1>3, UngroupWatch DEF Unwatches
<1>6. SameWatch(done, h)
  BY <1>3 DEF Hold, SameWatch, Unwatches, Fields
<1> HIDE DEF ug, h
<1>7. SameWatch(done, n)
  BY <1>3, <1>4, <1>5, <1>6, SendWatch, MaybeDeliverWatch, SameWatchIsTransitive
     DEF SameWatch, Unwatches
<1>8. QED
  BY <1>3, <1>7 DEF Unwatches, SameWatch, n

\* A result that is consumed is marked and ends the watch.
LEMMA ConsumeResultWatch ==
    ASSUME NEW m, DOMAIN m = Fields, NEW r
    PROVE  LET n == ConsumeResult(m, r)
           IN  /\ DOMAIN n = Fields
               /\ n.watchers = [m.watchers EXCEPT ![r.name] = None]
               /\ n.seen = m.seen \cup {r.id}
               /\ n.early = m.early
               /\ n.doneArms = IF r.arm = None THEN m.doneArms ELSE m.doneArms \cup {r.arm}
<1> DEFINE n == ConsumeResult(m, r)
           arms == IF r.arm = None THEN m.doneArms ELSE m.doneArms \cup {r.arm}
           c == [m EXCEPT !.seen = m.seen \cup {r.id}, !.doneArms = arms]
           d == DeliveryOf(r)
<1>1. n = ProcessCompletion(c, d) /\ d.name = r.name
  BY DEF ConsumeResult, DeliveryOf
<1>2. /\ DOMAIN c = Fields /\ c.watchers = m.watchers /\ c.early = m.early
      /\ c.seen = m.seen \cup {r.id} /\ c.doneArms = arms
  BY DEF Fields
<1> HIDE DEF c, d, n
<1>3. Unwatches(c, n, r.name)
  BY <1>1, <1>2, ProcessCompletionWatch
<1>4. /\ DOMAIN n = Fields
      /\ n.watchers = [m.watchers EXCEPT ![r.name] = None]
      /\ n.seen = m.seen \cup {r.id}
      /\ n.early = m.early
      /\ n.doneArms = arms
  BY <1>2, <1>3 DEF Unwatches
<1>5. QED
  BY <1>4 DEF n

----------------------------------------------------------------------------
(* The buffers of early results.                                           *)

LEMMA ItemsFacts ==
    ASSUME NEW S, NEW q \in Seq(S)
    PROVE  /\ Items(q) \subseteq S
           /\ q \in Seq(Items(q))
           /\ Len(q) \in Nat /\ DOMAIN q = 1..Len(q)
<1>1. Len(q) \in Nat /\ DOMAIN q = 1..Len(q) /\ q \in [1..Len(q) -> S]
  OBVIOUS
<1>2. Items(q) \subseteq S
  BY <1>1 DEF Items
<1>3. \A i \in 1..Len(q) : q[i] \in Items(q)
  BY <1>1 DEF Items
<1>4. q \in [1..Len(q) -> Items(q)]
  BY <1>1, <1>3
<1>5. q \in Seq(Items(q))
  BY <1>1, <1>4
<1>6. QED
  BY <1>1, <1>2, <1>5

\* What is retained of a buffer was in it.
LEMMA RetainedItems ==
    ASSUME NEW m, NEW S, NEW q \in Seq(S)
    PROVE  Retained(m, q) \in Seq(S) /\ Items(Retained(m, q)) \subseteq Items(q)
<1>1. q \in Seq(Items(q)) /\ Items(q) \subseteq S
  BY ItemsFacts
<1>2. Retained(m, q) \in Seq(Items(q)) /\ Retained(m, q) \in Seq(S)
  BY <1>1, RetainedType
<1>3. QED
  BY <1>2, ItemsFacts

\* What is queued is what was there, and the new result.
LEMMA QueuedItems ==
    ASSUME NEW S, NEW q \in Seq(S), NEW r \in S
    PROVE  LET l == LastOf(Append(q, r), PendingLimit)
           IN  l \in Seq(S) /\ Items(l) \subseteq Items(q) \cup {r}
<1> DEFINE a == Append(q, r)
           T == Items(q) \cup {r}
<1>1. q \in Seq(Items(q)) /\ Items(q) \subseteq S
  BY ItemsFacts
<1>2. q \in Seq(T) /\ r \in T
  BY <1>1, SeqMonotonic
<1> HIDE DEF T
<1>3. a \in Seq(T) /\ a \in Seq(S)
  BY <1>2
<1> HIDE DEF a
<1>4. LastOf(a, PendingLimit) \in Seq(T) /\ LastOf(a, PendingLimit) \in Seq(S)
  BY <1>3, LastOfType, PendingLimitAssumption
<1>5. Items(LastOf(a, PendingLimit)) \subseteq T
  BY <1>4, ItemsFacts
<1>6. QED
  BY <1>4, <1>5 DEF a, T

\* What DrainEarly puts back when it consumes a result was in the buffer.
LEMMA RestItems ==
    ASSUME NEW m, NEW S, NEW q \in Seq(S), NEW i \in 1..Len(q)
    PROVE  LET rest == Retained(m, SubSeq(q, 1, i - 1)) \o SubSeq(q, i + 1, Len(q))
           IN  rest \in Seq(S) /\ Items(rest) \subseteq Items(q)
<1> DEFINE T == Items(q)
           front == SubSeq(q, 1, i - 1)
           before == Retained(m, front)
           after == SubSeq(q, i + 1, Len(q))
<1>1. q \in Seq(T) /\ T \subseteq S /\ Len(q) \in Nat
  BY ItemsFacts
<1> HIDE DEF T
<1>2. \A j \in 1..Len(q) : q[j] \in T
  BY <1>1
<1>3. front \in Seq(T) /\ after \in Seq(T)
  BY <1>1, <1>2, SubSeqProperties
<1> HIDE DEF front, after
<1>4. before \in Seq(T)
  BY <1>3, RetainedType
<1> HIDE DEF before
<1>5. before \o after \in Seq(T)
  BY <1>3, <1>4
<1>6. before \o after \in Seq(S)
  BY <1>1, <1>5, SeqMonotonic
<1>7. Items(before \o after) \subseteq T
  BY <1>5, ItemsFacts
<1>8. QED
  BY <1>6, <1>7 DEF before, front, after, T

----------------------------------------------------------------------------
(* Order among watchers, arms and results.  own[k] are the arms of calls   *)
(* made to subagent k; those in fresh have been neither accepted nor sent.  *)

Owners(own) == \A j, k \in Name : j # k => own[j] \cap own[k] = {}

\* A result of subagent k, which answers one of the calls made to it.
Fits(r, k, own) == r \in Result /\ r.name = k /\ r.arm \in own[k] \cup {None}

\* A watcher knows its subagent, and waits for an arm not yet delivered.
SortedAt(m, k, own, fresh) ==
    /\ m.early[k] \in Seq(Result)
    /\ \A r \in Items(m.early[k]) : Fits(r, k, own)
    /\ m.watchers[k] # None =>
           /\ m.watchers[k] \in Slot
           /\ m.watchers[k].found \notin {Settled, None} => Fits(m.watchers[k].found, k, own)
           /\ m.watchers[k].arms \subseteq own[k] \ fresh
           /\ ~(m.watchers[k].arms \subseteq m.doneArms)

Sorted(m, own, fresh) ==
    /\ DOMAIN m = Fields /\ DOMAIN m.watchers = Name /\ DOMAIN m.early = Name
    /\ fresh \cap m.doneArms = {}
    /\ \A k \in Name : SortedAt(m, k, own, fresh)

\* No early result is one that the watcher would take.
Drained(m, k) ==
    m.watchers[k] # None => \A r \in Items(m.early[k]) : ~Consumes(m, r)

Tidy(m, own, fresh) == Sorted(m, own, fresh) /\ \A k \in Name : Drained(m, k)

\* Calls are made, and arms are accepted or sent.
LEMMA TidyGrows ==
    ASSUME NEW m, NEW own, NEW fresh, Tidy(m, own, fresh), NEW more, NEW less,
           \A k \in Name : own[k] \subseteq more[k], less \subseteq fresh
    PROVE  Tidy(m, more, less)
  BY DEF Tidy, Sorted, SortedAt, Fits

LEMMA SameWatchTidy ==
    ASSUME NEW m, NEW own, NEW fresh, Tidy(m, own, fresh), NEW n, SameWatch(m, n)
    PROVE  Tidy(n, own, fresh)
<1>1. \A k \in Name : SortedAt(n, k, own, fresh)
  BY DEF Tidy, Sorted, SortedAt, SameWatch
<1>2. \A k \in Name : Drained(n, k)
  BY DEF Tidy, Drained, Consumes, SameWatch
<1>3. QED
  BY <1>1, <1>2 DEF Tidy, Sorted, SameWatch

\* A buffer may be replaced by one with results of the same subagent.
LEMMA SetEarlyTidy ==
    ASSUME NEW m, NEW own, NEW fresh, Sorted(m, own, fresh), NEW k \in Name,
           NEW q \in Seq(Result), \A r \in Items(q) : Fits(r, k, own)
    PROVE  LET n == WithEarly(m, k, q)
           IN  /\ Sorted(n, own, fresh)
               /\ n.watchers = m.watchers /\ n.early[k] = q
               /\ \A r : Consumes(n, r) <=> Consumes(m, r)
               /\ \A j \in Name : j # k /\ Drained(m, j) => Drained(n, j)
<1> DEFINE n == WithEarly(m, k, q)
<1>1. /\ DOMAIN n = Fields /\ n.watchers = m.watchers /\ n.seen = m.seen
      /\ n.doneArms = m.doneArms
      /\ n.early = [m.early EXCEPT ![k] = q]
  BY DEF Sorted, WithEarly, Fields
<1> HIDE DEF n
<1>2. DOMAIN n.early = Name /\ \A j \in Name : n.early[j] = IF j = k THEN q ELSE m.early[j]
  BY <1>1 DEF Sorted
<1>3. \A j \in Name : SortedAt(n, j, own, fresh)
  BY <1>1, <1>2 DEF Sorted, SortedAt
<1>4. \A r : Consumes(n, r) <=> Consumes(m, r)
  BY <1>1 DEF Consumes
<1>5. \A j \in Name : j # k /\ Drained(m, j) => Drained(n, j)
  BY <1>1, <1>2, <1>4 DEF Drained
<1>6. Sorted(n, own, fresh)
  BY <1>1, <1>2, <1>3 DEF Sorted
<1>7. QED
  BY <1>1, <1>2, <1>4, <1>5, <1>6 DEF n

\* Dropping early results keeps order.
LEMMA ForgetEarlyTidy ==
    ASSUME NEW m, NEW own, NEW fresh, Tidy(m, own, fresh), NEW k \in Name
    PROVE  Tidy([m EXCEPT !.early[k] = << >>], own, fresh)
<1> DEFINE q == << >>
<1>1. q \in Seq(Result) /\ Items(q) = {}
  BY DEF Items
<1> HIDE DEF q
<1> DEFINE n == WithEarly(m, k, q)
<1>2. /\ Sorted(n, own, fresh)
      /\ n.watchers = m.watchers /\ n.early[k] = q
      /\ \A j \in Name : j # k /\ Drained(m, j) => Drained(n, j)
  BY <1>1, SetEarlyTidy DEF Tidy
<1>3. Drained(n, k)
  BY <1>1, <1>2 DEF Drained
<1>4. Tidy(n, own, fresh)
  BY <1>2, <1>3 DEF Tidy
<1>5. QED
  BY <1>4 DEF WithEarly, q

\* A watch ends, and delivers arms of its own subagent.
LEMMA WatchEnds ==
    ASSUME NEW m, NEW own, NEW fresh, Sorted(m, own, fresh), Owners(own),
           NEW k \in Name, NEW A, A \subseteq own[k] \ fresh,
           NEW n, DOMAIN n = Fields, n.watchers = [m.watchers EXCEPT ![k] = None],
           n.early = m.early, m.seen \subseteq n.seen, n.doneArms = m.doneArms \cup A
    PROVE  /\ Sorted(n, own, fresh)
           /\ n.watchers[k] = None
           /\ \A j \in Name : j = k \/ Drained(m, j) => Drained(n, j)
<1>1. /\ DOMAIN n.watchers = Name
      /\ \A j \in Name : n.watchers[j] = IF j = k THEN None ELSE m.watchers[j]
  BY DEF Sorted
<1>2. \A j \in Name : j # k => own[j] \cap A = {}
  BY DEF Owners
<1>3. \A j \in Name : SortedAt(n, j, own, fresh)
  <2> SUFFICES ASSUME NEW j \in Name PROVE SortedAt(n, j, own, fresh)
    OBVIOUS
  <2>1. SortedAt(m, j, own, fresh)
    BY DEF Sorted
  <2>2. CASE j = k
    BY <1>1, <2>1, <2>2 DEF SortedAt
  <2>3. CASE j # k
    BY <1>1, <1>2, <2>1, <2>3 DEF SortedAt
  <2>4. QED
    BY <2>2, <2>3
<1>4. Sorted(n, own, fresh)
  BY <1>1, <1>3 DEF Sorted
<1>5. \A j \in Name : j = k \/ Drained(m, j) => Drained(n, j)
  <2> SUFFICES ASSUME NEW j \in Name, j # k, Drained(m, j) PROVE Drained(n, j)
    BY <1>1 DEF Drained
  <2>1. \A r \in Items(m.early[j]) : r.name = j
    BY DEF Sorted, SortedAt, Fits
  <2>2. QED
    BY <1>1, <2>1 DEF Drained, Consumes
<1>6. QED
  BY <1>1, <1>4, <1>5

----------------------------------------------------------------------------
(* The manager's interface.                                                *)

\* Each operation of the interface keeps order among watchers and results.
LEMMA LeaveTidy ==
    ASSUME NEW m, NEW own, NEW fresh, Tidy(m, own, fresh), NEW k \in Name
    PROVE  Tidy(RemoveKeyFromGroup(RemoveKeyFromBatch(m, k), k), own, fresh)
<1>1. DOMAIN m = Fields
  BY DEF Tidy, Sorted
<1>2. QED
  BY <1>1, LeaveWatch, SameWatchTidy

LEMMA UnwatchTidy ==
    ASSUME NEW m, NEW own, NEW fresh, Tidy(m, own, fresh), Owners(own), NEW k \in Name
    PROVE  /\ Tidy([m EXCEPT !.watchers[k] = None], own, fresh)
           /\ [m EXCEPT !.watchers[k] = None].watchers[k] = None
<1> DEFINE n == [m EXCEPT !.watchers[k] = None]
<1>1. /\ DOMAIN n = Fields /\ n.watchers = [m.watchers EXCEPT ![k] = None]
      /\ n.early = m.early /\ n.seen = m.seen /\ n.doneArms = m.doneArms \cup {}
  BY DEF Tidy, Sorted, Fields
<1> HIDE DEF n
<1>2. /\ Sorted(n, own, fresh)
      /\ n.watchers[k] = None
      /\ \A j \in Name : j = k \/ Drained(m, j) => Drained(n, j)
  <2>1. {} \subseteq own[k] \ fresh /\ m.seen \subseteq n.seen
    BY <1>1
  <2>2. QED
    BY <1>1, <2>1, WatchEnds DEF Tidy
<1>3. QED
  BY <1>2 DEF Tidy, n

LEMMA ReleaseMemberTidy ==
    ASSUME NEW m, NEW own, NEW fresh, Tidy(m, own, fresh), NEW k \in Name
    PROVE  Tidy(ReleaseMember(m, k), own, fresh)
<1> DEFINE e == [m EXCEPT !.early[k] = << >>]
<1>1. Tidy(e, own, fresh)
  BY ForgetEarlyTidy
<1>2. ReleaseMember(m, k) \in {m, RemoveKeyFromGroup(RemoveKeyFromBatch(e, k), k)}
  BY DEF ReleaseMember
<1> HIDE DEF e
<1>3. QED
  BY <1>1, <1>2, LeaveTidy

LEMMA CancelTidy ==
    ASSUME NEW m, NEW own, NEW fresh, Tidy(m, own, fresh), Owners(own), NEW k \in Name
    PROVE  Tidy(Cancel(m, k, FALSE), own, fresh)
<1> DEFINE u == [m EXCEPT !.watchers[k] = None]
           e == [u EXCEPT !.early[k] = << >>]
<1>1. CancelKey(m, k) = RemoveKeyFromGroup(RemoveKeyFromBatch(e, k), k)
  BY DEF CancelKey
<1>2. Cancel(m, k, FALSE) \in {m, CancelKey(m, k)}
  BY DEF Cancel
<1>3. Tidy(u, own, fresh)
  BY UnwatchTidy
<1> HIDE DEF u
<1>4. Tidy(e, own, fresh)
  BY <1>3, ForgetEarlyTidy
<1> HIDE DEF e
<1>5. QED
  BY <1>1, <1>2, <1>4, LeaveTidy

LEMMA CancelAllTidy ==
    ASSUME NEW m, NEW own, NEW fresh
    PROVE  Tidy(CancelAll(m), own, fresh)
<1> DEFINE n == CancelAll(m)
<1>1. DOMAIN EmptyManager = Fields
  BY DEF EmptyManager, Fields
<1>2. /\ DOMAIN n = Fields /\ n.watchers = EmptyManager.watchers
      /\ n.early = EmptyManager.early /\ n.doneArms = EmptyManager.doneArms
  BY <1>1 DEF CancelAll, Fields
<1> HIDE DEF n
<1>3. /\ n.watchers = [k \in Name |-> None] /\ n.early = [k \in Name |-> << >>]
      /\ n.doneArms = {}
  BY <1>2 DEF EmptyManager
<1>4. << >> \in Seq(Result) /\ Items(<< >>) = {}
  BY DEF Items
<1>5. \A k \in Name : SortedAt(n, k, own, fresh) /\ Drained(n, k)
  BY <1>3, <1>4 DEF SortedAt, Drained
<1>6. Tidy(n, own, fresh)
  BY <1>2, <1>3, <1>5 DEF Tidy, Sorted
<1>7. QED
  BY <1>6 DEF n

\* A watcher that takes a result waited for its arm.
LEMMA ConsumedArm ==
    ASSUME NEW m, NEW own, NEW fresh, Sorted(m, own, fresh),
           NEW k \in Name, NEW r, Fits(r, k, own), Consumes(m, r)
    PROVE  r.arm # None => r.arm \in own[k] \ fresh
  BY DEF Sorted, SortedAt, Fits, Consumes, ArmMatches

\* consumeResult.
LEMMA ConsumeResultSorted ==
    ASSUME NEW m, NEW own, NEW fresh, Sorted(m, own, fresh), Owners(own),
           NEW k \in Name, NEW r, Fits(r, k, own), Consumes(m, r)
    PROVE  LET n == ConsumeResult(m, r)
           IN  /\ Sorted(n, own, fresh)
               /\ \A j \in Name : j = k \/ Drained(m, j) => Drained(n, j)
<1> DEFINE n == ConsumeResult(m, r)
           A == IF r.arm = None THEN {} ELSE {r.arm}
<1>1. A \subseteq own[k] \ fresh
  BY ConsumedArm
<1>2. DOMAIN m = Fields /\ r.name = k
  BY DEF Sorted, Fits
<1>3. /\ DOMAIN n = Fields
      /\ n.watchers = [m.watchers EXCEPT ![r.name] = None]
      /\ n.seen = m.seen \cup {r.id}
      /\ n.early = m.early
      /\ n.doneArms = IF r.arm = None THEN m.doneArms ELSE m.doneArms \cup {r.arm}
  BY <1>2, ConsumeResultWatch
<1> HIDE DEF n
<1>4. /\ n.doneArms = m.doneArms \cup A /\ m.seen \subseteq n.seen
      /\ n.watchers = [m.watchers EXCEPT ![k] = None]
  BY <1>2, <1>3
<1> HIDE DEF A
<1>5. /\ DOMAIN n = Fields /\ n.early = m.early
  BY <1>3
<1>6. /\ Sorted(n, own, fresh)
      /\ \A j \in Name : j = k \/ Drained(m, j) => Drained(n, j)
  BY ONLY <1>1, <1>4, <1>5, WatchEnds, Sorted(m, own, fresh), Owners(own), k \in Name
<1>7. QED
  BY <1>6 DEF n

\* processExternalResult.
LEMMA ProcessExternalTidy ==
    ASSUME NEW m, NEW own, NEW fresh, Tidy(m, own, fresh), Owners(own),
           NEW k \in Name, NEW r, Fits(r, k, own)
    PROVE  Tidy(ProcessExternalResult(m, r), own, fresh)
<1>1. CASE Consumes(m, r)
  BY <1>1, ConsumeResultSorted DEF ProcessExternalResult, Tidy
<1>2. CASE ~Consumes(m, r)
  <2> DEFINE q == LastOf(Append(m.early[k], r), PendingLimit)
             n == WithEarly(m, k, q)
  <2>1. ProcessExternalResult(m, r) \in {m, n}
    BY <1>2 DEF ProcessExternalResult, QueueEarly, WithEarly, Fits
  <2>2. m.early[k] \in Seq(Result) /\ r \in Result
    BY DEF Tidy, Sorted, SortedAt, Fits
  <2>3. q \in Seq(Result) /\ Items(q) \subseteq Items(m.early[k]) \cup {r}
    BY <2>2, QueuedItems
  <2> HIDE DEF q
  <2>4. \A s \in Items(q) : Fits(s, k, own)
    BY <2>3 DEF Tidy, Sorted, SortedAt
  <2>5. /\ Sorted(n, own, fresh)
        /\ n.watchers = m.watchers /\ n.early[k] = q
        /\ \A s : Consumes(n, s) <=> Consumes(m, s)
        /\ \A j \in Name : j # k /\ Drained(m, j) => Drained(n, j)
    BY <2>3, <2>4, SetEarlyTidy DEF Tidy
  <2> HIDE DEF n
  <2>6. Drained(n, k)
    BY <1>2, <2>3, <2>5 DEF Tidy, Drained
  <2>7. QED
    BY <2>1, <2>5, <2>6 DEF Tidy
<1>3. QED
  BY <1>1, <1>2

\* The loop of arm puts in order what the new watcher may find in the buffer.
LEMMA DrainEarlyTidy ==
    ASSUME NEW m, NEW own, NEW fresh, Sorted(m, own, fresh), Owners(own), NEW k \in Name,
           \A j \in Name : j # k => Drained(m, j)
    PROVE  Tidy(DrainEarly(m, k), own, fresh)
<1> DEFINE q == m.early[k]
           hits == {i \in DOMAIN q : Consumes(m, q[i])}
           first == CHOOSE i \in hits : \A j \in hits : i <= j
<1>1. q \in Seq(Result) /\ Len(q) \in Nat /\ DOMAIN q = 1..Len(q)
      /\ \A r \in Items(q) : Fits(r, k, own)
  BY DEF Sorted, SortedAt
<1>2. CASE hits = {}
  <2> DEFINE rest == Retained(m, q)
             n == WithEarly(m, k, rest)
  <2>1. DrainEarly(m, k) = n
    BY <1>2 DEF DrainEarly, WithEarly
  <2>2. rest \in Seq(Result) /\ Items(rest) \subseteq Items(q)
    BY <1>1, RetainedItems
  <2>3. \A r \in Items(q) : ~Consumes(m, r)
    BY <1>2 DEF Items
  <2> HIDE DEF rest, q
  <2>4. \A r \in Items(rest) : Fits(r, k, own)
    BY <1>1, <2>2
  <2>5. /\ Sorted(n, own, fresh)
        /\ n.watchers = m.watchers /\ n.early[k] = rest
        /\ \A r : Consumes(n, r) <=> Consumes(m, r)
        /\ \A j \in Name : j # k /\ Drained(m, j) => Drained(n, j)
    BY <2>2, <2>4, SetEarlyTidy
  <2> HIDE DEF n
  <2>6. Drained(n, k)
    BY <2>2, <2>3, <2>5 DEF Drained
  <2>7. QED
    BY <2>1, <2>5, <2>6 DEF Tidy
<1>3. CASE hits # {}
  <2> DEFINE rest == Retained(m, SubSeq(q, 1, first - 1)) \o SubSeq(q, first + 1, Len(q))
             n == WithEarly(m, k, rest)
  <2>1. \E i \in hits : \A j \in hits : i <= j
    <3>1. hits \subseteq Nat
      BY <1>1
    <3> HIDE DEF hits
    <3>2. QED
      BY <1>3, <3>1, LeastNumber
  <2>2. first \in hits
    <3> HIDE DEF hits
    <3>1. QED
      BY <2>1
  <2>3. first \in 1..Len(q) /\ Consumes(m, q[first]) /\ q[first] \in Items(q)
    BY <1>1, <2>2 DEF Items
  <2>4. DrainEarly(m, k) = ConsumeResult(n, q[first])
    BY <1>3 DEF DrainEarly, WithEarly
  <2> HIDE DEF first, hits
  <2>5. rest \in Seq(Result) /\ Items(rest) \subseteq Items(q)
    BY <1>1, <2>3, RestItems
  <2> HIDE DEF rest, q
  <2>6. \A r \in Items(rest) : Fits(r, k, own)
    BY <1>1, <2>5
  <2>7. /\ Sorted(n, own, fresh)
        /\ \A r : Consumes(n, r) <=> Consumes(m, r)
        /\ \A j \in Name : j # k /\ Drained(m, j) => Drained(n, j)
    BY <2>5, <2>6, SetEarlyTidy
  <2> HIDE DEF n
  <2>8. Fits(q[first], k, own) /\ Consumes(n, q[first])
    BY <1>1, <2>3, <2>7
  <2>9. /\ Sorted(ConsumeResult(n, q[first]), own, fresh)
        /\ \A j \in Name : j = k \/ Drained(n, j) => Drained(ConsumeResult(n, q[first]), j)
    BY <2>7, <2>8, ConsumeResultSorted
  <2>10. QED
    BY <2>4, <2>7, <2>9 DEF Tidy
<1>4. QED
  BY <1>2, <1>3

\* A watcher may be set to a slot that is in order.
LEMMA SetWatcherTidy ==
    ASSUME NEW m, NEW own, NEW fresh, Tidy(m, own, fresh), NEW k \in Name, NEW x \in Slot,
           x.found \notin {Settled, None} => Fits(x.found, k, own),
           x.arms \subseteq own[k] \ fresh, ~(x.arms \subseteq m.doneArms)
    PROVE  LET n == WithWatcher(m, k, x)
           IN  /\ Sorted(n, own, fresh)
               /\ n.watchers[k] = x /\ n.early = m.early /\ n.seen = m.seen
               /\ \A j \in Name : j # k => Drained(n, j)
<1> DEFINE n == WithWatcher(m, k, x)
<1>1. /\ DOMAIN n = Fields /\ n.watchers = [m.watchers EXCEPT ![k] = x]
      /\ n.early = m.early /\ n.seen = m.seen /\ n.doneArms = m.doneArms
  BY DEF Tidy, Sorted, WithWatcher, Fields
<1> HIDE DEF n
<1>2. /\ DOMAIN n.watchers = Name
      /\ \A j \in Name : n.watchers[j] = IF j = k THEN x ELSE m.watchers[j]
  BY <1>1 DEF Tidy, Sorted
<1>3. \A j \in Name : SortedAt(n, j, own, fresh)
  BY <1>1, <1>2 DEF Tidy, Sorted, SortedAt
<1>4. \A j \in Name : j # k => Drained(n, j)
  <2> SUFFICES ASSUME NEW j \in Name, j # k PROVE Drained(n, j)
    OBVIOUS
  <2>1. Drained(m, j) /\ \A r \in Items(m.early[j]) : r.name = j
    BY DEF Tidy, Sorted, SortedAt, Fits
  <2>2. QED
    BY <1>1, <1>2, <2>1 DEF Drained, Consumes
<1>5. Sorted(n, own, fresh)
  BY <1>1, <1>2, <1>3 DEF Tidy, Sorted
<1>6. QED
  BY <1>1, <1>2, <1>4, <1>5 DEF n

\* arm, with an arm that has not been delivered.
LEMMA ArmWatcherTidy ==
    ASSUME NEW m, NEW own, NEW fresh, Tidy(m, own, fresh), Owners(own), NEW k \in Name,
           NEW since \in Nat, NEW c \in Arm, NEW source \in {"rpc", "poll"},
           c \in own[k] \ fresh, c \notin m.doneArms
    PROVE  Tidy(ArmWatcher(m, k, since, {c}, source), own, fresh)
<1> DEFINE x == NewSlot(since, {c}, source)
           u == [m EXCEPT !.watchers[k] = None]
           p == Replace(m, k)
           s == WithWatcher(p, k, x)
           b == IF Reserved(m, k) THEN s ELSE AddKeyToBatch(s, k)
<1>1. x \in Slot /\ x.found = None /\ x.arms = {c}
  BY DEF NewSlot, Slot
<1>2. ArmWatcher(m, k, since, {c}, source) = DrainEarly(b, k)
  BY DEF ArmWatcher, WithWatcher
<1>3. Tidy(p, own, fresh) /\ p.doneArms = m.doneArms
  <2>1. Tidy(u, own, fresh) /\ u.doneArms = m.doneArms
    BY UnwatchTidy DEF Tidy, Sorted, Fields
  <2>2. p \in {m, RemoveKeyFromGroup(RemoveKeyFromBatch(u, k), k)}
    BY DEF Replace
  <2> HIDE DEF u, p
  <2>3. SameWatch(u, RemoveKeyFromGroup(RemoveKeyFromBatch(u, k), k))
    BY <2>1, LeaveWatch DEF Tidy, Sorted
  <2>4. QED
    BY <2>1, <2>2, <2>3, SameWatchTidy DEF SameWatch
<1> HIDE DEF p, x
<1>4. /\ Sorted(s, own, fresh)
      /\ \A j \in Name : j # k => Drained(s, j)
  BY <1>1, <1>3, SetWatcherTidy
<1> HIDE DEF s
<1>5. SameWatch(s, b)
  <2>1. SameWatch(s, s) /\ SameWatch(s, AddKeyToBatch(s, k))
    BY <1>4, BatchWatch DEF SameWatch, Sorted
  <2>2. QED
    BY <2>1
<1> HIDE DEF b
<1>6. Sorted(b, own, fresh) /\ \A j \in Name : j # k => Drained(b, j)
  BY <1>4, <1>5 DEF SameWatch, Sorted, SortedAt, Drained, Consumes
<1>7. QED
  BY <1>2, <1>6, DrainEarlyTidy

\* acceptArm, with an arm that no result answers yet.
LEMMA AcceptArmTidy ==
    ASSUME NEW m, NEW own, NEW fresh, Tidy(m, own, fresh), NEW k \in Name, NEW c \in Arm,
           c \in own[k] \ fresh, \A r \in Items(m.early[k]) : r.arm # c
    PROVE  Tidy(AcceptArm(m, k, c), own, fresh)
<1>1. CASE m.watchers[k] = None
  BY <1>1 DEF AcceptArm
<1>2. CASE m.watchers[k] # None
  <2> DEFINE x == [m.watchers[k] EXCEPT !.arms = m.watchers[k].arms \cup {c}]
             n == WithWatcher(m, k, x)
  <2>1. /\ m.watchers[k] \in Slot
        /\ m.watchers[k].arms \subseteq own[k] \ fresh
        /\ ~(m.watchers[k].arms \subseteq m.doneArms)
        /\ m.watchers[k].found \notin {Settled, None} => Fits(m.watchers[k].found, k, own)
        /\ \A r \in Items(m.early[k]) : r.name = k
    BY <1>2 DEF Tidy, Sorted, SortedAt, Fits
  <2>2. /\ x \in Slot /\ x.since = m.watchers[k].since /\ x.found = m.watchers[k].found
        /\ x.arms = m.watchers[k].arms \cup {c}
    BY <2>1 DEF Slot
  <2>3. AcceptArm(m, k, c) = n
    BY <1>2 DEF AcceptArm, WithWatcher
  <2> HIDE DEF x
  <2>4. /\ Sorted(n, own, fresh)
        /\ n.watchers[k] = x /\ n.early = m.early /\ n.seen = m.seen
        /\ \A j \in Name : j # k => Drained(n, j)
    BY <2>1, <2>2, SetWatcherTidy
  <2> HIDE DEF n
  <2>5. ASSUME NEW r \in Items(m.early[k]) PROVE ~Consumes(n, r)
    <3>1. ~Consumes(m, r) /\ r.name = k /\ r.arm # c
      BY <1>2, <2>1, <2>5 DEF Tidy, Drained
    <3>2. m.watchers[k].arms # {}
      BY <2>1
    <3>3. QED
      BY <1>2, <2>2, <2>4, <3>1, <3>2 DEF Consumes, ArmMatches
  <2>6. Drained(n, k)
    BY <2>4, <2>5 DEF Drained
  <2>7. QED
    BY <2>3, <2>4, <2>6 DEF Tidy
<1>3. QED
  BY <1>1, <1>2

\* The pane watch resolves: only what it has found changes.
LEMMA SetFoundTidy ==
    ASSUME NEW m, NEW own, NEW fresh, Tidy(m, own, fresh), NEW k \in Name,
           m.watchers[k] # None, NEW found \in Result \cup {Settled, None},
           found \notin {Settled, None} => Fits(found, k, own)
    PROVE  Tidy([m EXCEPT !.watchers[k].found = found], own, fresh)
<1> DEFINE x == [m.watchers[k] EXCEPT !.found = found]
           n == WithWatcher(m, k, x)
<1>1. /\ m.watchers[k] \in Slot
      /\ m.watchers[k].arms \subseteq own[k] \ fresh
      /\ ~(m.watchers[k].arms \subseteq m.doneArms)
      /\ \A r \in Items(m.early[k]) : r.name = k
  BY DEF Tidy, Sorted, SortedAt, Fits
<1>2. /\ x \in Slot /\ x.since = m.watchers[k].since /\ x.found = found
      /\ x.arms = m.watchers[k].arms
  BY <1>1 DEF Slot
<1>3. [m EXCEPT !.watchers[k].found = found] = n
  BY DEF WithWatcher
<1> HIDE DEF x
<1>4. /\ Sorted(n, own, fresh)
      /\ n.watchers[k] = x /\ n.early = m.early /\ n.seen = m.seen
      /\ \A j \in Name : j # k => Drained(n, j)
  BY <1>1, <1>2, SetWatcherTidy
<1> HIDE DEF n
<1>5. Drained(n, k)
  BY <1>1, <1>2, <1>4 DEF Tidy, Drained, Consumes, ArmMatches
<1>6. QED
  BY <1>3, <1>4, <1>5 DEF Tidy

\* A watcher that found its pane gone ends, and its arms count as delivered.
LEMMA SettledTidy ==
    ASSUME NEW m, NEW own, NEW fresh, Tidy(m, own, fresh), Owners(own), NEW k \in Name,
           NEW D, D \subseteq own[k] \ fresh, NEW d, d.name = k
    PROVE  Tidy(ProcessCompletion([m EXCEPT !.doneArms = m.doneArms \cup D], d), own, fresh)
<1> DEFINE c == [m EXCEPT !.doneArms = m.doneArms \cup D]
           n == ProcessCompletion(c, d)
<1>1. /\ DOMAIN c = Fields /\ c.watchers = m.watchers /\ c.early = m.early
      /\ c.seen = m.seen /\ c.doneArms = m.doneArms \cup D
  BY DEF Tidy, Sorted, Fields
<1> HIDE DEF c
<1>2. Unwatches(c, n, k)
  BY <1>1, ProcessCompletionWatch
<1> HIDE DEF n
<1>3. /\ DOMAIN n = Fields /\ n.watchers = [m.watchers EXCEPT ![k] = None]
      /\ n.early = m.early /\ m.seen \subseteq n.seen /\ n.doneArms = m.doneArms \cup D
  BY <1>1, <1>2 DEF Unwatches
<1>4. /\ Sorted(n, own, fresh)
      /\ \A j \in Name : j = k \/ Drained(m, j) => Drained(n, j)
  <2>1. Sorted(m, own, fresh)
    BY DEF Tidy
  <2>2. /\ n.doneArms = m.doneArms \cup D /\ m.seen \subseteq n.seen
        /\ n.watchers = [m.watchers EXCEPT ![k] = None]
    BY <1>3
  <2>3. DOMAIN n = Fields /\ n.early = m.early
    BY <1>3
  <2>4. \A B : B \subseteq own[k] \ fresh /\ n.doneArms = m.doneArms \cup B =>
           /\ Sorted(n, own, fresh)
           /\ \A j \in Name : j = k \/ Drained(m, j) => Drained(n, j)
    BY ONLY <2>1, <2>2, <2>3, WatchEnds, Owners(own), k \in Name
  <2>5. QED
    BY <2>2, <2>4
<1>5. Tidy(n, own, fresh)
  BY <1>4 DEF Tidy
<1>6. QED
  BY <1>5 DEF n, c

\* The callback of a pane watch.
LEMMA WatchResolvedTidy ==
    ASSUME NEW m, NEW own, NEW fresh, Tidy(m, own, fresh), Owners(own), NEW k \in Name,
           m.watchers[k] # None, m.watchers[k].found # None, NEW id
    PROVE  Tidy(WatchResolved(m, k, id), own, fresh)
<1> DEFINE found == m.watchers[k].found
<1>1. /\ m.watchers[k] \in Slot /\ DOMAIN m = Fields
      /\ m.watchers[k].arms \subseteq own[k] \ fresh
      /\ found \notin {Settled, None} => Fits(found, k, own)
  BY DEF Tidy, Sorted, SortedAt
<1>2. CASE found = Settled
  <2> DEFINE A == m.watchers[k].arms
             d == [id |-> id, name |-> k, final |-> FALSE]
  <2>1. WatchResolved(m, k, id) = ProcessCompletion([m EXCEPT !.doneArms = m.doneArms \cup A], d)
    BY <1>2 DEF WatchResolved
  <2>2. A \subseteq own[k] \ fresh /\ d.name = k
    BY <1>1
  <2>3. Tidy(ProcessCompletion([m EXCEPT !.doneArms = m.doneArms \cup A], d), own, fresh)
    BY ONLY <2>2, SettledTidy, Tidy(m, own, fresh), Owners(own), k \in Name
  <2>4. QED
    BY <2>1, <2>3
<1>3. CASE found # Settled
  <2> DEFINE n == ProcessExternalResult(m, found)
  <2>1. Fits(found, k, own)
    BY <1>1, <1>3
  <2>2. Tidy(n, own, fresh)
    BY <2>1, ProcessExternalTidy
  <2>3. CASE Consumes(m, found)
    BY <1>3, <2>2, <2>3 DEF WatchResolved
  <2>4. CASE ~Consumes(m, found)
    <3>1. WatchResolved(m, k, id) = [n EXCEPT !.watchers[k].found = None]
      BY <1>3, <2>4 DEF WatchResolved
    <3>2. n.watchers = m.watchers
      <4>1. n \in {m, QueueEarly(m, found)}
        BY <2>4 DEF ProcessExternalResult
      <4>2. QueueEarly(m, found).watchers = m.watchers
        BY <1>1 DEF QueueEarly, Fields
      <4>3. QED
        BY <4>1, <4>2
    <3> HIDE DEF n
    <3>3. Tidy([n EXCEPT !.watchers[k].found = None], own, fresh)
      BY <2>2, <3>2, SetFoundTidy
    <3>4. QED
      BY <3>1, <3>3
  <2>5. QED
    BY <2>3, <2>4
<1>4. QED
  BY <1>2, <1>3

----------------------------------------------------------------------------
(* Where reports go, whatever the groups and the batch have come to.  The  *)
(* coordinator may bring about what Keyed excludes (a subagent is spawned  *)
(* again while an earlier incarnation is in a group), so that nothing here *)
(* rests on Struct.                                                        *)

\* The batch has a number that no group has.
Filed(m) ==
    /\ Shaped(m)
    /\ \A g \in OpenGroups(m) : g < m.nextBatch
    /\ m.batch # None => m.batch.id < m.nextBatch /\ m.batch.id \notin OpenGroups(m)

\* What a group holds, a timer was set for.
HasTimer(x) == x.completed # {} => x.timer # "unset"

AllTimed(m) == \A g \in OpenGroups(m) : HasTimer(m.groups[g])

OthersTimed(m, g) == \A h \in OpenGroups(m) \ {g} : HasTimer(m.groups[h])

\* Only of the subagents K is a held report dropped unsent.
Retains(m, n, K) ==
    /\ Filed(n)
    /\ SentIds(m) \subseteq SentIds(n)
    /\ \A d \in Held(m) : d.name \in K \/ d \in Held(n) \/ d.id \in SentIds(n)

Keeps(m, n, K) == Retains(m, n, K) /\ (AllTimed(m) => AllTimed(n))

LEMMA KeepsSelf == ASSUME NEW m, Filed(m) PROVE Keeps(m, m, {})
  BY DEF Keeps, Retains

LEMMA KeepsIsTransitive ==
    ASSUME NEW a, NEW b, NEW c, NEW K, Keeps(a, b, K), Keeps(b, c, K)
    PROVE  Keeps(a, c, K)
  BY DEF Keeps, Retains

LEMMA KeepsMore ==
    ASSUME NEW m, NEW n, NEW K, NEW L, Keeps(m, n, K), K \subseteq L
    PROVE  Keeps(m, n, L)
  BY DEF Keeps, Retains

\* An operation that leaves the groups and the batch alone.
LEMMA SameGroupsKeeps ==
    ASSUME NEW m, Filed(m), NEW n, Shaped(n), n.groups = m.groups, n.batch = m.batch,
           n.nextBatch = m.nextBatch, SentIds(m) \subseteq SentIds(n)
    PROVE  Keeps(m, n, {})
<1>1. OpenGroups(n) = OpenGroups(m)
  BY DEF OpenGroups
<1>2. Held(n) = Held(m)
  BY <1>1 DEF Held
<1>3. Filed(n) /\ (AllTimed(m) => AllTimed(n))
  BY <1>1 DEF Filed, AllTimed
<1>4. QED
  BY <1>2, <1>3 DEF Keeps, Retains

\* The common form of the operations on one group g: x becomes of it.
LEMMA RegroupRetains ==
    ASSUME NEW m, Filed(m), NEW g \in OpenGroups(m), NEW x \in Group \cup {None}, NEW K,
           NEW n, Shaped(n), n.groups = [m.groups EXCEPT ![g] = x],
           n.batch = m.batch, n.nextBatch = m.nextBatch, SentIds(m) \subseteq SentIds(n),
           \A d \in m.groups[g].completed :
               \/ d.name \in K
               \/ d.id \in SentIds(n)
               \/ x # None /\ d \in x.completed
    PROVE  /\ Retains(m, n, K)
           /\ OthersTimed(m, g) /\ (x # None => HasTimer(x)) => AllTimed(n)
           /\ x # None => g \in OpenGroups(n) /\ n.groups[g] = x
           /\ x # None /\ OthersTimed(m, g) => OthersTimed(n, g)
<1>1. g \in BatchId /\ m.groups \in [BatchId -> Group \cup {None}]
  BY DEF OpenGroups, Filed, Shaped
<1>2. \A h \in BatchId : n.groups[h] = IF h = g THEN x ELSE m.groups[h]
  BY <1>1
<1>3. \A h \in OpenGroups(n) : h \in OpenGroups(m) /\ (h # g => n.groups[h] = m.groups[h])
  BY <1>1, <1>2 DEF OpenGroups
<1>4. g \in OpenGroups(n) => x # None /\ n.groups[g] = x
  BY <1>1, <1>2 DEF OpenGroups
<1>5. \A h \in OpenGroups(m) : h # g => h \in OpenGroups(n)
  BY <1>1, <1>2 DEF OpenGroups
<1>6. x # None => g \in OpenGroups(n) /\ n.groups[g] = x
  BY <1>1, <1>2 DEF OpenGroups
<1>7. Filed(n)
  BY <1>3 DEF Filed
<1>8. \A d \in Held(m) : d.name \in K \/ d \in Held(n) \/ d.id \in SentIds(n)
  BY <1>3, <1>5, <1>6 DEF Held
<1>9. OthersTimed(m, g) /\ (x # None => HasTimer(x)) => AllTimed(n)
  BY <1>3, <1>4 DEF AllTimed, OthersTimed
<1>10. OthersTimed(m, g) => OthersTimed(n, g)
  BY <1>3 DEF OthersTimed
<1>11. QED
  BY <1>6, <1>7, <1>8, <1>9, <1>10 DEF Retains

\* deliverGroup: what the group holds is sent.
LEMMA DeliverKeeps ==
    ASSUME NEW m, Filed(m), NEW g \in OpenGroups(m)
    PROVE  /\ Retains(m, DeliverGroup(m, g), {})
           /\ OthersTimed(m, g) => AllTimed(DeliverGroup(m, g))
<1> DEFINE c == CleanupGroup(m, g)
           held == m.groups[g].completed
           n == Send(c, held, {})
<1>1. /\ Shaped(c) /\ SameButGroups(m, c)
      /\ c.groups = [m.groups EXCEPT ![g] = None]
      /\ c.sent = m.sent
  BY CleanupShape DEF Filed
<1>2. held \in SUBSET Delivery /\ {} \in SUBSET Name
  BY DEF OpenGroups, Filed, Shaped, Group
<1>3. n = DeliverGroup(m, g)
  BY DEF DeliverGroup
<1> HIDE DEF c, held
<1>4. /\ Shaped(n) /\ SameButGroups(c, n) /\ n.groups = c.groups
      /\ SentIds(n) = SentIds(c) \cup IdsOf(held)
  BY <1>1, <1>2, SendShape
<1>5. SentIds(c) = SentIds(m)
  BY <1>1 DEF SentIds
<1> HIDE DEF n
<1>6. \A d \in m.groups[g].completed : d.id \in SentIds(n)
  BY <1>4 DEF IdsOf, held
<1>7. n.batch = m.batch /\ n.nextBatch = m.nextBatch /\ SentIds(m) \subseteq SentIds(n)
      /\ n.groups = [m.groups EXCEPT ![g] = None]
  BY <1>1, <1>4, <1>5 DEF SameButGroups
<1>8. /\ Retains(m, n, {})
      /\ OthersTimed(m, g) => AllTimed(n)
  BY <1>4, <1>6, <1>7, RegroupRetains
<1>9. QED
  BY <1>3, <1>8

\* cleanupGroup, of a group that holds nothing.
LEMMA CleanupKeeps ==
    ASSUME NEW m, Filed(m), NEW g \in OpenGroups(m), m.groups[g].completed = {}
    PROVE  Keeps(m, CleanupGroup(m, g), {})
<1> DEFINE n == CleanupGroup(m, g)
<1>1. /\ Shaped(n) /\ SameButGroups(m, n)
      /\ n.groups = [m.groups EXCEPT ![g] = None]
      /\ n.sent = m.sent
  BY CleanupShape DEF Filed
<1>2. SentIds(m) \subseteq SentIds(n)
  BY <1>1 DEF SentIds
<1> HIDE DEF n
<1>3. n.batch = m.batch /\ n.nextBatch = m.nextBatch
  BY <1>1 DEF SameButGroups
<1>4. /\ Retains(m, n, {})
      /\ OthersTimed(m, g) => AllTimed(n)
  BY <1>1, <1>2, <1>3, RegroupRetains
<1>5. QED
  BY <1>4 DEF Keeps, AllTimed, OthersTimed, n

\* A group's handle is set.
LEMMA TimerKeeps ==
    ASSUME NEW m, Filed(m), NEW g \in OpenGroups(m), NEW timer \in {"running", "spent"}
    PROVE  /\ Retains(m, [m EXCEPT !.groups[g].timer = timer], {})
           /\ OthersTimed(m, g) => AllTimed([m EXCEPT !.groups[g].timer = timer])
<1> DEFINE x == [m.groups[g] EXCEPT !.timer = timer]
           gs == [m.groups EXCEPT ![g] = x]
           n == [m EXCEPT !.groups = gs]
<1>1. /\ g \in BatchId /\ m.groups[g] \in Group /\ m.groups[g] # None
      /\ m.groups \in [BatchId -> Group \cup {None}]
  BY DEF OpenGroups, Filed, Shaped
<1>2. x \in Group /\ x.completed = m.groups[g].completed /\ x.timer = timer
  BY <1>1 DEF Group
<1>3. gs \in [BatchId -> Group \cup {None}]
  BY <1>1, <1>2
<1>4. [m EXCEPT !.groups[g].timer = timer] = n
  BY DEF Filed, Shaped, Fields
<1>5. gs = [m.groups EXCEPT ![g] = x] /\ x # None /\ HasTimer(x)
  BY <1>2, RecordsAssumption DEF HasTimer
<1> HIDE DEF x, gs
<1>6. Shaped(n) /\ SameButGroups(m, n) /\ n.groups = gs /\ n.sent = m.sent
  BY <1>3 DEF Filed, Shaped, SameButGroups, Fields
<1> HIDE DEF n
<1>7. SentIds(m) \subseteq SentIds(n) /\ n.batch = m.batch /\ n.nextBatch = m.nextBatch
  BY <1>6 DEF SentIds, SameButGroups
<1>8. \A d \in m.groups[g].completed : d \in x.completed
  BY <1>2
<1>9. /\ Retains(m, n, {})
      /\ OthersTimed(m, g) => AllTimed(n)
  BY <1>2, <1>5, <1>6, <1>7, <1>8, RegroupRetains
<1>10. QED
  BY <1>4, <1>9

\* maybeDeliverCompletedGroup: afterwards a timer is set for what is held.
LEMMA MaybeDeliverKeeps ==
    ASSUME NEW m, Filed(m), NEW g \in OpenGroups(m)
    PROVE  /\ Retains(m, MaybeDeliverCompletedGroup(m, g), {})
           /\ OthersTimed(m, g) => AllTimed(MaybeDeliverCompletedGroup(m, g))
<1>1. Retains(m, m, {})
  BY DEF Retains
<1>2. HasTimer(m.groups[g]) => (OthersTimed(m, g) => AllTimed(m))
  BY DEF OthersTimed, AllTimed
<1>3. m.groups[g].completed = {} \/ m.groups[g].timer # "unset" => HasTimer(m.groups[g])
  BY DEF HasTimer
<1>4. QED
  BY <1>1, <1>2, <1>3, DeliverKeeps, TimerKeeps DEF MaybeDeliverCompletedGroup, StartGroupTimeout

\* onGroupTimeout: what the group holds is sent.
LEMMA OnGroupTimeoutKeeps ==
    ASSUME NEW m, Filed(m), NEW g \in OpenGroups(m)
    PROVE  Keeps(m, OnGroupTimeout(m, g), {})
<1> DEFINE held == m.groups[g].completed
           rest == m.groups[g].members \ NamesOf(held)
           go == [k \in Name |-> IF k \in NamesOf(held) THEN None ELSE m.groupOf[k]]
           x == Waiting(rest)
           gs == [m.groups EXCEPT ![g] = x]
           c == [[m EXCEPT !.groupOf = go] EXCEPT !.groups = gs]
           n == Send(c, held, rest)
<1>1. /\ g \in BatchId /\ m.groups[g] \in Group /\ m.groups[g] # None
      /\ m.groups \in [BatchId -> Group \cup {None}]
  BY DEF OpenGroups, Filed, Shaped
<1>2. held \in SUBSET Delivery /\ rest \in SUBSET Name
  BY <1>1 DEF Group
<1>3. x \in Group /\ x # None /\ x.completed = {} /\ HasTimer(x)
  BY <1>2, RecordsAssumption DEF Waiting, Group, HasTimer
<1>4. go \in [Name -> BatchId \cup {None}] /\ gs \in [BatchId -> Group \cup {None}]
  BY <1>1, <1>3 DEF Filed, Shaped
<1>5. OnGroupTimeout(m, g) =
          IF held = {} THEN [m EXCEPT !.groups[g].timer = "spent"]
          ELSE IF rest = {} THEN CleanupGroup(n, g) ELSE n
  BY DEF OnGroupTimeout, Ungroup, Filed, Shaped, Fields
<1> HIDE DEF go, gs, x
<1>6. Shaped(c) /\ SameButGroups(m, c) /\ c.groups = gs /\ c.sent = m.sent
  BY <1>4 DEF Filed, Shaped, SameButGroups, Fields
<1> HIDE DEF c, held, rest
<1>7. /\ Shaped(n) /\ SameButGroups(c, n) /\ n.groups = c.groups
      /\ SentIds(n) = SentIds(c) \cup IdsOf(held)
  BY <1>2, <1>6, SendShape
<1>8. SentIds(c) = SentIds(m)
  BY <1>6 DEF SentIds
<1> HIDE DEF n
<1>9. /\ n.groups = [m.groups EXCEPT ![g] = x] /\ n.batch = m.batch /\ n.nextBatch = m.nextBatch
      /\ SentIds(m) \subseteq SentIds(n)
      /\ \A d \in m.groups[g].completed : d.id \in SentIds(n)
  BY <1>6, <1>7, <1>8 DEF SameButGroups, IdsOf, held, gs
<1>10. /\ Retains(m, n, {}) /\ g \in OpenGroups(n) /\ n.groups[g] = x
       /\ OthersTimed(m, g) => AllTimed(n)
  <2> DEFINE K == {}
  <2>1. x \in Group \cup {None} /\ x # None /\ HasTimer(x) /\ Shaped(n)
    BY <1>3, <1>7
  <2>2. \A d \in m.groups[g].completed :
            d.name \in K \/ d.id \in SentIds(n) \/ (x # None /\ d \in x.completed)
    BY <1>9
  <2>3. /\ n.groups = [m.groups EXCEPT ![g] = x]
        /\ n.batch = m.batch /\ n.nextBatch = m.nextBatch /\ SentIds(m) \subseteq SentIds(n)
    BY <1>9
  <2> HIDE DEF K
  <2>4. Retains(m, n, K)
    BY <2>1, <2>2, <2>3, RegroupRetains
  <2>5. g \in OpenGroups(n) /\ n.groups[g] = x
    BY <1>1, <2>1, <2>3 DEF OpenGroups
  <2>6. OthersTimed(m, g) => AllTimed(n)
    BY <2>1, <2>2, <2>3, RegroupRetains
  <2>7. QED
    BY <2>4, <2>5, <2>6 DEF K
<1>11. Keeps(m, n, {})
  BY <1>10 DEF Keeps, AllTimed, OthersTimed
<1>12. Keeps(n, CleanupGroup(n, g), {})
  BY <1>3, <1>10, CleanupKeeps DEF Retains
<1>13. Keeps(m, CleanupGroup(n, g), {})
  BY <1>11, <1>12, KeepsIsTransitive
<1>14. Keeps(m, [m EXCEPT !.groups[g].timer = "spent"], {})
  BY TimerKeeps DEF Keeps, AllTimed, OthersTimed
<1>15. QED
  BY <1>5, <1>11, <1>13, <1>14

\* A group without its member k: only a report of k is dropped.
LEMMA ShrinkKeeps ==
    ASSUME NEW m, Filed(m), NEW k \in Name, m.groupOf[k] \in OpenGroups(m)
    PROVE  LET n == ShrinkGroup(m, m.groupOf[k], k)
           IN  Keeps(m, n, {k}) /\ m.groupOf[k] \in OpenGroups(n)
<1> DEFINE g == m.groupOf[k]
           old == m.groups[g]
           x == [old EXCEPT !.members = old.members \ {k},
                            !.completed = old.completed \ Named(old.completed, k)]
           gs == [m.groups EXCEPT ![g] = x]
           go == [m.groupOf EXCEPT ![k] = None]
           n == ShrinkGroup(m, g, k)
<1>1. /\ g \in BatchId /\ old \in Group /\ old # None
      /\ m.groups \in [BatchId -> Group \cup {None}]
      /\ m.groupOf \in [Name -> BatchId \cup {None}]
  BY DEF OpenGroups, Filed, Shaped
<1>2. /\ x \in Group /\ x.timer = old.timer /\ x.completed = old.completed \ Named(old.completed, k)
  BY <1>1 DEF Group
<1>3. gs \in [BatchId -> Group \cup {None}] /\ go \in [Name -> BatchId \cup {None}]
  BY <1>1, <1>2
<1>4. n = [[m EXCEPT !.groups = gs] EXCEPT !.groupOf = go]
  <2>1. Shaped(m)
    BY DEF Filed
  <2>2. QED
    BY <1>1, <2>1 DEF ShrinkGroup, Shaped, Fields
<1>5. gs = [m.groups EXCEPT ![g] = x] /\ x # None
  BY <1>2, RecordsAssumption
<1> HIDE DEF x, gs, go, n
<1>6. /\ Shaped(n) /\ n.groups = gs /\ n.sent = m.sent
      /\ n.batch = m.batch /\ n.nextBatch = m.nextBatch
  BY <1>3, <1>4 DEF Filed, Shaped, Fields
<1>7. SentIds(m) \subseteq SentIds(n)
  BY <1>6 DEF SentIds
<1>8. \A d \in m.groups[g].completed :
          d.name \in {k} \/ d.id \in SentIds(n) \/ (x # None /\ d \in x.completed)
  BY <1>2, <1>5 DEF Named
<1>9. HasTimer(old) => HasTimer(x)
  BY <1>2 DEF HasTimer
<1>10. x \in Group \cup {None} /\ n.groups = [m.groups EXCEPT ![g] = x] /\ g \in OpenGroups(m)
  BY <1>2, <1>5, <1>6
<1> HIDE DEF g
<1>11. Retains(m, n, {k}) /\ (OthersTimed(m, g) /\ (x # None => HasTimer(x)) => AllTimed(n))
  BY ONLY <1>6, <1>7, <1>8, <1>10, Filed(m), RegroupRetains
<1>12. AllTimed(m) => OthersTimed(m, g) /\ HasTimer(x)
  BY <1>9, <1>10 DEF AllTimed, OthersTimed
<1>13. g \in OpenGroups(n)
  BY <1>1, <1>5, <1>10 DEF OpenGroups
<1>14. QED
  BY <1>11, <1>12, <1>13 DEF Keeps, n, g

\* Clearing the group of k leaves the groups alone.
LEMMA UngroupKeeps ==
    ASSUME NEW m, Filed(m), NEW k
    PROVE  Keeps(m, Ungroup(m, {k}), {})
<1> DEFINE go == [j \in Name |-> IF j \in {k} THEN None ELSE m.groupOf[j]]
           n == [m EXCEPT !.groupOf = go]
<1>1. go \in [Name -> BatchId \cup {None}]
  BY DEF Filed, Shaped
<1>2. Ungroup(m, {k}) = n
  BY DEF Ungroup, Filed, Shaped, Fields
<1> HIDE DEF go
<1>3. /\ Shaped(n) /\ n.groups = m.groups /\ n.batch = m.batch /\ n.nextBatch = m.nextBatch
      /\ n.sent = m.sent
  BY <1>1 DEF Filed, Shaped, Fields
<1> HIDE DEF n
<1>4. SentIds(m) \subseteq SentIds(n)
  BY <1>3 DEF SentIds
<1>5. QED
  BY <1>2, <1>3, <1>4, SameGroupsKeeps

\* removeKeyFromGroup: only a report of k is dropped.
LEMMA RemoveKeyFromGroupKeeps ==
    ASSUME NEW m, Filed(m), NEW k \in Name
    PROVE  Keeps(m, RemoveKeyFromGroup(m, k), {k})
<1> DEFINE g == m.groupOf[k]
           s == ShrinkGroup(m, g, k)
           n == RemoveKeyFromGroup(m, k)
<1>1. CASE g = None
  BY <1>1, KeepsSelf, KeepsMore DEF RemoveKeyFromGroup
<1>2. CASE g # None /\ m.groups[g] = None
  <2>1. n = Ungroup(m, {k})
    BY <1>2 DEF RemoveKeyFromGroup
  <2>2. Keeps(m, Ungroup(m, {k}), {})
    BY UngroupKeeps
  <2> HIDE DEF n
  <2>3. Keeps(m, n, {k})
    BY <2>1, <2>2, KeepsMore
  <2>4. QED
    BY <2>3 DEF n
<1>3. CASE g # None /\ m.groups[g] # None
  <2>1. g \in OpenGroups(m)
    BY <1>3 DEF OpenGroups, Filed, Shaped
  <2>2. Keeps(m, s, {k}) /\ g \in OpenGroups(s)
    BY <2>1, ShrinkKeeps
  <2>3. \/ n = CleanupGroup(s, g) /\ s.groups[g].completed = {}
        \/ n = DeliverGroup(s, g)
        \/ n = MaybeDeliverCompletedGroup(s, g)
    BY <1>3 DEF RemoveKeyFromGroup, DissolveGroup
  <2> HIDE DEF s, g, n
  <2>4. Filed(s)
    BY <2>2 DEF Keeps, Retains
  <2>5. AllTimed(s) => OthersTimed(s, g)
    BY DEF AllTimed, OthersTimed
  <2>6. Keeps(s, n, {})
    <3>1. CASE n = CleanupGroup(s, g) /\ s.groups[g].completed = {}
      BY <2>2, <2>4, <3>1, CleanupKeeps
    <3>2. CASE n = DeliverGroup(s, g)
      BY <2>2, <2>4, <2>5, <3>2, DeliverKeeps DEF Keeps
    <3>3. CASE n = MaybeDeliverCompletedGroup(s, g)
      BY <2>2, <2>4, <2>5, <3>3, MaybeDeliverKeeps DEF Keeps
    <3>4. QED
      BY <2>3, <3>1, <3>2, <3>3
  <2>7. Keeps(s, n, {k})
    BY <2>6, KeepsMore
  <2>8. Keeps(m, n, {k})
    BY <2>2, <2>7, KeepsIsTransitive
  <2>9. QED
    BY <2>8 DEF n
<1>4. QED
  BY <1>1, <1>2, <1>3

----------------------------------------------------------------------------
(* The batch.                                                              *)

\* removeKeyFromBatch.
LEMMA UnbatchKeeps ==
    ASSUME NEW m, Filed(m), NEW k \in Name
    PROVE  /\ Keeps(m, RemoveKeyFromBatch(m, k), {})
           /\ ~InBatch(m, k) => RemoveKeyFromBatch(m, k).batch = m.batch
           /\ RemoveKeyFromBatch(m, k).nextBatch = m.nextBatch
<1>1. CASE ~InBatch(m, k)
  BY <1>1, KeepsSelf DEF RemoveKeyFromBatch
<1>2. CASE InBatch(m, k)
  <2> DEFINE rest == m.batch.keys \ {k}
             x == IF rest = {} THEN None ELSE [id |-> m.batch.id, keys |-> rest]
             n == [m EXCEPT !.batch = x]
  <2>1. RemoveKeyFromBatch(m, k) = n
    BY <1>2 DEF RemoveKeyFromBatch
  <2>2. m.batch \in Batch /\ m.batch # None
    BY <1>2 DEF InBatch, Filed, Shaped
  <2>3. x \in Batch \cup {None} /\ (x # None => x.id = m.batch.id)
    BY <2>2 DEF Batch
  <2> HIDE DEF x
  <2>4. /\ Shaped(n) /\ n.batch = x /\ n.groups = m.groups /\ n.nextBatch = m.nextBatch
        /\ n.sent = m.sent
    BY <2>3 DEF Filed, Shaped, Fields
  <2> HIDE DEF n
  <2>5. OpenGroups(n) = OpenGroups(m)
    BY <2>4 DEF OpenGroups
  <2>6. Held(n) = Held(m) /\ SentIds(n) = SentIds(m) /\ (AllTimed(m) => AllTimed(n))
    BY <2>4, <2>5 DEF Held, SentIds, AllTimed
  <2>7. Filed(n)
    BY <2>2, <2>3, <2>4, <2>5 DEF Filed
  <2>8. QED
    BY <1>2, <2>1, <2>4, <2>6, <2>7 DEF Keeps, Retains
<1>3. QED
  BY <1>1, <1>2

LEMMA LeaveKeeps ==
    ASSUME NEW m, Filed(m), NEW k \in Name
    PROVE  Keeps(m, Leave(m, k), {k})
<1> DEFINE b == RemoveKeyFromBatch(m, k)
<1>1. Keeps(m, b, {k})
  BY UnbatchKeeps, KeepsMore
<1> HIDE DEF b
<1>2. Keeps(b, RemoveKeyFromGroup(b, k), {k})
  BY <1>1, RemoveKeyFromGroupKeeps DEF Keeps, Retains
<1>3. Keeps(m, RemoveKeyFromGroup(b, k), {k})
  BY <1>1, <1>2, KeepsIsTransitive
<1>4. QED
  BY <1>3 DEF Leave, b

\* addKeyToBatch.
LEMMA AddKeyToBatchKeeps ==
    ASSUME NEW m, Filed(m), NEW k \in Name, MayOpenBatch(m)
    PROVE  Keeps(m, AddKeyToBatch(m, k), {})
<1> DEFINE x == IF m.batch = None THEN [id |-> m.nextBatch, keys |-> {k}]
                ELSE [id |-> m.batch.id, keys |-> m.batch.keys \cup {k}]
           nb == IF m.batch = None THEN m.nextBatch + 1 ELSE m.nextBatch
           n == [[m EXCEPT !.batch = x] EXCEPT !.nextBatch = nb]
<1>1. m.batch # None => m.batch \in Batch
  BY DEF Filed, Shaped
<1>2. m.nextBatch \in Nat
  BY DEF Filed, Shaped
<1>3. AddKeyToBatch(m, k) = n
  <2>1. CASE m.batch = None
    BY <2>1 DEF AddKeyToBatch, Filed, Shaped, Fields
  <2>2. CASE m.batch # None
    <3>1. [m.batch EXCEPT !.keys = @ \cup {k}] = x
      BY <1>1, <2>2 DEF Batch
    <3>2. AddKeyToBatch(m, k) = [m EXCEPT !.batch = x]
      BY <2>2, <3>1 DEF AddKeyToBatch, Filed, Shaped, Fields
    <3>3. QED
      BY <2>2, <3>2 DEF Filed, Shaped, Fields
  <2>3. QED
    BY <2>1, <2>2
<1>4. /\ x \in Batch /\ x # None /\ nb \in Nat
      /\ x.id < nb /\ x.id \notin OpenGroups(m) /\ m.nextBatch <= nb
  BY <1>1, <1>2, RecordsAssumption DEF Batch, MayOpenBatch, Filed
<1> HIDE DEF x, nb
<1>5. /\ Shaped(n) /\ n.batch = x /\ n.groups = m.groups /\ n.nextBatch = nb
      /\ n.sent = m.sent
  BY <1>4 DEF Filed, Shaped, Fields
<1> HIDE DEF n
<1>6. OpenGroups(n) = OpenGroups(m)
  BY <1>5 DEF OpenGroups
<1>7. Held(n) = Held(m) /\ SentIds(n) = SentIds(m) /\ (AllTimed(m) => AllTimed(n))
  BY <1>5, <1>6 DEF Held, SentIds, AllTimed
<1>8. \A g \in OpenGroups(n) : g < n.nextBatch
  <2> SUFFICES ASSUME NEW g \in OpenGroups(n) PROVE g < n.nextBatch
    OBVIOUS
  <2>1. g < m.nextBatch /\ g \in Nat
    BY <1>6, ConstantsAssumption DEF Filed, OpenGroups
  <2>2. QED
    BY <1>2, <1>4, <1>5, <2>1
<1>9. Filed(n)
  BY <1>4, <1>5, <1>6, <1>8 DEF Filed
<1>10. QED
  BY <1>3, <1>7, <1>9 DEF Keeps, Retains

\* finalizeBatch: the new group holds nothing.
LEMMA FinalizeBatchKeeps ==
    ASSUME NEW m, Filed(m), m.batch # None
    PROVE  Keeps(m, FinalizeBatch(m), {})
<1> DEFINE id == m.batch.id
           keys == m.batch.keys
<1>1. /\ id \in BatchId /\ keys \in SUBSET Name /\ id \notin OpenGroups(m)
      /\ id < m.nextBatch /\ m.groups[id] = None
  BY DEF Filed, Shaped, Batch, OpenGroups
<1>2. CASE AtMostOne(keys)
  <2> DEFINE n == [m EXCEPT !.batch = None]
  <2>1. FinalizeBatch(m) = n
    BY <1>2 DEF FinalizeBatch
  <2>2. /\ Shaped(n) /\ n.batch = None /\ n.groups = m.groups /\ n.nextBatch = m.nextBatch
        /\ n.sent = m.sent
    BY DEF Filed, Shaped, Fields
  <2> HIDE DEF n
  <2>3. OpenGroups(n) = OpenGroups(m)
    BY <2>2 DEF OpenGroups
  <2>4. Held(n) = Held(m) /\ SentIds(n) = SentIds(m) /\ (AllTimed(m) => AllTimed(n))
    BY <2>2, <2>3 DEF Held, SentIds, AllTimed
  <2>5. Filed(n)
    BY <2>2, <2>3 DEF Filed
  <2>6. QED
    BY <2>1, <2>4, <2>5 DEF Keeps, Retains
<1>3. CASE ~AtMostOne(keys)
  <2> DEFINE x == Waiting(keys)
             gs == [m.groups EXCEPT ![id] = x]
             go == [k \in Name |-> IF k \in keys THEN id ELSE m.groupOf[k]]
             n == [[[m EXCEPT !.batch = None] EXCEPT !.groups = gs] EXCEPT !.groupOf = go]
  <2>1. FinalizeBatch(m) = n
    BY <1>3 DEF FinalizeBatch, Filed, Shaped, Fields
  <2>2. x \in Group /\ x # None /\ x.completed = {} /\ HasTimer(x)
    BY <1>1, RecordsAssumption DEF Waiting, Group, HasTimer
  <2>3. /\ gs \in [BatchId -> Group \cup {None}]
        /\ \A g \in BatchId : gs[g] = IF g = id THEN x ELSE m.groups[g]
        /\ go \in [Name -> BatchId \cup {None}]
    BY <1>1, <2>2 DEF Filed, Shaped
  <2> HIDE DEF x, gs, go
  <2>4. /\ Shaped(n) /\ n.batch = None /\ n.groups = gs /\ n.nextBatch = m.nextBatch
        /\ n.sent = m.sent
    BY <2>3 DEF Filed, Shaped, Fields
  <2> HIDE DEF n
  <2>5. OpenGroups(n) = OpenGroups(m) \cup {id}
    BY <1>1, <2>2, <2>3, <2>4 DEF OpenGroups
  <2>6. n.groups[id] = x /\ \A g \in OpenGroups(m) : g # id /\ n.groups[g] = m.groups[g]
    BY <1>1, <2>3, <2>4 DEF OpenGroups
  <2>7. Held(n) = Held(m)
    BY <2>2, <2>5, <2>6 DEF Held
  <2>8. SentIds(n) = SentIds(m)
    BY <2>4 DEF SentIds
  <2>9. Filed(n)
    BY <1>1, <2>4, <2>5 DEF Filed
  <2>10. AllTimed(m) => AllTimed(n)
    BY <2>2, <2>5, <2>6 DEF AllTimed
  <2>11. QED
    BY <2>1, <2>7, <2>8, <2>9, <2>10 DEF Keeps, Retains
<1>4. QED
  BY <1>2, <1>3

----------------------------------------------------------------------------
(* Completions.                                                            *)

\* A report that a group holds or a message has brought.
Handed(m, d) == d \in Held(m) \/ d.id \in SentIds(m)

LEMMA HandedStays ==
    ASSUME NEW m, NEW n, NEW K, Keeps(m, n, K), NEW d, Handed(m, d), d.name \notin K
    PROVE  Handed(n, d)
  BY DEF Keeps, Retains, Handed

\* A group holds the report in the place of an older one of its subagent.
LEMMA HoldKeeps ==
    ASSUME NEW m, Filed(m), NEW d \in Delivery, NEW g \in OpenGroups(m)
    PROVE  LET n == Hold(m, g, d)
           IN  /\ Retains(m, n, {d.name}) /\ d \in Held(n) /\ g \in OpenGroups(n)
               /\ OthersTimed(m, g) => OthersTimed(n, g)
<1> DEFINE k == d.name
           old == m.groups[g]
           kept == old.completed \ Named(old.completed, k)
           x == [old EXCEPT !.completed = kept \cup {d}]
           gs == [m.groups EXCEPT ![g] = x]
           n == [m EXCEPT !.groups = gs]
           K == {k}
<1>1. /\ g \in BatchId /\ old \in Group /\ old # None
      /\ m.groups \in [BatchId -> Group \cup {None}]
  BY DEF OpenGroups, Filed, Shaped
<1>2. x \in Group /\ x # None /\ x.completed = kept \cup {d}
  BY <1>1, RecordsAssumption DEF Group
<1>3. gs \in [BatchId -> Group \cup {None}]
  BY <1>1, <1>2
<1>4. Hold(m, g, d) = n
  BY DEF Hold, Filed, Shaped, Fields
<1>5. \A e \in old.completed : e.name \in K \/ e \in kept
  BY DEF Named
<1>6. gs = [m.groups EXCEPT ![g] = x]
  OBVIOUS
<1> HIDE DEF x, gs, kept, K
<1>7. /\ Shaped(n) /\ n.groups = gs /\ n.batch = m.batch /\ n.nextBatch = m.nextBatch
      /\ n.sent = m.sent
  BY <1>3 DEF Filed, Shaped, Fields
<1> HIDE DEF n
<1>8. SentIds(m) \subseteq SentIds(n)
  BY <1>7 DEF SentIds
<1>9. \A e \in m.groups[g].completed :
          e.name \in K \/ e.id \in SentIds(n) \/ (x # None /\ e \in x.completed)
  BY <1>2, <1>5
<1>10. x \in Group \cup {None} /\ n.groups = [m.groups EXCEPT ![g] = x]
  BY <1>2, <1>6, <1>7
<1>11. Retains(m, n, K)
  BY <1>7, <1>8, <1>9, <1>10, RegroupRetains
<1>12. OthersTimed(m, g) => OthersTimed(n, g)
  BY <1>2, <1>7, <1>8, <1>9, <1>10, RegroupRetains
<1>13. g \in OpenGroups(n) /\ n.groups[g] = x
  BY <1>1, <1>2, <1>10 DEF OpenGroups
<1>14. d \in Held(n)
  BY <1>2, <1>13 DEF Held
<1>15. QED
  BY <1>4, <1>11, <1>12, <1>13, <1>14 DEF K

\* Sending a report.
LEMMA SendKeeps ==
    ASSUME NEW m, Filed(m), NEW d \in Delivery
    PROVE  Keeps(m, Send(m, {d}, {}), {}) /\ Handed(Send(m, {d}, {}), d)
<1> DEFINE n == Send(m, {d}, {})
<1>1. {d} \in SUBSET Delivery /\ {} \in SUBSET Name
  OBVIOUS
<1>2. /\ Shaped(n) /\ SameButGroups(m, n) /\ n.groups = m.groups
      /\ SentIds(n) = SentIds(m) \cup IdsOf({d})
  BY <1>1, SendShape DEF Filed
<1> HIDE DEF n
<1>3. Keeps(m, n, {})
  BY <1>2, SameGroupsKeeps DEF SameButGroups
<1>4. d.id \in SentIds(n)
  BY <1>2 DEF IdsOf
<1>5. QED
  BY <1>3, <1>4 DEF Handed, n

\* processCompletion: the report is held or sent.
LEMMA ProcessCompletionKeeps ==
    ASSUME NEW m, Filed(m), NEW d \in Delivery
    PROVE  Keeps(m, ProcessCompletion(m, d), {d.name}) /\ Handed(ProcessCompletion(m, d), d)
<1> DEFINE k == d.name
           K == {k}
           rd == [m.ready EXCEPT ![k] = d]
           noted == [m EXCEPT !.ready = rd]
           closed == IF InBatch(noted, k) THEN FinalizeBatch(noted) ELSE noted
           w == [closed.watchers EXCEPT ![k] = None]
           done == [closed EXCEPT !.watchers = w]
           g == done.groupOf[k]
           n == ProcessCompletion(m, d)
<1>1. k \in Name
  BY DEF Delivery
<1>2. Keeps(m, noted, {})
  <2>1. rd \in [Name -> Delivery \cup {None}]
    BY <1>1 DEF Filed, Shaped
  <2> HIDE DEF rd
  <2>2. /\ Shaped(noted) /\ noted.groups = m.groups /\ noted.batch = m.batch
        /\ noted.nextBatch = m.nextBatch /\ noted.sent = m.sent
    BY <2>1 DEF Filed, Shaped, Fields
  <2> HIDE DEF noted
  <2>3. SentIds(m) \subseteq SentIds(noted)
    BY <2>2 DEF SentIds
  <2>4. QED
    BY <2>2, <2>3, SameGroupsKeeps
<1>3. n = IF g = None THEN Send(done, {d}, {})
          ELSE IF done.groups[g] = None THEN Send(Ungroup(done, {k}), {d}, {})
          ELSE MaybeDeliverCompletedGroup(Hold(done, g, d), g)
  BY DEF ProcessCompletion
<1> HIDE DEF noted, n
<1>4. Keeps(noted, closed, {})
  BY <1>2, KeepsSelf, FinalizeBatchKeeps DEF InBatch, Keeps, Retains
<1> HIDE DEF closed
<1>5. Keeps(closed, done, {})
  <2>1. w \in [Name -> Slot \cup {None}]
    BY <1>1, <1>4 DEF Keeps, Retains, Filed, Shaped
  <2> HIDE DEF w
  <2>2. /\ Shaped(done) /\ done.groups = closed.groups /\ done.batch = closed.batch
        /\ done.nextBatch = closed.nextBatch /\ done.sent = closed.sent
    BY <1>4, <2>1 DEF Keeps, Retains, Filed, Shaped, Fields
  <2> HIDE DEF done
  <2>3. SentIds(closed) \subseteq SentIds(done)
    BY <2>2 DEF SentIds
  <2>4. QED
    BY <1>4, <2>2, <2>3, SameGroupsKeeps DEF Keeps, Retains
<1> HIDE DEF done
<1>6. Keeps(m, done, {})
  BY <1>2, <1>4, <1>5, KeepsIsTransitive
<1>7. Filed(done)
  BY <1>6 DEF Keeps, Retains
<1>8. Keeps(done, n, K) /\ Handed(n, d)
  <2>1. CASE g = None
    <3>1. Keeps(done, n, {}) /\ Handed(n, d)
      BY <1>3, <1>7, <2>1, SendKeeps
    <3>2. QED
      BY <3>1, KeepsMore
  <2>2. CASE g # None /\ done.groups[g] = None
    <3> DEFINE u == Ungroup(done, {k})
    <3>1. Keeps(done, u, {})
      BY <1>7, UngroupKeeps
    <3>2. n = Send(u, {d}, {})
      BY <1>3, <2>2
    <3> HIDE DEF u
    <3>3. Keeps(u, n, {}) /\ Handed(n, d)
      BY <3>1, <3>2, SendKeeps DEF Keeps, Retains
    <3>4. Keeps(done, n, {})
      BY <3>1, <3>3, KeepsIsTransitive
    <3>5. QED
      BY <3>3, <3>4, KeepsMore
  <2>3. CASE g # None /\ done.groups[g] # None
    <3> DEFINE h == Hold(done, g, d)
    <3>1. g \in OpenGroups(done)
      BY <1>1, <1>7, <2>3 DEF OpenGroups, Filed, Shaped
    <3>2. /\ Retains(done, h, K) /\ d \in Held(h) /\ g \in OpenGroups(h)
          /\ OthersTimed(done, g) => OthersTimed(h, g)
      BY <1>7, <3>1, HoldKeeps
    <3>3. n = MaybeDeliverCompletedGroup(h, g)
      BY <1>3, <2>3
    <3> HIDE DEF h, g, K
    <3>4. Retains(h, n, {}) /\ (OthersTimed(h, g) => AllTimed(n))
      BY <3>2, <3>3, MaybeDeliverKeeps DEF Retains
    <3>5. Retains(done, n, K)
      BY <3>2, <3>4 DEF Retains
    <3>6. AllTimed(done) => AllTimed(n)
      BY <3>2, <3>4 DEF AllTimed, OthersTimed
    <3>7. Handed(n, d)
      BY <3>2, <3>4 DEF Retains, Handed
    <3>8. QED
      BY <3>5, <3>6, <3>7 DEF Keeps
  <2>4. QED
    BY <2>1, <2>2, <2>3
<1>9. Keeps(m, done, K)
  BY <1>6, KeepsMore
<1>10. Keeps(m, n, K)
  BY <1>8, <1>9, KeepsIsTransitive
<1>11. QED
  BY <1>8, <1>10 DEF n, K

----------------------------------------------------------------------------
(* Results.                                                                *)

\* The watcher of its subagent takes the result r.
TakesUp(m, n, r) ==
    /\ n.watchers = [m.watchers EXCEPT ![r.name] = None]
    /\ n.seen = m.seen \cup {r.id}
    /\ n.doneArms = IF r.arm = None THEN m.doneArms ELSE m.doneArms \cup {r.arm}
    /\ Keeps(m, n, {r.name})
    /\ Handed(n, DeliveryOf(r))

\* consumeResult.
LEMMA ConsumeResultKeeps ==
    ASSUME NEW m, Filed(m), NEW r \in Result
    PROVE  TakesUp(m, ConsumeResult(m, r), r) /\ ConsumeResult(m, r).early = m.early
<1> DEFINE d == DeliveryOf(r)
           arms == IF r.arm = None THEN m.doneArms ELSE m.doneArms \cup {r.arm}
           c == [m EXCEPT !.seen = m.seen \cup {r.id}, !.doneArms = arms]
           n == ConsumeResult(m, r)
<1>1. d \in Delivery /\ d.name = r.name
  BY DEF DeliveryOf, Delivery, Result
<1>2. n = ProcessCompletion(c, d) /\ DOMAIN m = Fields
  BY DEF ConsumeResult, Filed, Shaped, Fields
<1>3. /\ n.watchers = [m.watchers EXCEPT ![r.name] = None]
      /\ n.seen = m.seen \cup {r.id}
      /\ n.early = m.early
      /\ n.doneArms = arms
  BY <1>2, ConsumeResultWatch
<1> HIDE DEF n, arms, d
<1>4. /\ Shaped(c) /\ c.groups = m.groups /\ c.batch = m.batch
      /\ c.nextBatch = m.nextBatch /\ c.sent = m.sent
  BY DEF Filed, Shaped, Fields
<1> HIDE DEF c
<1>5. SentIds(m) \subseteq SentIds(c)
  BY <1>4 DEF SentIds
<1>6. Keeps(m, c, {})
  BY <1>4, <1>5, SameGroupsKeeps
<1>7. Keeps(c, n, {r.name}) /\ Handed(n, d)
  BY <1>1, <1>2, <1>6, ProcessCompletionKeeps DEF Keeps, Retains
<1>8. Keeps(m, c, {r.name})
  BY <1>6, KeepsMore
<1>9. Keeps(m, n, {r.name})
  BY <1>7, <1>8, KeepsIsTransitive
<1>10. QED
  BY <1>3, <1>7, <1>9 DEF TakesUp, n, arms, d

\* Nothing of what is watched changes but the early results.
Passes(m, n) ==
    /\ Keeps(m, n, {})
    /\ n.watchers = m.watchers
    /\ n.seen = m.seen
    /\ n.doneArms = m.doneArms

\* Setting a watcher, or a buffer of early results, leaves the groups alone.
LEMMA WatcherKeeps ==
    ASSUME NEW m, Filed(m), NEW k \in Name, NEW x \in Slot \cup {None}
    PROVE  LET n == WithWatcher(m, k, x)
           IN  /\ Keeps(m, n, {})
               /\ n.watchers = [m.watchers EXCEPT ![k] = x]
               /\ n.seen = m.seen /\ n.early = m.early /\ n.doneArms = m.doneArms
               /\ n.batch = m.batch /\ n.nextBatch = m.nextBatch /\ n.groupOf = m.groupOf
<1> DEFINE w == [m.watchers EXCEPT ![k] = x]
           n == [m EXCEPT !.watchers = w]
<1>1. w \in [Name -> Slot \cup {None}]
  BY DEF Filed, Shaped
<1>2. WithWatcher(m, k, x) = n
  BY DEF WithWatcher, Filed, Shaped, Fields
<1> HIDE DEF w
<1>3. /\ Shaped(n) /\ n.groups = m.groups /\ n.batch = m.batch /\ n.nextBatch = m.nextBatch
      /\ n.sent = m.sent /\ n.watchers = w /\ n.groupOf = m.groupOf
      /\ n.seen = m.seen /\ n.early = m.early /\ n.doneArms = m.doneArms
  BY <1>1 DEF Filed, Shaped, Fields
<1> HIDE DEF n
<1>4. SentIds(m) \subseteq SentIds(n)
  BY <1>3 DEF SentIds
<1>5. Keeps(m, n, {})
  BY <1>3, <1>4, SameGroupsKeeps
<1>6. QED
  BY <1>2, <1>3, <1>5 DEF w

LEMMA EarlyKeeps ==
    ASSUME NEW m, Filed(m), NEW k \in Name, NEW q
    PROVE  LET n == WithEarly(m, k, q)
           IN  Passes(m, n) /\ n.early = [m.early EXCEPT ![k] = q]
<1> DEFINE e == [m.early EXCEPT ![k] = q]
           n == [m EXCEPT !.early = e]
<1>1. WithEarly(m, k, q) = n
  BY DEF WithEarly, Filed, Shaped, Fields
<1> HIDE DEF e
<1>2. /\ Shaped(n) /\ n.groups = m.groups /\ n.batch = m.batch /\ n.nextBatch = m.nextBatch
      /\ n.sent = m.sent /\ n.early = e
      /\ n.watchers = m.watchers /\ n.seen = m.seen /\ n.doneArms = m.doneArms
  BY DEF Filed, Shaped, Fields
<1> HIDE DEF n
<1>3. SentIds(m) \subseteq SentIds(n)
  BY <1>2 DEF SentIds
<1>4. Keeps(m, n, {})
  BY <1>2, <1>3, SameGroupsKeeps
<1>5. QED
  BY <1>1, <1>2, <1>4 DEF Passes, e

\* processExternalResult.
LEMMA ProcessExternalKeeps ==
    ASSUME NEW m, Filed(m), NEW r \in Result
    PROVE  LET n == ProcessExternalResult(m, r)
           IN  /\ Consumes(m, r) => TakesUp(m, n, r) /\ n.early = m.early
               /\ ~Consumes(m, r) => Passes(m, n)
<1>1. CASE Consumes(m, r)
  BY <1>1, ConsumeResultKeeps DEF ProcessExternalResult
<1>2. CASE ~Consumes(m, r)
  <2> DEFINE q == LastOf(Append(m.early[r.name], r), PendingLimit)
             n == WithEarly(m, r.name, q)
  <2>1. ProcessExternalResult(m, r) \in {m, n}
    BY <1>2 DEF ProcessExternalResult, QueueEarly, WithEarly
  <2>2. r.name \in Name
    BY DEF Result
  <2>3. Passes(m, n)
    BY <2>2, EarlyKeeps
  <2>4. Passes(m, m)
    BY KeepsSelf DEF Passes
  <2>5. QED
    BY <1>2, <2>1, <2>3, <2>4
<1>3. QED
  BY <1>1, <1>2

\* The early results are offered: the watcher takes one of them, or none.
LEMMA DrainEarlyKeeps ==
    ASSUME NEW m, Filed(m), NEW k \in Name, m.early[k] \in Seq(Result),
           \A r \in Items(m.early[k]) : r.name = k
    PROVE  LET n == DrainEarly(m, k)
           IN  \/ \E r \in Items(m.early[k]) : Consumes(m, r) /\ TakesUp(m, n, r)
               \/ /\ \A r \in Items(m.early[k]) : ~Consumes(m, r)
                  /\ Passes(m, n)
                  /\ n.early = [m.early EXCEPT ![k] = Retained(m, m.early[k])]
<1> DEFINE q == m.early[k]
           hits == {i \in DOMAIN q : Consumes(m, q[i])}
           first == CHOOSE i \in hits : \A j \in hits : i <= j
           n == DrainEarly(m, k)
<1>1. q \in Seq(Result) /\ Len(q) \in Nat /\ DOMAIN q = 1..Len(q)
  OBVIOUS
<1>2. CASE hits = {}
  <2>1. n = WithEarly(m, k, Retained(m, q))
    BY <1>2 DEF DrainEarly, WithEarly
  <2>2. \A r \in Items(q) : ~Consumes(m, r)
    BY <1>2 DEF Items
  <2> HIDE DEF n, hits
  <2>3. Passes(m, n) /\ n.early = [m.early EXCEPT ![k] = Retained(m, q)]
    BY <2>1, EarlyKeeps
  <2>4. QED
    BY <2>2, <2>3 DEF n
<1>3. CASE hits # {}
  <2> DEFINE rest == Retained(m, SubSeq(q, 1, first - 1)) \o SubSeq(q, first + 1, Len(q))
             e == WithEarly(m, k, rest)
             r == q[first]
  <2>1. \E i \in hits : \A j \in hits : i <= j
    <3>1. hits \subseteq Nat
      BY <1>1
    <3> HIDE DEF hits
    <3>2. QED
      BY <1>3, <3>1, LeastNumber
  <2>2. first \in hits
    <3> HIDE DEF hits
    <3>1. QED
      BY <2>1
  <2>3. first \in 1..Len(q) /\ Consumes(m, r) /\ r \in Items(q)
    BY <1>1, <2>2 DEF Items
  <2>4. n = ConsumeResult(e, r)
    BY <1>3 DEF DrainEarly, WithEarly
  <2> HIDE DEF first, hits, rest, n
  <2>5. Passes(m, e)
    BY EarlyKeeps
  <2> HIDE DEF e
  <2>6. Filed(e) /\ r \in Result /\ r.name = k
    BY <1>1, <2>3, <2>5 DEF Passes, Keeps, Retains
  <2> HIDE DEF r
  <2>7. TakesUp(e, n, r)
    BY <2>4, <2>6, ConsumeResultKeeps
  <2>8. Keeps(m, e, {k}) /\ Keeps(e, n, {k})
    BY <2>5, <2>6, <2>7, KeepsMore DEF Passes, TakesUp
  <2>9. Keeps(m, n, {k})
    BY <2>8, KeepsIsTransitive
  <2>10. TakesUp(m, n, r)
    BY <2>5, <2>6, <2>7, <2>9 DEF Passes, TakesUp
  <2>11. QED
    BY <2>3, <2>10 DEF n
<1>4. QED
  BY <1>2, <1>3

\* The callback of a pane watch that has taken a result from the outbox.
LEMMA WatchTookKeeps ==
    ASSUME NEW m, Filed(m), NEW k \in Name, m.watchers[k] # None, NEW id,
           m.watchers[k].found \in Result, m.watchers[k].found # Settled,
           m.watchers[k].found.name = k
    PROVE  LET n == WatchResolved(m, k, id)
               r == m.watchers[k].found
               x == [m.watchers[k] EXCEPT !.found = None]
           IN  /\ Consumes(m, r) => TakesUp(m, n, r) /\ n.early = m.early
               /\ ~Consumes(m, r) =>
                      /\ Keeps(m, n, {})
                      /\ n.watchers = [m.watchers EXCEPT ![k] = x]
                      /\ n.seen = m.seen /\ n.doneArms = m.doneArms
                      /\ n.early = ProcessExternalResult(m, r).early
<1> DEFINE r == m.watchers[k].found
           o == ProcessExternalResult(m, r)
           x == [m.watchers[k] EXCEPT !.found = None]
           n == WatchResolved(m, k, id)
<1>1. CASE Consumes(m, r)
  <2>1. n = o
    BY <1>1 DEF WatchResolved
  <2>2. QED
    BY <1>1, <2>1, ProcessExternalKeeps
<1>2. CASE ~Consumes(m, r)
  <2>1. n = [o EXCEPT !.watchers[k].found = None]
    BY <1>2 DEF WatchResolved
  <2>2. Passes(m, o)
    BY <1>2, ProcessExternalKeeps
  <2> HIDE DEF o, n
  <2>3. n = WithWatcher(o, k, x)
    BY <2>1, <2>2 DEF Passes, WithWatcher
  <2>4. x \in Slot
    BY DEF Filed, Shaped, Slot
  <2> HIDE DEF x
  <2>5. Filed(o)
    BY <2>2 DEF Passes, Keeps, Retains
  <2>6. /\ Keeps(o, n, {}) /\ n.watchers = [o.watchers EXCEPT ![k] = x]
        /\ n.seen = o.seen /\ n.early = o.early /\ n.doneArms = o.doneArms
    BY <2>3, <2>4, <2>5, WatcherKeeps
  <2>7. Keeps(m, n, {})
    BY <2>2, <2>6, KeepsIsTransitive DEF Passes
  <2>8. QED
    BY <1>2, <2>2, <2>6, <2>7 DEF Passes, n, o, x
<1>3. QED
  BY <1>1, <1>2

\* Leaving a group does not touch the batch.
LEMMA GroupLeavesBatch ==
    ASSUME NEW m, DOMAIN m = Fields, NEW k
    PROVE  LET n == RemoveKeyFromGroup(m, k)
           IN  n.batch = m.batch /\ n.nextBatch = m.nextBatch
<1> DEFINE g == m.groupOf[k]
           s == ShrinkGroup(m, g, k)
           Same(a, b) == DOMAIN b = Fields /\ b.batch = a.batch /\ b.nextBatch = a.nextBatch
           Clean1(a) == CleanupGroup(a, g)
           Sent1(a) == DeliverGroup(a, g)
           Timed1(a) == [a EXCEPT !.groups[g].timer = "running"]
<1>1. Same(m, s) /\ Same(m, Ungroup(m, {k})) /\ Same(m, m)
  BY DEF ShrinkGroup, Ungroup, Fields
<1>2. RemoveKeyFromGroup(m, k) \in {m, Ungroup(m, {k}), Clean1(s), Sent1(s), Timed1(s), s}
  BY DEF RemoveKeyFromGroup, DissolveGroup, MaybeDeliverCompletedGroup, StartGroupTimeout
<1>3. DOMAIN s = Fields
  BY <1>1
<1> HIDE DEF s
<1>4. Same(s, Clean1(s))
  BY <1>3 DEF CleanupGroup, Ungroup, Fields
<1>5. Same(s, Timed1(s))
  BY <1>3 DEF Fields
<1>6. Same(s, Sent1(s))
  <2> DEFINE c == Clean1(s)
  <2>1. Sent1(s) = [c EXCEPT !.sent = Append(c.sent, [reports |-> s.groups[g].completed, pending |-> {}])]
    BY DEF DeliverGroup, Send
  <2>2. Same(s, c)
    BY <1>4
  <2> HIDE DEF c, Clean1, Sent1
  <2>3. QED
    BY <2>1, <2>2 DEF Fields
<1> HIDE DEF Clean1, Sent1, Timed1
<1>7. QED
  BY <1>1, <1>2, <1>4, <1>5, <1>6

\* cancel: the watch and what the group holds of k are gone, or nothing is.
LEMMA CancelKeeps ==
    ASSUME NEW m, Filed(m), NEW k \in Name
    PROVE  LET n == Cancel(m, k, FALSE)
           IN  /\ Keeps(m, n, {k})
               /\ n.doneArms = m.doneArms /\ n.seen = m.seen
               /\ n.watchers = [m.watchers EXCEPT ![k] = None]
               /\ n.early = m.early \/ n.early = [m.early EXCEPT ![k] = << >>]
<1> DEFINE w == WithWatcher(m, k, None)
           e == WithEarly(w, k, << >>)
           n == Leave(e, k)
           c == Cancel(m, k, FALSE)
<1>1. CancelKey(m, k) = n
  BY DEF CancelKey, Leave, WithWatcher, WithEarly
<1>2. /\ Keeps(m, w, {}) /\ w.watchers = [m.watchers EXCEPT ![k] = None]
      /\ w.seen = m.seen /\ w.early = m.early /\ w.doneArms = m.doneArms
  BY WatcherKeeps
<1> HIDE DEF w
<1>3. Filed(w)
  BY <1>2 DEF Keeps, Retains
<1>4. Passes(w, e) /\ e.early = [w.early EXCEPT ![k] = << >>]
  BY <1>3, EarlyKeeps
<1> HIDE DEF e
<1>5. Keeps(m, e, {})
  BY <1>2, <1>4, KeepsIsTransitive DEF Passes
<1>6. Keeps(m, e, {k}) /\ Filed(e)
  BY <1>5, KeepsMore DEF Keeps, Retains
<1>7. Keeps(e, n, {k})
  BY <1>6, LeaveKeeps
<1>8. SameWatch(e, n)
  BY <1>6, LeaveWatch DEF Leave, Filed, Shaped
<1> HIDE DEF n
<1>9. Keeps(m, n, {k})
  BY <1>6, <1>7, KeepsIsTransitive
<1>10. /\ n.doneArms = m.doneArms /\ n.seen = m.seen
       /\ n.watchers = [m.watchers EXCEPT ![k] = None]
       /\ n.early = [m.early EXCEPT ![k] = << >>]
  BY <1>2, <1>4, <1>8 DEF SameWatch, Passes
<1>11. CASE c = m /\ m.watchers[k] = None
  <2>1. m.watchers = [m.watchers EXCEPT ![k] = None]
    BY <1>11 DEF Filed, Shaped
  <2>2. Keeps(m, m, {k})
    BY KeepsSelf, KeepsMore
  <2>3. QED
    BY <1>11, <2>1, <2>2
<1>12. CASE c = n
  BY <1>9, <1>10, <1>12
<1>13. c = n \/ (c = m /\ m.watchers[k] = None)
  BY <1>1 DEF Cancel
<1>14. QED
  BY <1>11, <1>12, <1>13

\* releaseBatchMember.
LEMMA ReleaseMemberKeeps ==
    ASSUME NEW m, Filed(m), NEW k \in Name
    PROVE  LET n == ReleaseMember(m, k)
           IN  /\ Keeps(m, n, {k})
               /\ n.doneArms = m.doneArms /\ n.seen = m.seen
               /\ n.watchers = m.watchers
               /\ n.early = m.early \/ n.early = [m.early EXCEPT ![k] = << >>]
<1> DEFINE e == WithEarly(m, k, << >>)
           n == Leave(e, k)
<1>1. ReleaseMember(m, k) = IF m.watchers[k] # None THEN m ELSE n
  BY DEF ReleaseMember, Leave, WithEarly
<1>2. Passes(m, e) /\ e.early = [m.early EXCEPT ![k] = << >>]
  BY EarlyKeeps
<1> HIDE DEF e
<1>3. Keeps(m, e, {k}) /\ Filed(e)
  BY <1>2, KeepsMore DEF Passes, Keeps, Retains
<1>4. Keeps(e, n, {k})
  BY <1>3, LeaveKeeps
<1>5. SameWatch(e, n)
  BY <1>3, LeaveWatch DEF Leave, Filed, Shaped
<1> HIDE DEF n
<1>6. Keeps(m, n, {k})
  BY <1>3, <1>4, KeepsIsTransitive
<1>7. Keeps(m, m, {k})
  BY KeepsSelf, KeepsMore
<1>8. QED
  BY <1>1, <1>2, <1>5, <1>6, <1>7 DEF SameWatch, Passes

\* acceptArm.
LEMMA AcceptArmKeeps ==
    ASSUME NEW m, Filed(m), NEW k \in Name, NEW a \in Arm
    PROVE  LET n == AcceptArm(m, k, a)
               x == [m.watchers[k] EXCEPT !.arms = m.watchers[k].arms \cup {a}]
           IN  /\ Keeps(m, n, {})
               /\ n.doneArms = m.doneArms /\ n.seen = m.seen /\ n.early = m.early
               /\ n.watchers = IF m.watchers[k] = None THEN m.watchers
                               ELSE [m.watchers EXCEPT ![k] = x]
<1>1. CASE m.watchers[k] = None
  BY <1>1, KeepsSelf DEF AcceptArm
<1>2. CASE m.watchers[k] # None
  <2> DEFINE x == [m.watchers[k] EXCEPT !.arms = m.watchers[k].arms \cup {a}]
  <2>1. x \in Slot
    BY <1>2 DEF Filed, Shaped, Slot
  <2>2. AcceptArm(m, k, a) = WithWatcher(m, k, x)
    BY <1>2 DEF AcceptArm, WithWatcher
  <2> HIDE DEF x
  <2> DEFINE n == WithWatcher(m, k, x)
  <2>3. /\ Keeps(m, n, {})
        /\ n.doneArms = m.doneArms /\ n.seen = m.seen /\ n.early = m.early
        /\ n.watchers = [m.watchers EXCEPT ![k] = x]
    BY <2>1, WatcherKeeps
  <2> HIDE DEF n
  <2>4. QED
    BY <1>2, <2>2, <2>3 DEF n, x
<1>3. QED
  BY <1>1, <1>2

\* A pane watch has found something.
LEMMA SetFoundKeeps ==
    ASSUME NEW m, Filed(m), NEW k \in Name, m.watchers[k] # None, NEW r \in Result
    PROVE  LET n == [m EXCEPT !.watchers[k].found = r]
           IN  /\ Keeps(m, n, {})
               /\ n.doneArms = m.doneArms /\ n.seen = m.seen /\ n.early = m.early
               /\ n.watchers = [m.watchers EXCEPT ![k] = [m.watchers[k] EXCEPT !.found = r]]
<1> DEFINE x == [m.watchers[k] EXCEPT !.found = r]
<1>1. x \in Slot
  BY DEF Filed, Shaped, Slot
<1>2. [m EXCEPT !.watchers[k].found = r] = WithWatcher(m, k, x)
  BY DEF WithWatcher
<1> HIDE DEF x
<1> DEFINE n == WithWatcher(m, k, x)
<1>3. /\ Keeps(m, n, {})
      /\ n.doneArms = m.doneArms /\ n.seen = m.seen /\ n.early = m.early
      /\ n.watchers = [m.watchers EXCEPT ![k] = x]
  BY <1>1, WatcherKeeps
<1> HIDE DEF n
<1>4. QED
  BY <1>2, <1>3 DEF n, x

\* A manager that is new, or new but for its batch number and its messages.
LEMMA CancelAllFiled ==
    ASSUME NEW m, Filed(m)
    PROVE  Filed(CancelAll(m)) /\ AllTimed(CancelAll(m)) /\ CancelAll(m).doneArms = {}
<1> DEFINE n == CancelAll(m)
<1>1. /\ Shaped(n) /\ n.batch = None /\ n.doneArms = {}
      /\ \A g \in BatchId : n.groups[g] = None
  BY DEF CancelAll, EmptyManager, Filed, Shaped, Fields
<1> HIDE DEF n
<1>2. OpenGroups(n) = {}
  BY <1>1 DEF OpenGroups
<1>3. Filed(n) /\ AllTimed(n)
  BY <1>1, <1>2 DEF Filed, AllTimed
<1>4. QED
  BY <1>1, <1>3 DEF n

LEMMA EmptyFiled == Filed(EmptyManager) /\ AllTimed(EmptyManager)
<1> DEFINE n == EmptyManager
<1>1. Shaped(n) /\ n.batch = None /\ \A g \in BatchId : n.groups[g] = None
  BY DEF EmptyManager, Shaped, Fields
<1> HIDE DEF n
<1>2. OpenGroups(n) = {}
  BY <1>1 DEF OpenGroups
<1>3. QED
  BY <1>1, <1>2 DEF Filed, AllTimed, n

\* arm first ends the watch that is there.
LEMMA ReplaceKeeps ==
    ASSUME NEW m, Filed(m), NEW k \in Name
    PROVE  LET n == Replace(m, k)
           IN  /\ Keeps(m, n, IF m.watchers[k] = None THEN {} ELSE {k})
               /\ n.watchers = [m.watchers EXCEPT ![k] = None]
               /\ n.seen = m.seen /\ n.early = m.early /\ n.doneArms = m.doneArms
               /\ ~InBatch(m, k) /\ MayOpenBatch(m) => MayOpenBatch(n)
<1> DEFINE w == WithWatcher(m, k, None)
           b == RemoveKeyFromBatch(w, k)
           l == RemoveKeyFromGroup(b, k)
           n == Replace(m, k)
<1>1. CASE m.watchers[k] = None
  <2>1. n = m
    BY <1>1 DEF Replace
  <2>2. Keeps(m, m, {})
    BY KeepsSelf
  <2>3. m.watchers = [m.watchers EXCEPT ![k] = None]
    BY <1>1 DEF Filed, Shaped
  <2>4. QED
    BY <1>1, <2>1, <2>2, <2>3
<1>2. CASE m.watchers[k] # None
  <2>1. n = l
    BY <1>2 DEF Replace, WithWatcher
  <2>2. /\ Keeps(m, w, {}) /\ w.watchers = [m.watchers EXCEPT ![k] = None]
        /\ w.seen = m.seen /\ w.early = m.early /\ w.doneArms = m.doneArms
        /\ w.batch = m.batch /\ w.nextBatch = m.nextBatch
    BY WatcherKeeps
  <2> HIDE DEF w, n
  <2>3. Filed(w) /\ DOMAIN w = Fields
    BY <2>2 DEF Keeps, Retains, Filed, Shaped
  <2>4. /\ Keeps(w, b, {}) /\ b.nextBatch = w.nextBatch
        /\ ~InBatch(w, k) => b.batch = w.batch
    BY <2>3, UnbatchKeeps
  <2>5. SameWatch(w, b)
    BY <2>3, BatchWatch
  <2> HIDE DEF b
  <2>6. Filed(b) /\ DOMAIN b = Fields
    BY <2>4 DEF Keeps, Retains, Filed, Shaped
  <2>7. Keeps(b, l, {k}) /\ SameWatch(b, l) /\ l.batch = b.batch /\ l.nextBatch = b.nextBatch
    BY <2>6, RemoveKeyFromGroupKeeps, RemoveKeyFromGroupWatch, GroupLeavesBatch
  <2> HIDE DEF l
  <2>8. Keeps(m, l, {k})
    <3>1. Keeps(m, b, {})
      BY <2>2, <2>4, KeepsIsTransitive
    <3>2. Keeps(m, b, {k})
      BY <3>1, KeepsMore
    <3>3. QED
      BY <2>7, <3>2, KeepsIsTransitive
  <2>9. ~InBatch(m, k) /\ MayOpenBatch(m) => MayOpenBatch(l)
    BY <2>2, <2>4, <2>7 DEF InBatch, MayOpenBatch
  <2>10. QED
    BY <1>2, <2>1, <2>2, <2>5, <2>7, <2>8, <2>9 DEF SameWatch, n
<1>3. QED
  BY <1>1, <1>2

\* The new watcher x would take the early result r.
Suits(m, x, r) == r.id \notin m.seen /\ r.at >= x.since /\ ArmMatches(x, r)

\* The new watcher x of k waits, since no early result suits it.
Awaits(m, n, k, x) ==
    /\ Keeps(m, n, IF m.watchers[k] = None THEN {} ELSE {k})
    /\ n.watchers = [m.watchers EXCEPT ![k] = x]
    /\ n.seen = m.seen /\ n.doneArms = m.doneArms
    /\ \A r \in Items(m.early[k]) : ~Suits(m, x, r)
    /\ \E b : /\ b.watchers = n.watchers /\ b.seen = n.seen
              /\ n.early = [m.early EXCEPT ![k] = Retained(b, m.early[k])]

\* arm: the new watcher takes an early result that answers its arms, or waits.
LEMMA ArmWatcherKeeps ==
    ASSUME NEW m, Filed(m), MayOpenBatch(m), NEW k \in Name, m.early[k] \in Seq(Result),
           \A r \in Items(m.early[k]) : r.name = k,
           NEW since \in Nat, NEW arms \in SUBSET Arm, NEW source \in {"rpc", "poll"},
           NEW n, n = ArmWatcher(m, k, since, arms, source),
           NEW x, x = NewSlot(since, arms, source)
    PROVE  \/ \E r \in Items(m.early[k]) : Suits(m, x, r) /\ TakesUp(m, n, r)
           \/ Awaits(m, n, k, x)
<1> DEFINE K == IF m.watchers[k] = None THEN {} ELSE {k}
           p == Replace(m, k)
           s == WithWatcher(p, k, x)
           b == IF Reserved(m, k) THEN s ELSE AddKeyToBatch(s, k)
<1>1. x \in Slot /\ x # None /\ x.since = since
  BY RecordsAssumption DEF NewSlot, Slot
<1>2. n = DrainEarly(b, k)
  BY DEF ArmWatcher, WithWatcher
<1>3. /\ Keeps(m, p, K)
      /\ p.watchers = [m.watchers EXCEPT ![k] = None]
      /\ p.seen = m.seen /\ p.early = m.early /\ p.doneArms = m.doneArms
      /\ ~InBatch(m, k) => MayOpenBatch(p)
  BY ReplaceKeeps
<1>4. Filed(p)
  BY <1>3 DEF Keeps, Retains
<1>5. K \subseteq {k}
  OBVIOUS
<1> HIDE DEF p, K
<1>6. /\ Keeps(p, s, {})
      /\ s.watchers = [p.watchers EXCEPT ![k] = x]
      /\ s.seen = p.seen /\ s.early = p.early /\ s.doneArms = p.doneArms
      /\ s.batch = p.batch /\ s.nextBatch = p.nextBatch
  BY <1>1, <1>4, WatcherKeeps
<1>7. s.watchers = [m.watchers EXCEPT ![k] = x]
  BY <1>3, <1>6
<1> HIDE DEF s
<1>8. Filed(s) /\ DOMAIN s = Fields
  BY <1>6 DEF Keeps, Retains, Filed, Shaped
<1>9. Keeps(s, b, {}) /\ SameWatch(s, b)
  <2>1. CASE Reserved(m, k)
    BY <1>8, <2>1, KeepsSelf DEF SameWatch
  <2>2. CASE ~Reserved(m, k)
    <3>1. MayOpenBatch(s)
      BY <1>3, <1>6, <2>2 DEF Reserved, MayOpenBatch
    <3>2. Keeps(s, AddKeyToBatch(s, k), {}) /\ SameWatch(s, AddKeyToBatch(s, k))
      BY <1>8, <3>1, AddKeyToBatchKeeps, BatchWatch
    <3>3. QED
      BY <2>2, <3>2
  <2>3. QED
    BY <2>1, <2>2
<1> HIDE DEF b
<1>10. Keeps(m, b, K)
  <2>1. Keeps(p, b, {})
    BY <1>6, <1>9, KeepsIsTransitive
  <2>2. Keeps(p, b, K)
    BY <2>1, KeepsMore
  <2>3. QED
    BY <1>3, <2>2, KeepsIsTransitive
<1>11. /\ Filed(b) /\ b.early = m.early /\ b.seen = m.seen /\ b.doneArms = m.doneArms
       /\ b.watchers = [m.watchers EXCEPT ![k] = x]
  BY <1>3, <1>6, <1>7, <1>9 DEF SameWatch, Keeps, Retains
<1>12. b.watchers[k] = x
  BY <1>11 DEF Filed, Shaped
<1>13. \A r \in Items(m.early[k]) : Consumes(b, r) <=> Suits(m, x, r)
  BY <1>1, <1>11, <1>12 DEF Consumes, Suits
<1>14. \/ \E r \in Items(m.early[k]) : Consumes(b, r) /\ TakesUp(b, n, r)
       \/ /\ \A r \in Items(m.early[k]) : ~Consumes(b, r)
          /\ Passes(b, n)
          /\ n.early = [b.early EXCEPT ![k] = Retained(b, b.early[k])]
  <2>1. b.early[k] \in Seq(Result) /\ \A r \in Items(b.early[k]) : r.name = k
    BY <1>11
  <2>2. /\ Filed(b) /\ n = DrainEarly(b, k) /\ b.early[k] = m.early[k]
    BY <1>2, <1>11
  <2>3. \/ \E r \in Items(b.early[k]) : Consumes(b, r) /\ TakesUp(b, DrainEarly(b, k), r)
        \/ /\ \A r \in Items(b.early[k]) : ~Consumes(b, r)
           /\ Passes(b, DrainEarly(b, k))
           /\ DrainEarly(b, k).early = [b.early EXCEPT ![k] = Retained(b, b.early[k])]
    BY <2>1, <2>2, DrainEarlyKeeps
  <2>4. QED
    BY <2>2, <2>3
<1>15. ASSUME NEW r \in Items(m.early[k]), TakesUp(b, n, r)
       PROVE  TakesUp(m, n, r)
  <2>1. r.name = k
    OBVIOUS
  <2>2. Keeps(m, b, {k}) /\ Keeps(b, n, {k})
    BY <1>5, <1>10, <1>15, <2>1, KeepsMore DEF TakesUp
  <2>3. Keeps(m, n, {k})
    BY <2>2, KeepsIsTransitive
  <2>4. n.watchers = [m.watchers EXCEPT ![k] = None]
    BY <1>11, <1>15, <2>1 DEF TakesUp
  <2>5. QED
    BY <1>11, <1>15, <2>1, <2>3, <2>4 DEF TakesUp
<1>16. CASE \E r \in Items(m.early[k]) : Consumes(b, r) /\ TakesUp(b, n, r)
  <2>1. \E r \in Items(m.early[k]) : Suits(m, x, r) /\ TakesUp(m, n, r)
    BY <1>13, <1>15, <1>16
  <2>2. QED
    BY <2>1
<1>17. CASE /\ \A r \in Items(m.early[k]) : ~Consumes(b, r)
            /\ Passes(b, n)
            /\ n.early = [b.early EXCEPT ![k] = Retained(b, b.early[k])]
  <2>1. Keeps(b, n, K)
    <3>1. Keeps(b, n, {})
      BY <1>17 DEF Passes
    <3>2. QED
      BY <3>1, KeepsMore
  <2>2. Keeps(m, n, K)
    BY <1>10, <2>1, KeepsIsTransitive
  <2>3. /\ n.watchers = [m.watchers EXCEPT ![k] = x]
        /\ n.seen = m.seen /\ n.doneArms = m.doneArms
        /\ b.watchers = n.watchers /\ b.seen = n.seen
        /\ n.early = [m.early EXCEPT ![k] = Retained(b, m.early[k])]
    BY <1>11, <1>17 DEF Passes
  <2>4. \A r \in Items(m.early[k]) : ~Suits(m, x, r)
    BY <1>13, <1>17
  <2>5. QED
    BY <2>2, <2>3, <2>4 DEF Awaits, K
<1>18. QED
  BY <1>14, <1>16, <1>17

=============================================================================
