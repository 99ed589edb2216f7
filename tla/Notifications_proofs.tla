------------------------ MODULE Notifications_proofs ------------------------
(***************************************************************************)
(* Theorems of Notifications for any number of subagents, arms, batches,   *)
(* results and for any bound on the clock: the manager keeps its types, no *)
(* completion is reported in two messages, the manager implements the life *)
(* of a report, and no group waits in vain or loses a report it holds.     *)
(***************************************************************************)
EXTENDS Notifications, Manager_proofs

\* The inductive invariant.  ReportedOnce is not inductive: a held report
\* could have been sent before, a buffered or found result could be made up,
\* and a result of this session could be accepted although its report is
\* already known.  Sound excludes all three, for the results that were sent,
\* the time of the session, and the completion ids in use.  The ledger also
\* needs that each result has an id of its own.
Inv ==
    /\ TypeOK
    /\ ResultsOf(results, 0..nextId)
    /\ \A r \in results : r.at <= clock
    /\ \A r, s \in results : r.id = s.id => r = s
    /\ mgr.seen \subseteq 0..nextId
    /\ Sound(mgr, results, session, 0..nextId)

\* A completion that is settled, unless its report is known.
Gone(i) == i \in mgr.seen \/ IsPolled(i) \/ IsExpired(i)

\* The invariant holds in the empty manager.
LEMMA InitInv == Init => Inv
<1> SUFFICES ASSUME Init PROVE Inv
  OBVIOUS
<1>1. EmptyManager \in Manager
  BY DEF EmptyManager, Manager
<1>2. /\ EmptyManager.sent = << >>
      /\ \A g \in BatchId : EmptyManager.groups[g] = None
      /\ \A k \in Name : EmptyManager.early[k] = << >> /\ EmptyManager.watchers[k] = None
  BY DEF EmptyManager
<1>3. OpenGroups(EmptyManager) = {}
  BY <1>2 DEF OpenGroups
<1>4. Held(EmptyManager) = {} /\ SentIds(EmptyManager) = {}
  BY <1>2, <1>3 DEF Held, SentIds
<1>5. KnownIds(EmptyManager) = {}
  BY <1>4 DEF KnownIds, IdsOf
<1>6. SentOnce(EmptyManager) /\ HeldIsUnsent(EmptyManager) /\ HeldOnce(EmptyManager)
  BY <1>2, <1>3, <1>4 DEF SentOnce, HeldIsUnsent, HeldOnce
<1>7. Len(<< >>) <= PendingLimit
  BY PendingLimitAssumption
<1>8. Sound(EmptyManager, {}, 0, 0..0)
  <2>1. << >> \in Seq({})
    OBVIOUS
  <2>2. \A k \in Name : EmptyManager.early[k] \in Seq({}) /\ Len(EmptyManager.early[k]) <= PendingLimit
    BY <1>2, <1>7, <2>1
  <2>3. \A k \in Name : EmptyManager.watchers[k] = None
    BY <1>2
  <2>4. QED
    BY <1>1, <1>5, <1>6, <2>2, <2>3 DEF Sound, Clean
<1>9. EmptyManager.seen = {}
  BY DEF EmptyManager
<1>10. QED
  BY <1>1, <1>2, <1>7, <1>8, <1>9, BoundsAssumption DEF Init, Inv, TypeOK, ResultsOf

\* A completion whose report is known is settled in some way: a result of this
\* session has been seen, and what no result has is a watch's own.
LEMMA KnownIsGone ==
    ASSUME Inv, NEW i \in Ids, i \in KnownIds(mgr)
    PROVE  Gone(i)
<1>1. i \in 0..nextId /\ session \in Nat /\ nextId \in Nat
  BY BoundsAssumption DEF Inv, Sound, TypeOK
<1>2. CASE \E r \in results : r.id = i
  <2>1. PICK r \in results : r.id = i
    BY <1>2
  <2>2. r.at \in Nat
    BY <2>1 DEF Inv, ResultsOf, Result
  <2>3. QED
    BY <1>1, <2>1, <2>2 DEF Inv, Sound, Gone, IsExpired
<1>3. CASE ~\E r \in results : r.id = i
  BY <1>1, <1>3 DEF Gone, IsPolled
<1>4. QED
  BY <1>2, <1>3

\* A step that makes known some completions that were open, and settles
\* nothing else, is a step of the ledger.
LEMMA ReportStep ==
    ASSUME Inv, NEW ids, Accepts(mgr, mgr', ids),
           \A i \in Ids : Gone(i) => Gone(i)',
           \A i \in Ids : Gone(i)' => Gone(i) \/ i \in ids,
           \A i \in ids : ~Gone(i)
    PROVE  Ledger!Report
<1>1. ASSUME NEW i \in Ids
      PROVE  /\ StandingOf(i)' \in {"open", "held", "told", "dismissed"}
             /\ StandingOf(i) = "open" => StandingOf(i)' \in {"open", "held", "told"}
             /\ StandingOf(i) = "held" => StandingOf(i)' \in {"held", "told", "dismissed"}
             /\ StandingOf(i) \in {"told", "dismissed"} => StandingOf(i)' = StandingOf(i)
  <2>1. StandingOf(i) = IF i \in SentIds(mgr) THEN "told"
                        ELSE IF i \in IdsOf(Held(mgr)) THEN "held"
                        ELSE IF Gone(i) THEN "dismissed" ELSE "open"
    BY DEF StandingOf, Gone
  <2>2. StandingOf(i)' = IF i \in SentIds(mgr') THEN "told"
                         ELSE IF i \in IdsOf(Held(mgr')) THEN "held"
                         ELSE IF Gone(i)' THEN "dismissed" ELSE "open"
    BY DEF StandingOf, Gone
  <2>3. i \in KnownIds(mgr) => Gone(i)
    BY KnownIsGone
  <2>4. QED
    BY <2>1, <2>2, <2>3 DEF Accepts, KnownIds
<1>2. [i \in Ids |-> StandingOf(i)]' = [i \in Ids |-> StandingOf(i)']
  OBVIOUS
<1>3. QED
  <2> DEFINE was == [i \in Ids |-> StandingOf(i)]
             is == [i \in Ids |-> StandingOf(i)']
  <2>1. \A i \in Ids : was[i] = StandingOf(i) /\ is[i] = StandingOf(i)'
    OBVIOUS
  <2>2. is \in [Ids -> {"open", "held", "told", "dismissed"}]
    BY <1>1
  <2>3. was' = is
    BY <1>2
  <2>4. Ledger!Report <=>
          /\ was' \in [Ids -> {"open", "held", "told", "dismissed"}]
          /\ \A i \in Ids :
               CASE was[i] = "open" -> was'[i] \in {"open", "held", "told"}
                 [] was[i] = "held" -> was'[i] \in {"held", "told", "dismissed"}
                 [] OTHER -> was'[i] = was[i]
    BY DEF Ledger!Report, Ledger!Standing
  <2>5. \A i \in Ids : StandingOf(i) \in {"open", "held", "told", "dismissed"}
    BY DEF StandingOf
  <2> HIDE DEF was, is
  <2>6. QED
    BY <1>1, <2>1, <2>2, <2>3, <2>4, <2>5

\* A step of the manager that leaves results, clock and ids alone.
LEMMA CallerStep ==
    ASSUME Inv, NEW m, Caller(m), Sound(m, results, session, 0..nextId),
           Takes(mgr, m, results, session), spawning' \subseteq Name
    PROVE  Inv' /\ Ledger!Report
<1>1. m \in Manager /\ \A k \in Name : Len(m.early[k]) <= PendingLimit
  BY DEF Sound, Clean
<1>2. PICK ids \in SUBSET Nat :
        /\ Accepts(mgr, m, ids)
        /\ m.seen = mgr.seen \cup ids
        /\ \A i \in ids : i \notin mgr.seen /\ \E r \in results : r.id = i /\ r.at >= session
  BY DEF Takes
<1>3. ids \subseteq 0..nextId
  BY <1>2 DEF Inv, ResultsOf
<1>4. Inv'
  BY <1>1, <1>2, <1>3 DEF Inv, TypeOK, Caller
<1>5. \A i \in ids : ~Gone(i)
  <2> SUFFICES ASSUME NEW i \in ids PROVE ~Gone(i)
    OBVIOUS
  <2>1. PICK r \in results : r.id = i /\ r.at >= session
    BY <1>2
  <2>2. r.at \in Nat /\ session \in Nat
    BY BoundsAssumption DEF Inv, TypeOK, Result
  <2>3. QED
    BY <1>2, <2>1, <2>2 DEF Gone, IsPolled, IsExpired, Inv
<1>6. \A i \in Ids : Gone(i)' <=> Gone(i) \/ i \in ids
  BY <1>2 DEF Gone, IsPolled, IsExpired, Caller
<1>7. Ledger!Report
  BY <1>2, <1>5, <1>6, ReportStep DEF Caller
<1>8. QED
  BY <1>4, <1>7

\* A step of the manager that makes nothing known.
LEMMA QuietStep ==
    ASSUME Inv, NEW m, Caller(m), Quiet(mgr, m, results, session, 0..nextId),
           spawning' \subseteq Name
    PROVE  Inv' /\ Ledger!Report
  BY CallerStep, QuietTakes DEF Quiet

\* A step that leaves the manager, the results and the session alone.
LEMMA IdleStep ==
    ASSUME Inv, UNCHANGED <<mgr, results, session, nextId>>
    PROVE  Ledger!Report
<1>1. Accepts(mgr, mgr', {})
  BY DEF Accepts
<1>2. \A i \in Ids : Gone(i)' <=> Gone(i)
  BY DEF Gone, IsPolled, IsExpired
<1>3. QED
  BY <1>1, <1>2, ReportStep

\* What the lemmas of Manager_proofs assume of a state.
LEMMA InvFacts ==
    ASSUME Inv
    PROVE  /\ ResultsOf(results, 0..nextId)
           /\ session \in Nat /\ clock \in Nat /\ nextId \in Nat /\ session <= clock
           /\ Sound(mgr, results, session, 0..nextId)
           /\ spawning \subseteq Name
  BY BoundsAssumption DEF Inv, TypeOK

\* beginBatchMember.
LEMMA BeginBatchMemberStep ==
    ASSUME Inv, NEW k \in Name, BeginBatchMember(k)
    PROVE  Inv' /\ Ledger!Report
<1> USE InvFacts
<1>1. Quiet(mgr, BeginMember(mgr, k), results, session, 0..nextId)
  BY AddKeyToBatchQuiet DEF BeginBatchMember, BeginMember
<1>2. Caller(BeginMember(mgr, k)) /\ spawning' \subseteq Name
  BY DEF BeginBatchMember
<1>3. QED
  BY <1>1, <1>2, QuietStep

\* releaseBatchMember.
LEMMA ReleaseBatchMemberStep ==
    ASSUME Inv, NEW k \in Name, ReleaseBatchMember(k)
    PROVE  Inv' /\ Ledger!Report
<1> USE InvFacts
<1>1. Quiet(mgr, ReleaseMember(mgr, k), results, session, 0..nextId)
  BY ReleaseMemberQuiet
<1>2. Caller(ReleaseMember(mgr, k)) /\ spawning' \subseteq Name
  BY DEF ReleaseBatchMember
<1>3. QED
  BY <1>1, <1>2, QuietStep

\* arm, with any of the arguments its callers pass.
LEMMA ArmingSound ==
    ASSUME Inv, NEW k \in Name, MayOpenBatch(mgr), NEW since \in session..clock,
           NEW arms \in ArmChoices, NEW source \in {"rpc", "poll"}
    PROVE  /\ Sound(ArmWatcher(mgr, k, since, arms, source), results, session, 0..nextId)
           /\ Takes(mgr, ArmWatcher(mgr, k, since, arms, source), results, session)
<1> USE InvFacts
<1>1. since \in Nat /\ since >= session /\ arms \in SUBSET Arm
  BY DEF ArmChoices
<1>2. QED
  BY <1>1, ArmWatcherSound

\* arm, after a spawn.
LEMMA ArmSpawnStep == ASSUME Inv, NEW k \in Name, ArmSpawn(k) PROVE Inv' /\ Ledger!Report
<1>1. PICK since \in session..clock, arms \in ArmChoices, source \in SourceChoices :
          Caller(ArmWatcher(mgr, k, since, arms, source))
  BY DEF ArmSpawn
<1>2. source \in {"rpc", "poll"} /\ MayOpenBatch(mgr) /\ spawning' \subseteq Name
  BY InvFacts DEF SourceChoices, ArmSpawn
<1>3. /\ Sound(ArmWatcher(mgr, k, since, arms, source), results, session, 0..nextId)
      /\ Takes(mgr, ArmWatcher(mgr, k, since, arms, source), results, session)
  BY <1>2, ArmingSound
<1>4. QED
  BY <1>1, <1>2, <1>3, CallerStep

\* arm, for a follow-up.
LEMMA ArmSendStep == ASSUME Inv, NEW k \in Name, ArmSend(k) PROVE Inv' /\ Ledger!Report
<1>1. PICK since \in session..clock, arms \in ArmChoices :
          Caller(ArmWatcher(mgr, k, since, arms, "rpc"))
  BY DEF ArmSend
<1>2. MayOpenBatch(mgr) /\ spawning' \subseteq Name
  BY InvFacts DEF ArmSend
<1>3. /\ Sound(ArmWatcher(mgr, k, since, arms, "rpc"), results, session, 0..nextId)
      /\ Takes(mgr, ArmWatcher(mgr, k, since, arms, "rpc"), results, session)
  BY <1>2, ArmingSound
<1>4. QED
  BY <1>1, <1>2, <1>3, CallerStep

\* acceptArm.
LEMMA AcceptSendStep == ASSUME Inv, NEW k \in Name, AcceptSend(k) PROVE Inv' /\ Ledger!Report
<1>1. PICK a \in Arm : Caller(AcceptArm(mgr, k, a))
  BY DEF AcceptSend
<1>2. Quiet(mgr, AcceptArm(mgr, k, a), results, session, 0..nextId)
  BY InvFacts, AcceptArmQuiet
<1>3. spawning' \subseteq Name
  BY InvFacts DEF AcceptSend
<1>4. QED
  BY <1>1, <1>2, <1>3, QuietStep

\* cancel and cancelPane.
LEMMA CancelTargetStep == ASSUME Inv, NEW k \in Name, CancelTarget(k) PROVE Inv' /\ Ledger!Report
<1>1. PICK byName \in BOOLEAN : Caller(Cancel(mgr, k, byName))
  BY DEF CancelTarget
<1>2. Quiet(mgr, Cancel(mgr, k, byName), results, session, 0..nextId)
  BY InvFacts, CancelQuiet
<1>3. spawning' \subseteq Name
  BY InvFacts DEF CancelTarget
<1>4. QED
  BY <1>1, <1>2, <1>3, QuietStep

\* beginInspection.
LEMMA BeginInspectionStep ==
    ASSUME Inv, NEW k \in Name, BeginInspection(k)
    PROVE  Inv' /\ Ledger!Report
<1>1. mgr.ready[k] \in Delivery \cup {None}
  BY DEF Inv, TypeOK, Manager
<1>2. Inv'
  BY <1>1 DEF BeginInspection, Inspect, Inv, TypeOK
<1>3. QED
  BY <1>2, IdleStep DEF BeginInspection

\* acknowledgeInspection, or a pane that does not show the report.
LEMMA EndInspectionStep ==
    ASSUME Inv, NEW k \in Name, EndInspection(k)
    PROVE  Inv' /\ Ledger!Report
<1>1. inspecting[k] \in Delivery /\ inspecting' \in [Name -> Delivery \cup {None}]
  BY DEF EndInspection, Inv, TypeOK
<1>2. Quiet(mgr, mgr', results, session, 0..nextId)
  <2>1. Quiet(mgr, AcknowledgeInspection(mgr, inspecting[k]), results, session, 0..nextId)
    BY <1>1, InvFacts, AcknowledgeInspectionQuiet
  <2>2. Quiet(mgr, mgr, results, session, 0..nextId)
    BY InvFacts, QuietSelf
  <2>3. QED
    BY <2>1, <2>2 DEF EndInspection
<1>3. mgr' \in Manager /\ \A j \in Name : Len(mgr'.early[j]) <= PendingLimit
  BY <1>2 DEF Quiet, Sound, Clean
<1>4. Inv'
  BY <1>1, <1>2, <1>3 DEF EndInspection, Inv, TypeOK, Quiet
<1>5. Accepts(mgr, mgr', {})
  BY <1>2 DEF Quiet, Accepts
<1>6. \A i \in Ids : Gone(i)' <=> Gone(i)
  BY <1>2 DEF Gone, IsPolled, IsExpired, EndInspection, Quiet
<1>7. Ledger!Report
  BY <1>5, <1>6, ReportStep
<1>8. QED
  BY <1>4, <1>7

\* cancelAll: results of the old session are older than the new one.
LEMMA SessionShutdownStep == ASSUME Inv, SessionShutdown PROVE Inv' /\ Ledger!Restart
<1> DEFINE n == CancelAll(mgr)
<1>1. mgr' = n /\ clock' = clock + 1 /\ session' = clock + 1 /\ clock < MaxTime
      /\ results' = results /\ nextId' = nextId
  BY DEF SessionShutdown
<1>2. DOMAIN EmptyManager = Fields /\ EmptyManager \in Manager
  BY DEF EmptyManager, Fields, Manager
<1>3. mgr.nextBatch \in Nat /\ mgr.sent \in Seq(Message)
  BY DEF Inv, TypeOK, Manager
<1>4. /\ n \in Manager
      /\ n.sent = mgr.sent
      /\ n.groups = EmptyManager.groups /\ n.early = EmptyManager.early
      /\ n.watchers = EmptyManager.watchers
  BY <1>2, <1>3 DEF CancelAll, Manager, Fields
<1>5. /\ \A g \in BatchId : n.groups[g] = None
      /\ \A k \in Name : n.early[k] = << >> /\ n.watchers[k] = None
  BY <1>4 DEF EmptyManager
<1> HIDE DEF n
<1>6. OpenGroups(n) = {}
  BY <1>5 DEF OpenGroups
<1>7. Clean(n) /\ KnownIds(n) \subseteq KnownIds(mgr)
  BY <1>4, <1>6, InvFacts, GroupsShrink DEF Sound
<1>8. \A r \in results : ~(r.at >= clock + 1)
  BY InvFacts DEF Inv, ResultsOf, Result
<1>9. << >> \in Seq(results) /\ Len(<< >>) <= PendingLimit
  BY PendingLimitAssumption
<1>10. \A k \in Name : n.early[k] \in Seq(results) /\ Len(n.early[k]) <= PendingLimit
  BY <1>5, <1>9
<1>11. Sound(n, results, clock + 1, 0..nextId)
  BY <1>5, <1>7, <1>8, <1>10, InvFacts DEF Sound
<1>12. clock + 1 \in 0..MaxTime /\ clock + 1 \in 0..clock'
  BY <1>1, InvFacts, BoundsAssumption
<1>13. \A r \in results : r.at <= clock + 1
  BY InvFacts DEF Inv, ResultsOf, Result
<1>14. TypeOK'
  BY <1>1, <1>4, <1>10, <1>12 DEF SessionShutdown, Inv, TypeOK
<1>15. n.seen = {}
  BY <1>2 DEF n, CancelAll, EmptyManager, Fields
<1>16. Inv'
  BY <1>1, <1>11, <1>13, <1>14, <1>15 DEF Inv
<1>17. ASSUME NEW i \in Ids
       PROVE  /\ StandingOf(i)' \in {"open", "held", "told", "dismissed"}
              /\ StandingOf(i) = "open" => StandingOf(i)' \in {"open", "dismissed"}
              /\ StandingOf(i) = "held" => StandingOf(i)' = "dismissed"
              /\ StandingOf(i) \in {"told", "dismissed"} => StandingOf(i)' = StandingOf(i)
  <2>1. StandingOf(i) = IF i \in SentIds(mgr) THEN "told"
                        ELSE IF i \in IdsOf(Held(mgr)) THEN "held"
                        ELSE IF Gone(i) THEN "dismissed" ELSE "open"
    BY DEF StandingOf, Gone
  <2>2. StandingOf(i)' = IF i \in SentIds(mgr') THEN "told"
                         ELSE IF i \in IdsOf(Held(mgr')) THEN "held"
                         ELSE IF Gone(i)' THEN "dismissed" ELSE "open"
    BY DEF StandingOf, Gone
  <2>3. SentIds(mgr') = SentIds(mgr) /\ IdsOf(Held(mgr')) = {}
    BY <1>1, <1>4, <1>6 DEF SentIds, Held, IdsOf
  <2>4. Gone(i) => Gone(i)'
    <3>1. i \in mgr.seen => IsPolled(i) \/ \E r \in results : r.id = i
      BY DEF Inv, IsPolled
    <3>2. (\E r \in results : r.id = i) => IsExpired(i)'
      BY <1>1, <1>8, InvFacts DEF IsExpired, Inv, ResultsOf, Result
    <3>3. IsPolled(i) => IsPolled(i)'
      BY <1>1 DEF IsPolled
    <3>4. QED
      BY <3>1, <3>2, <3>3 DEF Gone, IsExpired
  <2>5. i \in IdsOf(Held(mgr)) => Gone(i) /\ i \notin SentIds(mgr)
    BY KnownIsGone, InvFacts DEF KnownIds, Sound, Clean, HeldIsUnsent
  <2>6. QED
    BY <2>1, <2>2, <2>3, <2>4, <2>5
<1>18. [i \in Ids |-> StandingOf(i)]' = [i \in Ids |-> StandingOf(i)']
  OBVIOUS
<1>19. Ledger!Restart
  <2> DEFINE was == [i \in Ids |-> StandingOf(i)]
             is == [i \in Ids |-> StandingOf(i)']
  <2>1. \A i \in Ids : was[i] = StandingOf(i) /\ is[i] = StandingOf(i)'
    OBVIOUS
  <2>2. is \in [Ids -> {"open", "held", "told", "dismissed"}]
    BY <1>17
  <2>3. was' = is
    BY <1>18
  <2>4. Ledger!Restart <=>
          /\ was' \in [Ids -> {"open", "held", "told", "dismissed"}]
          /\ \A i \in Ids :
               CASE was[i] = "open" -> was'[i] \in {"open", "dismissed"}
                 [] was[i] = "held" -> was'[i] = "dismissed"
                 [] OTHER -> was'[i] = was[i]
    BY DEF Ledger!Restart, Ledger!Standing
  <2>5. \A i \in Ids : StandingOf(i) \in {"open", "held", "told", "dismissed"}
    BY DEF StandingOf
  <2> HIDE DEF was, is
  <2>6. QED
    BY <1>17, <2>1, <2>2, <2>3, <2>4, <2>5
<1>20. QED
  BY <1>16, <1>19

\* A subagent sends a result with a fresh completion id.
LEMMA SettleStep == ASSUME Inv, NEW k \in Name, Settle(k) PROVE Inv' /\ Ledger!Report
<1>1. PICK arm \in Arm \cup {None}, final \in BOOLEAN : results' = results \cup
          {[id |-> nextId', name |-> k, arm |-> arm, at |-> clock, final |-> final]}
  BY DEF Settle
<1> DEFINE r == [id |-> nextId', name |-> k, arm |-> arm, at |-> clock, final |-> final]
<1>2. /\ nextId' = nextId + 1 /\ nextId' \in 0..MaxResult
      /\ UNCHANGED <<mgr, clock, spawning, inspecting, session>>
  BY InvFacts, BoundsAssumption DEF Settle
<1>3. r \in Result /\ r.id = nextId + 1 /\ r.at = clock
  BY <1>2, InvFacts DEF Result
<1>4. results' = results \cup {r}
  BY <1>1
<1> HIDE DEF r
<1>5. ResultsOf(results', 0..nextId')
  BY <1>2, <1>3, <1>4, InvFacts DEF ResultsOf
<1>6. r.id \notin KnownIds(mgr)
  BY <1>3, InvFacts DEF Sound
<1>7. \A j \in Name : mgr.early[j] \in Seq(results')
  <2> SUFFICES ASSUME NEW j \in Name PROVE mgr.early[j] \in Seq(results')
    OBVIOUS
  <2>1. mgr.early[j] \in Seq(results) /\ results \subseteq results'
    BY <1>4, InvFacts DEF Sound
  <2>2. QED
    BY <2>1, SeqMonotonic
<1>8. Sound(mgr, results', session, 0..nextId')
  <2>1. KnownIds(mgr) \subseteq 0..nextId'
    BY <1>2, InvFacts DEF Sound
  <2>2. QED
    BY <2>1, <1>4, <1>6, <1>7, InvFacts DEF Sound
<1>9. \A s \in results' : s.at <= clock
  BY <1>3, <1>4, InvFacts DEF Inv
<1>10. \A s, u \in results' : s.id = u.id => s = u
  BY <1>3, <1>4, InvFacts DEF Inv, ResultsOf
<1>11. mgr.seen \subseteq 0..nextId'
  BY <1>2, InvFacts DEF Inv
<1>12. Inv'
  BY <1>2, <1>3, <1>4, <1>5, <1>8, <1>9, <1>10, <1>11 DEF Inv, TypeOK
<1>13. Accepts(mgr, mgr', {})
  BY <1>2 DEF Accepts
<1>14. \A i \in Ids : Gone(i)' <=> Gone(i)
  <2> SUFFICES ASSUME NEW i \in Ids PROVE Gone(i)' <=> Gone(i)
    OBVIOUS
  <2>1. i \in Nat /\ nextId \in Nat
    BY InvFacts, BoundsAssumption DEF Ids
  <2>2. ~(r.at < session) /\ r.id = nextId + 1
    BY <1>3, InvFacts
  <2>3. IsPolled(i)' <=> IsPolled(i)
    <3>1. nextId + 1 # i => (i <= nextId' <=> i <= nextId)
      BY <1>2, <2>1
    <3>2. ~IsPolled(nextId + 1) /\ (i = nextId + 1 => ~IsPolled(i)')
      BY <1>2, <1>4, <2>2, InvFacts DEF IsPolled
    <3>3. i # nextId + 1 => (IsPolled(i)' <=> IsPolled(i))
      BY <1>4, <2>2, <3>1 DEF IsPolled
    <3>4. QED
      BY <3>2, <3>3
  <2>4. IsExpired(i)' <=> IsExpired(i)
    BY <1>2, <1>4, <2>2 DEF IsExpired
  <2>5. QED
    BY <1>2, <2>3, <2>4 DEF Gone
<1>15. Ledger!Report
  BY <1>13, <1>14, ReportStep
<1>16. QED
  BY <1>12, <1>15

\* processExternalResult, for a first or a repeated delivery.
LEMMA DeliverExternalStep ==
    ASSUME Inv, NEW r \in results, DeliverExternal(r)
    PROVE  Inv' /\ Ledger!Report
<1>1. /\ Sound(ProcessExternalResult(mgr, r), results, session, 0..nextId)
      /\ Takes(mgr, ProcessExternalResult(mgr, r), results, session)
  BY InvFacts, ProcessExternalResultSound
<1>2. Caller(ProcessExternalResult(mgr, r)) /\ spawning' \subseteq Name
  BY InvFacts DEF DeliverExternal
<1>3. QED
  BY <1>1, <1>2, CallerStep

\* A pane watch has resolved; its callback has yet to run.
LEMMA WatchFindsStep ==
    ASSUME Inv, NEW k \in Name, NEW found \in results \cup {Settled}, WatchFinds(k, found)
    PROVE  Inv' /\ Ledger!Report
<1> DEFINE x == [mgr.watchers[k] EXCEPT !.found = found]
           n == [mgr EXCEPT !.watchers[k].found = found]
<1>1. mgr.watchers[k] \in Slot /\ mgr.watchers[k] # None
  BY DEF WatchFinds, Watching, Inv, TypeOK, Manager
<1>2. found \in Result \cup {Settled}
  BY DEF Inv, TypeOK
<1>3. x \in Slot /\ x.since = mgr.watchers[k].since /\ x.found = found
  BY <1>1, <1>2 DEF Slot
<1>4. n = WithWatcher(mgr, k, x)
  BY DEF WithWatcher
<1>5. x.since >= session /\ x.found \in results \cup {Settled, None}
  BY <1>1, <1>3, InvFacts DEF Sound
<1> HIDE DEF x
<1>6. Quiet(mgr, WithWatcher(mgr, k, x), results, session, 0..nextId)
  BY <1>3, <1>5, InvFacts, SetWatcher
<1>7. Caller(n) /\ spawning' \subseteq Name
  BY InvFacts DEF WatchFinds
<1> HIDE DEF n
<1>8. QED
  BY <1>4, <1>6, <1>7, QuietStep

\* A pane watch takes a result from the outbox.
LEMMA WatchTakesStep == ASSUME Inv, NEW r \in results, WatchTakes(r) PROVE Inv' /\ Ledger!Report
<1>1. r.name \in Name
  BY DEF Inv, TypeOK, Result
<1>2. QED
  BY <1>1, WatchFindsStep DEF WatchTakes

\* A pane watch sees its subagent settle.
LEMMA WatchSettlesStep == ASSUME Inv, NEW k \in Name, WatchSettles(k) PROVE Inv' /\ Ledger!Report
  BY WatchFindsStep DEF WatchSettles

\* The callback of a pane watch.
LEMMA WatchCallbackStep ==
    ASSUME Inv, NEW k \in Name, WatchCallback(k)
    PROVE  Inv' /\ Ledger!Report
<1> USE InvFacts
<1>1. /\ mgr.watchers[k] # None /\ mgr.watchers[k].found # None
      /\ mgr' = WatchResolved(mgr, k, nextId') /\ nextId' <= MaxResult
      /\ UNCHANGED <<clock, results, spawning, inspecting, session>>
  BY DEF WatchCallback, Watching
<1>2. CASE mgr.watchers[k].found = Settled
  <2>1. nextId' = nextId + 1
    BY <1>2 DEF WatchCallback
  <2>2. nextId + 1 \in Nat /\ nextId + 1 \notin 0..nextId /\ 0..(nextId + 1) = (0..nextId) \cup {nextId + 1}
    OBVIOUS
  <2> DEFINE id == nextId + 1
             I == 0..nextId
             n == WatchResolved(mgr, k, id)
  <2>3. Sound(n, results, session, I \cup {id}) /\ Accepts(mgr, n, {id}) /\ n.seen = mgr.seen
    <3>1. id \in Nat /\ id \notin I
      BY <2>2
    <3>2. ResultsOf(results, I) /\ Sound(mgr, results, session, I)
      OBVIOUS
    <3> HIDE DEF id, I
    <3>3. mgr.watchers[k] # None /\ mgr.watchers[k].found = Settled /\ k \in Name
      BY <1>1, <1>2
    <3>4. \A R, t, J : ResultsOf(R, J) /\ Sound(mgr, R, t, J) /\ id \notin J =>
              Sound(n, R, t, J \cup {id}) /\ Accepts(mgr, n, {id}) /\ n.seen = mgr.seen
      BY ONLY <3>1, <3>3, WatchSettledSound
    <3>5. QED
      BY ONLY <3>1, <3>2, <3>4
  <2>4. Sound(mgr', results, session, 0..nextId')
    BY <1>1, <2>1, <2>2, <2>3
  <2>5. mgr' \in Manager /\ \A j \in Name : Len(mgr'.early[j]) <= PendingLimit
    BY <2>4 DEF Sound, Clean
  <2>6. ResultsOf(results, 0..nextId') /\ nextId' \in 0..MaxResult
    BY <1>1, <2>1, BoundsAssumption DEF ResultsOf
  <2>7. mgr'.seen = mgr.seen /\ Accepts(mgr, mgr', {nextId + 1})
    BY <1>1, <2>1, <2>3
  <2>8. mgr'.seen \subseteq 0..nextId'
    BY <2>1, <2>2, <2>7 DEF Inv
  <2>9. Inv'
    BY <1>1, <2>4, <2>5, <2>6, <2>8 DEF Inv, TypeOK
  <2>10. \A i \in {nextId + 1} : ~Gone(i)
    BY <2>2 DEF Gone, IsPolled, IsExpired, Inv, ResultsOf
  <2>11. \A i \in Ids : Gone(i)' <=> Gone(i) \/ i \in {nextId + 1}
    <3> SUFFICES ASSUME NEW i \in Ids PROVE Gone(i)' <=> Gone(i) \/ i = nextId + 1
      OBVIOUS
    <3>1. i <= nextId + 1 <=> i <= nextId \/ i = nextId + 1
      BY BoundsAssumption DEF Ids
    <3>2. \A r \in results : r.id # nextId + 1
      BY <2>2 DEF ResultsOf
    <3>3. QED
      BY <1>1, <2>1, <2>7, <3>1, <3>2 DEF Gone, IsPolled, IsExpired
  <2>12. Ledger!Report
    BY <2>7, <2>10, <2>11, ReportStep
  <2>13. QED
    BY <2>9, <2>12
<1>3. CASE mgr.watchers[k].found # Settled
  <2>1. nextId' = nextId
    BY <1>3 DEF WatchCallback
  <2>2. /\ Sound(WatchResolved(mgr, k, nextId), results, session, 0..nextId)
        /\ Takes(mgr, WatchResolved(mgr, k, nextId), results, session)
    BY <1>1, <1>3, WatchTookSound
  <2>3. Caller(WatchResolved(mgr, k, nextId)) /\ spawning' \subseteq Name
    BY <1>1, <2>1 DEF Caller
  <2>4. QED
    BY <2>2, <2>3, CallerStep
<1>4. QED
  BY <1>2, <1>3

\* A pane watch rejects.
LEMMA WatchFailsStep == ASSUME Inv, NEW k \in Name, WatchFails(k) PROVE Inv' /\ Ledger!Report
<1>1. Quiet(mgr, WatchRejected(mgr, k), results, session, 0..nextId)
  BY InvFacts, WatchRejectedQuiet
<1>2. Caller(WatchRejected(mgr, k)) /\ spawning' \subseteq Name
  BY InvFacts DEF WatchFails
<1>3. QED
  BY <1>1, <1>2, QuietStep

\* The batch timer.
LEMMA BatchWindowEndsStep == ASSUME Inv, BatchWindowEnds PROVE Inv' /\ Ledger!Report
<1>1. Quiet(mgr, FinalizeBatch(mgr), results, session, 0..nextId)
  BY InvFacts, FinalizeBatchQuiet DEF BatchWindowEnds
<1>2. Caller(FinalizeBatch(mgr)) /\ spawning' \subseteq Name
  BY InvFacts DEF BatchWindowEnds
<1>3. QED
  BY <1>1, <1>2, QuietStep

\* The group timer.
LEMMA GroupTimerFiresStep ==
    ASSUME Inv, NEW g \in BatchId, GroupTimerFires(g)
    PROVE  Inv' /\ Ledger!Report
<1>1. Regrouped(mgr, OnGroupTimeout(mgr, g))
  BY InvFacts, OnGroupTimeoutClean DEF GroupTimerFires, Sound
<1>2. Quiet(mgr, OnGroupTimeout(mgr, g), results, session, 0..nextId)
  BY <1>1, InvFacts, RegroupedQuiet
<1>3. Caller(OnGroupTimeout(mgr, g)) /\ spawning' \subseteq Name
  BY InvFacts DEF GroupTimerFires
<1>4. QED
  BY <1>2, <1>3, QuietStep

\* Time passes.
LEMMA TickStep == ASSUME Inv, Tick PROVE Inv' /\ Ledger!Report
<1>1. clock' = clock + 1 /\ clock + 1 \in 0..MaxTime /\ session \in 0..(clock + 1)
      /\ UNCHANGED <<mgr, results, spawning, inspecting, session, nextId>>
  BY InvFacts, BoundsAssumption DEF Tick
<1>2. \A r \in results : r.at <= clock + 1
  BY InvFacts DEF Inv, ResultsOf, Result
<1>3. Inv'
  BY <1>1, <1>2 DEF Inv, TypeOK
<1>4. QED
  BY <1>1, <1>3, IdleStep

\* Every step preserves the invariant and is a step of the ledger.
LEMMA NextInv == Inv /\ [Next]_vars => Inv' /\ Ledger!Next
<1> SUFFICES ASSUME Inv, [Next]_vars PROVE Inv' /\ Ledger!Next
  OBVIOUS
<1> USE DEF Ledger!Next
<1>1. CASE UNCHANGED vars
  <2>1. Inv'
    BY <1>1 DEF vars, Inv, TypeOK
  <2>2. QED
    BY <1>1, <2>1, IdleStep DEF vars
<1>2. ASSUME NEW k \in Name,
             \/ BeginBatchMember(k) \/ ReleaseBatchMember(k) \/ ArmSpawn(k) \/ ArmSend(k)
             \/ AcceptSend(k) \/ CancelTarget(k) \/ BeginInspection(k) \/ EndInspection(k)
             \/ Settle(k) \/ WatchSettles(k) \/ WatchCallback(k) \/ WatchFails(k)
      PROVE  Inv' /\ Ledger!Report
  BY <1>2, BeginBatchMemberStep, ReleaseBatchMemberStep, ArmSpawnStep, ArmSendStep,
     AcceptSendStep, CancelTargetStep, BeginInspectionStep, EndInspectionStep,
     SettleStep, WatchSettlesStep, WatchCallbackStep, WatchFailsStep
<1>3. ASSUME NEW r \in results, DeliverExternal(r) \/ WatchTakes(r)
      PROVE  Inv' /\ Ledger!Report
  BY <1>3, DeliverExternalStep, WatchTakesStep
<1>4. ASSUME NEW g \in BatchId, GroupTimerFires(g)
      PROVE  Inv' /\ Ledger!Report
  BY <1>4, GroupTimerFiresStep
<1>5. CASE BatchWindowEnds
  BY <1>5, BatchWindowEndsStep
<1>6. CASE SessionShutdown
  BY <1>6, SessionShutdownStep
<1>7. CASE Tick
  BY <1>7, TickStep
<1>8. QED
  BY <1>1, <1>2, <1>3, <1>4, <1>5, <1>6, <1>7 DEF Next

\* The invariant holds in every reachable state.
LEMMA Invariance == Spec => []Inv
<1>1. QED
  BY InitInv, NextInv, PTL DEF Spec

\* The manager and its callers keep their types, and no buffer of early
\* results grows beyond its limit (queuePendingExternal).
THEOREM TypeCorrect == Spec => []TypeOK
<1>1. Inv => TypeOK
  BY DEF Inv
<1>2. QED
  BY <1>1, Invariance, PTL

\* No completion is reported in two messages, whatever the calls, deliveries,
\* watches, timers and sessions (deliveredCompletionIds, the groups).
THEOREM ReportedAtMostOnce == Spec => []ReportedOnce
<1>1. Inv => ReportedOnce
  BY DEF Inv, Sound, Clean, SentOnce, ReportedOnce
<1>2. QED
  BY <1>1, Invariance, PTL

\* The manager implements the life of a report: every accepted completion is
\* held or told at once, and what was told or dismissed stays so.
THEOREM ImplementsLedger == Spec => FollowsLedger
<1>1. Init => Ledger!Init
  <2> SUFFICES ASSUME Init PROVE [i \in Ids |-> StandingOf(i)] = [i \in Ids |-> "open"]
    BY DEF Ledger!Init
  <2>1. SentIds(mgr) = {} /\ Held(mgr) = {} /\ mgr.seen = {}
    BY DEF Init, EmptyManager, SentIds, Held, OpenGroups
  <2>2. \A i \in Ids : StandingOf(i) = "open"
    BY <2>1, BoundsAssumption DEF StandingOf, IdsOf, IsPolled, IsExpired, Init, Ids
  <2>3. QED
    BY <2>2
<1>2. QED
  BY <1>1, NextInv, Invariance, PTL DEF Spec, FollowsLedger, Ledger!Spec

----------------------------------------------------------------------------
(* Groups.  As long as no name is spawned while it is in use, whoever is   *)
(* awaited is watched or being spawned; as long as, besides, nobody is     *)
(* armed again while a report of it is held, a held report's subagent is   *)
(* neither watched nor being spawned, so that no watcher can replace the   *)
(* report by another.                                                      *)

Members == Awaited(mgr, spawning)

Separate ==
    /\ Apart(mgr, spawning)
    /\ \A k \in Name : inspecting[k] # None => inspecting[k].name = k

Timely ==
    /\ Timed(mgr)
    /\ \A k \in Name : inspecting[k] = None

\* What HeldReportIsKept says of a step.
KeepsHeld ==
    \A d \in Held(mgr) :
        \/ d \in Held(mgr')
        \/ d.id \in SentIds(mgr')
        \/ CancelTarget(d.name)
        \/ EndInspection(d.name) /\ inspecting[d.name].id = d.id
        \/ SessionShutdown

\* What every step does.
Orderly ==
    /\ Members'
    /\ "rearm" \notin Calls /\ Separate => Separate' /\ KeepsHeld
    /\ Calls \cap {"rearm", "dismiss"} = {} /\ Separate /\ Timely => Timely'

\* A step of the manager that drops no report and adds nobody.
LEMMA QuietOrder ==
    ASSUME Inv, Members, Advances(mgr, mgr', {}, {}, {}), SameWatched(mgr, mgr'),
           UNCHANGED <<spawning, inspecting>>
    PROVE  Orderly
<1>1. Struct(mgr) /\ spawning \in SUBSET Name
  BY DEF Members, Awaited, Inv, TypeOK
<1>2. /\ Awaited(mgr, spawning) => Awaited(mgr', spawning)
      /\ Apart(mgr, spawning) => Apart(mgr', spawning)
      /\ KeepsReports(mgr, mgr')
      /\ Timed(mgr) => Timed(mgr')
  BY <1>1, AdvanceKeeps
<1>3. QED
  BY <1>2 DEF Orderly, Members, Separate, Timely, KeepsHeld, KeepsReports

\* A step that offers the manager a result.
LEMMA OfferOrder ==
    ASSUME Inv, Members, Offered(mgr, mgr'), UNCHANGED <<spawning, inspecting>>
    PROVE  Orderly
<1>1. Struct(mgr) /\ spawning \in SUBSET Name
  BY DEF Members, Awaited, Inv, TypeOK
<1>2. /\ Awaited(mgr, spawning) => Awaited(mgr', spawning)
      /\ Apart(mgr, spawning) =>
           Apart(mgr', spawning) /\ KeepsReports(mgr, mgr') /\ (Timed(mgr) => Timed(mgr'))
  BY <1>1, OfferKeeps
<1>3. QED
  BY <1>2 DEF Orderly, Members, Separate, Timely, KeepsHeld, KeepsReports

\* A step that removes a watcher, or that the user asked for.
LEMMA DropOrder ==
    ASSUME Inv, Members, NEW k \in Name, Dropped(mgr, mgr', k),
           UNCHANGED <<spawning, inspecting>>,
           mgr.watchers[k] # None \/ CancelTarget(k)
    PROVE  Orderly
<1>1. Struct(mgr) /\ spawning \in SUBSET Name
  BY DEF Members, Awaited, Inv, TypeOK
<1>2. /\ Awaited(mgr, spawning) => Awaited(mgr', spawning)
      /\ Apart(mgr, spawning) => Apart(mgr', spawning)
      /\ \A d \in Held(mgr) : d.name = k \/ d \in Held(mgr') \/ d.id \in SentIds(mgr')
      /\ Timed(mgr) /\ (\A d \in Held(mgr) : d.name # k) => Timed(mgr')
  BY <1>1, DropKeeps
<1>3. Apart(mgr, spawning) /\ mgr.watchers[k] # None => \A d \in Held(mgr) : d.name # k
  BY DEF Apart
<1>4. CancelTarget(k) => "dismiss" \in Calls
  BY DEF CancelTarget
<1>5. Separate => KeepsHeld
  BY <1>2, <1>3 DEF Separate, KeepsHeld
<1>6. QED
  BY <1>2, <1>3, <1>4, <1>5 DEF Orderly, Members, Separate, Timely

\* A step that leaves the manager alone.
LEMMA IdleOrder ==
    ASSUME Inv, Members, mgr' = mgr, UNCHANGED <<spawning, inspecting>>
    PROVE  Orderly
  BY DEF Orderly, Members, Separate, Timely, KeepsHeld

\* Arming k, which is no longer being spawned then.
LEMMA ArmOrder ==
    ASSUME Inv, Members, NEW k \in Name, MayOpenBatch(mgr), NEW since \in session..clock,
           NEW arms \in ArmChoices, NEW source \in SourceChoices,
           mgr' = ArmWatcher(mgr, k, since, arms, source),
           spawning' = spawning \ {k}, inspecting' = inspecting,
           "rearm" \notin Calls => k \in spawning \/ ~Holds(k)
    PROVE  Orderly
<1>1. Struct(mgr) /\ spawning \in SUBSET Name /\ mgr.early[k] \in Seq(Result)
  BY DEF Members, Awaited, Inv, TypeOK, Manager
<1>2. since \in Nat /\ arms \in SUBSET Arm /\ source \in {"rpc", "poll"}
  <2>1. session \in Nat /\ clock \in Nat
    BY BoundsAssumption DEF Inv, TypeOK
  <2>2. QED
    BY <2>1 DEF ArmChoices, SourceChoices
<1>3. \E b : /\ Advances(mgr, b, {k}, {}, {k})
             /\ \E x \in Slot : b.watchers = [mgr.watchers EXCEPT ![k] = x]
             /\ Offered(b, ArmWatcher(mgr, k, since, arms, source))
  BY <1>1, <1>2, ArmWatcherOffers
<1>4. PICK b : /\ Advances(mgr, b, {k}, {}, {k})
               /\ \E x \in Slot : b.watchers = [mgr.watchers EXCEPT ![k] = x]
               /\ Offered(b, mgr')
  BY <1>3
<1>5. /\ Awaited(mgr, spawning) => Awaited(mgr', spawning \ {k})
      /\ Apart(mgr, spawning) /\ (\A d \in Held(mgr) : d.name # k) =>
           /\ Apart(mgr', spawning \ {k})
           /\ KeepsReports(mgr, mgr')
           /\ Timed(mgr) => Timed(mgr')
  BY <1>1, <1>4, ArmKeeps
<1>6. "rearm" \notin Calls /\ Separate => \A d \in Held(mgr) : d.name # k
  BY DEF Separate, Apart, Holds, Named
<1>7. QED
  BY <1>5, <1>6 DEF Orderly, Members, Separate, Timely, KeepsHeld, KeepsReports

\* A spawn reserves membership under a name that is not in use.
LEMMA BeginBatchMemberOrder ==
    ASSUME Inv, Members, "respawn" \notin Calls, NEW k \in Name, BeginBatchMember(k)
    PROVE  Orderly
<1>1. /\ Struct(mgr) /\ mgr.watchers[k] = None /\ mgr.groupOf[k] = None /\ MayOpenBatch(mgr)
      /\ mgr' = AddKeyToBatch(mgr, k) /\ spawning' = spawning \cup {k}
      /\ inspecting' = inspecting
  BY DEF Members, Awaited, BeginBatchMember, InUse, Caller, BeginMember
<1>2. Advances(mgr, mgr', {k}, {}, {}) /\ mgr'.watchers = mgr.watchers
  BY <1>1, AddKeyToBatchAdvances
<1>3. ASSUME NEW d \in Held(mgr) PROVE d.name # k
  <2>1. PICK g \in OpenGroups(mgr) : d \in mgr.groups[g].completed
    BY DEF Held
  <2>2. mgr.groupOf[d.name] = g
    BY <1>1, <2>1 DEF Struct, OneReportEach, Keyed
  <2>3. g # None
    BY <2>1, ConstantsAssumption DEF OpenGroups
  <2>4. QED
    BY <1>1, <2>2, <2>3
<1>4. Members'
  BY <1>1, <1>2 DEF Members, Awaited, Advances
<1>5. Separate => Separate'
  BY <1>1, <1>2, <1>3 DEF Separate, Apart, Advances
<1>6. KeepsHeld /\ (Timely => Timely')
  BY <1>1, <1>2 DEF KeepsHeld, Timely, Advances
<1>7. QED
  BY <1>4, <1>5, <1>6 DEF Orderly

\* A spawn gives up its membership.
LEMMA ReleaseBatchMemberOrder ==
    ASSUME Inv, Members, NEW k \in Name, ReleaseBatchMember(k)
    PROVE  Orderly
<1>1. /\ Struct(mgr) /\ k \in spawning
      /\ mgr' = ReleaseMember(mgr, k) /\ spawning' = spawning \ {k}
      /\ inspecting' = inspecting
  BY DEF Members, Awaited, ReleaseBatchMember, Caller
<1>2. /\ Moves(mgr, mgr', {k}) /\ mgr'.watchers = mgr.watchers
      /\ mgr.watchers[k] = None => k \notin Waits(mgr')
  BY <1>1, ReleaseMemberMoves
<1>3. Members'
  BY <1>1, <1>2 DEF Members, Awaited, Moves
<1>4. Separate => Separate'
  BY <1>1, <1>2 DEF Separate, Apart, Moves
<1>5. Separate => \A d \in Held(mgr) : d.name # k
  BY <1>1 DEF Separate, Apart
<1>6. Separate => KeepsHeld /\ (Timely => Timely')
  BY <1>1, <1>2, <1>5 DEF KeepsHeld, Timely, Moves
<1>7. QED
  BY <1>3, <1>4, <1>6 DEF Orderly

LEMMA ArmSpawnOrder ==
    ASSUME Inv, Members, NEW k \in Name, ArmSpawn(k)
    PROVE  Orderly
<1>1. PICK since \in session..clock, arms \in ArmChoices, source \in SourceChoices :
        Caller(ArmWatcher(mgr, k, since, arms, source))
  BY DEF ArmSpawn
<1>2. k \in spawning /\ MayOpenBatch(mgr) /\ spawning' = spawning \ {k}
  BY DEF ArmSpawn
<1>3. mgr' = ArmWatcher(mgr, k, since, arms, source) /\ inspecting' = inspecting
  BY <1>1 DEF Caller
<1>4. QED
  BY <1>2, <1>3, ArmOrder

LEMMA ArmSendOrder ==
    ASSUME Inv, Members, NEW k \in Name, ArmSend(k)
    PROVE  Orderly
<1>1. PICK since \in session..clock, arms \in ArmChoices :
        Caller(ArmWatcher(mgr, k, since, arms, "rpc"))
  BY DEF ArmSend
<1>2. /\ k \notin spawning /\ MayOpenBatch(mgr) /\ spawning' = spawning
      /\ Holds(k) => "rearm" \in Calls
  BY DEF ArmSend
<1>3. mgr' = ArmWatcher(mgr, k, since, arms, "rpc") /\ inspecting' = inspecting
  BY <1>1 DEF Caller
<1>4. "rpc" \in SourceChoices /\ spawning' = spawning \ {k}
  BY <1>2 DEF SourceChoices
<1>5. QED
  BY <1>2, <1>3, <1>4, ArmOrder

\* A change of a slot that stays installed.
LEMMA SlotOrder ==
    ASSUME Inv, Inv', Members, NEW k \in Name, mgr.watchers[k] # None, NEW x,
           mgr' = WithWatcher(mgr, k, x), x # None, UNCHANGED <<spawning, inspecting>>
    PROVE  Orderly
<1>1. Struct(mgr)
  BY DEF Members, Awaited
<1>2. mgr'.watchers = [mgr.watchers EXCEPT ![k] = x]
  BY <1>1 DEF WithWatcher, Struct, Shaped, Fields
<1>3. mgr'.watchers \in [Name -> Slot \cup {None}] /\ mgr.watchers \in [Name -> Slot \cup {None}]
  BY <1>1 DEF Inv, TypeOK, Manager, Struct, Shaped
<1>4. x \in Slot \cup {None}
  BY <1>2, <1>3
<1>5. Moves(mgr, mgr', {})
  BY <1>1, <1>4, WatcherMoves
<1>6. SameWatched(mgr, mgr')
  BY <1>2, <1>3 DEF SameWatched
<1>7. QED
  BY <1>5, <1>6, QuietOrder, MovesAdvances

LEMMA AcceptSendOrder ==
    ASSUME Inv, Inv', Members, NEW k \in Name, AcceptSend(k)
    PROVE  Orderly
<1>1. PICK a \in Arm : Caller(AcceptArm(mgr, k, a))
  BY DEF AcceptSend
<1> DEFINE x == [mgr.watchers[k] EXCEPT !.arms = @ \cup {a}]
<1>2. mgr.watchers[k] \in Slot /\ mgr.watchers[k] # None
  BY DEF AcceptSend, Inv, TypeOK, Manager
<1>3. x \in Slot /\ x # None
  BY <1>2, RecordsAssumption DEF Slot
<1>4. mgr' = WithWatcher(mgr, k, x)
  BY <1>1, <1>2 DEF Caller, AcceptArm, WithWatcher
<1> HIDE DEF x
<1>5. UNCHANGED <<spawning, inspecting>>
  BY <1>1 DEF AcceptSend, Caller
<1>6. QED
  BY <1>2, <1>3, <1>4, <1>5, SlotOrder

LEMMA CancelTargetOrder ==
    ASSUME Inv, Members, NEW k \in Name, CancelTarget(k)
    PROVE  Orderly
<1>1. PICK byName \in BOOLEAN : Caller(Cancel(mgr, k, byName))
  BY DEF CancelTarget
<1>2. mgr' = Cancel(mgr, k, byName) /\ UNCHANGED <<spawning, inspecting>>
  BY <1>1 DEF CancelTarget, Caller
<1>3. \/ Dropped(mgr, mgr', k)
      \/ Moves(mgr, mgr', {}) /\ mgr'.watchers = mgr.watchers
  BY <1>2, CancelDrops DEF Members, Awaited
<1>4. CASE Dropped(mgr, mgr', k)
  BY <1>2, <1>4, DropOrder
<1>5. CASE Moves(mgr, mgr', {}) /\ mgr'.watchers = mgr.watchers
  BY <1>2, <1>5, QuietOrder, MovesAdvances DEF SameWatched
<1>6. QED
  BY <1>3, <1>4, <1>5

\* Inspections remember reports of the pane they read.
LEMMA BeginInspectionOrder ==
    ASSUME Inv, Members, NEW k \in Name, BeginInspection(k)
    PROVE  Orderly
<1>1. /\ UNCHANGED <<mgr, spawning>> /\ "dismiss" \in Calls
      /\ inspecting' = [inspecting EXCEPT ![k] = mgr.ready[k]]
      /\ inspecting \in [Name -> Delivery \cup {None}]
  BY DEF BeginInspection, Inspect, Inv, TypeOK
<1>2. \A j \in Name : inspecting'[j] \in {inspecting[j], mgr.ready[j]}
  BY <1>1
<1>3. \A j \in Name : mgr.ready[j] # None => mgr.ready[j].name = j
  BY DEF Members, Awaited, Struct, ReadyIsOwn
<1>4. Separate => Separate'
  BY <1>1, <1>2, <1>3 DEF Separate
<1>5. QED
  BY <1>1, <1>4 DEF Orderly, Members, KeepsHeld

\* An inspection drops at most the report it read.
LEMMA EndInspectionOrder ==
    ASSUME Inv, Members, NEW k \in Name, EndInspection(k)
    PROVE  Orderly
<1> DEFINE d == inspecting[k]
<1>1. /\ d # None /\ d \in Delivery /\ spawning' = spawning
      /\ inspecting' = [inspecting EXCEPT ![k] = None]
      /\ inspecting \in [Name -> Delivery \cup {None}]
      /\ mgr' = mgr \/ mgr' = AcknowledgeInspection(mgr, d)
  BY DEF EndInspection, Inv, TypeOK
<1>2. Struct(mgr)
  BY DEF Members, Awaited
<1>3. /\ Moves(mgr, mgr', {d.name}) /\ mgr'.watchers = mgr.watchers
      /\ \A e \in Held(mgr) : e.id = d.id \/ e \in Held(mgr') \/ e.id \in SentIds(mgr')
  <2>1. CASE mgr' = mgr
    BY <1>2, <2>1, NothingMoves, MovesMore
  <2>2. CASE mgr' = AcknowledgeInspection(mgr, d)
    BY <1>1, <1>2, <2>2, AcknowledgeInspectionMoves
  <2>3. QED
    BY <1>1, <2>1, <2>2
<1>4. Members'
  BY <1>1, <1>3 DEF Members, Awaited, Moves
<1>5. \A j \in Name : inspecting'[j] \in {inspecting[j], None}
  BY <1>1
<1>6. Separate => Separate'
  BY <1>1, <1>3, <1>5 DEF Separate, Apart, Moves
<1>7. Separate => KeepsHeld
  <2> SUFFICES ASSUME Separate, NEW e \in Held(mgr)
               PROVE  \/ e \in Held(mgr') \/ e.id \in SentIds(mgr')
                      \/ EndInspection(e.name) /\ inspecting[e.name].id = e.id
    BY DEF KeepsHeld
  <2>1. CASE e.name # k
    BY <1>1, <1>3, <2>1 DEF Separate, Moves
  <2>2. CASE e.name = k
    BY <1>3, <2>2
  <2>3. QED
    BY <2>1, <2>2
<1>8. ~Timely
  BY <1>1 DEF Timely
<1>9. QED
  BY <1>4, <1>6, <1>7, <1>8 DEF Orderly

LEMMA SessionShutdownOrder ==
    ASSUME Inv, Members, SessionShutdown
    PROVE  Orderly
<1>1. /\ mgr' = CancelAll(mgr) /\ spawning' = {}
      /\ inspecting' = [k \in Name |-> None]
  BY DEF SessionShutdown
<1>2. Struct(mgr') /\ Waits(mgr') = {} /\ Held(mgr') = {} /\ Timed(mgr')
  BY <1>1, CancelAllShape DEF Members, Awaited
<1>3. QED
  BY <1>1, <1>2 DEF Orderly, Members, Awaited, Separate, Apart, Timely, KeepsHeld

LEMMA DeliverExternalOrder ==
    ASSUME Inv, Members, NEW r \in results, DeliverExternal(r)
    PROVE  Orderly
<1>1. mgr' = ProcessExternalResult(mgr, r) /\ UNCHANGED <<spawning, inspecting>>
  BY DEF DeliverExternal, Caller
<1>2. Struct(mgr) /\ r \in Result
  BY DEF Members, Awaited, Inv, TypeOK
<1>3. Offered(mgr, mgr')
  BY <1>1, <1>2, ProcessExternalResultOffers
<1>4. QED
  BY <1>1, <1>3, OfferOrder

LEMMA WatchFindsOrder ==
    ASSUME Inv, Inv', Members, NEW k \in Name, NEW found \in Result \cup {Settled},
           WatchFinds(k, found)
    PROVE  Orderly
<1> DEFINE x == [mgr.watchers[k] EXCEPT !.found = found]
<1>1. /\ mgr.watchers[k] \in Slot /\ mgr.watchers[k] # None
      /\ UNCHANGED <<spawning, inspecting>>
      /\ mgr' = WithWatcher(mgr, k, x)
  BY DEF WatchFinds, Watching, Caller, Inv, TypeOK, Manager, WithWatcher
<1>2. x \in Slot /\ x # None
  BY <1>1, RecordsAssumption DEF Slot
<1> HIDE DEF x
<1>3. QED
  BY <1>1, <1>2, SlotOrder

LEMMA WatchCallbackOrder ==
    ASSUME Inv, Inv', Members, NEW k \in Name, WatchCallback(k)
    PROVE  Orderly
<1>1. /\ mgr.watchers[k] # None /\ mgr.watchers[k].found # None
      /\ mgr' = WatchResolved(mgr, k, nextId') /\ UNCHANGED <<spawning, inspecting>>
  BY DEF WatchCallback, Watching
<1>2. nextId' \in Nat
  BY BoundsAssumption DEF Inv, TypeOK
<1>3. Offered(mgr, mgr')
  BY <1>1, <1>2, WatchResolvedOffers DEF Members, Awaited
<1>4. QED
  BY <1>1, <1>3, OfferOrder

LEMMA WatchFailsOrder ==
    ASSUME Inv, Members, NEW k \in Name, WatchFails(k)
    PROVE  Orderly
<1>1. /\ mgr.watchers[k] # None /\ mgr' = WatchRejected(mgr, k)
      /\ UNCHANGED <<spawning, inspecting>>
  BY DEF WatchFails, Watching, Caller
<1>2. Dropped(mgr, mgr', k)
  BY <1>1, WatchRejectedDrops DEF Members, Awaited
<1>3. QED
  BY <1>1, <1>2, DropOrder

LEMMA TimersOrder ==
    ASSUME Inv, Members, BatchWindowEnds \/ \E g \in BatchId : GroupTimerFires(g)
    PROVE  Orderly
<1>1. Struct(mgr)
  BY DEF Members, Awaited
<1>2. CASE BatchWindowEnds
  <2>1. mgr.batch # None /\ mgr' = FinalizeBatch(mgr) /\ UNCHANGED <<spawning, inspecting>>
    BY <1>2 DEF BatchWindowEnds, Caller
  <2>2. Advances(mgr, mgr', {}, {}, {}) /\ SameWatched(mgr, mgr')
    BY <1>1, <2>1, FinalizeBatchAdvances DEF SameWatched
  <2>3. QED
    BY <2>1, <2>2, QuietOrder
<1>3. CASE \E g \in BatchId : GroupTimerFires(g)
  <2>1. PICK g \in BatchId : GroupTimerFires(g)
    BY <1>3
  <2>2. /\ g \in OpenGroups(mgr) /\ mgr.groups[g].timer = "running"
        /\ mgr' = OnGroupTimeout(mgr, g) /\ UNCHANGED <<spawning, inspecting>>
    BY <2>1 DEF GroupTimerFires, Caller
  <2>3. Moves(mgr, mgr', {}) /\ SameWatched(mgr, mgr')
    BY <1>1, <2>2, TimeoutMoves DEF SameWatched, SameButGroups
  <2>4. QED
    BY <2>2, <2>3, QuietOrder, MovesAdvances
<1>4. QED
  BY <1>2, <1>3

\* Every step keeps the groups in order.
LEMMA NextOrder ==
    ASSUME "respawn" \notin Calls, Inv, Inv', Members, [Next]_vars
    PROVE  Orderly
<1>1. CASE UNCHANGED vars
  BY <1>1, IdleOrder DEF vars
<1>2. ASSUME NEW k \in Name, BeginBatchMember(k) PROVE Orderly
  BY <1>2, BeginBatchMemberOrder
<1>3. ASSUME NEW k \in Name, ReleaseBatchMember(k) PROVE Orderly
  BY <1>3, ReleaseBatchMemberOrder
<1>4. ASSUME NEW k \in Name, ArmSpawn(k) PROVE Orderly
  BY <1>4, ArmSpawnOrder
<1>5. ASSUME NEW k \in Name, ArmSend(k) PROVE Orderly
  BY <1>5, ArmSendOrder
<1>6. ASSUME NEW k \in Name, AcceptSend(k) PROVE Orderly
  BY <1>6, AcceptSendOrder
<1>7. ASSUME NEW k \in Name, CancelTarget(k) PROVE Orderly
  BY <1>7, CancelTargetOrder
<1>8. ASSUME NEW k \in Name, BeginInspection(k) PROVE Orderly
  BY <1>8, BeginInspectionOrder
<1>9. ASSUME NEW k \in Name, EndInspection(k) PROVE Orderly
  BY <1>9, EndInspectionOrder
<1>10. ASSUME NEW k \in Name, Settle(k) PROVE Orderly
  BY <1>10, IdleOrder DEF Settle
<1>11. ASSUME NEW k \in Name, WatchSettles(k) PROVE Orderly
  BY <1>11, WatchFindsOrder DEF WatchSettles
<1>12. ASSUME NEW k \in Name, WatchCallback(k) PROVE Orderly
  BY <1>12, WatchCallbackOrder
<1>13. ASSUME NEW k \in Name, WatchFails(k) PROVE Orderly
  BY <1>13, WatchFailsOrder
<1>14. ASSUME NEW r \in results, DeliverExternal(r) PROVE Orderly
  BY <1>14, DeliverExternalOrder
<1>15. ASSUME NEW r \in results, WatchTakes(r) PROVE Orderly
  <2>1. r.name \in Name /\ r \in Result /\ WatchFinds(r.name, r)
    BY <1>15 DEF WatchTakes, Inv, TypeOK, Result
  <2>2. QED
    BY <2>1, WatchFindsOrder
<1>16. CASE BatchWindowEnds \/ \E g \in BatchId : GroupTimerFires(g)
  BY <1>16, TimersOrder
<1>17. CASE SessionShutdown
  BY <1>17, SessionShutdownOrder
<1>18. CASE Tick
  BY <1>18, IdleOrder DEF Tick
<1>19. QED
  BY <1>1, <1>2, <1>3, <1>4, <1>5, <1>6, <1>7, <1>8, <1>9, <1>10, <1>11, <1>12, <1>13,
     <1>14, <1>15, <1>16, <1>17, <1>18 DEF Next

\* Nobody is awaited in the new manager.
LEMMA InitOrder == Init => Members /\ Separate /\ Timely
  BY EmptyShape DEF Init, Members, Awaited, Separate, Apart, Timely

\* A group never waits for a ghost: each subagent it still waits for has a
\* watcher, or a spawn that will arm or release it (reserveBatchMember,
\* releaseBatchMember, removeKeyFromGroup), whatever else the callers do.
THEOREM NoGroupAwaitsGhosts ==
    ASSUME "respawn" \notin Calls
    PROVE  Spec => []MembersAreAwaited
<1>1. Inv /\ Members => MembersAreAwaited
  BY DEF Members, Awaited, Struct, Keyed, Waits, Expected, MembersAreAwaited
<1>2. Init => Members
  BY InitOrder
<1>3. Inv /\ Inv' /\ Members /\ [Next]_vars => Members'
  BY NextOrder DEF Orderly
<1>4. QED
  BY <1>1, <1>2, <1>3, Invariance, PTL DEF Spec

\* A held report goes nowhere but to the model, unless its subagent is
\* cancelled, or this very report was read in its pane, or the session ends.
THEOREM HeldReportsAreKept ==
    ASSUME Calls \cap {"respawn", "rearm"} = {}
    PROVE  Spec => HeldReportIsKept
<1>1. Init => Members /\ Separate
  BY InitOrder
<1>2. Inv /\ Inv' /\ Members /\ Separate /\ [Next]_vars => Members' /\ Separate' /\ KeepsHeld
  BY NextOrder DEF Orderly
<1>3. QED
  BY <1>1, <1>2, Invariance, PTL DEF Spec, HeldReportIsKept, KeepsHeld

\* A group that holds a report has a running timer to send it with
\* (startGroupTimeout, onGroupTimeout).
THEOREM HeldReportsAreTimed ==
    ASSUME Calls \cap {"respawn", "rearm", "dismiss"} = {}
    PROVE  Spec => []HeldReportIsTimed
<1>1. Timely => HeldReportIsTimed
  BY DEF Timely, Timed, IsTimed, HeldReportIsTimed
<1>2. Init => Members /\ Separate /\ Timely
  BY InitOrder
<1>3. Inv /\ Inv' /\ Members /\ Separate /\ Timely /\ [Next]_vars
          => Members' /\ Separate' /\ Timely'
  BY NextOrder DEF Orderly
<1>4. QED
  BY <1>1, <1>2, <1>3, Invariance, PTL DEF Spec
=============================================================================
