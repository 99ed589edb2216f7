---------------------------- MODULE ReportLedger ----------------------------
(***************************************************************************)
(* What a user of herdr_subagent may expect of one completion: a report is *)
(* accepted, perhaps held for the reports of its group, and then either    *)
(* told to the model or dismissed.  Nothing is told or dismissed twice,    *)
(* and nothing accepted goes unaccounted for.                              *)
(***************************************************************************)
CONSTANT Id         \* completion ids

VARIABLE ledger     \* where each completion stands

Standing == {"open", "held", "told", "dismissed"}

Init == ledger = [i \in Id |-> "open"]

\* The model is told of held reports together with the one that came last.
Report ==
    /\ ledger' \in [Id -> Standing]
    /\ \A i \in Id :
         CASE ledger[i] = "open" -> ledger'[i] \in {"open", "held", "told"}
           [] ledger[i] = "held" -> ledger'[i] \in {"held", "told", "dismissed"}
           [] OTHER -> ledger'[i] = ledger[i]

\* A new session owes nothing to the last one.
Restart ==
    /\ ledger' \in [Id -> Standing]
    /\ \A i \in Id :
         CASE ledger[i] = "open" -> ledger'[i] \in {"open", "dismissed"}
           [] ledger[i] = "held" -> ledger'[i] = "dismissed"
           [] OTHER -> ledger'[i] = ledger[i]

Next == Report \/ Restart

Spec == Init /\ [][Next]_ledger
=============================================================================
