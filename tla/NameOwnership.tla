--------------------------- MODULE NameOwnership ---------------------------
(***************************************************************************)
(* What the registry of subagents promises: a name belongs to nobody or to *)
(* one subagent, passes to another only after it was given up, and never   *)
(* returns to a subagent that gave it up.                                  *)
(***************************************************************************)
CONSTANTS Name, Owner, Nobody

VARIABLES owner,    \* whose each name is
          past      \* subagents that had a name and no longer have it

vars == <<owner, past>>

Init == owner = [n \in Name |-> Nobody] /\ past = {}

Claim(n, o) ==
    /\ owner[n] = Nobody
    /\ o \notin past
    /\ \A m \in Name : owner[m] # o
    /\ owner' = [owner EXCEPT ![n] = o]
    /\ UNCHANGED past

GiveUp(n) ==
    /\ owner[n] # Nobody
    /\ owner' = [owner EXCEPT ![n] = Nobody]
    /\ past' = past \cup {owner[n]}

Next == \E n \in Name : GiveUp(n) \/ \E o \in Owner : Claim(n, o)

Spec == Init /\ [][Next]_vars
=============================================================================
