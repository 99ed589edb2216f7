--------------------------- MODULE MCNotifications ---------------------------
(* Notifications on small instances.                                       *)
EXTENDS Notifications, TLC

Symmetry == Permutations(Name) \cup Permutations(Arm)
=============================================================================
