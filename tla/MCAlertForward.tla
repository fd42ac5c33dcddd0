--------------------------- MODULE MCAlertForward ---------------------------
(* Instances of AlertForward for TLC. *)
EXTENDS AlertForward, TLC

CONSTANTS r1, r2, r3

Symmetry == Permutations(Replicas)
=============================================================================
