------------------------ MODULE MCIncidentLifecycle ------------------------
(* Instances of IncidentLifecycle for TLC. *)
EXTENDS IncidentLifecycle, TLC

CONSTANTS h1, h2

Symmetry == Permutations(Handlers)
=============================================================================
