------------------------------- MODULE MCGraph -------------------------------
(***************************************************************************)
(* Instances of the two components of the knowledge graph.  As in MCShared,  *)
(* they have no variable in common and `focus` names the one that moves.     *)
(***************************************************************************)
EXTENDS KGIncidents, KGEdges, TLC

VARIABLE focus

graphVars == <<focus, kgVars, edgeVars>>

GraphInit == focus \in {"incidents", "edges"} /\ KGInit /\ EdgesInit

GraphNext ==
    /\ UNCHANGED focus
    /\ \/ focus = "incidents" /\ KGNext /\ UNCHANGED edgeVars
       \/ focus = "edges" /\ EdgesNext /\ UNCHANGED kgVars

GraphSpec == GraphInit /\ [][GraphNext]_graphVars

(* Types of both components: rows, snapshots and reports stay within the domains
   the other properties are stated over; resolved_at is set in the resolved rows
   and in no other. *)
GraphTypeOK == IF focus = "edges" THEN EdgesTypeOK ELSE KGTypeOK

\* Database sessions are alike, and so are alerts.
Symmetry == Permutations(Sessions) \cup Permutations(Alerts)
==============================================================================
