------------------------------- MODULE MCLive --------------------------------
(***************************************************************************)
(* Instances for the liveness properties of four components.  As in MCShared *)
(* they have no variable in common and `focus` names the one that moves; the *)
(* fairness of a behaviour is that of its component.                         *)
(***************************************************************************)
EXTENDS TaskLock, LLMBreaker, KGIncidents, KGEdges

VARIABLE focus

liveVars == <<focus, lockVars, cbVars, kgVars, edgeVars>>

LiveInit ==
    /\ focus \in {"lock", "breaker", "incidents", "edges"}
    /\ LockInit /\ BreakerInit /\ KGInit /\ EdgesInit

LiveNext ==
    /\ UNCHANGED focus
    /\ \/ focus = "lock" /\ LockNext /\ UNCHANGED <<cbVars, kgVars, edgeVars>>
       \/ focus = "breaker" /\ BreakerNext /\ UNCHANGED <<lockVars, kgVars, edgeVars>>
       \/ focus = "incidents" /\ KGNext /\ UNCHANGED <<lockVars, cbVars, edgeVars>>
       \/ focus = "edges" /\ EdgesNext /\ UNCHANGED <<lockVars, cbVars, kgVars>>

LiveFairness ==
    \/ focus = "lock" /\ LockFairness
    \/ focus = "breaker" /\ BreakerFairness
    \/ focus = "incidents" /\ KGFairness
    \/ focus = "edges" /\ EdgesFairness

LiveSpec == LiveInit /\ [][LiveNext]_liveVars /\ LiveFairness

(* SomebodyCalls for the behaviours in which the breaker moves: some agent is let
   through again and again, so the breaker is never shut for good. *)
BreakerServes == focus = "breaker" => SomebodyCalls
==============================================================================
