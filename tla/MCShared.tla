------------------------------ MODULE MCShared ------------------------------
(***************************************************************************)
(* Instances of the eight components that guard what requests, workers and   *)
(* tasks share: keys of Redis, leases, claims, rows and stored plans.  They   *)
(* have no variable in common: `focus` names the component whose behaviours   *)
(* are explored, the others rest in their initial states, and a run explores  *)
(* every component of Components in turn.                                     *)
(***************************************************************************)
EXTENDS TaskLock, LLMBreaker, WebhookGuard, RemediationBridge, PlaybookGate,
        CostGuard, HealthReports, KubectlBreaker

CONSTANT Components

VARIABLE focus

sharedVars == <<focus, lockVars, cbVars, guardVars, bridgeVars, gateVars, vars,
                fireVars, kubeVars>>

SharedInit ==
    /\ focus \in Components
    /\ LockInit /\ BreakerInit /\ GuardInit /\ BridgeInit /\ GateInit /\ Init
    /\ ReportsInit /\ KubeInit
    /\ focus # "gate" => bindingOn

LockMoves ==
    LockNext /\ UNCHANGED <<cbVars, guardVars, bridgeVars, gateVars, vars, fireVars, kubeVars>>
BreakerMoves ==
    BreakerNext /\ UNCHANGED <<lockVars, guardVars, bridgeVars, gateVars, vars, fireVars, kubeVars>>
GuardMoves ==
    GuardNext /\ UNCHANGED <<lockVars, cbVars, bridgeVars, gateVars, vars, fireVars, kubeVars>>
BridgeMoves ==
    BridgeNext /\ UNCHANGED <<lockVars, cbVars, guardVars, gateVars, vars, fireVars, kubeVars>>
GateMoves ==
    GateNext /\ UNCHANGED <<lockVars, cbVars, guardVars, bridgeVars, vars, fireVars, kubeVars>>
LedgerMoves ==
    Next /\ UNCHANGED <<lockVars, cbVars, guardVars, bridgeVars, gateVars, fireVars, kubeVars>>
ReportsMove ==
    ReportsNext /\ UNCHANGED <<lockVars, cbVars, guardVars, bridgeVars, gateVars, vars, kubeVars>>
KubeMoves ==
    KubeNext /\ UNCHANGED <<lockVars, cbVars, guardVars, bridgeVars, gateVars, vars, fireVars>>

SharedNext ==
    /\ UNCHANGED focus
    /\ \/ focus = "lock" /\ LockMoves
       \/ focus = "breaker" /\ BreakerMoves
       \/ focus = "guard" /\ GuardMoves
       \/ focus = "bridge" /\ BridgeMoves
       \/ focus = "gate" /\ GateMoves
       \/ focus = "ledger" /\ LedgerMoves
       \/ focus = "reports" /\ ReportsMove
       \/ focus = "kubectl" /\ KubeMoves

SharedSpec == SharedInit /\ [][SharedNext]_sharedVars

(* Types of the component that moves: what the code keeps in Redis, in its tables
   and in memory stays within the domains the other properties are stated over. *)
SharedTypeOK ==
    CASE focus = "lock" -> LockTypeOK
      [] focus = "breaker" -> BreakerTypeOK
      [] focus = "guard" -> GuardTypeOK
      [] focus = "bridge" -> BridgeTypeOK
      [] focus = "gate" -> GateTypeOK
      [] focus = "ledger" -> TypeOK
      [] focus = "reports" -> ReportsTypeOK
      [] focus = "kubectl" -> KubeTypeOK
=============================================================================
