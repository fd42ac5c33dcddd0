--------------------------- MODULE KubectlBreaker ---------------------------
(***************************************************************************)
(* The breaker around every call of kubectl,                                 *)
(* app/knowledge_graph/kubectl_breaker.py: a counter of failures in a row     *)
(* and a flag, two Redis keys shared by the forks of the worker.  Each Redis  *)
(* command is a step of its own.  Readers (the synchronisers) ask the flag,   *)
(* writers (remediation, respect_breaker=False) only record their results.    *)
(***************************************************************************)
EXTENDS Integers, FiniteSets

CONSTANTS Readers, Writers,   \* callers of run_kubectl, one call at a time
          FailuresToOpen,     \* FAILURES_TO_OPEN
          MaxKubeFaults       \* bound: Redis commands that fail, deaths

ASSUME KubeAssumption ==
    /\ IsFiniteSet(Readers \cup Writers)
    /\ FailuresToOpen \in Nat \ {0} /\ MaxKubeFaults \in Nat

VARIABLES kubeFails,   \* kg:kubectl:cb:failures: its value (0: no key) and its TTL
          kubeOpen,    \* kg:kubectl:cb:open exists
          kubeCall,    \* where each caller is, and what its INCR returned
          inARow,      \* failures counted since a call last succeeded
          unreset,     \* a success could not reset the counter that is there
          kubeFaults

kubeVars == <<kubeFails, kubeOpen, kubeCall, inARow, unreset, kubeFaults>>

Kubers == Readers \cup Writers
KubePhases == {"idle", "calls", "failed", "counted", "opens", "resets", "succeeded"}
TopCount == FailuresToOpen + Cardinality(Kubers) + MaxKubeFaults

KubeTypeOK ==
    /\ kubeFails \in [n : 0 .. TopCount, ttl : BOOLEAN]
    /\ kubeOpen \in BOOLEAN
    /\ kubeCall \in [Kubers -> [at : KubePhases, n : 0 .. TopCount]]
    /\ inARow \in 0 .. TopCount /\ unreset \in BOOLEAN
    /\ kubeFaults \in 0 .. MaxKubeFaults

NoCounter == [n |-> 0, ttl |-> FALSE]
NoCall == [at |-> "idle", n |-> 0]

KubeInit ==
    /\ kubeFails = NoCounter /\ kubeOpen = FALSE
    /\ kubeCall = [c \in Kubers |-> NoCall]
    /\ inARow = 0 /\ unreset = FALSE /\ kubeFaults = 0

KubeGoes(c, phase) == kubeCall' = [kubeCall EXCEPT ![c].at = phase]
KubeEnds(c) == kubeCall' = [kubeCall EXCEPT ![c] = NoCall]
KubeFault == kubeFaults < MaxKubeFaults /\ kubeFaults' = kubeFaults + 1

\* guard_kubectl: KubectlCircuitOpen, before the network.
KubeRefused(c) ==
    /\ c \in Readers /\ kubeCall[c].at = "idle" /\ kubeOpen
    /\ UNCHANGED kubeVars

\* The flag is not there, or the caller does not ask.
KubeStarts(c) ==
    /\ kubeCall[c].at = "idle"
    /\ c \in Writers \/ ~kubeOpen
    /\ KubeGoes(c, "calls")
    /\ UNCHANGED <<kubeFails, kubeOpen, inARow, unreset, kubeFaults>>

\* GET raised: the call is allowed.
KubeUnguarded(c) ==
    /\ c \in Readers /\ kubeCall[c].at = "idle"
    /\ KubeFault
    /\ KubeGoes(c, "calls")
    /\ UNCHANGED <<kubeFails, kubeOpen, inARow, unreset>>

\* subprocess.run raised, or its code is not zero.
KubeFails(c) ==
    /\ kubeCall[c].at = "calls"
    /\ KubeGoes(c, "failed")
    /\ UNCHANGED <<kubeFails, kubeOpen, inARow, unreset, kubeFaults>>

KubeSucceeds(c) ==
    /\ kubeCall[c].at = "calls"
    /\ KubeGoes(c, "succeeded")
    /\ inARow' = 0
    /\ UNCHANGED <<kubeFails, kubeOpen, unreset, kubeFaults>>

\* What is counted in a row, held where the counter itself never gets.
OneMoreInARow == inARow' = IF inARow < TopCount THEN inARow + 1 ELSE inARow

\* record_failure: INCR, which keeps the TTL of a key that is there.
KubeCounts(c) ==
    /\ kubeCall[c].at = "failed"
    /\ kubeFails' = [kubeFails EXCEPT !.n = @ + 1]
    /\ kubeCall' = [kubeCall EXCEPT ![c] = [at |-> "counted", n |-> kubeFails.n + 1]]
    /\ OneMoreInARow
    /\ UNCHANGED <<kubeOpen, unreset, kubeFaults>>

\* EXPIRE; the threshold is compared with what INCR returned.
KubeDates(c) ==
    /\ kubeCall[c].at = "counted"
    /\ kubeFails' = IF kubeFails.n = 0 THEN kubeFails ELSE [kubeFails EXCEPT !.ttl = TRUE]
    /\ IF kubeCall[c].n >= FailuresToOpen THEN KubeGoes(c, "opens") ELSE KubeEnds(c)
    /\ UNCHANGED <<kubeOpen, inARow, unreset, kubeFaults>>

\* SETEX of the flag.
KubeOpens(c) ==
    /\ kubeCall[c].at = "opens"
    /\ kubeOpen' = TRUE
    /\ KubeGoes(c, "resets")
    /\ UNCHANGED <<kubeFails, inARow, unreset, kubeFaults>>

\* Mutated KubeResets: a success leaves the counter alone.
KubeResetsAfterOpening(c) ==
    /\ kubeCall[c].at \in {"resets", "succeeded"}
    /\ kubeFails' = IF kubeCall[c].at = "resets" THEN NoCounter ELSE kubeFails
    /\ unreset' = IF kubeCall[c].at = "resets" THEN FALSE ELSE unreset
    /\ KubeEnds(c)
    /\ UNCHANGED <<kubeOpen, inARow, kubeFaults>>

\* DELETE of the counter, after the opening and in record_success.
KubeResets(c) ==
    /\ kubeCall[c].at \in {"resets", "succeeded"}
    /\ kubeFails' = NoCounter /\ unreset' = FALSE
    /\ KubeEnds(c)
    /\ UNCHANGED <<kubeOpen, inARow, kubeFaults>>

(* A command raises, which ends the record, or the worker dies.  INCR may have
   been applied. *)
KubeRecordFails(c) ==
    /\ kubeCall[c].at \in {"failed", "counted", "opens", "resets", "succeeded"}
    /\ KubeFault
    /\ \/ UNCHANGED <<kubeFails, inARow>>
       \/ /\ kubeCall[c].at = "failed"
          /\ kubeFails' = [kubeFails EXCEPT !.n = @ + 1]
          /\ OneMoreInARow
    /\ unreset' = (unreset \/ (kubeCall[c].at = "succeeded" /\ kubeFails.n > 0))
    /\ KubeEnds(c)
    /\ UNCHANGED kubeOpen

\* Only a key with a TTL expires.
CounterExpires ==
    /\ kubeFails.n > 0 /\ kubeFails.ttl
    /\ kubeFails' = NoCounter /\ unreset' = FALSE
    /\ UNCHANGED <<kubeOpen, kubeCall, inARow, kubeFaults>>

FlagExpires ==
    /\ kubeOpen /\ kubeOpen' = FALSE
    /\ UNCHANGED <<kubeFails, kubeCall, inARow, unreset, kubeFaults>>

KubeNext ==
    \/ \E c \in Kubers :
          \/ KubeRefused(c) \/ KubeStarts(c) \/ KubeUnguarded(c)
          \/ KubeFails(c) \/ KubeSucceeds(c)
          \/ KubeCounts(c) \/ KubeDates(c) \/ KubeOpens(c) \/ KubeResets(c)
          \/ KubeRecordFails(c)
    \/ CounterExpires \/ FlagExpires

KubeSpec == KubeInit /\ [][KubeNext]_kubeVars

---------------------------------------------------------------------------

(* The breaker answers to failures in a row, of all forks together: the counter
   exceeds what failed since the last success only while that success is still
   about to reset it, or after a reset that Redis did not take. *)
CountsInARow ==
    kubeFails.n > inARow =>
        unreset \/ \E c \in Kubers : kubeCall[c].at = "succeeded"
=============================================================================
