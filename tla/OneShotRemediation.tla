------------------------- MODULE OneShotRemediation -------------------------
(***************************************************************************)
(* What the executor promises about one incident, without rows, locks,     *)
(* queues, clocks or copies: people decide on commands, at most one        *)
(* approved command is claimed, it is executed at most once, and the claim *)
(* ends settled or handed to a person.  A hand-over does not stop a writer *)
(* that outlived its claim: its one execution may still come.              *)
(***************************************************************************)
CONSTANTS Sigs, None

VARIABLES decision, phase, chosen, executions

vars == <<decision, phase, chosen, executions>>

\* An incident whose command ran before the promise was introduced starts
\* settled.
Init ==
  /\ decision = [s \in Sigs |-> "none"]
  /\ phase \in {"open", "settled"}
  /\ chosen = None
  /\ executions = 0

\* The first decision on a command stays.
Decide(s, verdict) ==
  /\ decision[s] = "none"
  /\ decision' = [decision EXCEPT ![s] = verdict]
  /\ UNCHANGED <<phase, chosen, executions>>

Claim(s) ==
  /\ phase = "open"
  /\ decision[s] = "approved"
  /\ phase' = "claimed"
  /\ chosen' = s
  /\ UNCHANGED <<decision, executions>>

\* Also by a writer whose claim was handed over meanwhile.
Execute ==
  /\ phase \in {"claimed", "handed_off"}
  /\ executions = 0
  /\ executions' = 1
  /\ UNCHANGED <<decision, phase, chosen>>

Settle ==
  /\ phase \in {"claimed", "handed_off"}
  /\ executions = 1
  /\ phase' = "settled"
  /\ UNCHANGED <<decision, chosen, executions>>

\* Nobody finalised the claim in time: the command may or may not have run.
HandOff ==
  /\ phase = "claimed"
  /\ phase' = "handed_off"
  /\ UNCHANGED <<decision, chosen, executions>>

Next ==
  \/ \E s \in Sigs, verdict \in {"approved", "declined"} : Decide(s, verdict)
  \/ \E s \in Sigs : Claim(s)
  \/ Execute \/ Settle \/ HandOff

Spec == Init /\ [][Next]_vars
=============================================================================
