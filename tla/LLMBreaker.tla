---------------------------- MODULE LLMBreaker ----------------------------
(***************************************************************************)
(* The circuit breaker of the LLM provider and the retries around it:       *)
(* LLMResilienceManager and llm_retry_strategy of app/services/resilience.py *)
(* as generate_full of app/services/llm_service.py uses them.                *)
(*                                                                         *)
(* Four Redis keys are shared by all workers.  A script or a MULTI block is  *)
(* one step, separate commands are separate steps.  A key may expire at any  *)
(* moment that its TTL and the timeout of a call allow.                      *)
(***************************************************************************)
EXTENDS Integers, FiniteSets

CONSTANTS Callers,        \* agents that call generate_full, one call at a time
          FailThreshold,  \* _CB_FAIL_THRESHOLD
          MaxTrials,      \* _CB_HALF_OPEN_MAX_TRIALS
          Attempts        \* retries of llm_retry_strategy

ASSUME BreakerAssumption ==
    /\ IsFiniteSet(Callers)
    /\ FailThreshold \in Nat \ {0} /\ MaxTrials \in Nat \ {0} /\ Attempts \in Nat \ {0}

VARIABLES cbOpen, cbHalf,   \* do cb:open and cb:halfopen exist
          cbTrial, cbFail,  \* the counters cb:trial and cb:fail, 0 when absent
          llm,              \* the call of each agent
          windowOf          \* probes under way that end before cb:trial can expire

cbVars == <<cbOpen, cbHalf, cbTrial, cbFail, llm, windowOf>>

LLMPhases == {"idle", "calling", "probing", "failed", "readHalf", "count", "opening", "reported"}

BreakerTypeOK ==
    /\ cbOpen \in BOOLEAN /\ cbHalf \in BOOLEAN
    /\ cbTrial \in 0 .. MaxTrials + 1
    /\ cbFail \in 0 .. FailThreshold
    /\ llm \in [Callers -> [at : LLMPhases, try : 1 .. Attempts]]
    /\ windowOf \subseteq Callers

Rest == [at |-> "idle", try |-> 1]

BreakerInit ==
    /\ cbOpen = FALSE /\ cbHalf = FALSE
    /\ cbTrial = 0 /\ cbFail = 0
    /\ llm = [c \in Callers |-> Rest]
    /\ windowOf = {}

Moves(c, phase) == llm' = [llm EXCEPT ![c].at = phase]

(***************************************************************************)
(* is_circuit_open, with the fail-open of its caller.                        *)
(***************************************************************************)

\* The counter, held at the first value that the quota refuses.
NextTrial == IF cbTrial > MaxTrials THEN cbTrial ELSE cbTrial + 1

\* Mutated TrialAllowed: the quota is off by one.
TrialTooMany == NextTrial <= MaxTrials + 1

TrialAllowed == NextTrial <= MaxTrials

\* Open: LLMCircuitOpen passes through the retries at once.
AskOpen(c) ==
    /\ llm[c].at = "idle"
    /\ cbOpen
    /\ llm' = [llm EXCEPT ![c] = Rest]
    /\ UNCHANGED <<cbOpen, cbHalf, cbTrial, cbFail, windowOf>>

\* Neither key: closed.
AskClosed(c) ==
    /\ llm[c].at = "idle"
    /\ ~cbOpen /\ ~cbHalf
    /\ Moves(c, "calling")
    /\ UNCHANGED <<cbOpen, cbHalf, cbTrial, cbFail, windowOf>>

Probing == {c \in Callers : llm[c].at = "probing"}

\* Half-open: the question itself takes a slot, admitted or not.
AskHalfOpen(c) ==
    /\ llm[c].at = "idle"
    /\ ~cbOpen /\ cbHalf
    /\ cbTrial' = NextTrial
    /\ IF TrialAllowed
          THEN /\ Moves(c, "probing")
               /\ windowOf' = IF cbTrial = 0 THEN Probing \cup {c} ELSE windowOf
          ELSE llm' = [llm EXCEPT ![c] = Rest] /\ UNCHANGED windowOf
    /\ UNCHANGED <<cbOpen, cbHalf, cbFail>>

(* Redis does not answer: the circuit counts as closed.  The script may have run
   and taken a slot all the same. *)
AskUnanswered(c) ==
    /\ llm[c].at = "idle"
    /\ Moves(c, "calling")
    /\ \/ UNCHANGED <<cbTrial, windowOf>>
       \/ /\ ~cbOpen /\ cbHalf
          /\ cbTrial' = NextTrial
          /\ windowOf' = IF cbTrial = 0 THEN Probing ELSE windowOf
    /\ UNCHANGED <<cbOpen, cbHalf, cbFail>>

(***************************************************************************)
(* The end of an attempt.                                                    *)
(***************************************************************************)

InCall(c) == llm[c].at \in {"calling", "probing"}

\* An answer; report_success deletes three keys and never cb:open.
CallSucceeds(c) ==
    /\ InCall(c)
    /\ llm' = [llm EXCEPT ![c] = Rest]
    /\ \/ cbHalf' = FALSE /\ cbTrial' = 0 /\ cbFail' = 0
       \/ UNCHANGED <<cbHalf, cbTrial, cbFail>>
    /\ windowOf' = windowOf \ {c}
    /\ UNCHANGED cbOpen

\* Refused by the budget before the request, or cancelled: nothing is reported.
CallUnreported(c) ==
    /\ InCall(c)
    /\ llm' = [llm EXCEPT ![c] = Rest]
    /\ windowOf' = windowOf \ {c}
    /\ UNCHANGED <<cbOpen, cbHalf, cbTrial, cbFail>>

\* An error of the provider, retryable or not: both are reported.
CallFails(c) ==
    /\ InCall(c)
    /\ Moves(c, "failed")
    /\ windowOf' = windowOf \ {c}
    /\ UNCHANGED <<cbOpen, cbHalf, cbTrial, cbFail>>

(***************************************************************************)
(* report_failure.                                                           *)
(***************************************************************************)

\* EXISTS cb:open.
ReadsOpen(c) ==
    /\ llm[c].at = "failed"
    /\ Moves(c, IF cbOpen THEN "count" ELSE "readHalf")
    /\ UNCHANGED <<cbOpen, cbHalf, cbTrial, cbFail, windowOf>>

\* EXISTS cb:halfopen.
ReadsHalf(c) ==
    /\ llm[c].at = "readHalf"
    /\ Moves(c, IF cbHalf THEN "opening" ELSE "count")
    /\ UNCHANGED <<cbOpen, cbHalf, cbTrial, cbFail, windowOf>>

(* The script that counts; the TTL is anchored on the first failure.  The
   counter is held at the threshold, beyond which its value makes no difference. *)
NextFail == IF cbFail >= FailThreshold THEN cbFail ELSE cbFail + 1

CountsFailure(c) ==
    /\ llm[c].at = "count"
    /\ cbFail' = NextFail
    /\ Moves(c, IF cbFail + 1 >= FailThreshold THEN "opening" ELSE "reported")
    /\ UNCHANGED <<cbOpen, cbHalf, cbTrial, windowOf>>

\* _open_circuit: one MULTI block.
OpensCircuit(c) ==
    /\ llm[c].at = "opening"
    /\ cbOpen' = TRUE /\ cbHalf' = TRUE
    /\ cbTrial' = 0 /\ cbFail' = 0
    /\ windowOf' = {}
    /\ Moves(c, "reported")

(* A command of the report raises, the script perhaps after it has counted;
   _report_provider swallows it. *)
ReportFails(c) ==
    /\ llm[c].at \in {"failed", "readHalf", "count", "opening"}
    /\ cbFail' \in {cbFail} \cup (IF llm[c].at = "count" THEN {NextFail} ELSE {})
    /\ Moves(c, "reported")
    /\ UNCHANGED <<cbOpen, cbHalf, cbTrial, windowOf>>

(* llm_retry_strategy: another attempt after a retryable error (network, 429,
   5xx, timeout), up to Attempts; any other error ends the call. *)
Retries(c) ==
    /\ llm[c].at = "reported"
    /\ \/ /\ llm[c].try < Attempts
          /\ llm' = [llm EXCEPT ![c] = [at |-> "idle", try |-> @.try + 1]]
       \/ llm' = [llm EXCEPT ![c] = Rest]
    /\ UNCHANGED <<cbOpen, cbHalf, cbTrial, cbFail, windowOf>>

(***************************************************************************)
(* Expiry.  LLM_TIMEOUT_SECONDS is half of _CB_OPEN_SECONDS: a call that was *)
(* admitted before the circuit opened has ended when cb:open expires, and    *)
(* the probe that created cb:trial has ended when that expires, and so have   *)
(* those of the window before.                                               *)
(***************************************************************************)

OpenExpires ==
    /\ cbOpen
    /\ \A c \in Callers : llm[c].at # "probing"
    /\ cbOpen' = FALSE
    /\ UNCHANGED <<cbHalf, cbTrial, cbFail, llm, windowOf>>

\* cb:halfopen is set with cb:open and lives five minutes longer.
HalfExpires ==
    /\ cbHalf /\ ~cbOpen
    /\ cbHalf' = FALSE
    /\ UNCHANGED <<cbOpen, cbTrial, cbFail, llm, windowOf>>

\* Mutated TrialExpires: the counter is created without a TTL.
TrialNeverExpires == cbTrial > MaxTrials + 1 /\ UNCHANGED cbVars

\* The TTL is set by the script that creates the counter.
TrialExpires ==
    /\ cbTrial > 0
    /\ windowOf = {}
    /\ cbTrial' = 0
    /\ UNCHANGED <<cbOpen, cbHalf, cbFail, llm, windowOf>>

FailExpires ==
    /\ cbFail > 0
    /\ cbFail' = 0
    /\ UNCHANGED <<cbOpen, cbHalf, cbTrial, llm, windowOf>>

Ask(c) == AskOpen(c) \/ AskClosed(c) \/ AskHalfOpen(c)

Report(c) ==
    ReadsOpen(c) \/ ReadsHalf(c) \/ CountsFailure(c) \/ OpensCircuit(c)
    \/ ReportFails(c) \/ Retries(c)

CallEnds(c) == CallSucceeds(c) \/ CallUnreported(c) \/ CallFails(c)

BreakerNext ==
    \/ \E c \in Callers : Ask(c) \/ AskUnanswered(c) \/ CallEnds(c) \/ Report(c)
    \/ OpenExpires \/ HalfExpires \/ TrialExpires \/ FailExpires

(* Agents go on asking, calls end (they have a timeout), reports end, keys
   with a TTL expire.  Nothing is assumed of how calls end. *)
BreakerFairness ==
    /\ \A c \in Callers :
          WF_cbVars(Ask(c)) /\ WF_cbVars(CallEnds(c)) /\ WF_cbVars(Report(c))
    /\ WF_cbVars(OpenExpires) /\ WF_cbVars(TrialExpires)

BreakerSpec == BreakerInit /\ [][BreakerNext]_cbVars

---------------------------------------------------------------------------

(* A provider that has just come back is not hit by the whole fan-out: the
   calls of a half-open phase that are under way at the same time are fewer
   than two quotas (a slow second probe may meet those of the next window). *)
ProbesBounded == Cardinality(Probing) < 2 * MaxTrials

(* Some agent is let through again and again, also when every call fails, when
   slots are taken by calls that never reach the provider, and when nobody
   reports: the breaker is never shut for good. *)
SomebodyCalls == []<>(\E c \in Callers : InCall(c))
===========================================================================
