-------------------------- MODULE IncidentLifecycle -------------------------
(***************************************************************************)
(* One incident row from the Alertmanager webhook (app/api/webhooks.py)    *)
(* through the Celery task (app/workers/tasks.py) and the pipeline         *)
(* (app/workers/pipeline.py) to the delivery of its report                 *)
(* (app/workers/report_delivery.py).                                       *)
(*                                                                         *)
(* A pipeline works on the copy of the row its session loaded: commits do  *)
(* not expire it, so what other sessions write is seen only after a        *)
(* rollback or a locked refresh.  Every commit writes the whole JSON blob. *)
(***************************************************************************)
EXTENDS Integers, FiniteSets

CONSTANTS
  Handlers,      \* webhook requests in progress at the same time
  MaxFires,      \* bound on the claims of the row, each with its task
  MaxResolves,   \* bound on the resolve webhooks
  MaxRetries,    \* max_retries of process_incident
  MaxAttempts,   \* ReportDelivery.MAX_ATTEMPTS
  MaxCrashes,    \* bound on worker deaths
  MaxTransient,  \* bound on retriable errors inside a stage
  MaySkip,       \* TRUE: a run may be refused, or killed at the time limit
  MayLose,       \* TRUE: publishing the task after the commit may fail
  LockOutcomes   \* {TRUE}, or BOOLEAN if the locked refresh itself may fail

ASSUME LifeAssumption ==
  /\ MaxFires \in Nat \ {0}
  /\ {MaxResolves, MaxRetries, MaxCrashes, MaxTransient} \subseteq Nat
  /\ MaxAttempts \in Nat \ {0}
  /\ MaySkip \in BOOLEAN /\ MayLose \in BOOLEAN
  /\ LockOutcomes \in SUBSET BOOLEAN

VARIABLES
  row,      \* the incidents row: status, analysis blob, report_state column
  handler,  \* webhook requests between their read and their write
  task,     \* process_incident messages and the runs working on them
  opens,    \* history: claims of the row for a run
  closes,   \* history: steps that took the row into a terminal status
  budget    \* crashes, transient errors and resolves so far

vars == <<row, handler, task, opens, closes, budget>>

Tasks == 1 .. MaxFires

-----------------------------------------------------------------------------
(* The state machine of an incident. *)

Terminal == {"RESOLVED", "TRIAGE_REQUIRED", "FAILED"}

TRANSITIONS ==
  [OPEN                 |-> {"INVESTIGATING", "RESOLVED", "FAILED"},
   INVESTIGATING        |-> {"FACTS_COLLECTED", "HYPOTHESIS_GENERATED", "FAILED"},
   FACTS_COLLECTED      |-> {"HYPOTHESIS_GENERATED", "RESOLVED", "FAILED"},
   HYPOTHESIS_GENERATED |-> {"FIX_PROPOSED", "FAILED"},
   FIX_PROPOSED         |-> {"APPROVAL_PENDING", "RESOLVED", "TRIAGE_REQUIRED",
                             "INVESTIGATING", "FAILED"},
   APPROVAL_PENDING     |-> {"EXECUTING", "FAILED"},
   EXECUTING            |-> {"RESOLVED", "TRIAGE_REQUIRED", "FAILED"},
   RESOLVED             |-> {},
   TRIAGE_REQUIRED      |-> {},
   FAILED               |-> {}]

Statuses == DOMAIN TRANSITIONS

\* The states the pipeline stages commit, in order; OPEN is the zeroth.
StageStates ==
  <<"INVESTIGATING", "FACTS_COLLECTED", "HYPOTHESIS_GENERATED", "FIX_PROPOSED">>

Stages == DOMAIN StageStates

Order == [s \in {"OPEN"} \cup {StageStates[k] : k \in Stages} |->
            CHOOSE k \in Stages \cup {0} :
              (k = 0 /\ s = "OPEN") \/ (k \in Stages /\ StageStates[k] = s)]

\* The keys of analysis that steer a run: how far the checkpoint reaches, the
\* attempts of the pending report (-1: no marker), and report_sent/_failed.
NoAnalysis == [ckpt |-> 0, pending |-> -1, done |-> {}]

Analysis == [ckpt : {0} \cup Stages, pending : -1 .. MaxAttempts - 1,
             done : SUBSET {"sent", "failed"}]

Absent == [status |-> "absent", analysis |-> NoAnalysis, column |-> "none"]

IdleHandler == [pc |-> "idle", seen |-> "absent"]

NoTask == [st |-> "none", retries |-> 0, at |-> 0,
           copy |-> Absent, expired |-> FALSE, report |-> 0]

\* A write of the row; the history counts entries into terminal statuses.
WriteRow(new) ==
  /\ row' = new
  /\ closes' = closes + (IF new.status \in Terminal /\ row.status \notin Terminal
                         THEN 1 ELSE 0)

-----------------------------------------------------------------------------
(* alertmanager_webhook. *)

\* The status a handler read makes the alert a new one or a re-fire; any other
\* status is deduplicated at once, and so is not an action here.
FireRead(h) ==
  /\ handler[h].pc = "idle"
  /\ row.status \in {"absent"} \cup Terminal
  /\ opens < MaxFires
  /\ handler' = [handler EXCEPT ![h] = [pc |-> "enriching", seen |-> row.status]]
  /\ UNCHANGED <<row, task, opens, closes, budget>>

\* Mutant: the claim forgets the status it expects.
ClaimBlindly(h) == TRUE

\* The UNIQUE insert or the compare-and-swap of _claim_refire succeeds.
ClaimWins(h) == row.status = handler[h].seen

\* After the await of the TeamCity context.
FireClaim(h) ==
  /\ handler[h].pc = "enriching"
  /\ opens < MaxFires
  /\ IF ClaimWins(h)
       THEN /\ WriteRow([row EXCEPT !.status = "OPEN"])
            /\ opens' = opens + 1
            /\ handler' = [handler EXCEPT ![h].pc = "claimed"]
       ELSE /\ handler' = [handler EXCEPT ![h] = IdleHandler]
            /\ UNCHANGED <<row, opens, closes>>
  /\ UNCHANGED <<task, budget>>

\* process_incident_task.delay
FireDispatch(h) ==
  /\ handler[h].pc = "claimed"
  /\ \E t \in Tasks :
       /\ task[t].st = "none"
       /\ \A u \in Tasks : u < t => task[u].st # "none"
       /\ task' = [task EXCEPT ![t].st = "queued"]
  /\ handler' = [handler EXCEPT ![h] = IdleHandler]
  /\ UNCHANGED <<row, opens, closes, budget>>

\* The api dies or the broker is down after the commit.
FireLost(h) ==
  /\ MayLose
  /\ handler[h].pc = "claimed"
  /\ handler' = [handler EXCEPT ![h] = IdleHandler]
  /\ UNCHANGED <<row, task, opens, closes, budget>>

ResolveRead(h) ==
  /\ handler[h].pc = "idle"
  /\ budget.resolves < MaxResolves
  /\ row.status \in Statuses \ Terminal
  /\ handler' = [handler EXCEPT ![h] = [pc |-> "resolving", seen |-> row.status]]
  /\ budget' = [budget EXCEPT !.resolves = @ + 1]
  /\ UNCHANGED <<row, task, opens, closes>>

\* _apply_resolve: RESOLVED where the machine allows it from the status that
\* was read, else only a marker in data that no step reads.
ResolveWrite(h) ==
  /\ handler[h].pc = "resolving"
  /\ IF "RESOLVED" \in TRANSITIONS[handler[h].seen]
       THEN WriteRow([row EXCEPT !.status = "RESOLVED"])
       ELSE UNCHANGED <<row, closes>>
  /\ handler' = [handler EXCEPT ![h] = IdleHandler]
  /\ UNCHANGED <<task, opens, budget>>

-----------------------------------------------------------------------------
(* async_process_incident and IncidentPipeline.run. *)

\* The row as the session of a run sees it.
View(t) == IF task[t].expired THEN row ELSE task[t].copy

\* Mutant: the resume table is one stage short.
CompletedLess(v) ==
  IF v.status \in DOMAIN Order /\ Order[v.status] > 0 THEN Order[v.status] - 1 ELSE 0

\* _COMPLETED_BY_STATE and _restore_checkpoint: the stages a resumed run skips,
\* none if the checkpoint does not reach that far.
Completed(v) ==
  IF v.status \in DOMAIN Order /\ Order[v.status] <= v.analysis.ckpt
  THEN Order[v.status] ELSE 0

LivePending(v) == v.analysis.pending >= 0 /\ v.analysis.done = {}

Acking(t) == [task[t] EXCEPT !.st = "acking", !.copy = Absent, !.expired = FALSE]

\* The hard gate or peek_budget refuses: nothing is written.
StartSkipped(t) ==
  /\ MaySkip
  /\ task[t].st = "queued"
  /\ task' = [task EXCEPT ![t] = Acking(t)]
  /\ UNCHANGED <<row, handler, opens, closes, budget>>

\* A terminal row with a live outbox marker: only the report is sent.
StartResends(t) ==
  /\ task[t].st = "queued"
  /\ row.status \in {"RESOLVED", "TRIAGE_REQUIRED"}
  /\ LivePending(row)
  /\ task' = [task EXCEPT ![t].st = "sending", ![t].copy = row,
                          ![t].report = row.analysis.pending]
  /\ UNCHANGED <<row, handler, opens, closes, budget>>

\* _record_resolved_early
RecordResolvedEarly(t, v) ==
  /\ WriteRow([row EXCEPT !.analysis = [v.analysis EXCEPT !.ckpt = 0, !.pending = -1]])
  /\ task' = [task EXCEPT ![t] = Acking(t)]
  /\ UNCHANGED <<handler, opens, budget>>

StartClosed(t) ==
  /\ task[t].st = "queued"
  /\ row.status \in {"RESOLVED", "TRIAGE_REQUIRED"}
  /\ ~LivePending(row)
  /\ RecordResolvedEarly(t, row)

StartRuns(t) ==
  /\ task[t].st = "queued"
  /\ row.status \notin {"RESOLVED", "TRIAGE_REQUIRED"}
  /\ task' = [task EXCEPT ![t].st = "running", ![t].copy = row,
                          ![t].at = Completed(row)]
  /\ UNCHANGED <<row, handler, opens, closes, budget>>

\* _populate_kg fails on a full run: the rollback expires the loaded row.
KgPopulateFails(t) ==
  /\ task[t].st = "running" /\ task[t].at = 0
  /\ ~task[t].expired
  /\ task' = [task EXCEPT ![t].expired = TRUE]
  /\ UNCHANGED <<row, handler, opens, closes, budget>>

\* The stage a run is in, ending in _safe_transition.
AtStage(t) == task[t].st = "running" /\ task[t].at + 1 \in Stages

Checkpointed(t) == [View(t).analysis EXCEPT !.ckpt = task[t].at + 1]

\* The run sees the row closed by a resolve webhook and stops.
StageHalts(t) ==
  /\ AtStage(t)
  /\ View(t).status \in {"RESOLVED", "TRIAGE_REQUIRED"}
  /\ RecordResolvedEarly(t, View(t))

\* transition_to: the state was already reached, nothing is committed.
StageReenters(t) ==
  /\ AtStage(t)
  /\ View(t).status \in DOMAIN Order
  /\ task[t].at + 1 <= Order[View(t).status]
  /\ task' = [task EXCEPT ![t].at = @ + 1, ![t].expired = FALSE,
                          ![t].copy = [View(t) EXCEPT !.analysis = Checkpointed(t)]]
  /\ UNCHANGED <<row, handler, opens, closes, budget>>

\* Status and checkpoint in one transaction.
StageCommits(t) ==
  /\ AtStage(t)
  /\ View(t).status \in DOMAIN Order
  /\ task[t].at + 1 > Order[View(t).status]
  /\ StageStates[task[t].at + 1] \in TRANSITIONS[View(t).status]
  /\ LET new == [row EXCEPT !.status = StageStates[task[t].at + 1],
                            !.analysis = Checkpointed(t)]
     IN  /\ WriteRow(new)
         /\ task' = [task EXCEPT ![t].at = @ + 1, ![t].expired = FALSE, ![t].copy = new]
  /\ UNCHANGED <<handler, opens, budget>>

\* Mutant: FAILED is forced without asking the state machine.
FailedAlways(loaded, current) == "FAILED"

\* transition_to(record, FAILED): judged by the loaded status, and a refused
\* transition is swallowed.
FailedFrom(loaded, current) ==
  IF "FAILED" \in TRANSITIONS[loaded] THEN "FAILED" ELSE current

\* A terminal exception: the post-mortem commits the blob of the session, then
\* the row is failed.
RunFails(t, analysis) ==
  /\ WriteRow([row EXCEPT !.analysis = analysis,
                          !.status = FailedFrom(View(t).status, @)])
  /\ task' = [task EXCEPT ![t] = Acking(t)]
  /\ UNCHANGED <<handler, opens>>

\* A redelivered task that finds FAILED runs the analyzer and then raises.
StageInvalid(t) ==
  /\ AtStage(t)
  /\ View(t).status = "FAILED"
  /\ RunFails(t, Checkpointed(t))
  /\ UNCHANGED budget

\* _finalize_suppressed: closed without a report.
Suppress(t) ==
  /\ task[t].st = "running" /\ task[t].at = 2
  /\ IF "RESOLVED" \in TRANSITIONS[View(t).status]
       THEN /\ WriteRow([row EXCEPT !.status = "RESOLVED",
                                    !.analysis = [View(t).analysis EXCEPT !.ckpt = 0]])
            /\ task' = [task EXCEPT ![t] = Acking(t)]
            /\ UNCHANGED <<handler, opens>>
       ELSE RunFails(t, [View(t).analysis EXCEPT !.ckpt = 0])
  /\ UNCHANGED budget

\* _persist: the terminal status and the outbox marker in one transaction.  The
\* loaded status is FIX_PROPOSED here, so the transition is a legal one.
Persist(t, final) ==
  /\ task[t].st = "running" /\ task[t].at = Cardinality(Stages)
  /\ LET new == [row EXCEPT !.status = final,
                            !.analysis = [ckpt |-> 0, pending |-> 0, done |-> {}]]
     IN  /\ WriteRow(new)
         /\ task' = [task EXCEPT ![t].st = "staged", ![t].copy = new, ![t].report = 0]
  /\ UNCHANGED <<handler, opens, budget>>

\* The message Celery publishes for a retry.
Retried(t) == [NoTask EXCEPT !.st = "queued", !.retries = task[t].retries + 1]

\* Mutant: FAILED is written although Celery will retry.
RequeueFailed(t) ==
  /\ task' = [task EXCEPT ![t] = Retried(t)]
  /\ WriteRow([row EXCEPT !.status = FailedFrom(View(t).status, @)])

\* Mutant: the retry is never published.
RequeueForgotten(t) ==
  /\ task' = [task EXCEPT ![t] = Acking(t)]
  /\ UNCHANGED <<row, closes>>

\* autoretry_for with attempts left: a rollback and a new message.
Requeue(t) ==
  /\ task' = [task EXCEPT ![t] = Retried(t)]
  /\ UNCHANGED <<row, closes>>

\* A retriable error inside a stage.
Transient(t) ==
  /\ task[t].st = "running"
  /\ budget.transient < MaxTransient
  /\ budget' = [budget EXCEPT !.transient = @ + 1]
  /\ IF task[t].retries < MaxRetries
       THEN Requeue(t) /\ UNCHANGED <<handler, opens>>
       ELSE RunFails(t, View(t).analysis)

\* A stage cap or another error that is not retried.
Permanent(t) ==
  /\ task[t].st = "running"
  /\ RunFails(t, View(t).analysis)
  /\ UNCHANGED budget

\* The hard limit of the task: the worker process is killed, and the message is
\* acknowledged all the same (task_acks_on_failure_or_timeout).
TimeLimit(t) ==
  /\ MaySkip
  /\ task[t].st = "running"
  /\ task' = [task EXCEPT ![t] = Acking(t)]
  /\ UNCHANGED <<row, handler, opens, closes, budget>>

-----------------------------------------------------------------------------
(* ReportDelivery. *)

\* What _update_analysis edits: the row under the lock, or the session's copy
\* when taking the lock failed.
Locked(t, locked) == IF locked THEN row ELSE task[t].copy

\* _set_state_column runs before the refresh, which discards it.
MarkedRow(t, locked, analysis, state) ==
  [row EXCEPT !.analysis = analysis, !.column = IF locked THEN @ ELSE state]

\* refresh_args after the commit of _persist.
RefreshArgs(t, locked) ==
  /\ task[t].st = "staged"
  /\ LET old == Locked(t, locked).analysis
         new == [row EXCEPT !.analysis =
                   [old EXCEPT !.pending = IF @ >= 0 THEN @ ELSE 0]]
     IN  /\ WriteRow(new)
         /\ task' = [task EXCEPT ![t].st = "sending", ![t].copy = new]
  /\ UNCHANGED <<handler, opens, budget>>

Marked(t, locked, state) ==
  LET old == Locked(t, locked).analysis
  IN  MarkedRow(t, locked, [old EXCEPT !.pending = -1, !.done = @ \cup {state}], state)

\* mark_sent after a delivered embed.
Sent(t, locked) ==
  /\ task[t].st = "sending"
  /\ WriteRow(Marked(t, locked, "sent"))
  /\ task' = [task EXCEPT ![t] = Acking(t)]
  /\ UNCHANGED <<handler, opens, budget>>

\* mark_failed: the last attempt, or a severity Discord does not route.
GaveUp(t, locked) ==
  /\ task[t].st = "sending"
  /\ WriteRow(Marked(t, locked, "failed"))
  /\ task' = [task EXCEPT ![t] = Acking(t)]
  /\ UNCHANGED <<handler, opens, budget>>

\* bump_attempts
Bumped(t, locked) ==
  [Locked(t, locked).analysis EXCEPT !.pending = task[t].report + 1]

AttemptsLeft(t) == task[t].report + 1 < MaxAttempts

\* Mutant: the undelivered report raises nothing.
UndeliveredSilent(t, locked) ==
  /\ task[t].st = "sending"
  /\ AttemptsLeft(t)
  /\ WriteRow([row EXCEPT !.analysis = Bumped(t, locked)])
  /\ task' = [task EXCEPT ![t] = Acking(t)]
  /\ UNCHANGED <<handler, opens, budget>>

\* The attempt is counted and ReportDeliveryPending raised: a retry by Celery if
\* one is left, else the terminal branch, which cannot fail a closed row.
Undelivered(t, locked) ==
  /\ task[t].st = "sending"
  /\ AttemptsLeft(t)
  /\ IF task[t].retries < MaxRetries
       THEN /\ WriteRow([row EXCEPT !.analysis = Bumped(t, locked)])
            /\ task' = [task EXCEPT ![t] = Retried(t)]
       ELSE /\ WriteRow([row EXCEPT !.analysis = Bumped(t, locked),
                                    !.status = FailedFrom(Locked(t, locked).status, @)])
            /\ task' = [task EXCEPT ![t] = Acking(t)]
  /\ UNCHANGED <<handler, opens, budget>>

-----------------------------------------------------------------------------
(* The broker: late acknowledgement. *)

\* The worker dies before the ack: the message comes back as it was.
Crash(t) ==
  /\ task[t].st \in {"running", "staged", "sending", "acking"}
  /\ budget.crashes < MaxCrashes
  /\ budget' = [budget EXCEPT !.crashes = @ + 1]
  /\ task' = [task EXCEPT ![t] = [NoTask EXCEPT !.st = "queued",
                                                !.retries = task[t].retries]]
  /\ UNCHANGED <<row, handler, opens, closes>>

Ack(t) ==
  /\ task[t].st = "acking"
  /\ task' = [task EXCEPT ![t] = [NoTask EXCEPT !.st = "done"]]
  /\ UNCHANGED <<row, handler, opens, closes, budget>>

-----------------------------------------------------------------------------
Init ==
  /\ row = Absent
  /\ handler = [h \in Handlers |-> IdleHandler]
  /\ task = [t \in Tasks |-> NoTask]
  /\ opens = 0
  /\ closes = 0
  /\ budget = [crashes |-> 0, transient |-> 0, resolves |-> 0]

HandlerStep(h) ==
  \/ FireClaim(h) \/ FireDispatch(h) \/ FireLost(h) \/ ResolveWrite(h)

Delivery(t, locked) ==
  \/ RefreshArgs(t, locked) \/ Sent(t, locked) \/ Undelivered(t, locked)
  \/ GaveUp(t, locked)

TaskStep(t) ==
  \/ StartSkipped(t) \/ StartResends(t) \/ StartClosed(t) \/ StartRuns(t)
  \/ KgPopulateFails(t) \/ StageHalts(t) \/ StageReenters(t) \/ StageCommits(t)
  \/ StageInvalid(t) \/ Suppress(t) \/ Permanent(t) \/ TimeLimit(t)
  \/ \E final \in {"RESOLVED", "TRIAGE_REQUIRED"} : Persist(t, final)
  \/ \E locked \in LockOutcomes : Delivery(t, locked)
  \/ Ack(t)

Next ==
  \/ \E h \in Handlers : FireRead(h) \/ ResolveRead(h) \/ HandlerStep(h)
  \/ \E t \in Tasks : TaskStep(t) \/ Transient(t) \/ Crash(t)

Spec == Init /\ [][Next]_vars

\* A request in progress is served, a queued message is consumed and a stage
\* ends, by an answer, an error or its cap; alerts, crashes and errors may not
\* come.
FairSpec ==
  /\ Spec
  /\ \A h \in Handlers : WF_vars(HandlerStep(h))
  /\ \A t \in Tasks : WF_vars(TaskStep(t))

-----------------------------------------------------------------------------
\* Types; the attempts of a live marker stay below MAX_ATTEMPTS, and the retries
\* of a task within max_retries.
TypeOK ==
  /\ row \in [status : Statuses \cup {"absent"}, analysis : Analysis,
              column : {"none", "sent", "failed"}]
  /\ handler \in [Handlers -> [pc : {"idle", "enriching", "claimed", "resolving"},
                               seen : Statuses \cup {"absent"}]]
  /\ \A t \in Tasks :
       /\ task[t].st \in {"none", "queued", "running", "staged", "sending",
                          "acking", "done"}
       /\ task[t].retries \in 0 .. MaxRetries
       /\ task[t].at \in {0} \cup Stages
  /\ opens \in 0 .. MaxFires
  /\ closes \in Nat

\* Two webhooks that saw the same closed row do not both start a run: between
\* two claims the row was closed again.
ClaimsAlternate == opens <= closes + 1

\* The state machine of core/state_machine.py: the status moves along its
\* edges, except for the claim of a closed row by a new alert.
StatusFollowsMachine ==
  [][\/ row'.status = row.status
     \/ row'.status = "OPEN" /\ opens' = opens + 1
     \/ row.status \in Statuses /\ row'.status \in TRANSITIONS[row.status]]_vars

\* A resumed run pays for no stage whose result the row already has.
NoReburn ==
  \A t \in Tasks :
    task[t].st = "running" /\ row.status \in DOMAIN Order
      => Order[row.status] <= task[t].at

\* FAILED is written only when Celery will not retry the task: as long as no
\* worker died after the commit, no retry starts on a failed row.
FailedNotRetried ==
  budget.crashes = 0 =>
    \A t \in Tasks : task[t].st = "queued" => row.status # "FAILED"

\* A closed row that still owes its report has a task that will send it.
PendingHasTask ==
  row.status \in {"RESOLVED", "TRIAGE_REQUIRED"} /\ LivePending(row)
    => \E t \in Tasks : task[t].st \notin {"none", "done"}

\* As long as no retry was spent on anything but the report, across worker
\* deaths and failed locks.
PendingIsServed == budget.transient = 0 => PendingHasTask

\* mark_sent and mark_failed: the JSON marker and the column change together.
ColumnAgrees ==
  row.analysis.done # {} => row.column \in row.analysis.done

\* A claimed incident reaches a terminal status.
Settles == row.status # "absent" ~> row.status \in Terminal

=============================================================================
