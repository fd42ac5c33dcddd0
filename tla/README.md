# TLA+ models of sre-ai-copilot

sre-ai-copilot turns Alertmanager alerts into incidents, lets a chain of LLM
agents investigate them, reports to Discord, and, after a person has pressed a
button, runs one `kubectl` command against the cluster. This directory holds
TLA+ specifications of the parts where an error costs something (a second write
to the cluster, a lost report, an exceeded budget), TLC configurations that
check them on small instances, and proofs that TLAPS checks.

Paths below are relative to the repository root. `PROJECT.json` records, for
every definition that models code, the file and the lines.

## 1. Inventory

### Components, their state and their operations

| Component | State | Operations | Modelled in |
|---|---|---|---|
| Incident webhook, `app/api/webhooks.py` | row of `incidents` (status, `analysis` JSON) | claim of a new or closed incident, dispatch, resolve | IncidentLifecycle |
| State machine, `app/core/state_machine.py` | none (a table) | `transition_to` | IncidentLifecycle |
| Pipeline, `app/workers/pipeline.py`, task in `app/workers/tasks.py` | the session's copy of the row, checkpoint in `analysis`, Celery message with its retry count | start or resume, stages, suppression, persist, early stop, post-mortem | IncidentLifecycle; as a rival writer in ExecutorApply |
| Report delivery, `app/workers/report_delivery.py` | outbox marker in `analysis`, column `report_state` | refresh, send, bump, mark sent or failed | IncidentLifecycle |
| Approval buttons, `app/api/discord_interactions.py` | `kg_action_approvals` | approve, decline, apply_confirm | ExecutorApply |
| Executor, `app/services/executor_apply.py`, `app/remediation/attempts.py`, `app/workers/executor_tasks.py` | `kg_remediation_attempts`, three keys of `analysis`, the row lock | `apply_intent` in two phases | ExecutorApply, OneShotRemediation |
| Delayed verification, `app/remediation/verification.py` | status of the attempt, queued checks | start, assess, commit, redelivery | ExecutorApply |
| Remediation bridge, `app/remediation/bridge.py`, `bridge_dispatch.py` | enqueue key and claim in Redis, its own incident row and decision, a card | enqueue, claim, dry run, record, post, release | RemediationBridge; its write of the row in ExecutorApply |
| Matcher, binding, risk axes, policy, gate, command, `app/remediation/`, `app/core/execution_dsl.py` | snapshot of the match and intent in `analysis` | match, bind, evaluate, admit, write | PlaybookGate; the constant `Eligible` in ExecutorApply |
| LLM budget, `app/services/cost_guard.py`, `app/services/llm_service.py` | `llm_spend_ledger` by UTC day | reserve, settle, release | CostGuard |
| LLM breaker and retries, `app/services/resilience.py` | four Redis keys shared by workers | ask, call, report, half-open trial | LLMBreaker |
| Alert deduplication, `app/services/alert_dedup.py` | three Redis keys per alert | `decide_send`, `rollback_undelivered` | AlertForward |
| Discord deduplication, `app/services/discord/dedup_store.py`, senders in `discord/service.py` | `discord_dedup` rows with a message id or a placeholder, fallback in memory, burst counters | claim, post, save, release, patch, purge | AlertForward |
| Task lock, `app/workers/task_lock.py` | Redis lease, renewer thread | acquire, renew, release, fail open | TaskLock |
| Replay protection and rate limit, `app/security/replay.py`, `app/api/rate_limit.py` | Redis counter and nonces, their local substitutes | count, check, register | WebhookGuard |
| kubectl breaker, `app/knowledge_graph/kubectl_breaker.py` | counter and flag in Redis | guard, record a failure or success | KubectlBreaker |
| Self-reports, `app/core/fire_dedup.py`, two tasks of `app/workers/tasks.py` | a Redis key per set of problems | ask, send, mark | HealthReports |
| Graph incidents, `app/knowledge_graph/incidents.py`, `alerts_resolve_sync.py`, `auto_populator.py` | `kg_alerts`, `kg_incidents` | store, attach, reopen, mark noise, resolve, reconcile | KGIncidents |
| Graph topology, `app/knowledge_graph/kg_sync.py`, `edge_decay_guard.py`, `populator.py` | `kg_service_edges`, source reports in memory and Redis | upsert, report, revive, delete, mark | KGEdges |
| Rest of the graph, agents, collectors, digests, embeds, dialogs | own tables, or none | upserts, text, reads, HTTP | not modelled, section 6 |

### How they interact

* The webhook commits the row and publishes a Celery message; the broker keeps
  the message until the run has ended (late acknowledgement), so a worker's
  death delivers it again.
* The pipeline and the executor never call each other. They share one JSON
  column. Sessions are created with `expire_on_commit=False` and
  `autoflush=False` (`app/database.py:145-163`), so each writer works on the
  copy it loaded and writes the whole column back. Nearly every hard behaviour
  of this system comes from that.
* A button inserts a decision under a unique key and queues `apply_intent`,
  which re-reads everything under `SELECT ... FOR UPDATE`, commits a claim,
  releases the lock, runs `kubectl`, and commits the result.
* Verification is a later Celery task that compares the live object with the
  snapshot of the attempt.
* Each LLM call of each agent charges the ledger first and corrects it after,
  and asks the breaker, whose keys all workers share.
* An alert passes the rate limit and the replay check, is counted by
  `decide_send`, and reaches Discord as a new message or as an edit of the one
  that is there; the same alert is stored in the graph, where it opens or joins
  an incident, and may bring the bridge to propose a playbook.
* Redis is the meeting point of processes that do not know each other. Every
  user of it has a rule for the time when it does not answer, mostly to go on
  without it, and a key that is checked and set by separate commands.
* Periodic tasks (synchronisers, resolve sync, reconciliation, self-reports) run
  under the task lock and write the tables that requests write too.

### What is hard

Concurrency: clicks, redelivered tasks, re-fires and the bridge on one row; two
api replicas on one alert or one message; agents on one budget and one breaker;
store requests, noise marks and periodic tasks on one graph incident. Failure: a death between the
claim and the recorded result, between two stages, between the bill and its
settlement, between a claim in Redis and the message it was for; a failed
commit; a lost acknowledgement; a Redis that answers some processes only. Ordering: stale copies
written over newer data, a plan replaced after its approval, midnight between
reserve and settle. Time: a claim that outlives its TTL while its writer lives,
an approval that lapses, two retry counters with one budget, keys that expire
between two commands, leases, windows and ages. The list with line
numbers is `hazards` in `PROJECT.json`.

### What makes each modelled component correct

* Executor: at most one write per incident, of the approved command, with a
  fresh approval; nothing on a row the older protocol already used; every
  invocation ends with the lock free.
* Verification: `verified` is said only of the object the decision named.
* Budget: the day's sum stays within the limit, covers what was billed, and
  contains nothing unexplained.
* Incident: two requests never claim the same closing of it; the status follows the state
  machine; no stage is paid for twice; no retry after FAILED; an owed report has
  somebody to send it; a claimed incident is closed in the end.
* Alert messages: one message per window, a second one only for a reason that
  can be named; the counter that suppresses takes back every fire nobody saw,
  but for one per fault and for the fires merged into a placeholder whose message
  never came.
* Bridge: one card per window; every button has its row; silence follows a card,
  a refused dry run or a fault.
* Gate: where the binding is required, only what the facts proved is written;
  nothing mutating outside dev and squad or on a stateful target; a scale never
  overwrites a number nobody read.
* Lock, breakers, limit, replay: a held lease protects, and is free in the end;
  probes are bounded and the provider is tried again; an outage of Redis
  degrades the limit but does not lift it; a signature enters twice only for a
  named reason; scattered failures are not taken for a row.
* Self-reports: a problem is reported once a window, and silent only after it was
  reported (which fails, finding 4).
* Graph: a firing alert is in an open incident; noise is unanimous; races heal;
  when all is quiet all is closed; a live edge is not deleted while its source
  says it is blind; dead edges leave and live ones return.

## 2. Modules

| Module | What it is |
|---|---|
| `OneShotRemediation` | what the executor promises: decisions, one claim, one execution, then settled or handed off |
| `ExecutorApply` | buttons, `apply_intent`, verification, and the rival writers of the row |
| `MCExecutorApply` | instances: two commands, two plans, symmetry |
| `ExecutorApplyProofs`, `ExecutorPromiseProofs` | types, authorisation, at most one write; legacy rows, verification, expired approvals, what is left without row locks, the refinement |
| `CostGuard`, `CostGuardProofs` | the ledger and the life of an attempt of `generate_full`; the ceiling, the coverage of what was billed, and its converse |
| `IncidentLifecycle` | webhook, task, pipeline and report of one row |
| `MCIncidentLifecycle`, `IncidentLifecycleProofs` | instances; exclusive claims, and for one claim the stages, the status and the report |
| `AlertForward`, `MCAlertForward`, `AlertForwardProofs` | one alert from `decide_send` to its Discord message, over several replicas; the count and the messages are explained |
| `RemediationBridge` | one playbook and target: enqueue key, claim, row, card |
| `PlaybookGate` | match, binding, policy, gate, and what other writers do in between |
| `RemediationBridgeProofs` | every safety property of the bridge and of the gate |
| `TaskLock`, `LLMBreaker`, `WebhookGuard`, `KubectlBreaker`, `HealthReports` | the Redis protocols |
| `SharedStateProofs` | every safety property of those five |
| `KGIncidents`, `KGEdges` | alerts and incidents of one service; the life of topology edges |
| `GraphProofs` | every safety property of both |
| `MCShared` | instances of the lock, both breakers, the guard, the bridge, the gate, the ledger and the reports |
| `MCGraph`, `MCLive` | instances of the graph; liveness of lock, breaker and graph |

`MCShared`, `MCGraph` and `MCLive` put several components into one run. These
share no variable; `focus`, chosen initially, names the one that moves while the
others rest in their initial states. The behaviours of each component in such a
run are those of its own specification, and a property that mentions one
component is trivially true where another moves. (`bindingOn` is fixed where the
gate does not move, which only avoids exploring the others twice.)

### ExecutorApply

One incident row: incidents share nothing on this path. `analysis` is the
committed JSON reduced to the plan and the three keys of the apply protocol
(`executor_applied`, `executor_in_flight`, `executor_state_unknown`);
`attempts` and `approvals` are the two tables. A signature stands for the
command it is the hash of, and `SigOf` is `compute_signature`. `Eligible` is the
joint verdict of the checks that depend on the plan alone (namespace, risk,
stored dry run, policy).

Every in-memory copy is a variable: `job[w].mem` of an invocation, `pipe` of a
pipeline run, `card` of the bridge, `ver[v].mem` of a verification. A clock is
not modelled; `expired` collects the claims, approvals and plans that have
outlived their window, which may happen at any moment.

`apply_intent` is cut where another actor can act. `ApplyRefused`,
`ApplyStaleJson`, `ApplyStaleRow` and `ApplyChecked` are the checks under the
lock, in the code's order. In the last case the lock stays while `kubectl` runs
the dry run and the snapshot (`ApplyRecheckFails`, `ApplyClaim`). `ApplyWrite`
is the write, which hits whatever object has the name at that moment.
`ApplyFinalize` and `ApplyFinalizeFails` record the result, or fail to.
`ApplyCrash` is a death or a caught exception at each point before the write; a
death after it has the effect of `ApplyFinalizeFails`.

With `RowLock = FALSE` the lock does nothing, as on SQLite, which the tests and
local set-ups use. `WriterMayStall` lets a claim lapse while its writer lives.
The external part is `kubectl`: it may succeed or fail, and a snapshot is the
live object or unknown.

`Phase` and `Chosen` are the refinement mapping to `OneShotRemediation`: the
phase is read off the first attempts row and the history of writes.

### CostGuard

Money is counted in parts of a micro-dollar (`Sub` parts each), because prices
are fractional and the ledger is an integer: `MicroUp` is the `max(1, ceil)` of
`reserve`, `RoundHalfEven` is Python's `round` in `settle` and `release`. An
attempt goes idle, reserved, then answered or limited (429), then idle again.
Refunds go to the day of the reserve. `open`, `paid`, `kept` and `ended` are
history, for the properties.

`ReserveStays` covers the two ways in which a charge is committed and no call
follows: the stage cap cancels while the shielded thread commits, or the
acknowledgement of the commit is lost. `RequestFails` covers time-outs,
cancellation, an answer without text and other errors. `Bills` assumes what
`estimate_worst_case_usd` is built to guarantee: the provider bills no more than
the worst case.

### IncidentLifecycle

One row, `MaxFires` claims of it, each with its task. A webhook request is two
steps, the read and the write, because it awaits the TeamCity context in
between (`FireRead`, `FireClaim`, `FireDispatch` or `FireLost`; `ResolveRead`,
`ResolveWrite`). `TRANSITIONS` is the whole table of the state machine.

A run works on `task[t].copy`. `View` is what its session sees: the copy, or the
row after a rollback has expired it (`KgPopulateFails`). A stage ends in one of
`StageCommits`, `StageReenters`, `StageHalts`, `StageInvalid`; `Suppress` and
`Persist` close the row. An error is `Transient` (in `autoretry_for`, a new
message while retries are left) or `Permanent`; `TimeLimit` is the hard limit,
after which the message is acknowledged. Delivery: `RefreshArgs`, `Sent`,
`Undelivered`, `GaveUp`, each with a locked refresh that succeeds or fails. The
blob is reduced to how far the checkpoint reaches, the attempts of the pending
report and the sent or failed marks.

### AlertForward

One (alertname, service). Each replica carries one fire through `req[p].pc`:
`decide_send` is `ReadLast`, `Repeat` or `ClaimResurface`, `ResetCount` or
`EnsureCount` and `Incr`, `TouchLast`, one Redis command each; then the
enrichment, `claim` in its three parts (read, INSERT, lock of the row that won),
`Post`, `Save`, or the merging PATCH, and after a failure `Release` and the
roll-back of the count. `RedisFails` and the fallback of each database call to
the memory of the process are faults. Ages are classes: up to 120 s, up to the
window, older. The incident channel uses the same rows without counting and has
the burst counter of its process. The rest is history. `seen`, `hoped` and
`astray` sort the fires in the counter: shown, merged into a message or
suppressed; merged into a placeholder; kept from the channel by a fault (a death
after INCR, a refused roll-back, Redis failing after INCR and Discord after that).
`spare` is how many messages are accounted for.

### RemediationBridge and PlaybookGate

`RemediationBridge` has a phase per Celery task: `Enqueue`, `Plans`, the claim
by `ClaimRedis` or, when Redis fails, `ClaimDatabase`, `DryRun`, `Record` (row
and decision in one commit), `PostAccepted` or `PostRefused`, `Releases`,
`SavesCard`; `BridgeFault` is a death or an exception at any of these points.

`PlaybookGate` keeps the stored analysis and one analysis under way. Matching,
axes, policy and the check of the binding are operators over the whole space of
findings; the inputs of a model's proposal (`LLMIntents`) range over actions,
types, targets and tiers, contradictory ones included. `ScaledElsewhere`,
`NewImage` and `Rewritten` are what happens between the match and the write. A
hash is modelled by what is hashed.

### The Redis protocols

`TaskLock` counts time in periods of the renewer: in each, every live renewer
wakes once (`RenewOnce`, `RenewMisses`) and every lease gets shorter. Release is
two steps. `LLMBreaker` has one action per script, MULTI block or command;
expiry is an action of its own. `KubectlBreaker` has INCR, EXPIRE, SETEX and
DELETE as steps of several forks. `WebhookGuard` has one request per slot that
passes the limit (`LimitShared`, `LimitFallback`), the replay check
(`ReplayLocal`, `ReplayShared`, `ReplayUnanswered`) and the handler; Alertmanager
is external and repeats a batch that was not acknowledged. `HealthReports` is a
run that asks, sends and marks, where sending may be refused without anyone
noticing (`SendRefused`). Ghost counters (`entered`, `blind`, `lapsed`,
`excuses`, `inARow`, `robbed`) say what happened, for the properties.

### KGIncidents and KGEdges

`KGIncidents` is one service. A store request or a noise mark is a transaction
that reads (`StoreBegins`, `NoiseBegins`) and commits later what it computed
from that read, column by column as the ORM does (`Written`); the upsert of an
alert holds its row lock; a partial unique index admits one open incident
(`IndexAllows`). The resolve sync holds a snapshot of Alertmanager while it
works, reconciliation a verdict. Two history sets name what a race or a failure
has spoilt, and both shrink again. `adrift` holds alerts: those of an incident
whose list or status was written from a stale read, or that a verdict "all
resolved" closed although one of them fires by now, and the alert whose own attach
failed; the next attach of the alert from a fresh read, or its resolution, takes it
out. An incident that ages out with a firing alert is no exception: `FiringIsOpen`
speaks of it. `raced` holds incidents flagged as noise from a stale read, until a
writer with a fresh one. `MaxFires` bounds the starts of alerts and the rows of
incidents, `MaxExtras` the noise marks and roll-backs; a mark may be taken away
again at no cost.

`KGEdges` counts age in days. `x` is one synchroniser besides `kg_sync`; its
report is kept in the memory of the forks and in Redis, and the later one
counts. A run that missed an edge is reported as bad, unless what failed was only
logged (`counted`). `unheard` names the reasons why a failed run is not known. A run of `kg_sync` is upsert, selection, DELETE with the age repeated in
its condition, mark; it may die between any two.

## 3. Runs

TLC explores every run completely; no state constraint is used. Bounds are
guards named in the modules.

| Run | Checks | Distinct states |
|---|---|---|
| `apply_core` | `AtMostOneWrite`, `WriteAuthorised`, `LegacyNeverWritten`, `ImplementsOneShot` | 255,364 |
| `apply_verify` | `TypeOK`, `VerifiedMeansExpectedTarget`, `ExpiredApprovalNeverWrites`, `InvocationEnds` | 96,288 |
| `life_single` | `NoReburn`, `FailedNotRetried`, `PendingIsServed`, `StatusFollowsMachine`, `Settles` | 1,000 |
| `life_races` | `ClaimsAlternate` | 333,134 |
| `alert_forward` | `DuplicatesExplained`, `CountExplained` | 2,678,049 |
| `shared_safety` | lock: `LeaseProtects`; breaker: `ProbesBounded`; guard: `RateBounded`, `EntriesExplained`; bridge: `ButtonsHaveRow`, `CardsExplained`, `SilenceExplained`; gate: `BoundIntentsProved`, `RiskyNeverAdmitted`, `NoScaleLost`; ledger: `CeilingHolds`, `PaidIsCovered`, `LedgerExplained`; reports: `EmbedsExplained`; kubectl: `CountsInARow` | 1,508,183 |
| `graph_safety` | `FiringIsOpen`, `NoiseUnanimous`, `LiveEdgesKept` | 2,524,552 |
| `shared_live` | `LockFrees`, `BreakerServes`, `RacesHeal`, `QuietCloses`, `LiveEdgesReturn`, `DeadEdgesLeave` | 131,466 |
| `apply_mark_kept` | `AppliedMarkKept`, violated | stops |
| `life_resolve` | `StatusFollowsMachine`, violated | stops |
| `gate_scale` | `ScaleOutAddsOne`, violated | stops |
| `report_silent` | `SilencedWasShown`, violated | stops |

**apply_core.** Two invocations, two commands with a plan each, one verifier,
all three origins of a row, claims that lapse under a living writer. Two plans
are what a re-fire needs to replace an approved one; two invocations are what a
double click or a redelivery needs. The theorems below lift all four
properties to any number. The refinement allows the one execution of a writer
that outlived its claim to come after the hand-over to a person, which is what
the code accepts: the row stays closed to everyone else.

**apply_verify.** Two delayed checks and an object that is recreated once, at
any moment; all three windows may end. Two checks are the least for which one
runs while a later one is queued. Rows of the bridge only and one command, so
that the plan is fixed and the windows and uids are what varies. The same run shows that every
invocation ends, with the lock free for the next one.

**life_single.** One alert through its task with two deaths, three retriable
errors against two retries, failing locks and three delivery attempts, so that
each budget can be exhausted with the others untouched. It has no rival (no
resolve, no second claim) and no lost or skipped run: what it shows is the
promise for the undisturbed incident. The disturbed one is `life_races` and the
findings.

**life_races.** Two concurrent requests, two claims, a resolve, a running
pipeline, skipped runs and lost dispatches.

**alert_forward.** Two replicas and three fires: two race for a row and a third
meets what they left; a threshold of three that all of them reach together. One
fault at any Redis or database call. Both channels. One fault is enough for a fire
that is counted and lost; the merge into a placeholder that is released needs none.

**shared_safety.** Each bound is the least at which the hazard of its component
can happen and something is left to go wrong after it.

* Lock: three runs, one to hold, one to rob and one to be robbed; a lease of
  three periods, as in the code, and a ceiling just above it.
* Breaker: four callers against two trials, so that more want to probe than may,
  and a second window can open while probes of the first are under way.
* Guard: two processes, two requests at a time, a limit of one, four deliveries
  of one batch, one lost registration.
* Bridge: three tasks, two proposals (the second is the one that needs a reason),
  one fault, one end of the window.
* Gate: a stateless and a stateful target, a tier that is allowed and one that is
  not, two editions of the registry, one foreign scale, one rewritten snapshot.
* Ledger: two attempts at a time, a worst case of 3 halves of a micro-dollar,
  so that the reserve of 2 is rounded up and settlements hit both ties; a limit that two reserves reach exactly; two days;
  two ended attempts a day, enough for an error of rounding to add up.
* Reports: two overlapping runs, two sets of problems, five reports, two faults.
* kubectl: two readers, a writer, a threshold of two, one failing command.

**graph_safety.** Two alerts and two sessions, so that two transactions meet on
one incident, with reconciliation and resolve sync beside them; three instants
of time, in which windows begin and end; one noise mark, which may be taken away
again, or one roll-back. One edge
of `kg_sync`, two of another source and one that nobody answers for: with four
rows one deletion is at the 25 % limit and two are above. Two faults, two changes
of the cluster. One worker process here and two in `shared_live`, where local
reports of different forks contradict each other.

**shared_live.** See fairness, below.

`CHECK_DEADLOCK FALSE` everywhere: each system may stop when its bounded
supply of alerts, days or plans is used up, and so may the program.

The type invariants of the components (`LockTypeOK`, `KGTypeOK`, ...) hold on
these instances too; they are stated for the proofs to come and are no property
of a run, except that of `ExecutorApply`, which has its theorem.

### Fairness

`LiveSpec` (apply_verify) has strong fairness of each invocation's `ApplyStep`.
Strong, because the row lock disables a waiting invocation again and again;
Postgres serves the waiters of a row lock, the dry run and the write have a
30 s timeout and the snapshot 15 s. Nothing is assumed of people, of the
pipeline, of verification or of the clock. A crash is never forced, and the
property holds with crashes.

`FairSpec` (life_single) has weak fairness of each request's and each task's
steps: a request in progress is served, a queued message is consumed, a stage
ends by an answer, an error or its cap. Alerts, resolves, deaths and retriable
errors are under no fairness. `Settles` needs that runs are not refused by the
gate, killed by the hard limit or lost on the way to the broker: in those cases
the code leaves the row in its status, and nothing in the repository promises a
recovery.

`LiveSpec` of `MCLive` (shared_live) has the fairness of the component that
moves.

* Lock: only time and the renewer threads, whose sockets have a timeout. The
  task may hang and the worker may die.
* Breaker: agents go on asking, calls and reports end, keys with a TTL expire.
  How a call ends is left open: the breaker lets somebody through again and again
  even if the provider never recovers.
* Graph incidents: Alertmanager repeats the notification of a firing alert
  (strong, because another request may hold the session), sessions end, the two
  beat tasks run, the clock goes on.
* Edges: both synchronisers go on, days pass, and again and again `kg_sync` ages
  the table on a day on which the other source has run (both run many times a
  day). Faults and changes of the cluster are finite.

### Mutants

Each property of a passing run has a mutant in `PROJECT.json`: a variant of one
definition, written next to it, as a plausible bug would have it (no row lock,
no unique key, last decision wins, a plan not compared, the old sum tested, the
refund booked to today, a blind claim, FAILED before a retry, SET without NX, a
TTL forgotten, unknown taken for absent, DELETE by key alone, ...). Under each
the property fails.

### Excuses

Some properties meet, in the code as it is, the very race their hazard names:
a retry spent outside the delivery (`PendingIsServed`), a lock deleted by a release
that outlived its lease (`LeaseProtects`), a replay store in its cooldown
(`EntriesExplained`), a worker that dies between claim and card
(`SilenceExplained`), two forks between question and mark (`EmbedsExplained`), two
transactions on one incident (`FiringIsOpen`, `NoiseUnanimous`), a failed run
nobody heard of or that counted no error (`LiveEdgesKept`). They do not exclude it. They name it, count or
delimit what it may cost and say that nothing else has that effect: a change that
makes the race do more, or opens another way to the same harm, breaks them.

## 4. Findings

The four violated runs are places where a comment of the repository says
something else than the code does.

1. `apply_mark_kept`. `pipeline.py:1477` says `executor_applied` survives the
   merge of a later run. The merge takes the copy loaded before the run, so a
   mark committed meanwhile is lost. `AtMostOneWrite` holds all the same: the
   attempts row decides, and that is why that table is needed.
2. `life_resolve`. `state_machine.py:58-60` says a resolve that races with a
   starting task is safe because the first `_safe_transition` sees the terminal
   status. It sees the loaded one, and writes INVESTIGATING over RESOLVED.
3. `gate_scale`. The docstring of `_plan_context` (`bridge.py:288-289`) says
   the bridge scales to one more than the current number. The plan is rendered
   from one read (`bridge.py:309`) and `--current-replicas` is bound from
   another; after a scale in between the two disagree. `NoScaleLost` holds: the
   command is conditioned on the second read.
4. `report_silent`. The comment at `tasks.py:1880-1882` says the set is marked
   only after a successful send. A refused POST is logged and swallowed by the
   sender (`discord/service.py:2776-2781`), so `mark_fired` (`tasks.py:1883`)
   follows it, and the problem is silent for the whole window without having
   been reported.

### Observations

Behaviour met while modelling that has no run of its own. The first group is in
the models.

* `report_delivery.py:238-242` says the column is set first so that it goes with
  the same commit. The locked refresh in between reloads the row and drops it
  (`ColumnAgrees` states the comment and is false).
* `report_delivery.py:109-111` says the last attempt writes `report_failed` and
  does not raise. Attempts and Celery retries are counted apart (`:410`): after
  one retry spent on a stage the retries run out first and the report stays
  pending with no task. `PendingIsServed` is the part that holds: while no retry
  was spent elsewhere, somebody will send it.
* The docstring of `ReportDeliveryPending` (`report_delivery.py:55-56`) says a
  retry only resends. If the alert fires again in between, the row is OPEN when
  the old task's retry starts (`pipeline.py:1748`) and it runs the full
  pipeline, beside the task of the new claim.
* A row committed OPEN whose task is not published (`webhooks.py:638`) keeps
  later alerts out; the same after the hard time limit.
* An answer without text raises at `llm_service.py:307`, before the settlement,
  and keeps the whole reserve; the docstring at `cost_guard.py:382` says empty
  answers are settled. The ledger stays on the safe side.
* A fire merged into the placeholder of another process counts as delivered
  (`discord/service.py:2414`), also if that process then fails to post; the
  comment at `webhooks.py:1026-1027` counts only what was sent.
* When `cnt` expires between SET NX and INCR it is created without a TTL, and
  the chronic window never ends by itself.
* `task_lock.py:66` allows for two missed renewals; with the wait before the
  first one the margin is one.
* A late success while the LLM circuit is open deletes `cb:halfopen`, and the
  circuit closes at once when `cb:open` expires, against the comment in
  `_open_circuit`.
* A retry of Alertmanager after a 5xx of the handler is rejected as a replay
  (`webhooks.py:281-282`). `main.py:192` says the limit fails open; it falls back
  to a limit per process.
* The docstring of `claim_proposal` calls a second card a matter of a race; a
  claim granted by the database leads to one sequentially. A worker that dies
  after the claim leaves the alert without a card for six hours
  (`tasks.py:949`).
* An LLM scale, with the binding switched off, carries no `--current-replicas`
  (`execution_dsl.py:40`).
* Two transactions on one graph incident may leave it marked as noise with an
  unmarked alert (`incidents.py:173`). An alert that fires for more than seven
  days ages out, and each repetition opens its incident again. An exception that
  leaves the populating loop rolls back earlier alerts already reported as
  stored.
* `edge_decay_guard` promises that a blind source keeps its edges; a run that
  died before its report, and a bad report Redis lost, are unknown to it, and a
  run by hand for a prefix of namespaces passes. So does a listing that failed and
  was only logged (`k8s_topology_resources_sync.py:178-190`): without StatefulSets
  the Services are still counted as fetched, and the report is good. With more than 25 % of the
  edges dead, none is ever deleted. The soft mark may hit an edge refreshed
  since the selection.
* The docstring of the kubectl breaker speaks of one trial after the TTL; every
  caller passes then, and a failing writer opens it again. SETEX may follow a
  success that has just reset the counter.
* The docstrings of the two self-report tasks still describe a deduplication in
  memory.

And one is outside them: a cancellation during the await of `settle` at
`llm_service.py:336`, which is not shielded, leaves a correct ledger and a metric
that counts the reserve as unsettled.

## 5. Proofs

Checked by `tlapm`, for every value of the constants that satisfies the named
assumptions, which TLC evaluates on the instances. Every safety invariant and
every action property of a passing run is stated by a theorem. The assumptions
say that bounds and limits are numbers and that actors are finitely many, where
they are counted; the few beyond that are named below. The bounds on fires,
faults and days are constants of the theorems too: they hold for each value.

Hardly one of the properties below is inductive as the runs state it; the
strengthenings were tried with TLC before they were proved.

**ExecutorApplyProofs** (`ConstAssumption`).

* `TypeCorrect`: `TypeOK /\ FrameInv`. Types alone are not inductive: `ApplyWrite`
  looks up the plan of a frame, so the proof must know that a frame past the
  checks holds a plan. `FrameInv` says so, with the signature and the approval.
* `Authorisation`: from `FrameInv`, since a decision is never overwritten and
  other writers replace `analysis`, never the frame. No lock is needed.
* `OneWrite`: `RowLock => (Spec => []AtMostOneWrite)`, also for a stalling
  writer. `OneWriteInv` adds what the property does not say: a frame between
  checks and claim holds the lock and has seen an empty table, so at most one
  row is ever inserted and at most one frame is past its claim; a claimed frame
  has not written yet. The JSON keys play no part in it.

**ExecutorPromiseProofs** (the same). Only the last theorem needs `RowLock`, the
database of the deployment.

* `LegacyRowsAreSafe`: the only trace of an old write is the mark in the JSON
  column, and every writer of the column writes back a copy. `LegacyInv` puts the
  mark into the column and into every copy.
* `VerifiedTargets`: `TargetInv` orders the identities of the target (expected,
  hit by a write, live): they only grow, so a check that sees the expected one
  after the write knows that the write hit it.
* `ExpiredApprovals`: an expired approval stays expired, and no frame that
  accepted it earlier is left.
* `OneWriteOfACommand`: where `FOR UPDATE` is ignored (SQLite, in tests and local
  set-ups). `SignatureInv`: a frame past its claim owns the only row of its
  command, and a written command has a row. Part of no run.
* `Refinement`: `RowLock => (Spec => ImplementsOneShot)`. The initial states map to
  an initial state and each step to a step of `OneShotRemediation` or a stutter,
  from all invariants above and `ShotInv`, which ties the writer to the one row
  that the abstract phase is read from. This is the safety part; that the claim is
  settled in the end is `Settles`, which TLC checks.

**CostGuardProofs** (`CostAssumption`: prices and the resolution are positive).

* `Ceiling` and `PaidCovered`, from `CostInv`, which adds that a bill never
  exceeds the reserved worst case. The lemmas are about the arithmetic: `MicroUp`
  covers its argument, `RoundHalfEven` errs by at most a half, and one balance
  lemma carries the day's inequality over the end of an attempt.
* `LedgerIsExplained`, from `CostInv` and `SpentInv`. The reserves in flight are a
  sum over attempts; `OpenUnits` counts it as a set of micro-dollars, a block per
  attempt, so that the cardinality theorems of the library take the place of an
  induction. The blocks of two attempts are disjoint and each comes and goes as a
  whole. `MicroUpTight` and `RoundingTight` are the converses of the two bounds
  above and give the three halves of a micro-dollar.

**IncidentLifecycleProofs** (`LifeAssumption`).

* `ClaimsAreExclusive`: between two claims the row was closed. The invariant is
  a credit: `opens <= closes`, plus one while the row is open. A claim that wins
  finds the row as it was read, closed or absent; every other write pays in when
  it closes the row, and even a write that wrongly reopens it (finding 2)
  preserves the inequality.
* `LifeTypeCorrect`: the types, with the bounds on attempts and retries.
* `NoStageTwice`, `FailedIsFinal`, `StatusIsLegal` under `Alone` (one claim, no
  resolve webhook; any number of requests, retries, deaths, errors and failed
  locks). The hypothesis is needed: `life_resolve` (finding 2) shows that a resolve
  which races with the run breaks `StatusFollowsMachine`, since the run commits
  from a copy it loaded before. `SoloInv`: the checkpoint never lags behind the status, the copy
  that a run will commit is the row, and a run is at the stage the row names.
* `ReportIsServed` under `Delivers`: `Alone`, no run is refused, and
  `MaxAttempts <= MaxRetries + 1`. The code has 4 and 3, so it holds with nothing
  to spare: one more attempt in `report_delivery.py`, or one retry less in the
  task, would strand a report. `PendingInv` carries that the retries used are at
  most the attempts the marker counts.

**AlertForwardProofs** (`ForwardAssumption`: an absent row or key is none of the
values a row or key may have).

* `CountIsExplained`: `CountInv` has the fires under way as a set, those that wait
  for their DECR among them, and one more clause: a request whose fire the next
  failure would lose has its fault already behind it (`Doubtful`), which is what
  bounds `astray`.
* `MessagesAreExplained`: `PostInv`: the allowance covers one message for every
  claim held and one for a free key, or everything that could still be posted.

**RemediationBridgeProofs** (`BridgeAssumption`, `GateAssumption`).

* `ButtonsLeadToRows`: a posting task has a row of its own, without a card yet.
* `OneCardPerWindow`: `TokenInv` counts the cards and the holders of a claim
  together against the key, the ended windows and the claims of the database. A
  release that deletes a foreign key gives back the holder's token, not its own,
  and the count still holds.
* `SilenceHasReason`: while the key is set, somebody holds it, a card is out, or
  an excuse was counted; excuses are never taken back.
* `BoundMeansProved`, `RiskIsRefused`, `ScalesAreKept`: `GateInv` follows the hash
  of an intent from the match to the command. What carries a hash was matched,
  hence proved (`MatchedIsProved`, over every combination of findings); the hash
  names its edition; a hash is only handed out where the binding is required; a
  scale with a hash is conditioned on the number of replicas in it.

**SharedStateProofs** (`LockAssumption`, `BreakerAssumption`, `GuardAssumption`,
`ReportsAssumption`, `KubeAssumption`).

* `LeaseIsKept`: the lease left is at least `Lease` less the misses, or lasts to
  the ceiling; a renewer that is due has lost one period more.
* `HalfOpenIsGentle`: `ProbesInv` counts the probes of this window apart from
  those left over from an earlier one.
* `EntriesHaveCauses`: each entry was blind, or used up a lost registration, or
  left one.
* `LimitHoldsWithoutRedis`: what was let through is at most the shared passes and
  the pairs of a process and a number up to its local count.
* `CounterIsHonest`: beyond the threshold every count has a caller that will reset
  it, or had one whose record failed.
* `EmbedsHaveCauses`: each embed and each run about to send one is excused, but for
  one while the window of the set is closed or about to be.

**GraphProofs** (`EdgesAssumption`: an edge belongs to one source; `KGAssumption`:
the window for reopening, the fallback age and the ageing out are in this order,
as the constants of `incidents.py` and the sync task are).

* `LiveEdgesAreKept`: `EdgesInv` says why a confirmed edge is not among the rows to
  be deleted: it was just refreshed, or its source has not run today, has refreshed
  it in a complete run, or is known to have failed in every process that may ask.
* `FiringIsCovered`, `NoiseIsUnanimous`: what rows, transactions and the verdict of
  `reconcile_incidents` refer to exists, and an alert is attached to what was read
  as open. A writer from a fresh read restores both facts for its alert and its
  incident, one from a stale read excuses the alerts that fire in the incident; a
  verdict that was not overtaken closes an incident in which none fires. Both are
  proved together with the types (`EdgesTyped`, `IncidentsTyped` are theorems of
  their own).

Only model-checked: `Settles`, `InvocationEnds`, `LockFrees`, `BreakerServes`,
`RacesHeal`, `QuietCloses`, `LiveEdgesReturn`, `DeadEdgesLeave`. All are liveness
properties, and liveness under fairness and ENABLED are beyond the prover. The
violation runs are refutations and have nothing to prove. No module uses a
RECURSIVE operator.

## 6. What is not modelled

* Executor: audit events and texts; the roles and signatures of Discord
  requests; the separate checks of a playbook's verification, which are one
  nondeterministic outcome; the gate and the policy, which are `Eligible` here
  and have their own module.
* Budget: the CLI backend, which reserves nothing; an unset limit, with which
  nothing is refused; answers without usage data; the metrics.
* Lifecycle: what the stages compute; a checkpoint that cannot be serialised;
  `PIPELINE_DIRECT_INVOKE`; the statuses APPROVAL_PENDING and EXECUTING beyond
  their place in the table (only dialogs enter them); a database error in the
  first query, in the terminal branch or in the commit of a delivery marker.
  `Suppress` may happen in any run that has collected its facts, also in a
  resumed one, whose labels the code does not restore: the model allows more.
* Gate: the classifier, the preview text, the resolution of a target from
  labels, the parsing of the YAML registry; `k8s_guard`, a list of namespaces.
* Alerts: the grouping of a payload, L4 noise and inhibition before `decide_send`
  (a fire may simply end there); the database query that tells a continuous
  episode from a new one, which is one nondeterministic answer; what the embeds
  say. Replay: the signature and the timestamp, checked before.
* Graph incidents: one service; incidents of several services joined by a common
  node, root-cause and severity columns, alerts without a service.
* Graph topology: volume, ingress and job edges and their cleanup, namespaces and
  drift cleanup, retention. These are more writers of the same kind, each with
  parsing of cluster objects that a model would only copy.
* Of the edges that are modelled: the group of legacy rows known only by their
  kind (`kind:...` in `edge_decay_guard.py`), which have no report and depend on
  the refresh alone; an edge two sources find in turn (`populator.py:675`), which
  belongs to one of them here; the removal of edges of an outdated selector in
  `sync_all_services`.
* Self-reports: the queries that find the problems are inputs.
* Agents, collectors, digests, embeds, queries of the graph: text, reads and
  HTTP, with no state of their own. They are most of the code, and no protocol is
  in them. Dialogs use the same state machine on rows of their own.

## 7. Plan

Done: the executor, the budget and the incident first, because a wrong write to
the cluster is the worst that can happen, money the second and a lost incident
the third; then the alert's way into Discord, the bridge and the gate, the Redis
protocols, and of the graph the two parts in which concurrent writers delete or
close something.

The theorems followed the same order; no safety property of a run is left
without one. What could still be proved is not a property of a run yet:

1. `NoStageTwice` with a resolve webhook, in the weaker form that a stage is
   repeated at most once per claim;
2. the pipeline's own status table under a second claim, up to the writes that
   finding 2 describes;
3. the fixed points behind `RacesHeal` and `QuietCloses`: that a quiet state which
   `reconcile_incidents` leaves alone has no open incident, a state property that
   needs no fairness.

Worth modelling after that: incidents of several services that are merged,
retirement of namespaces, the composition of the bridge with the executor on the
row they share.

Runs stay one per question: a new property joins the run whose instance already
reaches its hazard.
