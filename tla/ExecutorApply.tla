--------------------------- MODULE ExecutorApply ---------------------------
(***************************************************************************)
(* The write path of the remediation executor for ONE incident row: a      *)
(* human decision on a Discord card (app/api/discord_interactions.py),     *)
(* apply_intent (app/services/executor_apply.py) with its two-phase claim  *)
(* in kg_remediation_attempts (app/remediation/attempts.py), the delayed   *)
(* verification (app/remediation/verification.py), and the other writers   *)
(* of incidents.analysis: the LLM pipeline (app/workers/pipeline.py) and   *)
(* the bridge that posts the card (app/remediation/bridge.py).             *)
(*                                                                         *)
(* Incidents share no state on this path, so one row is enough.  Sessions  *)
(* are opened with expire_on_commit=False and autoflush=False: a writer    *)
(* that loaded the row keeps its copy of the JSON column and later writes  *)
(* the whole column back.  Every such copy is a variable here.             *)
(*                                                                         *)
(* Time appears only through what it makes stale: a claim older than       *)
(* EXECUTOR_IN_FLIGHT_TTL_SECONDS, an approval older than                  *)
(* EXECUTOR_APPROVAL_MAX_AGE_SECONDS and a plan older than                 *)
(* EXECUTOR_INTENT_MAX_AGE_SECONDS enter the set `expired'.                *)
(***************************************************************************)
EXTENDS Naturals, Sequences

CONSTANTS
  Sigs,            \* intent signatures; a signature identifies its command
  Plans,           \* results of pipeline runs: an intent plus its dry-run
  SigOf,           \* compute_signature of the plan's intent
  Eligible,        \* plans that pass the gates computed from the plan itself
  Workers,         \* concurrent invocations of apply_intent
  Verifiers,       \* concurrent runs of the verification task
  MaxVerify,       \* len(verify_delays()), the number of delayed checks
  MaxUid,          \* bound on how often the target object is recreated
  RowLock,         \* TRUE: SELECT FOR UPDATE locks (Postgres); FALSE: SQLite
  WriterMayStall,  \* TRUE: phase 2 may outlive the claim TTL
  Rows,            \* the origins of the row that an instance considers
  Windows,         \* the validity windows that may end in an instance
  NoClaim, NoPlan, NoCopy, NoUid, NoWorker, LegacyClaim

ASSUME ConstAssumption ==
  /\ SigOf \in [Plans -> Sigs]
  /\ Eligible \subseteq Plans
  /\ MaxVerify \in Nat \ {0}
  /\ MaxUid \in Nat \ {0}
  /\ RowLock \in BOOLEAN
  /\ WriterMayStall \in BOOLEAN
  /\ Rows \subseteq {"pipeline", "bridge", "legacy"}
  /\ Windows \subseteq {"claim", "approval", "plan"}
  /\ NoClaim \notin Sigs \cup {LegacyClaim}
  /\ LegacyClaim \notin Sigs
  /\ NoPlan \notin Plans
  /\ NoWorker \notin Workers
  /\ NoUid \notin Nat

VARIABLES
  analysis,   \* incidents.analysis: the committed JSON blob
  attempts,   \* kg_remediation_attempts of the incident, in id order
  approvals,  \* kg_action_approvals, keyed by signature
  shown,      \* signatures that have a card with buttons in Discord
  expired,    \* claims, approvals and plans that have outlived their window
  rowLock,    \* holder of the FOR UPDATE lock on the incident row
  job,        \* the frame of each apply_intent invocation
  pipe,       \* the pipeline's cached copy of analysis, NoCopy when not running
  card,       \* the bridge's copy, until it has written bridge_card
  verifyTasks,\* numbers of the verification tasks in the queue
  ver,        \* the frame of each running verification
  live,       \* uid of the target object in the cluster
  expected,   \* uid recorded in kg_remediation_decisions, or NoUid
  writes,     \* history: real kubectl writes, in order
  origin      \* history: who created the row, see Origins

vars == <<analysis, attempts, approvals, shown, expired, rowLock, job, pipe,
          card, verifyTasks, ver, live, expected, writes, origin>>

env == <<live, expected, origin>>

Claims == Sigs \cup {LegacyClaim}

Analysis == [plan : Plans \cup {NoPlan}, applied : BOOLEAN,
             inFlight : Claims \cup {NoClaim}, unknown : BOOLEAN]

EmptyAnalysis ==
  [plan |-> NoPlan, applied |-> FALSE, inFlight |-> NoClaim, unknown |-> FALSE]

\* A row carries an apply mark of the JSON protocol.
Marked(a) == a.applied \/ a.inFlight # NoClaim \/ a.unknown

Done == {"applied", "failed", "verified", "verification_failed"}

AppliedStatuses == {"applied", "verified", "verification_failed"}

Statuses == Done \cup {"claimed", "unknown"}

Uids == 1 .. MaxUid

Attempt == [sig : Sigs, status : Statuses, before : Uids \cup {NoUid}]

Write == [sig : Sigs, cmd : Sigs, uid : Uids]

\* "pipeline": a row of the LLM pipeline; "bridge": a row created with its plan
\* by the bridge, which the pipeline never runs on; "legacy": a row whose write
\* was recorded in the JSON only, before kg_remediation_attempts existed.
Origins == {"pipeline", "bridge", "legacy"}

JobPcs == {"idle", "queued", "checked", "claimed", "written"}

Job == [pc : JobPcs, sig : Sigs \cup {NoClaim}, mem : Analysis \cup {NoCopy},
        before : Uids \cup {NoUid}]

IdleJob == [pc |-> "idle", sig |-> NoClaim, mem |-> NoCopy, before |-> NoUid]

IdleVer == [pc |-> "idle", n |-> 1, mem |-> NoCopy, row |-> 0]

Ver == {IdleVer} \cup [pc : {"read"}, n : 1 .. MaxVerify, mem : Analysis, row : Nat]

-----------------------------------------------------------------------------
(* What the rows say. *)

\* blocking_attempt: the newest row of the incident, whatever its signature.
BlockingAttempt == attempts[Len(attempts)]

\* latest_applied: the newest row that reached the cluster, if there is one.
LatestApplied ==
  LET ids == {i \in DOMAIN attempts : attempts[i].status \in AppliedStatuses}
  IN  {i \in ids : \A j \in ids : j <= i}

Stale(kind, x) == <<kind, x>> \in expired

\* Which check of apply_intent stops a call that only looks at the JSON blob:
\* executor_applied, or a claim that is still fresh.
JsonRefuses ==
  \/ analysis.applied
  \/ analysis.inFlight # NoClaim /\ ~Stale("claim", analysis.inFlight)

\* A JSON claim older than the TTL: the cluster may or may not have been hit.
JsonClaimStale ==
  /\ ~analysis.applied
  /\ analysis.inFlight # NoClaim
  /\ Stale("claim", analysis.inFlight)

\* The attempts table refuses: written already, claimed, or unknown.
RowRefuses ==
  /\ attempts # <<>>
  /\ \/ BlockingAttempt.status \in Done
     \/ BlockingAttempt.status = "claimed" /\ ~Stale("claim", BlockingAttempt.sig)
     \/ BlockingAttempt.status = "unknown"

\* The newest row is a claim nobody finalised within the TTL.
RowClaimStale ==
  /\ attempts # <<>>
  /\ BlockingAttempt.status = "claimed"
  /\ Stale("claim", BlockingAttempt.sig)

\* Mutant: the signature of the plan in the row is not compared.
AuthorisedAnyPlan(s) ==
  /\ analysis.plan # NoPlan
  /\ approvals[s] = "approved"
  /\ ~Stale("approval", s)
  /\ analysis.plan \in Eligible
  /\ ~Stale("plan", analysis.plan)

\* Mutant: an approval has no age limit.
AuthorisedForever(s) ==
  /\ analysis.plan # NoPlan
  /\ SigOf[analysis.plan] = s
  /\ approvals[s] = "approved"
  /\ analysis.plan \in Eligible
  /\ ~Stale("plan", analysis.plan)

\* The plan in the row is the one the button was issued for, and it still may
\* run: signature, terminal fresh approval, namespace, risk, stored dry-run,
\* plan age, policy gate.
Authorised(s) ==
  /\ analysis.plan # NoPlan
  /\ SigOf[analysis.plan] = s
  /\ approvals[s] = "approved"
  /\ ~Stale("approval", s)
  /\ analysis.plan \in Eligible
  /\ ~Stale("plan", analysis.plan)

\* identity_mismatch and the refusal on an unknown snapshot of a known target.
IdentityOk(snap) == expected # NoUid => snap = expected

-----------------------------------------------------------------------------
(* Human decisions: discord_interactions. *)

\* Mutant: a plain SELECT instead of SELECT ... FOR UPDATE.
LockIgnored == TRUE

LockFree == ~RowLock \/ rowLock = NoWorker

\* dispatch_apply or the background task: an idle slot takes the invocation.
\* A broker that refuses, or a task lost before it starts (acks_late=False),
\* dispatches nothing.
Dispatch(s) ==
  \/ UNCHANGED job
  \/ \E w \in Workers :
       /\ job[w].pc = "idle"
       /\ job' = [job EXCEPT ![w] = [IdleJob EXCEPT !.pc = "queued", !.sig = s]]

\* Mutant: an upsert, the last decision wins.
OverwriteDecision(s, verdict) == approvals' = [approvals EXCEPT ![s] = verdict]

\* _record_decision: UNIQUE(incident, signature), the first decision stays.
RecordDecision(s, verdict) ==
  approvals' = IF approvals[s] = "none"
               THEN [approvals EXCEPT ![s] = verdict] ELSE approvals

\* Button approve:<incident>:<signature>.  A repeated click changes nothing.
Approve(s) ==
  /\ s \in shown
  /\ approvals[s] = "none"
  /\ RecordDecision(s, "approved")
  /\ Dispatch(s)
  /\ UNCHANGED <<analysis, attempts, shown, expired, rowLock, pipe, card,
                 verifyTasks, ver, writes, env>>

\* Button decline:<incident>:<signature>.
Decline(s) ==
  /\ s \in shown
  /\ RecordDecision(s, "declined")
  /\ UNCHANGED <<analysis, attempts, shown, expired, rowLock, job, pipe, card,
                 verifyTasks, ver, writes, env>>

\* Button apply_confirm:<incident>:<signature>: records the approval if there
\* is no decision, stops on an earlier refusal, else dispatches (again).
ApplyConfirm(s) ==
  /\ s \in shown
  /\ approvals[s] # "declined"
  /\ RecordDecision(s, "approved")
  /\ Dispatch(s)
  /\ UNCHANGED <<analysis, attempts, shown, expired, rowLock, pipe, card,
                 verifyTasks, ver, writes, env>>

-----------------------------------------------------------------------------
(* apply_intent. *)

ToIdle(w) == job' = [job EXCEPT ![w] = IdleJob]

\* SELECT ... FOR UPDATE, then one of the stored checks refuses, in the order
\* JSON marks, attempts table, plan and approval: nothing was written, the
\* session closes.
ApplyRefused(w) ==
  /\ job[w].pc = "queued"
  /\ LockFree
  /\ \/ JsonRefuses
     \/ /\ ~JsonClaimStale
        /\ ~RowClaimStale
        /\ RowRefuses \/ analysis.unknown \/ ~Authorised(job[w].sig)
  /\ ToIdle(w)
  /\ UNCHANGED <<analysis, attempts, approvals, shown, expired, rowLock, pipe,
                 card, verifyTasks, ver, writes, env>>

\* _mark_state_unknown: the claim leaves the JSON, the mark enters it.
MarkUnknown(a) == [a EXCEPT !.inFlight = NoClaim, !.unknown = TRUE]

\* A stale JSON claim: mark and refuse.  The attempts table is not consulted.
ApplyStaleJson(w) ==
  /\ job[w].pc = "queued"
  /\ LockFree
  /\ JsonClaimStale
  /\ analysis' = MarkUnknown(analysis)
  /\ ToIdle(w)
  /\ UNCHANGED <<attempts, approvals, shown, expired, rowLock, pipe, card,
                 verifyTasks, ver, writes, env>>

\* A stale row claim: the row becomes unknown and the JSON mark is set in the
\* same transaction, then refuse.
ApplyStaleRow(w) ==
  /\ job[w].pc = "queued"
  /\ LockFree
  /\ ~JsonRefuses
  /\ ~JsonClaimStale
  /\ RowClaimStale
  /\ attempts' = [attempts EXCEPT ![Len(attempts)].status = "unknown"]
  /\ analysis' = MarkUnknown(analysis)
  /\ ToIdle(w)
  /\ UNCHANGED <<approvals, shown, expired, rowLock, pipe, card, verifyTasks,
                 ver, writes, env>>

\* Every stored check passed: the row lock is kept while kubectl runs the
\* server-side dry-run and the snapshot.
ApplyChecked(w) ==
  /\ job[w].pc = "queued"
  /\ LockFree
  /\ ~JsonRefuses
  /\ ~JsonClaimStale
  /\ ~RowRefuses
  /\ ~RowClaimStale
  /\ ~analysis.unknown
  /\ Authorised(job[w].sig)
  /\ job' = [job EXCEPT ![w].pc = "checked", ![w].mem = analysis]
  /\ rowLock' = IF RowLock THEN w ELSE rowLock
  /\ UNCHANGED <<analysis, attempts, approvals, shown, expired, pipe, card,
                 verifyTasks, ver, writes, env>>

\* Mutant: the refusing path keeps its transaction open.
KeepLock(w) == UNCHANGED rowLock

ReleaseLock(w) == rowLock' = IF rowLock = w THEN NoWorker ELSE rowLock

\* The re-dry-run fails, the target is not the expected object, or UNIQUE
\* rejects the claim: rollback and refuse.
ApplyRecheckFails(w) ==
  /\ job[w].pc = "checked"
  /\ ToIdle(w)
  /\ ReleaseLock(w)
  /\ UNCHANGED <<analysis, attempts, approvals, shown, expired, pipe, card,
                 verifyTasks, ver, writes, env>>

\* UNIQUE(incident_id, signature) of kg_remediation_attempts.
Unclaimed(s) == \A i \in DOMAIN attempts : attempts[i].sig # s

\* Phase 1: the claim row and executor_in_flight in one commit, which also
\* releases the row lock.  The snapshot is the live object or unknown.
ApplyClaim(w) ==
  LET s == job[w].sig IN
  /\ job[w].pc = "checked"
  /\ Unclaimed(s)
  /\ \E snap \in {live, NoUid} :
       /\ IdentityOk(snap)
       /\ attempts' = Append(attempts,
                        [sig |-> s, status |-> "claimed", before |-> NoUid])
       /\ analysis' = [job[w].mem EXCEPT !.inFlight = s]
       /\ job' = [job EXCEPT ![w].pc = "claimed",
                             ![w].mem = analysis', ![w].before = snap]
  /\ ReleaseLock(w)
  /\ UNCHANGED <<approvals, shown, expired, pipe, card, verifyTasks, ver,
                 writes, env>>

\* Phase 2: the real kubectl write.  It hits whatever object has the name now.
ApplyWrite(w) ==
  /\ job[w].pc = "claimed"
  /\ writes' = Append(writes, [sig |-> job[w].sig,
                               cmd |-> SigOf[job[w].mem.plan], uid |-> live])
  /\ job' = [job EXCEPT ![w].pc = "written"]
  /\ UNCHANGED <<analysis, attempts, approvals, shown, expired, rowLock, pipe,
                 card, verifyTasks, ver, env>>

RowOf(s) == CHOOSE i \in DOMAIN attempts : attempts[i].sig = s

\* Finalisation: status, result and the JSON written from the copy read before
\* phase 1.  On success the verification is scheduled first; the broker may
\* refuse it.
ApplyFinalize(w) ==
  /\ job[w].pc = "written"
  /\ LockFree
  /\ \E ok \in BOOLEAN :
       /\ attempts' = [attempts EXCEPT ![RowOf(job[w].sig)] =
                        [@ EXCEPT !.status = IF ok THEN "applied" ELSE "failed",
                                  !.before = job[w].before]]
       /\ verifyTasks' \in {verifyTasks} \cup
                           (IF ok THEN {verifyTasks \cup {1}} ELSE {})
  /\ analysis' = [job[w].mem EXCEPT !.applied = TRUE, !.inFlight = NoClaim]
  /\ ToIdle(w)
  /\ UNCHANGED <<approvals, shown, expired, rowLock, pipe, card, ver, writes,
                 env>>

\* The finalising commit fails after the verification was scheduled: rollback,
\* the claim stays, execute_error.
ApplyFinalizeFails(w) ==
  /\ job[w].pc = "written"
  /\ verifyTasks' \in {verifyTasks, verifyTasks \cup {1}}
  /\ ToIdle(w)
  /\ UNCHANGED <<analysis, attempts, approvals, shown, expired, rowLock, pipe,
                 card, ver, writes, env>>

\* The process dies, or an exception takes the except branch, before the
\* write: the transaction rolls back and the lock is released.
ApplyCrash(w) ==
  /\ job[w].pc \in {"queued", "checked", "claimed"}
  /\ ToIdle(w)
  /\ ReleaseLock(w)
  /\ UNCHANGED <<analysis, attempts, approvals, shown, expired, pipe, card,
                 verifyTasks, ver, writes, env>>

-----------------------------------------------------------------------------
(* The other writers of incidents.analysis. *)

\* A pipeline run (first fire, re-fire or redelivery) loads the row.  The same
\* step stands for a rollback during the run, after which SQLAlchemy reloads.
PipelineStart ==
  /\ origin # "bridge"
  /\ pipe' = analysis
  /\ UNCHANGED <<analysis, attempts, approvals, shown, expired, rowLock, job,
                 card, verifyTasks, ver, writes, env>>

\* _safe_transition with _save_checkpoint: the cached blob plus the checkpoint
\* is written over the whole column.
PipelineCheckpoint ==
  /\ pipe # NoCopy
  /\ LockFree
  /\ analysis' = pipe
  /\ UNCHANGED <<attempts, approvals, shown, expired, rowLock, job, pipe, card,
                 verifyTasks, ver, writes, env>>

\* Mutant: the blob of the run replaces the column instead of merging into it.
PipelineReplaces(p) ==
  /\ pipe # NoCopy
  /\ LockFree
  /\ ~Stale("plan", p)
  /\ analysis' = [EmptyAnalysis EXCEPT !.plan = p]
  /\ shown' = IF p \in Plans THEN shown \cup {SigOf[p]} ELSE shown
  /\ pipe' = NoCopy
  /\ UNCHANGED <<attempts, approvals, expired, rowLock, job, card, verifyTasks,
                 ver, writes, env>>

\* _persist merges a new plan p (or no intent) into the cached blob and commits
\* it with the terminal state; the report then shows the plan's buttons.
PipelinePersist(p) ==
  /\ pipe # NoCopy
  /\ LockFree
  /\ ~Stale("plan", p)
  /\ analysis' = [pipe EXCEPT !.plan = p]
  /\ shown' = IF p \in Plans THEN shown \cup {SigOf[p]} ELSE shown
  /\ pipe' = NoCopy
  /\ UNCHANGED <<attempts, approvals, expired, rowLock, job, card, verifyTasks,
                 ver, writes, env>>

\* _propose, after the card is posted: bridge_card is added to the dict that
\* was committed with the row, and the whole column is written.
BridgeRecordsCard ==
  /\ card # NoCopy
  /\ LockFree
  /\ analysis' = card
  /\ card' = NoCopy
  /\ UNCHANGED <<attempts, approvals, shown, expired, rowLock, job, pipe,
                 verifyTasks, ver, writes, env>>

-----------------------------------------------------------------------------
(* Delayed verification: remediation_verify_task. *)

\* The task reads the incident and the newest applied attempt; the attempt
\* lookup may fail, leaving the JSON mark as the only evidence.
VerifyStart(v, n) ==
  /\ n \in verifyTasks
  /\ ver[v].pc = "idle"
  /\ \E row \in LatestApplied \cup {0} :
       /\ row # 0 \/ (analysis.applied /\ analysis.plan # NoPlan)
       /\ ver' = [ver EXCEPT ![v] = [pc |-> "read", n |-> n,
                                     mem |-> analysis, row |-> row]]
  /\ UNCHANGED <<analysis, attempts, approvals, shown, expired, rowLock, job,
                 pipe, card, verifyTasks, writes, env>>

\* No evidence of a write: nothing_applied, the task ends.
VerifyNothingApplied(n) ==
  /\ n \in verifyTasks
  /\ ~(analysis.applied /\ analysis.plan # NoPlan)
  /\ verifyTasks' = verifyTasks \ {n}
  /\ UNCHANGED <<analysis, attempts, approvals, shown, expired, rowLock, job,
                 pipe, card, ver, writes, env>>

\* Mutant: the uid seen after the action is not compared with the one before.
OutcomesAnyObject(snap, before, n) ==
  IF snap = NoUid THEN {"unknown"}
  ELSE {"verified", "failed"} \cup (IF n < MaxVerify THEN {"pending"} ELSE {})

\* Mutant: off by one, the last check may still answer pending.
OutcomesAlwaysPending(snap, before, n) ==
  IF snap = NoUid \/ (before # NoUid /\ before # snap)
  THEN {"unknown"}
  ELSE {"verified", "failed"} \cup (IF n <= MaxVerify THEN {"pending"} ELSE {})

\* assess: an unknown snapshot or a changed uid is unknown; else health decides,
\* and pending is left only while a later check remains.
Outcomes(snap, before, n) ==
  IF snap = NoUid \/ (before # NoUid /\ before # snap)
  THEN {"unknown"}
  ELSE {"verified", "failed"} \cup (IF n < MaxVerify THEN {"pending"} ELSE {})

\* _record_on_attempt: only the terminal outcomes change the status.
RecordOnAttempt(row, outcome) ==
  attempts' = CASE outcome = "verified" /\ row # 0 ->
                     [attempts EXCEPT ![row].status = "verified"]
                [] outcome = "failed" /\ row # 0 ->
                     [attempts EXCEPT ![row].status = "verification_failed"]
                [] OTHER -> attempts

\* The commit writes the copy of analysis read at the start.  Pending enqueues
\* the next check (the broker may refuse).  The message is acknowledged after
\* the run, so it may be delivered again.
VerifyCommit(v) ==
  LET row == ver[v].row
      n   == ver[v].n
      before == IF row = 0 THEN NoUid ELSE attempts[row].before
  IN
  /\ ver[v].pc = "read"
  /\ LockFree
  /\ \E snap \in {live, NoUid} : \E outcome \in Outcomes(snap, before, n) :
       /\ RecordOnAttempt(row, outcome)
       /\ \E redelivered \in BOOLEAN, next \in BOOLEAN :
            verifyTasks' =
              (IF redelivered THEN verifyTasks ELSE verifyTasks \ {n})
              \cup (IF next /\ outcome = "pending" THEN {n + 1} ELSE {})
  /\ analysis' = ver[v].mem
  /\ ver' = [ver EXCEPT ![v] = IdleVer]
  /\ UNCHANGED <<approvals, shown, expired, rowLock, job, pipe, card, writes,
                 env>>

\* The worker dies mid-check: the message comes back.
VerifyCrash(v) ==
  /\ ver[v].pc = "read"
  /\ ver' = [ver EXCEPT ![v] = IdleVer]
  /\ UNCHANGED <<analysis, attempts, approvals, shown, expired, rowLock, job,
                 pipe, card, verifyTasks, writes, env>>

-----------------------------------------------------------------------------
(* Time and the cluster. *)

\* A claim outlives EXECUTOR_IN_FLIGHT_TTL_SECONDS (600).  kubectl is killed
\* after 30s and a snapshot after 15s, so unless a writer may stall (a hung
\* commit or broker call) its invocation is over by then.
ClaimExpires(c) ==
  /\ "claim" \in Windows
  /\ c = LegacyClaim \/ ~Unclaimed(c)
  /\ WriterMayStall \/ \A w \in Workers :
       ~(job[w].pc \in {"claimed", "written"} /\ job[w].sig = c)
  /\ expired' = expired \cup {<<"claim", c>>}
  /\ UNCHANGED <<analysis, attempts, approvals, shown, rowLock, job, pipe, card,
                 verifyTasks, ver, writes, env>>

\* EXECUTOR_APPROVAL_MAX_AGE_SECONDS after the decision.
ApprovalExpires(s) ==
  /\ "approval" \in Windows
  /\ approvals[s] = "approved"
  /\ expired' = expired \cup {<<"approval", s>>}
  /\ UNCHANGED <<analysis, attempts, approvals, shown, rowLock, job, pipe, card,
                 verifyTasks, ver, writes, env>>

\* EXECUTOR_INTENT_MAX_AGE_SECONDS after the run that produced the plan.
PlanExpires(p) ==
  /\ "plan" \in Windows
  /\ expired' = expired \cup {<<"plan", p>>}
  /\ UNCHANGED <<analysis, attempts, approvals, shown, rowLock, job, pipe, card,
                 verifyTasks, ver, writes, env>>

\* Somebody deletes and recreates the target: same name, new uid.
Recreate ==
  /\ live < MaxUid
  /\ live' = live + 1
  /\ UNCHANGED <<analysis, attempts, approvals, shown, expired, rowLock, job,
                 pipe, card, verifyTasks, ver, expected, writes, origin>>

-----------------------------------------------------------------------------
\* A fresh row, a row the bridge has just committed with its card posted, or a
\* row that the JSON-only protocol had already written, claimed or given up.
InitialRow ==
  \/ /\ origin = "pipeline"
     /\ analysis = EmptyAnalysis
     /\ card = NoCopy
  \/ /\ origin = "bridge"
     /\ analysis \in {[EmptyAnalysis EXCEPT !.plan = p] : p \in Plans}
     /\ card = analysis
  \/ /\ origin = "legacy"
     /\ analysis \in {[plan |-> p, applied |-> m = "applied",
                       inFlight |-> IF m = "claimed" THEN LegacyClaim ELSE NoClaim,
                       unknown |-> m = "unknown"] :
                         p \in Plans, m \in {"applied", "claimed", "unknown"}}
     /\ card = NoCopy

Init ==
  /\ origin \in Rows
  /\ InitialRow
  /\ attempts = <<>>
  /\ approvals = [s \in Sigs |-> "none"]
  /\ shown = IF analysis.plan = NoPlan THEN {} ELSE {SigOf[analysis.plan]}
  /\ expired = {}
  /\ rowLock = NoWorker
  /\ job = [w \in Workers |-> IdleJob]
  /\ pipe = NoCopy
  /\ verifyTasks = IF analysis.applied THEN {1} ELSE {}
  /\ ver = [v \in Verifiers |-> IdleVer]
  /\ live = 1
  /\ expected \in {1, NoUid}
  /\ writes = <<>>

ApplyStep(w) ==
  \/ ApplyRefused(w) \/ ApplyStaleJson(w) \/ ApplyStaleRow(w) \/ ApplyChecked(w)
  \/ ApplyRecheckFails(w) \/ ApplyClaim(w) \/ ApplyWrite(w)
  \/ ApplyFinalize(w) \/ ApplyFinalizeFails(w)

VerifyStep(v) == VerifyCommit(v) \/ VerifyCrash(v)

Next ==
  \/ \E s \in Sigs : Approve(s) \/ Decline(s) \/ ApplyConfirm(s)
  \/ \E w \in Workers : ApplyStep(w) \/ ApplyCrash(w)
  \/ PipelineStart \/ PipelineCheckpoint
  \/ \E p \in Plans \cup {NoPlan} : PipelinePersist(p)
  \/ BridgeRecordsCard
  \/ \E v \in Verifiers, n \in 1 .. MaxVerify : VerifyStart(v, n)
  \/ \E n \in 1 .. MaxVerify : VerifyNothingApplied(n)
  \/ \E v \in Verifiers : VerifyStep(v)
  \/ \E c \in Claims : ClaimExpires(c)
  \/ \E s \in Sigs : ApprovalExpires(s)
  \/ \E p \in Plans : PlanExpires(p)
  \/ Recreate

Spec == Init /\ [][Next]_vars

\* Started invocations run on: the queue of the row lock is served, kubectl and
\* the snapshot have timeouts.  Nothing is assumed of people, of the pipeline,
\* of verification or of the clock.
LiveSpec == Spec /\ \A w \in Workers : SF_vars(ApplyStep(w))

-----------------------------------------------------------------------------
TypeOK ==
  /\ analysis \in Analysis
  /\ attempts \in Seq(Attempt)
  /\ approvals \in [Sigs -> {"none", "approved", "declined"}]
  /\ shown \subseteq Sigs
  /\ rowLock \in Workers \cup {NoWorker}
  /\ job \in [Workers -> Job]
  /\ pipe \in Analysis \cup {NoCopy}
  /\ card \in Analysis \cup {NoCopy}
  /\ verifyTasks \subseteq 1 .. MaxVerify
  /\ ver \in [Verifiers -> Ver]
  /\ live \in Uids
  /\ expected \in Uids \cup {NoUid}
  /\ writes \in Seq(Write)
  /\ origin \in Origins

\* attempts.py: "at most one write to the cluster per incident", whatever the
\* clicks, re-fires with another plan, crashes and stale marks in between.
AtMostOneWrite == Len(writes) <= 1

\* Without row locks (SQLite) UNIQUE(incident, signature) still stops a second
\* write of the same command.
OneWritePerSignature ==
  \A i, j \in DOMAIN writes : writes[i].sig = writes[j].sig => i = j

\* What ran in the cluster is the command a human approved, although the plan
\* in the row can be replaced between the click, the checks and the write.
WriteAuthorised ==
  \A i \in DOMAIN writes :
    /\ writes[i].cmd = writes[i].sig
    /\ approvals[writes[i].sig] = "approved"

\* A row of the JSON-only protocol has no attempts row: its marks must survive
\* every whole-column write, or the old button runs the command again.
LegacyNeverWritten == origin = "legacy" => writes = <<>>

\* "verified" is never claimed for an object other than the one the graph named
\* in the decision, even if it is recreated between the snapshot, the write and
\* the delayed checks.
VerifiedMeansExpectedTarget ==
  \A i \in DOMAIN attempts :
    attempts[i].status = "verified" /\ expected # NoUid =>
      \E k \in DOMAIN writes :
        writes[k].sig = attempts[i].sig /\ writes[k].uid = expected

\* The approval of s is older than its window, no invocation that accepted it
\* runs, and the command was not written.
Lapsed(s) ==
  /\ Stale("approval", s)
  /\ \A w \in Workers : job[w].sig = s => job[w].pc \in {"idle", "queued"}
  /\ \A i \in DOMAIN writes : writes[i].sig # s

\* A lapsed approval stays lapsed: a repeated click cannot refresh a decision
\* that UNIQUE(incident, signature) keeps, and no step writes its command.
ExpiredApprovalNeverWrites == [][\A s \in Sigs : Lapsed(s) => Lapsed(s)']_vars

\* Every invocation of apply_intent ends, with the row lock released.
InvocationEnds ==
  \A w \in Workers : job[w].pc # "idle" ~> (job[w].pc = "idle" /\ rowLock # w)

\* The promise of OneShotRemediation, read off the decisions, the first attempts
\* row and the cluster.
Phase ==
  IF origin = "legacy" THEN "settled"
  ELSE IF attempts = <<>> THEN "open"
  ELSE CASE attempts[1].status = "claimed" -> "claimed"
         [] attempts[1].status = "unknown" -> "handed_off"
         [] OTHER -> "settled"

Chosen == IF attempts = <<>> THEN NoClaim ELSE attempts[1].sig

OneShot == INSTANCE OneShotRemediation
             WITH decision <- approvals, phase <- Phase, chosen <- Chosen,
                  executions <- Len(writes), None <- NoClaim

\* apply_intent with all its helpers, racing with itself, the pipeline, the
\* bridge and verification, does no more than OneShotRemediation allows.
ImplementsOneShot == OneShot!Spec

\* pipeline.py and executor_apply.py say the JSON mark executor_applied survives
\* the merge of a later pipeline run.
AppliedMarkKept ==
  (\E i \in DOMAIN attempts : attempts[i].status \in Done) => analysis.applied

=============================================================================
