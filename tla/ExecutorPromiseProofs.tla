----------------------- MODULE ExecutorPromiseProofs -----------------------
(***************************************************************************)
(* More proofs about ExecutorApply: rows of the JSON-only protocol, what   *)
(* "verified" means, expired approvals, the protection that is left        *)
(* without row locks, and the refinement of OneShotRemediation.            *)
(***************************************************************************)
EXTENDS ExecutorApplyProofs

\* Nobody changes the origin of the row or the target named by the decision.
LEMMA FixedByInit == [Next]_vars => origin' = origin /\ expected' = expected
BY DEF Next, vars, env, Approve, Decline, ApplyConfirm, ApplyStep, ApplyRefused,
       ApplyStaleJson, ApplyStaleRow, ApplyChecked, ApplyRecheckFails,
       ApplyClaim, ApplyWrite, ApplyFinalize, ApplyFinalizeFails, ApplyCrash,
       PipelineStart, PipelineCheckpoint, PipelinePersist, BridgeRecordsCard,
       VerifyStart, VerifyNothingApplied, VerifyStep, VerifyCommit, VerifyCrash,
       ClaimExpires, ApprovalExpires, PlanExpires, Recreate

\* What a step of apply_intent that neither checks, claims nor writes leaves
\* alone.
LEMMA ApplyEnds ==
  ASSUME NEW w \in Workers, ApplyStep(w) \/ ApplyCrash(w)
  PROVE  \/ ApplyChecked(w) \/ ApplyClaim(w) \/ ApplyWrite(w)
         \/ /\ ToIdle(w)
            /\ UNCHANGED <<approvals, writes, ver, expired, live, pipe, card>>
BY DEF ApplyStep, ApplyRefused, ApplyStaleJson, ApplyStaleRow, ApplyRecheckFails,
       ApplyFinalize, ApplyFinalizeFails, ApplyCrash, env

-----------------------------------------------------------------------------
(* Rows written before kg_remediation_attempts existed. *)

\* The only evidence of the old write is the mark in the JSON column, and each
\* writer of the column writes a copy of its own: the mark has to be in the
\* column and in every copy.  LegacyNeverWritten says nothing of the copies, so
\* it is not inductive.
LegacyMarks ==
  /\ Marked(analysis)
  /\ pipe # NoCopy => Marked(pipe)
  /\ card = NoCopy
  /\ \A v \in Verifiers : ver[v].pc = "read" => Marked(ver[v].mem)
  /\ \A w \in Workers : job[w].pc \notin Passed
  /\ attempts = <<>> /\ writes = <<>>

LegacyInv == origin = "legacy" => LegacyMarks

\* The checks of apply_intent on the JSON column refuse a marked row.
LEMMA MarkedRefused ==
  ASSUME NEW w \in Workers, ApplyChecked(w)
  PROVE  ~Marked(analysis)
BY DEF ApplyChecked, JsonRefuses, JsonClaimStale, Marked

\* Giving up a stale claim and merging a new plan keep the mark.
LEMMA MarkKept ==
  ASSUME NEW a \in Analysis, NEW p
  PROVE  /\ Marked(MarkUnknown(a))
         /\ Marked(a) => Marked([a EXCEPT !.plan = p])
BY DEF Marked, MarkUnknown, Analysis

LEMMA LegacyNext == TypeOK /\ LegacyInv /\ [Next]_vars => LegacyInv'
<1>. SUFFICES ASSUME TypeOK, LegacyMarks, [Next]_vars PROVE LegacyMarks'
  BY FixedByInit DEF LegacyInv
<1>0. analysis \in Analysis /\ job \in [Workers -> Job]
  BY DEF TypeOK
<1>1. CASE UNCHANGED vars
  BY <1>1 DEF vars, LegacyMarks, Marked
<1>2. CASE \E s \in Sigs : Approve(s) \/ Decline(s) \/ ApplyConfirm(s)
  <2>1. UNCHANGED <<analysis, pipe, card, ver, attempts, writes>>
    BY <1>2 DEF Approve, Decline, ApplyConfirm
  <2>2. \A w \in Workers : job'[w].pc \notin Passed
    BY <1>0, <1>2
       DEF LegacyMarks, Approve, Decline, ApplyConfirm, Dispatch, IdleJob, Passed
  <2>. QED BY <2>1, <2>2 DEF LegacyMarks, Marked
<1>3. ASSUME NEW w \in Workers, ApplyStep(w) \/ ApplyCrash(w) PROVE LegacyMarks'
  <2>1. ~ApplyChecked(w) /\ ~ApplyClaim(w) /\ ~ApplyWrite(w)
    BY MarkedRefused DEF LegacyMarks, ApplyClaim, ApplyWrite, Passed
  <2>2. ~ApplyStaleRow(w) /\ ~ApplyFinalize(w)
    BY DEF LegacyMarks, ApplyStaleRow, RowClaimStale, ApplyFinalize, Passed
  <2>3. /\ ToIdle(w) /\ UNCHANGED <<writes, ver, pipe, card, attempts>>
        /\ analysis' = analysis \/ analysis' = MarkUnknown(analysis)
    BY <1>3, <2>1, <2>2
       DEF ApplyStep, ApplyRefused, ApplyStaleJson, ApplyRecheckFails,
           ApplyFinalizeFails, ApplyCrash
  <2>4. Marked(analysis)'
    BY <1>0, <2>3, MarkKept DEF LegacyMarks, Marked
  <2>5. \A u \in Workers : job'[u].pc \notin Passed
    BY <1>0, <2>3 DEF LegacyMarks, ToIdle, IdleJob, Passed
  <2>. QED BY <2>3, <2>4, <2>5 DEF LegacyMarks, Marked
<1>4. CASE PipelineStart
  BY <1>4 DEF PipelineStart, LegacyMarks, Marked
<1>5. CASE PipelineCheckpoint
  BY <1>5 DEF PipelineCheckpoint, LegacyMarks, Marked
<1>6. ASSUME NEW p \in Plans \cup {NoPlan}, PipelinePersist(p) PROVE LegacyMarks'
  <2>1. pipe \in Analysis /\ Marked(pipe)
    BY <1>6 DEF PipelinePersist, TypeOK, LegacyMarks
  <2>2. Marked(analysis)'
    BY <1>6, <2>1, MarkKept DEF PipelinePersist, Marked
  <2>. QED BY <1>6, <2>2 DEF PipelinePersist, LegacyMarks, Marked
<1>7. CASE BridgeRecordsCard
  BY <1>7 DEF BridgeRecordsCard, LegacyMarks
<1>8. ASSUME NEW v \in Verifiers, NEW n \in 1 .. MaxVerify, VerifyStart(v, n)
      PROVE  LegacyMarks'
  <2>1. \A x \in Verifiers : ver'[x].pc = "read" => Marked(ver'[x].mem)
    BY <1>8 DEF VerifyStart, LegacyMarks, TypeOK
  <2>. QED BY <1>8, <2>1 DEF VerifyStart, LegacyMarks, Marked
<1>9. ASSUME NEW v \in Verifiers, VerifyStep(v) PROVE LegacyMarks'
  <2>1. \A x \in Verifiers : ver'[x].pc = "read" => Marked(ver'[x].mem)
    BY <1>9 DEF VerifyStep, VerifyCommit, VerifyCrash, LegacyMarks, TypeOK, IdleVer
  <2>2. Marked(analysis)'
    BY <1>9 DEF VerifyStep, VerifyCommit, VerifyCrash, LegacyMarks, Marked
  <2>3. attempts' = <<>>
    BY <1>9 DEF VerifyStep, VerifyCommit, VerifyCrash, LegacyMarks, RecordOnAttempt
  <2>. QED BY <1>9, <2>1, <2>2, <2>3
           DEF VerifyStep, VerifyCommit, VerifyCrash, LegacyMarks, Marked
<1>10. CASE \/ \E n \in 1 .. MaxVerify : VerifyNothingApplied(n)
            \/ \E c \in Claims : ClaimExpires(c)
            \/ \E s \in Sigs : ApprovalExpires(s)
            \/ \E p \in Plans : PlanExpires(p)
            \/ Recreate
  <2>1. UNCHANGED <<analysis, pipe, card, ver, attempts, writes, job>>
    BY <1>10 DEF VerifyNothingApplied, ClaimExpires, ApprovalExpires, PlanExpires,
                 Recreate
  <2>. QED BY <2>1 DEF LegacyMarks, Marked
<1>. QED BY <1>1, <1>2, <1>3, <1>4, <1>5, <1>6, <1>7, <1>8, <1>9, <1>10 DEF Next

LEMMA LegacyInit == Init => LegacyInv
<1>. SUFFICES ASSUME Init, origin = "legacy" PROVE LegacyMarks
  BY DEF LegacyInv
<1>1. PICK p \in Plans, m \in {"applied", "claimed", "unknown"} :
        analysis = [plan |-> p, applied |-> m = "applied",
                    inFlight |-> IF m = "claimed" THEN LegacyClaim ELSE NoClaim,
                    unknown |-> m = "unknown"]
  BY DEF Init, InitialRow
<1>2. Marked(analysis)
  BY <1>1, ConstAssumption DEF Marked
<1>. QED BY <1>2 DEF Init, InitialRow, LegacyMarks, IdleVer, IdleJob, Passed

\* The command of a row that the JSON-only protocol had written, claimed or given
\* up is never written again, whichever writers of the column race, with or
\* without row locks.
THEOREM LegacyRowsAreSafe == Spec => []LegacyNeverWritten
<1>1. LegacyInv => LegacyNeverWritten
  BY DEF LegacyInv, LegacyMarks, LegacyNeverWritten
<1>. QED BY <1>1, TypeCorrect, LegacyInit, LegacyNext, PTL DEF Spec

-----------------------------------------------------------------------------
(* What "verified" means for a target that can be recreated. *)

\* The strengthening of VerifiedMeansExpectedTarget.  The uid of the target only
\* grows; a write hit an object between the expected one and the live one; an
\* invocation that claimed saw the expected object; a finished row has its write
\* and the expected uid, and a running check holds a finished row.
TargetInv ==
  /\ expected # NoUid => expected <= live
  /\ \A k \in DOMAIN writes :
       writes[k].uid <= live /\ (expected # NoUid => expected <= writes[k].uid)
  /\ \A w \in Workers :
       /\ job[w].pc \in Writing =>
            /\ \E i \in DOMAIN attempts : attempts[i].sig = job[w].sig
            /\ expected # NoUid => job[w].before = expected
       /\ job[w].pc = "written" =>
            \E k \in DOMAIN writes : writes[k].sig = job[w].sig
  /\ \A i \in DOMAIN attempts : attempts[i].status \in Done =>
       /\ \E k \in DOMAIN writes : writes[k].sig = attempts[i].sig
       /\ expected # NoUid => attempts[i].before = expected
  /\ \A v \in Verifiers : ver[v].pc = "read" /\ ver[v].row # 0 =>
       ver[v].row \in DOMAIN attempts /\ attempts[ver[v].row].status \in Done
  /\ VerifiedMeansExpectedTarget

\* Setting the status of a row, by whoever finds it.
StatusSet(i, st) == attempts' = [attempts EXCEPT ![i].status = st]

\* What set_status and the record of a verification do to the rows.
LEMMA StatusSetRows ==
  ASSUME attempts \in Seq(Attempt), NEW i \in DOMAIN attempts, NEW st, StatusSet(i, st)
  PROVE  /\ DOMAIN attempts' = DOMAIN attempts
         /\ \A j \in DOMAIN attempts :
              /\ attempts'[j].sig = attempts[j].sig
              /\ attempts'[j].before = attempts[j].before
              /\ attempts'[j].status = IF j = i THEN st ELSE attempts[j].status
<1>1. DOMAIN attempts' = DOMAIN attempts
  BY DEF StatusSet
<1>2. attempts[i] \in Attempt
  BY RowTyped
<1>. QED BY <1>1, <1>2 DEF StatusSet, Attempt

\* The row that an invocation finalises is a row of its own command.
LEMMA RowOfClaim ==
  ASSUME NEW s, ~Unclaimed(s)
  PROVE  RowOf(s) \in DOMAIN attempts /\ attempts[RowOf(s)].sig = s
BY DEF Unclaimed, RowOf

\* A step that changes neither rows, writes, the target nor a running check, and
\* at most ends an invocation or queues one.
LEMMA TargetKept ==
  ASSUME TypeOK, TargetInv,
         UNCHANGED <<attempts, writes, live, expected, ver>>,
         \A w \in Workers : \/ job'[w].pc \notin Writing
                            \/ job'[w] = job[w]
  PROVE  TargetInv'
BY DEF TargetInv, Writing, VerifiedMeansExpectedTarget

LEMMA TargetApply ==
  ASSUME TypeOK, FrameInv, TargetInv, NEW w \in Workers, UNCHANGED expected,
         ApplyStep(w) \/ ApplyCrash(w)
  PROVE  TargetInv'
<1>0. /\ job \in [Workers -> Job] /\ job[w] \in Job
      /\ attempts \in Seq(Attempt) /\ writes \in Seq(Write)
      /\ live \in Nat /\ NoUid \notin Nat
      /\ \A k \in DOMAIN writes : writes[k] \in Write
      /\ \A i \in DOMAIN attempts : attempts[i] \in Attempt
  BY ConstAssumption, RowTyped DEF TypeOK, Uids
<1>1. CASE ApplyChecked(w)
  <2>1. UNCHANGED <<attempts, writes, live, expected, ver>>
    BY <1>1 DEF ApplyChecked, env
  <2>2. \A u \in Workers : job'[u].pc \notin Writing \/ job'[u] = job[u]
    BY <1>0, <1>1 DEF ApplyChecked, Writing, Job
  <2>. QED BY <2>1, <2>2, TargetKept
<1>2. CASE ApplyClaim(w)
  <2>1. PICK snap \in {live, NoUid} :
          /\ IdentityOk(snap)
          /\ attempts' = Append(attempts, [sig |-> job[w].sig,
                               status |-> "claimed", before |-> NoUid])
          /\ job' = [job EXCEPT ![w].pc = "claimed",
                               ![w].mem = analysis', ![w].before = snap]
    BY <1>2 DEF ApplyClaim
  <2>2. UNCHANGED <<writes, live, expected, ver>>
    BY <1>2 DEF ApplyClaim, env
  <2>3. /\ DOMAIN attempts' = DOMAIN attempts \cup {Len(attempts) + 1}
        /\ \A i \in DOMAIN attempts : attempts'[i] = attempts[i]
        /\ attempts'[Len(attempts) + 1].sig = job[w].sig
        /\ attempts'[Len(attempts) + 1].status = "claimed"
    BY <1>0, <2>1
  <2>4. /\ \A u \in Workers \ {w} : job'[u] = job[u]
        /\ job'[w].pc = "claimed" /\ job'[w].sig = job[w].sig
        /\ expected # NoUid => job'[w].before = expected
    BY <1>0, <2>1 DEF Job, IdentityOk
  <2>5. \A u \in Workers :
          /\ job'[u].pc \in Writing =>
               /\ \E i \in DOMAIN attempts' : attempts'[i].sig = job'[u].sig
               /\ expected # NoUid => job'[u].before = expected
          /\ job'[u].pc = "written" =>
               \E k \in DOMAIN writes : writes[k].sig = job'[u].sig
    BY <2>3, <2>4 DEF TargetInv
  <2>6. \A i \in DOMAIN attempts' : attempts'[i].status \in Done =>
          i \in DOMAIN attempts /\ attempts'[i] = attempts[i]
    BY <2>3 DEF Done
  <2>7. VerifiedMeansExpectedTarget'
    BY <2>2, <2>6 DEF VerifiedMeansExpectedTarget, TargetInv, Done
  <2>8. \A v \in Verifiers : ver'[v].pc = "read" /\ ver'[v].row # 0 =>
          ver'[v].row \in DOMAIN attempts' /\ attempts'[ver'[v].row].status \in Done
    BY <2>2, <2>3 DEF TargetInv
  <2>. QED BY <2>2, <2>5, <2>6, <2>7, <2>8 DEF TargetInv
<1>3. CASE ApplyWrite(w)
  <2>. DEFINE e == [sig |-> job[w].sig, cmd |-> SigOf[job[w].mem.plan], uid |-> live]
  <2>1. /\ writes' = Append(writes, e)
        /\ job' = [job EXCEPT ![w].pc = "written"]
        /\ job[w].pc = "claimed"
        /\ UNCHANGED <<attempts, live, expected, ver>>
    BY <1>3 DEF ApplyWrite, env
  <2>2. /\ DOMAIN writes' = DOMAIN writes \cup {Len(writes) + 1}
        /\ \A k \in DOMAIN writes : writes'[k] = writes[k]
        /\ writes'[Len(writes) + 1] = e
    BY <1>0, <2>1
  <2>3. /\ \A u \in Workers \ {w} : job'[u] = job[u]
        /\ job'[w].pc = "written" /\ job'[w].sig = job[w].sig
        /\ job'[w].before = job[w].before
    BY <1>0, <2>1 DEF Job
  <2>4. \A k \in DOMAIN writes' :
          writes'[k].uid <= live /\ (expected # NoUid => expected <= writes'[k].uid)
    <3>1. TargetInv!1 /\ TargetInv!2
      BY DEF TargetInv
    <3>2. e.uid = live /\ live <= live
      BY <1>0
    <3>. QED BY <2>2, <3>1, <3>2
  <2>5. \A u \in Workers :
          /\ job'[u].pc \in Writing =>
               /\ \E i \in DOMAIN attempts : attempts[i].sig = job'[u].sig
               /\ expected # NoUid => job'[u].before = expected
          /\ job'[u].pc = "written" =>
               \E k \in DOMAIN writes' : writes'[k].sig = job'[u].sig
    BY <2>1, <2>2, <2>3 DEF TargetInv, Writing
  <2>6. /\ \A i \in DOMAIN attempts : attempts[i].status \in Done =>
            \E k \in DOMAIN writes' : writes'[k].sig = attempts[i].sig
        /\ VerifiedMeansExpectedTarget'
    BY <2>1, <2>2 DEF TargetInv, VerifiedMeansExpectedTarget
  <2>. QED BY <2>1, <2>4, <2>5, <2>6 DEF TargetInv
<1>4. CASE ApplyStaleRow(w)
  <2>. DEFINE l == Len(attempts)
  <2>1. /\ StatusSet(l, "unknown") /\ ToIdle(w)
        /\ UNCHANGED <<writes, live, expected, ver>>
    BY <1>4 DEF ApplyStaleRow, StatusSet, env
  <2>2. l \in DOMAIN attempts /\ attempts[l].status = "claimed"
    BY <1>0, <1>4 DEF ApplyStaleRow, RowClaimStale, BlockingAttempt
  <2>3. /\ DOMAIN attempts' = DOMAIN attempts
        /\ \A j \in DOMAIN attempts :
             /\ attempts'[j].sig = attempts[j].sig
             /\ attempts'[j].before = attempts[j].before
             /\ attempts'[j].status = IF j = l THEN "unknown" ELSE attempts[j].status
    BY <1>0, <2>1, <2>2, StatusSetRows
  <2>4. \A u \in Workers : job'[u].pc \notin Writing \/ job'[u] = job[u]
    BY <1>0, <2>1 DEF ToIdle, IdleJob, Writing
  <2>5. "claimed" \notin Done /\ "unknown" \notin Done
    BY DEF Done
  <2>6. \A u \in Workers :
          /\ job'[u].pc \in Writing =>
               /\ \E i \in DOMAIN attempts' : attempts'[i].sig = job'[u].sig
               /\ expected # NoUid => job'[u].before = expected
          /\ job'[u].pc = "written" =>
               \E k \in DOMAIN writes : writes[k].sig = job'[u].sig
    BY <2>3, <2>4 DEF TargetInv, Writing
  <2>7. /\ \A i \in DOMAIN attempts' : attempts'[i].status \in Done =>
            /\ \E k \in DOMAIN writes : writes[k].sig = attempts'[i].sig
            /\ expected # NoUid => attempts'[i].before = expected
        /\ \A v \in Verifiers : ver[v].pc = "read" /\ ver[v].row # 0 =>
            ver[v].row \in DOMAIN attempts' /\ attempts'[ver[v].row].status \in Done
    BY <2>2, <2>3, <2>5 DEF TargetInv
  <2>8. VerifiedMeansExpectedTarget'
    BY <2>1, <2>3 DEF TargetInv, VerifiedMeansExpectedTarget
  <2>. QED BY <2>1, <2>6, <2>7, <2>8 DEF TargetInv
<1>5. CASE ApplyFinalize(w)
  <2>. DEFINE r == RowOf(job[w].sig)
  <2>1. PICK ok \in BOOLEAN : attempts' = [attempts EXCEPT ![r] =
                      [@ EXCEPT !.status = IF ok THEN "applied" ELSE "failed",
                                !.before = job[w].before]]
    BY <1>5 DEF ApplyFinalize
  <2>2. ToIdle(w) /\ UNCHANGED <<writes, live, expected, ver>> /\ job[w].pc = "written"
    BY <1>5 DEF ApplyFinalize, env
  <2>3. /\ expected # NoUid => job[w].before = expected
        /\ \E i \in DOMAIN attempts : attempts[i].sig = job[w].sig
        /\ \E k \in DOMAIN writes : writes[k].sig = job[w].sig
    BY <2>2 DEF TargetInv, Writing
  <2>4. r \in DOMAIN attempts /\ attempts[r].sig = job[w].sig
    BY <2>3, RowOfClaim DEF Unclaimed
  <2>5. /\ DOMAIN attempts' = DOMAIN attempts
        /\ \A j \in DOMAIN attempts \ {r} : attempts'[j] = attempts[j]
        /\ attempts'[r].sig = attempts[r].sig
        /\ attempts'[r].before = job[w].before
        /\ attempts'[r].status \in {"applied", "failed"}
    <3>1. attempts[r] \in Attempt
      BY <1>0, <2>4
    <3>. QED BY <1>0, <2>1, <2>4, <3>1 DEF Attempt
  <2>6. \A u \in Workers : job'[u].pc \notin Writing \/ job'[u] = job[u]
    BY <1>0, <2>2 DEF ToIdle, IdleJob, Writing
  <2>7. \A u \in Workers :
          /\ job'[u].pc \in Writing =>
               /\ \E i \in DOMAIN attempts' : attempts'[i].sig = job'[u].sig
               /\ expected # NoUid => job'[u].before = expected
          /\ job'[u].pc = "written" =>
               \E k \in DOMAIN writes : writes[k].sig = job'[u].sig
    BY <2>4, <2>5, <2>6 DEF TargetInv, Writing
  <2>8. /\ \A i \in DOMAIN attempts' : attempts'[i].status \in Done =>
            /\ \E k \in DOMAIN writes : writes[k].sig = attempts'[i].sig
            /\ expected # NoUid => attempts'[i].before = expected
        /\ \A v \in Verifiers : ver[v].pc = "read" /\ ver[v].row # 0 =>
            ver[v].row \in DOMAIN attempts' /\ attempts'[ver[v].row].status \in Done
    BY <2>3, <2>4, <2>5 DEF TargetInv, Done
  <2>9. VerifiedMeansExpectedTarget'
    BY <2>2, <2>5 DEF TargetInv, VerifiedMeansExpectedTarget
  <2>. QED BY <2>2, <2>7, <2>8, <2>9 DEF TargetInv
<1>6. CASE ToIdle(w) /\ UNCHANGED <<attempts, writes, live, expected, ver>>
  <2>1. \A u \in Workers : job'[u].pc \notin Writing \/ job'[u] = job[u]
    BY <1>0, <1>6 DEF ToIdle, IdleJob, Writing
  <2>. QED BY <1>6, <2>1, TargetKept
<1>. QED BY <1>1, <1>2, <1>3, <1>4, <1>5, <1>6
         DEF ApplyStep, ApplyRefused, ApplyStaleJson, ApplyRecheckFails,
             ApplyFinalizeFails, ApplyCrash, env

\* A delayed check records "verified" only for the object it compares with the
\* uid of the row.
LEMMA TargetVerify ==
  ASSUME TypeOK, TargetInv, NEW v \in Verifiers, UNCHANGED expected, VerifyCommit(v)
  PROVE  TargetInv'
<1>0. /\ attempts \in Seq(Attempt) /\ live \in Nat /\ NoUid \notin Nat
      /\ writes \in Seq(Write) /\ \A k \in DOMAIN writes : writes[k].uid \in Nat
      /\ expected \in Nat \cup {NoUid}
  <2>1. writes \in Seq(Write) /\ \A k \in DOMAIN writes : writes[k] \in Write
    BY DEF TypeOK
  <2>. QED BY <2>1, ConstAssumption DEF TypeOK, Uids, Write
<1>. DEFINE row == ver[v].row
            before == IF row = 0 THEN NoUid ELSE attempts[row].before
<1>1. PICK snap, outcome :
        /\ snap \in {live, NoUid}
        /\ outcome \in Outcomes(snap, before, ver[v].n)
        /\ RecordOnAttempt(row, outcome)
  BY DEF VerifyCommit
<1>2. /\ UNCHANGED <<job, writes, live, expected>>
      /\ ver' = [ver EXCEPT ![v] = IdleVer]
      /\ ver[v].pc = "read"
  BY DEF VerifyCommit, env
<1>3. row # 0 => row \in DOMAIN attempts /\ attempts[row].status \in Done
  BY <1>2 DEF TargetInv
<1>4. \A x \in Verifiers : ver'[x].pc = "read" => ver'[x] = ver[x]
  BY <1>2 DEF TypeOK, IdleVer
<1>5. CASE UNCHANGED attempts
  BY <1>2, <1>4, <1>5 DEF TargetInv, VerifiedMeansExpectedTarget
<1>6. ASSUME NEW st \in {"verified", "verification_failed"}, row # 0,
             StatusSet(row, st), st = "verified" => outcome = "verified"
      PROVE  TargetInv'
  <2>1. /\ DOMAIN attempts' = DOMAIN attempts
        /\ \A j \in DOMAIN attempts :
             /\ attempts'[j].sig = attempts[j].sig
             /\ attempts'[j].before = attempts[j].before
             /\ attempts'[j].status = IF j = row THEN st ELSE attempts[j].status
    BY <1>0, <1>3, <1>6, StatusSetRows
  <2>2. st \in Done
    BY DEF Done
  <2>3. /\ \A i \in DOMAIN attempts' : attempts'[i].status \in Done =>
            /\ \E k \in DOMAIN writes : writes[k].sig = attempts'[i].sig
            /\ expected # NoUid => attempts'[i].before = expected
        /\ \A x \in Verifiers : ver'[x].pc = "read" /\ ver'[x].row # 0 =>
            ver'[x].row \in DOMAIN attempts' /\ attempts'[ver'[x].row].status \in Done
    BY <1>3, <1>4, <1>6, <2>1, <2>2 DEF TargetInv
  <2>4. \A u \in Workers : job[u].pc \in Writing =>
          \E i \in DOMAIN attempts' : attempts'[i].sig = job[u].sig
    BY <2>1 DEF TargetInv
  <2>5. st = "verified" /\ expected # NoUid =>
          \E k \in DOMAIN writes :
            writes[k].sig = attempts[row].sig /\ writes[k].uid = expected
    <3>. SUFFICES ASSUME st = "verified", expected # NoUid
                  PROVE  \E k \in DOMAIN writes :
                    writes[k].sig = attempts[row].sig /\ writes[k].uid = expected
      OBVIOUS
    <3>1. attempts[row].before = expected
      BY <1>3, <1>6 DEF TargetInv
    <3>2. snap = live /\ expected = live
      BY <1>1, <1>6, <3>1 DEF Outcomes
    <3>3. PICK k \in DOMAIN writes : writes[k].sig = attempts[row].sig
      BY <1>3, <1>6 DEF TargetInv
    <3>4. writes[k].uid <= live /\ expected <= writes[k].uid
      BY DEF TargetInv
    <3>. QED BY <1>0, <3>2, <3>3, <3>4
  <2>6. VerifiedMeansExpectedTarget'
    BY <1>2, <2>1, <2>5 DEF TargetInv, VerifiedMeansExpectedTarget
  <2>. QED BY <1>2, <2>3, <2>4, <2>6 DEF TargetInv
<1>. QED BY <1>1, <1>5, <1>6 DEF RecordOnAttempt, StatusSet

LEMMA TargetNext == TypeOK /\ FrameInv /\ TargetInv /\ [Next]_vars => TargetInv'
<1>. SUFFICES ASSUME TypeOK, FrameInv, TargetInv, [Next]_vars PROVE TargetInv'
  OBVIOUS
<1>0. UNCHANGED expected
  BY FixedByInit
<1>1. CASE \E s \in Sigs : Approve(s) \/ Decline(s) \/ ApplyConfirm(s)
  <2>1. UNCHANGED <<attempts, writes, live, ver>>
    BY <1>1 DEF Approve, Decline, ApplyConfirm, env
  <2>2. \A w \in Workers : job'[w].pc \notin Writing \/ job'[w] = job[w]
    BY <1>1 DEF Approve, Decline, ApplyConfirm, Dispatch, IdleJob, Writing, TypeOK
  <2>. QED BY <1>0, <2>1, <2>2, TargetKept
<1>2. CASE \E w \in Workers : ApplyStep(w) \/ ApplyCrash(w)
  BY <1>0, <1>2, TargetApply
<1>3. CASE \E v \in Verifiers : VerifyCommit(v)
  BY <1>0, <1>3, TargetVerify
<1>4. CASE \E v \in Verifiers : VerifyCrash(v)
  <2>1. PICK v \in Verifiers : VerifyCrash(v)
    BY <1>4
  <2>2. \A x \in Verifiers : ver'[x].pc = "read" => ver'[x] = ver[x]
    BY <2>1 DEF VerifyCrash, TypeOK, IdleVer
  <2>3. UNCHANGED <<attempts, writes, live, job>>
    BY <2>1 DEF VerifyCrash, env
  <2>. QED BY <1>0, <2>2, <2>3 DEF TargetInv, VerifiedMeansExpectedTarget
<1>5. ASSUME NEW v \in Verifiers, NEW n \in 1 .. MaxVerify, VerifyStart(v, n)
      PROVE  TargetInv'
  <2>1. \A row \in LatestApplied :
          row \in DOMAIN attempts /\ attempts[row].status \in Done
    BY DEF LatestApplied, AppliedStatuses, Done
  <2>2. \A x \in Verifiers : ver'[x].pc = "read" /\ ver'[x].row # 0 =>
          ver'[x].row \in DOMAIN attempts /\ attempts[ver'[x].row].status \in Done
    BY <1>5, <2>1 DEF VerifyStart, TypeOK, TargetInv
  <2>3. UNCHANGED <<attempts, writes, live, job>>
    BY <1>5 DEF VerifyStart, env
  <2>. QED BY <1>0, <2>2, <2>3 DEF TargetInv, VerifiedMeansExpectedTarget
<1>6. CASE Recreate
  <2>1. live \in Nat /\ live' = live + 1 /\ expected \in Nat \cup {NoUid}
    BY <1>6 DEF Recreate, TypeOK, Uids
  <2>2. \A k \in DOMAIN writes : writes[k].uid \in Nat
    <3>1. writes \in Seq(Write) /\ \A k \in DOMAIN writes : writes[k] \in Write
      BY DEF TypeOK
    <3>. QED BY <3>1 DEF Write, Uids
  <2>3. UNCHANGED <<attempts, writes, job, ver>>
    BY <1>6 DEF Recreate
  <2>4. /\ expected # NoUid => expected <= live'
        /\ \A k \in DOMAIN writes : writes[k].uid <= live'
    <3>1. TargetInv!1 /\ TargetInv!2
      BY DEF TargetInv
    <3>. QED BY <2>1, <2>2, <3>1
  <2>. QED BY <1>0, <2>3, <2>4 DEF TargetInv, VerifiedMeansExpectedTarget
<1>7. CASE UNCHANGED <<attempts, writes, live, ver, job>>
  BY <1>0, <1>7, TargetKept
<1>. QED
  BY <1>1, <1>2, <1>3, <1>4, <1>5, <1>6, <1>7
     DEF Next, vars, PipelineStart, PipelineCheckpoint, PipelinePersist,
         BridgeRecordsCard, VerifyNothingApplied, VerifyStep, ClaimExpires,
         ApprovalExpires, PlanExpires, env

\* A row is marked verified only if a write of its command hit the very object
\* that the graph named in the decision, however often the target is recreated
\* between the snapshot, the write and the delayed checks.
THEOREM VerifiedTargets == Spec => []VerifiedMeansExpectedTarget
<1>1. Init => TargetInv
  BY DEF Init, TargetInv, VerifiedMeansExpectedTarget, IdleJob, IdleVer, Writing
<1>2. TargetInv => VerifiedMeansExpectedTarget
  BY DEF TargetInv
<1>. QED BY <1>1, <1>2, TypeCorrect, TargetNext, PTL DEF Spec

-----------------------------------------------------------------------------
(* Expired approvals. *)

\* The approval of a command that is past its window is not accepted, and the
\* frames that accepted it earlier are gone.
LEMMA LapsedStays ==
  ASSUME TypeOK, [Next]_vars, NEW s \in Sigs, Lapsed(s)
  PROVE  Lapsed(s)'
<1>0. job \in [Workers -> Job] /\ writes \in Seq(Write)
  BY DEF TypeOK
<1>1. Stale("approval", s)'
  BY DEF Lapsed, Stale, Next, vars, env, Approve, Decline, ApplyConfirm, ApplyStep,
         ApplyRefused, ApplyStaleJson, ApplyStaleRow, ApplyChecked,
         ApplyRecheckFails, ApplyClaim, ApplyWrite, ApplyFinalize,
         ApplyFinalizeFails, ApplyCrash, PipelineStart, PipelineCheckpoint,
         PipelinePersist, BridgeRecordsCard, VerifyStart, VerifyNothingApplied,
         VerifyStep, VerifyCommit, VerifyCrash, ClaimExpires, ApprovalExpires,
         PlanExpires, Recreate
<1>2. CASE \E x \in Sigs : Approve(x) \/ Decline(x) \/ ApplyConfirm(x)
  <2>1. \A w \in Workers : job'[w].pc \in {"idle", "queued"} \/ job'[w] = job[w]
    BY <1>0, <1>2 DEF Approve, Decline, ApplyConfirm, Dispatch, IdleJob
  <2>2. UNCHANGED writes
    BY <1>2 DEF Approve, Decline, ApplyConfirm
  <2>. QED BY <1>1, <2>1, <2>2 DEF Lapsed
<1>3. ASSUME NEW w \in Workers, ApplyStep(w) \/ ApplyCrash(w) PROVE Lapsed(s)'
  <2>0. job[w] \in Job
    BY <1>0
  <2>1. CASE ApplyChecked(w)
    <3>1. job[w].sig # s /\ UNCHANGED writes
      BY <2>1 DEF ApplyChecked, Authorised, Lapsed
    <3>2. \A u \in Workers :
            job'[u].sig = job[u].sig /\ (u # w => job'[u].pc = job[u].pc)
      BY <1>0, <2>0, <2>1 DEF ApplyChecked, Job
    <3>. QED BY <1>1, <3>1, <3>2 DEF Lapsed
  <2>2. CASE ApplyClaim(w)
    <3>1. job[w].sig # s /\ UNCHANGED writes
      BY <2>2 DEF ApplyClaim, Lapsed
    <3>2. \A u \in Workers :
            job'[u].sig = job[u].sig /\ (u # w => job'[u].pc = job[u].pc)
      BY <1>0, <2>0, <2>2 DEF ApplyClaim, Job
    <3>. QED BY <1>1, <3>1, <3>2 DEF Lapsed
  <2>3. CASE ApplyWrite(w)
    <3>1. job[w].sig # s
      BY <2>3 DEF ApplyWrite, Lapsed
    <3>2. \A u \in Workers :
            job'[u].sig = job[u].sig /\ (u # w => job'[u].pc = job[u].pc)
      BY <1>0, <2>0, <2>3 DEF ApplyWrite, Job
    <3>3. \A i \in DOMAIN writes' : writes'[i].sig # s
      BY <1>0, <2>3, <3>1 DEF ApplyWrite, Lapsed
    <3>. QED BY <1>1, <3>1, <3>2, <3>3 DEF Lapsed
  <2>4. CASE ToIdle(w) /\ UNCHANGED writes
    <3>1. \A u \in Workers : job'[u].pc = "idle" \/ job'[u] = job[u]
      BY <1>0, <2>4 DEF ToIdle, IdleJob
    <3>. QED BY <1>1, <2>4, <3>1 DEF Lapsed
  <2>. QED BY <1>3, <2>1, <2>2, <2>3, <2>4, ApplyEnds
<1>4. CASE UNCHANGED <<job, writes>>
  BY <1>1, <1>4 DEF Lapsed
<1>. QED BY <1>2, <1>3, <1>4, NextCases DEF VerifyCommit, Quiet

\* Once an approval has outlived EXECUTOR_APPROVAL_MAX_AGE_SECONDS unused, no
\* later click, plan or invocation runs its command.
THEOREM ExpiredApprovals == Spec => ExpiredApprovalNeverWrites
<1>1. TypeOK /\ [Next]_vars => [\A s \in Sigs : Lapsed(s) => Lapsed(s)']_vars
  BY LapsedStays
<1>. QED BY <1>1, TypeCorrect, PTL DEF Spec, ExpiredApprovalNeverWrites

-----------------------------------------------------------------------------
(* Without row locks: one write per command. *)

\* UNIQUE(incident_id, signature) and the claim before the write: a claimed frame
\* owns the only row of its command, and a written command has a row, so that
\* nobody can claim it again.
ClaimedSigs == {attempts[i].sig : i \in DOMAIN attempts}

SignatureInv ==
  /\ \A w \in Workers : job[w].pc \in Writing => job[w].sig \in ClaimedSigs
  /\ \A w, u \in Workers :
       job[w].pc \in Writing /\ job[u].pc \in Writing /\ job[w].sig = job[u].sig
         => w = u
  /\ \A w \in Workers : job[w].pc = "claimed" =>
       \A k \in DOMAIN writes : writes[k].sig # job[w].sig
  /\ \A k \in DOMAIN writes : writes[k].sig \in ClaimedSigs
  /\ OneWritePerSignature

\* A changed status or snapshot never gives a claimed command back.
LEMMA ClaimsStay ==
  ASSUME TypeOK, [Next]_vars
  PROVE  ClaimedSigs \subseteq ClaimedSigs'
<1>. SUFFICES ASSUME NEW s \in ClaimedSigs PROVE s \in ClaimedSigs'
  OBVIOUS
<1>0. attempts \in Seq(Attempt) /\ \A i \in DOMAIN attempts : attempts[i] \in Attempt
  BY RowTyped DEF TypeOK
<1>1. CASE \E w \in Workers : ApplyStaleRow(w)
  BY <1>0, <1>1 DEF ApplyStaleRow, ClaimedSigs, Attempt
<1>2. ASSUME NEW w \in Workers, ApplyClaim(w) PROVE s \in ClaimedSigs'
  <2>1. PICK e : attempts' = Append(attempts, e)
    BY <1>2 DEF ApplyClaim
  <2>2. /\ DOMAIN attempts \subseteq DOMAIN attempts'
        /\ \A i \in DOMAIN attempts : attempts'[i] = attempts[i]
    BY <1>0, <2>1
  <2>. QED BY <2>2 DEF ClaimedSigs
<1>3. ASSUME NEW w \in Workers, ApplyFinalize(w) PROVE s \in ClaimedSigs'
  <2>1. PICK ok \in BOOLEAN : attempts' = [attempts EXCEPT ![RowOf(job[w].sig)] =
                      [@ EXCEPT !.status = IF ok THEN "applied" ELSE "failed",
                                !.before = job[w].before]]
    BY <1>3 DEF ApplyFinalize
  <2>. QED BY <1>0, <2>1 DEF ClaimedSigs, Attempt
<1>4. ASSUME NEW v \in Verifiers, VerifyCommit(v) PROVE s \in ClaimedSigs'
  <2>1. PICK outcome : RecordOnAttempt(ver[v].row, outcome)
    BY <1>4 DEF VerifyCommit
  <2>. QED BY <1>0, <2>1 DEF RecordOnAttempt, ClaimedSigs, Attempt
<1>5. CASE UNCHANGED attempts
  BY <1>5 DEF ClaimedSigs
<1>. QED
  BY <1>1, <1>2, <1>3, <1>4, <1>5, NextCases
     DEF ApplyStep, ApplyRefused, ApplyStaleJson, ApplyChecked, ApplyRecheckFails,
         ApplyWrite, ApplyFinalizeFails, ApplyCrash, Approve, Decline,
         ApplyConfirm, Quiet

LEMMA SignatureNext ==
  TypeOK /\ FrameInv /\ SignatureInv /\ [Next]_vars => SignatureInv'
<1>. SUFFICES ASSUME TypeOK, FrameInv, SignatureInv, [Next]_vars
              PROVE  SignatureInv'
  OBVIOUS
<1>0. job \in [Workers -> Job] /\ writes \in Seq(Write) /\ attempts \in Seq(Attempt)
  BY DEF TypeOK
<1>1. ClaimedSigs \subseteq ClaimedSigs'
  BY ClaimsStay
<1>2. ASSUME NEW w \in Workers, ApplyClaim(w) PROVE SignatureInv'
  <2>0. job[w] \in Job
    BY <1>0
  <2>1. /\ job[w].sig \notin ClaimedSigs /\ UNCHANGED writes
        /\ \A u \in Workers :
             job'[u].sig = job[u].sig /\ (u # w => job'[u].pc = job[u].pc)
    BY <1>0, <1>2, <2>0 DEF ApplyClaim, Job, Unclaimed, ClaimedSigs
  <2>2. job'[w].sig \in ClaimedSigs'
    <3>1. /\ attempts' = Append(attempts, [sig |-> job[w].sig,
                               status |-> "claimed", before |-> NoUid])
      BY <1>2 DEF ApplyClaim
    <3>2. /\ Len(attempts) + 1 \in DOMAIN attempts'
          /\ attempts'[Len(attempts) + 1].sig = job[w].sig
      BY <1>0, <3>1
    <3>3. job'[w].sig = job[w].sig
      BY <2>1
    <3>. QED BY <3>2, <3>3 DEF ClaimedSigs
  <2>. QED BY <1>1, <2>1, <2>2 DEF SignatureInv, OneWritePerSignature
<1>3. ASSUME NEW w \in Workers, ApplyWrite(w) PROVE SignatureInv'
  <2>0. job[w] \in Job
    BY <1>0
  <2>1. /\ job[w].pc = "claimed" /\ job'[w].pc = "written"
        /\ \A u \in Workers :
             job'[u].sig = job[u].sig /\ (u # w => job'[u].pc = job[u].pc)
    BY <1>0, <1>3, <2>0 DEF ApplyWrite, Job
  <2>2. /\ DOMAIN writes' = DOMAIN writes \cup {Len(writes) + 1}
        /\ \A k \in DOMAIN writes : writes'[k] = writes[k]
        /\ writes'[Len(writes) + 1].sig = job[w].sig
    BY <1>0, <1>3 DEF ApplyWrite
  <2>3. \A k \in DOMAIN writes : writes[k].sig # job[w].sig
    BY <2>1 DEF SignatureInv
  <2>4. \A u \in Workers : job[u].pc \in Writing /\ u # w => job[u].sig # job[w].sig
    BY <2>1 DEF SignatureInv, Writing
  <2>5. job[w].sig \in ClaimedSigs
    BY <2>1 DEF SignatureInv, Writing
  <2>6. OneWritePerSignature'
    BY <2>2, <2>3 DEF SignatureInv, OneWritePerSignature
  <2>7. \A u \in Workers : job'[u].pc = "claimed" =>
          \A k \in DOMAIN writes' : writes'[k].sig # job'[u].sig
    BY <2>1, <2>2, <2>4 DEF SignatureInv, Writing
  <2>8. \A k \in DOMAIN writes' : writes'[k].sig \in ClaimedSigs'
    BY <1>1, <2>2, <2>5 DEF SignatureInv
  <2>9. /\ \A u \in Workers : job'[u].pc \in Writing => job'[u].sig \in ClaimedSigs'
        /\ \A u, x \in Workers :
             job'[u].pc \in Writing /\ job'[x].pc \in Writing /\ job'[u].sig = job'[x].sig
               => u = x
    BY <1>1, <2>1 DEF SignatureInv, Writing
  <2>. QED BY <2>6, <2>7, <2>8, <2>9 DEF SignatureInv
<1>4. CASE /\ UNCHANGED writes
           /\ \A w \in Workers : job'[w].pc \notin Writing \/ job'[w] = job[w]
  BY <1>1, <1>4 DEF SignatureInv, Writing, OneWritePerSignature
<1>5. CASE \E s \in Sigs : Approve(s) \/ Decline(s) \/ ApplyConfirm(s)
  BY <1>0, <1>4, <1>5
     DEF Approve, Decline, ApplyConfirm, Dispatch, IdleJob, Writing
<1>6. ASSUME NEW w \in Workers, ApplyChecked(w) \/ (ToIdle(w) /\ UNCHANGED writes)
      PROVE  SignatureInv'
  <2>1. \A u \in Workers : job'[u].pc \notin Writing \/ job'[u] = job[u]
    BY <1>0, <1>6 DEF ApplyChecked, ToIdle, IdleJob, Writing, Job
  <2>. QED BY <1>4, <1>6, <2>1 DEF ApplyChecked
<1>. QED BY <1>2, <1>3, <1>4, <1>5, <1>6, NextCases, ApplyEnds
         DEF VerifyCommit, Quiet

\* Even where FOR UPDATE is ignored (SQLite), no command is written twice for an
\* incident, for any number of concurrent invocations and any crash.
THEOREM OneWriteOfACommand == Spec => []OneWritePerSignature
<1>1. Init => SignatureInv
  BY DEF Init, SignatureInv, OneWritePerSignature, IdleJob, Writing
<1>2. SignatureInv => OneWritePerSignature
  BY DEF SignatureInv
<1>. QED BY <1>1, <1>2, TypeCorrect, SignatureNext, PTL DEF Spec

-----------------------------------------------------------------------------
(* The executor implements OneShotRemediation. *)

\* What relates the running invocation to the row the abstract phase is read from:
\* the only row is the row of the writer, and it is not finished before the writer
\* is.
ShotInv ==
  /\ \A w \in Workers : job[w].pc \in Writing =>
       /\ attempts[1].sig = job[w].sig
       /\ attempts[1].status \in {"claimed", "unknown"}
  /\ \A w \in Workers : job[w].pc = "written" => Len(writes) = 1

\* Everything the refinement rests on.
ImplInv ==
  TypeOK /\ FrameInv /\ OneWriteInv /\ LegacyInv /\ TargetInv /\ ShotInv

LEMMA OneRow ==
  ASSUME TypeOK, OneWriteInv
  PROVE  /\ DOMAIN attempts \subseteq {1}
         /\ attempts # <<>> => 1 \in DOMAIN attempts /\ Len(attempts) = 1
<1>1. attempts \in Seq(Attempt) /\ Len(attempts) <= 1
  BY DEF TypeOK, OneWriteInv
<1>2. Len(attempts) \in Nat /\ DOMAIN attempts = 1 .. Len(attempts)
  BY <1>1
<1>3. attempts # <<>> => Len(attempts) # 0
  BY <1>1
<1>. QED BY <1>1, <1>2, <1>3

LEMMA ShotNext ==
  ASSUME RowLock, ImplInv, [Next]_vars
  PROVE  ShotInv'
<1>0. /\ job \in [Workers -> Job] /\ writes \in Seq(Write) /\ attempts \in Seq(Attempt)
      /\ \A i \in DOMAIN attempts : attempts[i] \in Attempt
  BY RowTyped DEF ImplInv, TypeOK
<1>1. CASE /\ UNCHANGED <<attempts, writes>>
           /\ \A w \in Workers : job'[w].pc \notin Writing \/ job'[w] = job[w]
  BY <1>1 DEF ImplInv, ShotInv, Writing
<1>2. CASE \E s \in Sigs : Approve(s) \/ Decline(s) \/ ApplyConfirm(s)
  BY <1>0, <1>1, <1>2
     DEF Approve, Decline, ApplyConfirm, Dispatch, IdleJob, Writing
<1>3. ASSUME NEW w \in Workers, ApplyChecked(w) PROVE ShotInv'
  <2>1. \A u \in Workers : job'[u].pc \notin Writing \/ job'[u] = job[u]
    BY <1>0, <1>3 DEF ApplyChecked, Writing, Job
  <2>. QED BY <1>1, <1>3, <2>1 DEF ApplyChecked
<1>4. ASSUME NEW w \in Workers, ApplyClaim(w) PROVE ShotInv'
  <2>1. attempts = <<>> /\ \A u \in Workers : job[u].pc \notin Writing
    BY <1>4 DEF ApplyClaim, ImplInv, OneWriteInv
  <2>2. attempts' = <<[sig |-> job[w].sig, status |-> "claimed", before |-> NoUid]>>
    BY <1>4, <2>1 DEF ApplyClaim
  <2>3. /\ \A u \in Workers \ {w} : job'[u].pc \notin Writing
        /\ job'[w].sig = job[w].sig /\ job'[w].pc = "claimed"
    BY <1>0, <1>4, <2>1 DEF ApplyClaim, Job
  <2>. QED BY <2>2, <2>3 DEF ShotInv, Writing
<1>5. ASSUME NEW w \in Workers, ApplyWrite(w) PROVE ShotInv'
  <2>1. writes = <<>> /\ job[w].pc = "claimed"
    BY <1>5 DEF ApplyWrite, ImplInv, OneWriteInv
  <2>2. Len(writes') = 1 /\ UNCHANGED attempts
    BY <1>5, <2>1 DEF ApplyWrite
  <2>3. \A u \in Workers : job'[u].sig = job[u].sig /\ (u # w => job'[u].pc = job[u].pc)
    BY <1>0, <1>5 DEF ApplyWrite, Job
  <2>. QED BY <2>1, <2>2, <2>3 DEF ImplInv, ShotInv, Writing
<1>6. ASSUME NEW w \in Workers, ToIdle(w), UNCHANGED <<attempts, writes>>
      PROVE  ShotInv'
  <2>1. \A u \in Workers : job'[u].pc \notin Writing \/ job'[u] = job[u]
    BY <1>0, <1>6 DEF ToIdle, IdleJob, Writing
  <2>. QED BY <1>1, <1>6, <2>1
<1>7. ASSUME NEW w \in Workers, ApplyStaleRow(w) PROVE ShotInv'
  <2>1. /\ StatusSet(1, "unknown") /\ 1 \in DOMAIN attempts
    BY <1>7, OneRow DEF ApplyStaleRow, StatusSet, RowClaimStale, ImplInv
  <2>2. attempts'[1].sig = attempts[1].sig /\ attempts'[1].status = "unknown"
    BY <1>0, <2>1, StatusSetRows
  <2>3. \A u \in Workers : job'[u].pc \notin Writing \/ job'[u] = job[u]
    BY <1>0, <1>7 DEF ApplyStaleRow, ToIdle, IdleJob, Writing
  <2>. QED BY <1>7, <2>2, <2>3 DEF ApplyStaleRow, ImplInv, ShotInv, Writing
<1>8. ASSUME NEW w \in Workers, ApplyFinalize(w) PROVE ShotInv'
  <2>1. \A u \in Workers : job'[u].pc \notin Writing
    <3>1. job[w].pc = "written" /\ ToIdle(w)
      BY <1>8 DEF ApplyFinalize
    <3>2. \A u \in Workers \ {w} : job[u].pc \notin Writing
      BY <3>1 DEF ImplInv, OneWriteInv, Writing
    <3>. QED BY <1>0, <3>1, <3>2 DEF ToIdle, IdleJob, Writing
  <2>. QED BY <2>1 DEF ShotInv, Writing
<1>9. ASSUME NEW v \in Verifiers, VerifyCommit(v) PROVE ShotInv'
  <2>1. PICK outcome : RecordOnAttempt(ver[v].row, outcome)
    BY <1>9 DEF VerifyCommit
  <2>2. UNCHANGED <<job, writes>>
    BY <1>9 DEF VerifyCommit
  <2>3. CASE UNCHANGED attempts
    BY <1>1, <2>2, <2>3
  <2>4. CASE ver[v].row # 0
    <3>1. ver[v].row = 1 /\ attempts[1].status \in Done
      BY <1>9, <2>4, OneRow DEF VerifyCommit, ImplInv, TargetInv
    <3>2. \A u \in Workers : job[u].pc \notin Writing
      BY <3>1 DEF ImplInv, ShotInv, Done
    <3>. QED BY <2>2, <3>2 DEF ShotInv, Writing
  <2>. QED BY <2>1, <2>3, <2>4 DEF RecordOnAttempt
<1>. QED
  BY <1>1, <1>2, <1>3, <1>4, <1>5, <1>6, <1>7, <1>8, <1>9, NextCases
     DEF ApplyStep, ApplyRefused, ApplyStaleJson, ApplyRecheckFails,
         ApplyFinalizeFails, ApplyCrash, Quiet

\* A step of the executor is a step of OneShotRemediation or leaves the decisions,
\* the phase, the chosen command and the number of executions alone.
LEMMA ShotStep ==
  ASSUME RowLock, ImplInv, [Next]_vars
  PROVE  [OneShot!Next]_(OneShot!vars)
<1>0. /\ job \in [Workers -> Job] /\ writes \in Seq(Write) /\ attempts \in Seq(Attempt)
      /\ approvals \in [Sigs -> {"none", "approved", "declined"}]
      /\ \A i \in DOMAIN attempts : attempts[i] \in Attempt
  BY RowTyped DEF ImplInv, TypeOK
<1>1. UNCHANGED origin
  BY FixedByInit
<1>2. CASE UNCHANGED <<approvals, attempts, writes>>
  BY <1>1, <1>2 DEF OneShot!vars, Phase, Chosen
<1>3. ASSUME NEW s \in Sigs, Approve(s) \/ Decline(s) \/ ApplyConfirm(s)
      PROVE  [OneShot!Next]_(OneShot!vars)
  <2>1. UNCHANGED <<attempts, writes>>
    BY <1>3 DEF Approve, Decline, ApplyConfirm
  <2>2. UNCHANGED <<Phase, Chosen, Len(writes)>>
    BY <1>1, <2>1 DEF Phase, Chosen
  <2>3. \/ UNCHANGED approvals
        \/ \E verdict \in {"approved", "declined"} :
             approvals[s] = "none" /\ approvals' = [approvals EXCEPT ![s] = verdict]
    BY <1>3 DEF Approve, Decline, ApplyConfirm, RecordDecision
  <2>. QED BY <2>2, <2>3 DEF OneShot!Next, OneShot!Decide, OneShot!vars
<1>4. ASSUME NEW w \in Workers, ApplyClaim(w) PROVE OneShot!Next
  <2>1. attempts = <<>> /\ job[w].pc = "checked" /\ origin # "legacy"
    BY <1>4 DEF ApplyClaim, ImplInv, OneWriteInv, LegacyInv, LegacyMarks, Passed
  <2>2. /\ attempts' = <<[sig |-> job[w].sig, status |-> "claimed", before |-> NoUid]>>
        /\ UNCHANGED <<approvals, writes>>
    BY <1>4, <2>1 DEF ApplyClaim
  <2>3. job[w].sig \in Sigs /\ approvals[job[w].sig] = "approved"
    BY <2>1 DEF ImplInv, FrameInv, Passed
  <2>4. Phase = "open" /\ Phase' = "claimed" /\ Chosen' = job[w].sig
    BY <1>1, <2>1, <2>2 DEF Phase, Chosen
  <2>. QED BY <2>2, <2>3, <2>4 DEF OneShot!Next, OneShot!Claim
<1>5. ASSUME NEW w \in Workers, ApplyWrite(w) PROVE OneShot!Next
  <2>1. /\ writes = <<>> /\ attempts # <<>>
        /\ attempts[1].status \in {"claimed", "unknown"}
        /\ origin # "legacy"
    BY <1>5 DEF ApplyWrite, ImplInv, OneWriteInv, ShotInv, LegacyInv, LegacyMarks,
                Passed, Writing
  <2>2. Len(writes) = 0 /\ Len(writes') = 1 /\ UNCHANGED <<approvals, attempts>>
    BY <1>5, <2>1 DEF ApplyWrite
  <2>3. Phase \in {"claimed", "handed_off"} /\ UNCHANGED <<Phase, Chosen>>
    BY <1>1, <2>1, <2>2 DEF Phase, Chosen
  <2>. QED BY <2>2, <2>3 DEF OneShot!Next, OneShot!Execute
<1>6. ASSUME NEW w \in Workers, ApplyStaleRow(w) PROVE OneShot!Next
  <2>1. /\ 1 \in DOMAIN attempts /\ Len(attempts) = 1 /\ attempts # <<>>
        /\ attempts[1].status = "claimed"
    BY <1>6, OneRow DEF ApplyStaleRow, RowClaimStale, BlockingAttempt, ImplInv
  <2>2. StatusSet(1, "unknown") /\ UNCHANGED <<approvals, writes>>
    BY <1>6, <2>1 DEF ApplyStaleRow, StatusSet
  <2>3. /\ attempts'[1].sig = attempts[1].sig /\ attempts'[1].status = "unknown"
        /\ attempts' # <<>>
    BY <1>0, <2>1, <2>2, StatusSetRows
  <2>4. origin # "legacy"
    BY <2>1 DEF ImplInv, LegacyInv, LegacyMarks
  <2>5. Phase = "claimed" /\ Phase' = "handed_off" /\ UNCHANGED Chosen
    BY <1>1, <2>1, <2>3, <2>4 DEF Phase, Chosen
  <2>. QED BY <2>2, <2>5 DEF OneShot!Next, OneShot!HandOff
<1>7. ASSUME NEW w \in Workers, ApplyFinalize(w) PROVE OneShot!Next
  <2>1. /\ job[w].pc = "written" /\ Len(writes) = 1
        /\ attempts[1].sig = job[w].sig
        /\ attempts[1].status \in {"claimed", "unknown"}
        /\ attempts # <<>> /\ origin # "legacy"
    BY <1>7 DEF ApplyFinalize, ImplInv, OneWriteInv, ShotInv, LegacyInv,
                LegacyMarks, Passed, Writing
  <2>2. RowOf(job[w].sig) = 1 /\ 1 \in DOMAIN attempts
    <3>1. 1 \in DOMAIN attempts /\ DOMAIN attempts \subseteq {1}
      BY <2>1, OneRow DEF ImplInv
    <3>2. ~Unclaimed(job[w].sig)
      BY <2>1, <3>1 DEF Unclaimed
    <3>. QED BY <3>1, <3>2, RowOfClaim
  <2>3. PICK ok \in BOOLEAN : attempts' = [attempts EXCEPT ![1] =
                      [@ EXCEPT !.status = IF ok THEN "applied" ELSE "failed",
                                !.before = job[w].before]]
    BY <1>7, <2>2 DEF ApplyFinalize
  <2>4. /\ attempts'[1].sig = attempts[1].sig
        /\ attempts'[1].status \in {"applied", "failed"}
        /\ attempts' # <<>>
    <3>1. attempts[1] \in Attempt
      BY <1>0, <2>2
    <3>2. DOMAIN attempts' = DOMAIN attempts
      BY <2>3
    <3>3. attempts' # <<>>
      BY <2>2, <3>2
    <3>4. attempts'[1] = [attempts[1] EXCEPT
                            !.status = IF ok THEN "applied" ELSE "failed",
                            !.before = job[w].before]
      BY <1>0, <2>2, <2>3
    <3>. QED BY <3>1, <3>3, <3>4 DEF Attempt
  <2>5. UNCHANGED <<approvals, writes>>
    BY <1>7 DEF ApplyFinalize
  <2>6. /\ Phase \in {"claimed", "handed_off"} /\ Phase' = "settled"
        /\ UNCHANGED Chosen
    BY <1>1, <2>1, <2>4 DEF Phase, Chosen
  <2>. QED BY <2>1, <2>5, <2>6 DEF OneShot!Next, OneShot!Settle
<1>8. ASSUME NEW v \in Verifiers, VerifyCommit(v)
      PROVE  UNCHANGED OneShot!vars
  <2>1. PICK outcome : RecordOnAttempt(ver[v].row, outcome)
    BY <1>8 DEF VerifyCommit
  <2>2. UNCHANGED <<approvals, writes>>
    BY <1>8 DEF VerifyCommit
  <2>3. CASE UNCHANGED attempts
    BY <1>1, <2>2, <2>3 DEF OneShot!vars, Phase, Chosen
  <2>4. ASSUME ver[v].row # 0,
               NEW st \in {"verified", "verification_failed"}, StatusSet(ver[v].row, st)
        PROVE  UNCHANGED OneShot!vars
    <3>1. ver[v].row = 1 /\ 1 \in DOMAIN attempts /\ attempts[1].status \in Done
      BY <1>8, <2>4, OneRow DEF VerifyCommit, ImplInv, TargetInv
    <3>2. /\ attempts # <<>> /\ attempts' # <<>>
          /\ attempts'[1].sig = attempts[1].sig /\ attempts'[1].status = st
      BY <1>0, <2>4, <3>1, StatusSetRows
    <3>3. UNCHANGED <<Phase, Chosen>>
      BY <1>1, <3>1, <3>2 DEF Phase, Chosen, Done
    <3>. QED BY <2>2, <3>3 DEF OneShot!vars
  <2>. QED BY <2>1, <2>3, <2>4 DEF RecordOnAttempt, StatusSet
<1>. QED
  BY <1>2, <1>3, <1>4, <1>5, <1>6, <1>7, <1>8, NextCases
     DEF ApplyStep, ApplyRefused, ApplyStaleJson, ApplyChecked, ApplyRecheckFails,
         ApplyFinalizeFails, ApplyCrash, Quiet

\* On a database with row locks apply_intent, racing with itself, the pipeline, the
\* bridge, verification, crashes and the clock, implements OneShotRemediation: first
\* decisions stay, one approved command is claimed, it runs at most once, and its
\* claim is settled or handed to a person.
THEOREM Refinement == RowLock => (Spec => ImplementsOneShot)
<1>. SUFFICES ASSUME RowLock PROVE Spec => ImplementsOneShot
  OBVIOUS
<1>1. Init => ImplInv
  <2>. SUFFICES ASSUME Init PROVE OneWriteInv /\ LegacyInv /\ TargetInv /\ ShotInv
    BY TypeInit DEF ImplInv
  <2>1. OneWriteInv /\ TargetInv /\ ShotInv
    BY DEF Init, OneWriteInv, TargetInv, ShotInv, VerifiedMeansExpectedTarget,
           IdleJob, IdleVer, Writing
  <2>2. LegacyInv
    BY LegacyInit
  <2>. QED BY <2>1, <2>2
<1>2. ImplInv /\ [Next]_vars => ImplInv'
  <2>. SUFFICES ASSUME ImplInv, [Next]_vars PROVE ImplInv'
    OBVIOUS
  <2>1. TypeOK' /\ FrameInv'
    BY TypeNext DEF ImplInv
  <2>2. OneWriteInv'
    BY <2>1, OneWriteNext DEF ImplInv
  <2>. QED BY <2>1, <2>2, LegacyNext, TargetNext, ShotNext DEF ImplInv
<1>3. Init => OneShot!Init
  BY ConstAssumption DEF Init, OneShot!Init, Phase, Chosen
<1>4. ImplInv /\ [Next]_vars => [OneShot!Next]_(OneShot!vars)
  BY ShotStep
<1>. QED BY <1>1, <1>2, <1>3, <1>4, PTL DEF Spec, ImplementsOneShot, OneShot!Spec
=============================================================================
