------------------------ MODULE ExecutorApplyProofs ------------------------
(***************************************************************************)
(* Proofs about ExecutorApply for every set of commands, plans, workers    *)
(* and verifiers, and every number of checks and of object incarnations.   *)
(***************************************************************************)
EXTENDS ExecutorApply, SequenceTheorems, TLAPS

\* What a frame of apply_intent remembers of the checks it has passed: it holds
\* a plan that carries the signature of the click, and that signature is
\* approved.  Other writers replace analysis, never the frame.
Passed == {"checked", "claimed", "written"}

FrameInv ==
  \A w \in Workers :
    /\ job[w].pc # "idle" => job[w].sig \in Sigs
    /\ job[w].pc \in Passed =>
         /\ job[w].mem \in Analysis
         /\ job[w].mem.plan \in Plans
         /\ SigOf[job[w].mem.plan] = job[w].sig
         /\ approvals[job[w].sig] = "approved"

\* Replacing an element of a sequence keeps its length and element type.
LEMMA ReplaceElement ==
  ASSUME NEW S, NEW seq \in Seq(S), NEW i, NEW e,
         i \in DOMAIN seq => e \in S
  PROVE  /\ [seq EXCEPT ![i] = e] \in Seq(S)
         /\ Len([seq EXCEPT ![i] = e]) = Len(seq)
         /\ DOMAIN [seq EXCEPT ![i] = e] = DOMAIN seq
<1>1. CASE i \in DOMAIN seq
  BY <1>1, ExceptSeq
<1>2. CASE i \notin DOMAIN seq
  <2>1. [seq EXCEPT ![i] = e] = seq
    BY <1>2
  <2>. QED BY <2>1
<1>. QED BY <1>1, <1>2

\* set_status and the recorded snapshot keep a row a row.
LEMMA UpdatedRow ==
  ASSUME NEW a \in Attempt, NEW st \in Statuses, NEW b \in Uids \cup {NoUid}
  PROVE  /\ [a EXCEPT !.status = st] \in Attempt
         /\ [a EXCEPT !.status = st, !.before = b] \in Attempt
BY DEF Attempt

LEMMA RowTyped ==
  ASSUME attempts \in Seq(Attempt), NEW i \in DOMAIN attempts
  PROVE  attempts[i] \in Attempt
OBVIOUS

\* The empty frames have the right type.
LEMMA IdleFrames == IdleJob \in Job /\ IdleVer \in Ver
BY ConstAssumption DEF IdleJob, IdleVer, Job, Ver, JobPcs

\* The initial states are well typed.
LEMMA TypeInit == Init => TypeOK /\ FrameInv
<1>. SUFFICES ASSUME Init PROVE TypeOK /\ FrameInv
  OBVIOUS
<1>0. Rows \subseteq Origins
  BY ConstAssumption DEF Origins
<1>1. analysis \in Analysis /\ card \in Analysis \cup {NoCopy}
  <2>0. CASE origin = "pipeline"
    <3>1. analysis = EmptyAnalysis /\ card = NoCopy
      BY <2>0 DEF Init, InitialRow
    <3>2. EmptyAnalysis \in Analysis
      BY DEF EmptyAnalysis, Analysis
    <3>. QED BY <3>1, <3>2
  <2>1. CASE origin = "bridge"
    <3>1. PICK p \in Plans : analysis = [EmptyAnalysis EXCEPT !.plan = p]
      BY <2>1 DEF Init, InitialRow
    <3>2. analysis \in Analysis
      BY <3>1 DEF EmptyAnalysis, Analysis
    <3>. QED BY <2>1, <3>2 DEF Init, InitialRow
  <2>2. CASE origin = "legacy"
    <3>1. PICK p \in Plans, m \in {"applied", "claimed", "unknown"} :
            analysis = [plan |-> p, applied |-> m = "applied",
                        inFlight |-> IF m = "claimed" THEN LegacyClaim ELSE NoClaim,
                        unknown |-> m = "unknown"]
      BY <2>2 DEF Init, InitialRow
    <3>2. (m = "applied") \in BOOLEAN /\ (m = "unknown") \in BOOLEAN
      OBVIOUS
    <3>3. (IF m = "claimed" THEN LegacyClaim ELSE NoClaim) \in Claims \cup {NoClaim}
      BY DEF Claims
    <3>4. analysis \in Analysis
      BY <3>1, <3>2, <3>3, Zenon DEF Analysis
    <3>. QED BY <2>2, <3>4 DEF Init, InitialRow
  <2>. QED BY <2>0, <2>1, <2>2, ConstAssumption DEF Init
<1>2. shown \subseteq Sigs
  BY <1>1, ConstAssumption DEF Init, Analysis
<1>3. live \in Uids /\ expected \in Uids \cup {NoUid}
  BY ConstAssumption DEF Init, Uids
<1>4. verifyTasks \subseteq 1 .. MaxVerify
  BY ConstAssumption DEF Init
<1>5. attempts \in Seq(Attempt) /\ writes \in Seq(Write)
  BY DEF Init
<1>6. TypeOK
  BY <1>0, <1>1, <1>2, <1>3, <1>4, <1>5, IdleFrames DEF Init, TypeOK
<1>7. FrameInv
  BY DEF Init, FrameInv, IdleJob, Passed
<1>. QED BY <1>6, <1>7

\* A step of the human decisions keeps types and frames.
LEMMA TypeDecisions ==
  ASSUME TypeOK, FrameInv, NEW s \in Sigs,
         Approve(s) \/ Decline(s) \/ ApplyConfirm(s)
  PROVE  TypeOK' /\ FrameInv'
<1>1. approvals' \in [Sigs -> {"none", "approved", "declined"}]
  BY DEF TypeOK, Approve, Decline, ApplyConfirm, RecordDecision
<1>2. \A x \in Sigs : approvals[x] = "approved" => approvals'[x] = "approved"
  BY DEF TypeOK, Approve, Decline, ApplyConfirm, RecordDecision
<1>3. CASE UNCHANGED job
  <2>1. TypeOK'
    BY <1>1, <1>3 DEF TypeOK, Approve, Decline, ApplyConfirm, env
  <2>2. FrameInv'
    BY <1>2, <1>3 DEF FrameInv, Passed
  <2>. QED BY <2>1, <2>2
<1>4. CASE \E w \in Workers : job' = [job EXCEPT ![w] =
                          [IdleJob EXCEPT !.pc = "queued", !.sig = s]]
  <2>1. PICK w \in Workers : job' = [job EXCEPT ![w] =
                          [IdleJob EXCEPT !.pc = "queued", !.sig = s]]
    BY <1>4
  <2>2. [IdleJob EXCEPT !.pc = "queued", !.sig = s] \in Job
    BY DEF IdleJob, Job, JobPcs
  <2>3. job' \in [Workers -> Job]
    BY <2>1, <2>2 DEF TypeOK
  <2>4. TypeOK'
    BY <1>1, <2>3 DEF TypeOK, Approve, Decline, ApplyConfirm, env
  <2>5. FrameInv'
    BY <1>2, <2>1 DEF FrameInv, TypeOK, IdleJob, Passed
  <2>. QED BY <2>4, <2>5
<1>. QED BY <1>3, <1>4 DEF Approve, Decline, ApplyConfirm, Dispatch

\* An invocation that ends leaves the other frames as they are.
LEMMA FrameToIdle ==
  ASSUME TypeOK, FrameInv, NEW w \in Workers, ToIdle(w), UNCHANGED approvals
  PROVE  FrameInv' /\ job' \in [Workers -> Job]
<1>1. job' \in [Workers -> Job]
  BY IdleFrames DEF TypeOK, ToIdle
<1>2. FrameInv'
  BY DEF FrameInv, TypeOK, ToIdle, IdleJob, Passed
<1>. QED BY <1>1, <1>2

\* A step of apply_intent keeps types and frames.
LEMMA TypeApply ==
  ASSUME TypeOK, FrameInv, NEW w \in Workers, ApplyStep(w) \/ ApplyCrash(w)
  PROVE  TypeOK' /\ FrameInv'
<1>0. job[w] \in Job
  BY DEF TypeOK
<1>1. CASE ApplyRefused(w)
  BY <1>1, FrameToIdle DEF ApplyRefused, TypeOK, env
<1>2. CASE ApplyStaleJson(w)
  <2>1. analysis' \in Analysis
    BY <1>2 DEF ApplyStaleJson, MarkUnknown, TypeOK, Analysis
  <2>. QED BY <1>2, <2>1, FrameToIdle DEF ApplyStaleJson, TypeOK, env
<1>3. CASE ApplyStaleRow(w)
  <2>1. analysis' \in Analysis
    BY <1>3 DEF ApplyStaleRow, MarkUnknown, TypeOK, Analysis
  <2>2. attempts' \in Seq(Attempt)
    <3>1. Len(attempts) \in DOMAIN attempts =>
            [attempts[Len(attempts)] EXCEPT !.status = "unknown"] \in Attempt
      <4>1. "unknown" \in Statuses
        BY DEF Statuses
      <4>2. attempts \in Seq(Attempt)
        BY DEF TypeOK
      <4>3. NoUid \in Uids \cup {NoUid}
        OBVIOUS
      <4>. QED BY <4>1, <4>2, <4>3, UpdatedRow, RowTyped
    <3>. QED BY <1>3, <3>1, ReplaceElement DEF ApplyStaleRow, TypeOK
  <2>. QED BY <1>3, <2>1, <2>2, FrameToIdle DEF ApplyStaleRow, TypeOK, env
<1>4. CASE ApplyChecked(w)
  <2>1. [job[w] EXCEPT !.pc = "checked", !.mem = analysis] \in Job
    BY <1>0 DEF TypeOK, Job, JobPcs
  <2>2. job' \in [Workers -> Job]
    BY <1>4, <2>1 DEF ApplyChecked, TypeOK
  <2>3. analysis.plan \in Plans
    BY <1>4 DEF ApplyChecked, Authorised, TypeOK, Analysis
  <2>4. TypeOK'
    BY <1>4, <2>2 DEF ApplyChecked, TypeOK, env
  <2>5. ASSUME NEW u \in Workers PROVE FrameInv!(u)'
    BY <1>4, <2>3, <1>0 DEF ApplyChecked, Authorised, FrameInv, TypeOK, Passed, Job
  <2>. QED BY <2>4, <2>5 DEF FrameInv
<1>5. CASE ApplyRecheckFails(w)
  BY <1>5, FrameToIdle DEF ApplyRecheckFails, ReleaseLock, TypeOK, env
<1>6. CASE ApplyClaim(w)
  <2>1. PICK snap \in {live, NoUid} :
          /\ attempts' = Append(attempts, [sig |-> job[w].sig,
                               status |-> "claimed", before |-> NoUid])
          /\ analysis' = [job[w].mem EXCEPT !.inFlight = job[w].sig]
          /\ job' = [job EXCEPT ![w].pc = "claimed",
                               ![w].mem = analysis', ![w].before = snap]
    BY <1>6 DEF ApplyClaim
  <2>2. /\ job[w].pc = "checked"
        /\ job[w].sig \in Sigs
        /\ job[w].mem \in Analysis
        /\ job[w].mem.plan \in Plans
        /\ SigOf[job[w].mem.plan] = job[w].sig
        /\ approvals[job[w].sig] = "approved"
    BY <1>6 DEF ApplyClaim, FrameInv, Passed
  <2>3. attempts' \in Seq(Attempt)
    BY <2>1, <2>2 DEF TypeOK, Attempt, Statuses
  <2>4. analysis' \in Analysis /\ analysis'.plan = job[w].mem.plan
    BY <2>1, <2>2 DEF Analysis, Claims
  <2>5. job' \in [Workers -> Job]
    BY <1>0, <2>1, <2>4 DEF TypeOK, Job, JobPcs
  <2>6. TypeOK'
    BY <1>6, <2>3, <2>4, <2>5 DEF ApplyClaim, ReleaseLock, TypeOK, env
  <2>7. ASSUME NEW u \in Workers PROVE FrameInv!(u)'
    BY <1>6, <2>1, <2>2, <2>4, <1>0 DEF ApplyClaim, FrameInv, TypeOK, Passed, Job
  <2>. QED BY <2>6, <2>7 DEF FrameInv
<1>7. CASE ApplyWrite(w)
  <2>1. job[w].sig \in Sigs /\ SigOf[job[w].mem.plan] \in Sigs
    BY <1>7, ConstAssumption DEF ApplyWrite, FrameInv, Passed
  <2>2. writes' \in Seq(Write)
    BY <1>7, <2>1 DEF ApplyWrite, TypeOK, Write
  <2>3. job' \in [Workers -> Job]
    BY <1>0, <1>7 DEF ApplyWrite, TypeOK, Job, JobPcs
  <2>4. TypeOK'
    BY <1>7, <2>2, <2>3 DEF ApplyWrite, TypeOK, env
  <2>5. ASSUME NEW u \in Workers PROVE FrameInv!(u)'
    BY <1>7, <1>0 DEF ApplyWrite, FrameInv, TypeOK, Passed, Job
  <2>. QED BY <2>4, <2>5 DEF FrameInv
<1>8. CASE ApplyFinalize(w)
  <2>1. analysis' \in Analysis
    BY <1>8 DEF ApplyFinalize, FrameInv, Passed, Analysis
  <2>2. PICK ok \in BOOLEAN :
          /\ attempts' = [attempts EXCEPT ![RowOf(job[w].sig)] =
                        [@ EXCEPT !.status = IF ok THEN "applied" ELSE "failed",
                                  !.before = job[w].before]]
          /\ verifyTasks' \in {verifyTasks} \cup
                           (IF ok THEN {verifyTasks \cup {1}} ELSE {})
    BY <1>8 DEF ApplyFinalize
  <2>3. attempts' \in Seq(Attempt)
    <3>. DEFINE i == RowOf(job[w].sig)
    <3>1. i \in DOMAIN attempts =>
            [attempts[i] EXCEPT !.status = IF ok THEN "applied" ELSE "failed",
                                !.before = job[w].before] \in Attempt
      <4>1. (IF ok THEN "applied" ELSE "failed") \in Statuses
        BY DEF Statuses, Done
      <4>2. attempts \in Seq(Attempt)
        BY DEF TypeOK
      <4>3. job[w].before \in Uids \cup {NoUid}
        BY <1>0 DEF Job
      <4>. QED BY <4>1, <4>2, <4>3, UpdatedRow, RowTyped
    <3>. QED BY <2>2, <3>1, ReplaceElement DEF TypeOK
  <2>4. verifyTasks' \subseteq 1 .. MaxVerify
    BY <2>2, ConstAssumption DEF TypeOK
  <2>. QED BY <1>8, <2>1, <2>3, <2>4, FrameToIdle DEF ApplyFinalize, TypeOK, env
<1>9. CASE ApplyFinalizeFails(w)
  <2>1. verifyTasks' \subseteq 1 .. MaxVerify
    BY <1>9, ConstAssumption DEF ApplyFinalizeFails, TypeOK
  <2>. QED BY <1>9, <2>1, FrameToIdle DEF ApplyFinalizeFails, TypeOK, env
<1>10. CASE ApplyCrash(w)
  BY <1>10, FrameToIdle DEF ApplyCrash, ReleaseLock, TypeOK, env
<1>. QED
  BY <1>1, <1>2, <1>3, <1>4, <1>5, <1>6, <1>7, <1>8, <1>9, <1>10 DEF ApplyStep

\* A step of the pipeline or of the bridge keeps types and frames.
LEMMA TypeWriters ==
  ASSUME TypeOK, FrameInv,
         \/ PipelineStart \/ PipelineCheckpoint \/ BridgeRecordsCard
         \/ \E p \in Plans \cup {NoPlan} : PipelinePersist(p)
  PROVE  TypeOK' /\ FrameInv'
<1>1. CASE PipelineStart
  BY <1>1 DEF PipelineStart, TypeOK, FrameInv, env
<1>2. CASE PipelineCheckpoint
  BY <1>2 DEF PipelineCheckpoint, TypeOK, FrameInv, env
<1>3. CASE BridgeRecordsCard
  BY <1>3 DEF BridgeRecordsCard, TypeOK, FrameInv, env
<1>4. ASSUME NEW p \in Plans \cup {NoPlan}, PipelinePersist(p)
      PROVE  TypeOK' /\ FrameInv'
  <2>1. analysis' \in Analysis
    BY <1>4 DEF PipelinePersist, TypeOK, Analysis
  <2>2. shown' \subseteq Sigs
    BY <1>4, ConstAssumption DEF PipelinePersist, TypeOK
  <2>. QED BY <1>4, <2>1, <2>2 DEF PipelinePersist, TypeOK, FrameInv, env
<1>. QED BY <1>1, <1>2, <1>3, <1>4

\* A step of the delayed verification keeps types and frames.
LEMMA TypeVerify ==
  ASSUME TypeOK, FrameInv, NEW v \in Verifiers, NEW n \in 1 .. MaxVerify,
         VerifyStart(v, n) \/ VerifyNothingApplied(n) \/ VerifyStep(v)
  PROVE  TypeOK' /\ FrameInv'
<1>0. /\ job' = job /\ approvals' = approvals /\ writes' = writes
      /\ ver[v] \in Ver
  BY DEF TypeOK, VerifyStart, VerifyNothingApplied, VerifyStep, VerifyCommit,
         VerifyCrash
<1>1. FrameInv'
  BY <1>0 DEF FrameInv
<1>2. CASE VerifyStart(v, n)
  <2>1. LatestApplied \subseteq Nat
    BY DEF LatestApplied, TypeOK
  <2>2. ver' \in [Verifiers -> Ver]
    BY <1>2, <2>1 DEF VerifyStart, TypeOK, Ver
  <2>. QED BY <1>1, <1>2, <2>2 DEF VerifyStart, TypeOK, env
<1>3. CASE VerifyNothingApplied(n)
  BY <1>1, <1>3 DEF VerifyNothingApplied, TypeOK, env
<1>4. CASE VerifyCrash(v)
  BY <1>1, <1>4, IdleFrames DEF VerifyCrash, TypeOK, env
<1>5. CASE VerifyCommit(v)
  <2>1. attempts' \in Seq(Attempt)
    <3>1. PICK outcome : RecordOnAttempt(ver[v].row, outcome)
      BY <1>5 DEF VerifyCommit
    <3>2. attempts \in Seq(Attempt)
      BY DEF TypeOK
    <3>3. \A i \in DOMAIN attempts :
            /\ [attempts[i] EXCEPT !.status = "verified"] \in Attempt
            /\ [attempts[i] EXCEPT !.status = "verification_failed"] \in Attempt
      <4>1. "verified" \in Statuses /\ "verification_failed" \in Statuses
        BY DEF Statuses, Done
      <4>2. NoUid \in Uids \cup {NoUid}
        OBVIOUS
      <4>. QED BY <3>2, <4>1, <4>2, UpdatedRow, RowTyped
    <3>. QED BY <3>1, <3>2, <3>3, ReplaceElement DEF RecordOnAttempt
  <2>2. verifyTasks' \subseteq 1 .. MaxVerify
    <3>1. ver[v].n \in 1 .. MaxVerify
      BY <1>0, ConstAssumption DEF Ver, IdleVer
    <3>2. PICK snap, outcome :
            /\ outcome \in Outcomes(snap,
                 IF ver[v].row = 0 THEN NoUid ELSE attempts[ver[v].row].before,
                 ver[v].n)
            /\ \E redelivered \in BOOLEAN, next \in BOOLEAN :
                 verifyTasks' =
                   (IF redelivered THEN verifyTasks ELSE verifyTasks \ {ver[v].n})
                   \cup (IF next /\ outcome = "pending" THEN {ver[v].n + 1} ELSE {})
      BY <1>5 DEF VerifyCommit
    <3>3. outcome = "pending" => ver[v].n < MaxVerify
      BY <3>2 DEF Outcomes
    <3>4. verifyTasks \subseteq 1 .. MaxVerify /\ MaxVerify \in Nat
      BY ConstAssumption DEF TypeOK
    <3>5. ver[v].n < MaxVerify => ver[v].n + 1 \in 1 .. MaxVerify
      BY <3>1, <3>4
    <3>. QED BY <3>2, <3>3, <3>4, <3>5
  <2>3. analysis' \in Analysis
    BY <1>0, <1>5 DEF VerifyCommit, Ver, IdleVer
  <2>. QED BY <1>1, <1>5, <2>1, <2>2, <2>3, IdleFrames DEF VerifyCommit, TypeOK, env
<1>. QED BY <1>2, <1>3, <1>4, <1>5 DEF VerifyStep

\* A step of the clock or of the cluster keeps types and frames.
LEMMA TypeEnvironment ==
  ASSUME TypeOK, FrameInv,
         \/ \E c \in Claims : ClaimExpires(c)
         \/ \E s \in Sigs : ApprovalExpires(s)
         \/ \E p \in Plans : PlanExpires(p)
         \/ Recreate
  PROVE  TypeOK' /\ FrameInv'
<1>1. CASE Recreate
  <2>1. live' \in Uids
    BY <1>1, ConstAssumption DEF Recreate, TypeOK, Uids
  <2>. QED BY <1>1, <2>1 DEF Recreate, TypeOK, FrameInv
<1>2. CASE ~Recreate
  BY <1>2 DEF ClaimExpires, ApprovalExpires, PlanExpires, TypeOK, FrameInv, env
<1>. QED BY <1>1, <1>2

\* Types and frames are inductive.
LEMMA TypeNext == TypeOK /\ FrameInv /\ [Next]_vars => TypeOK' /\ FrameInv'
<1>. SUFFICES ASSUME TypeOK, FrameInv, [Next]_vars PROVE TypeOK' /\ FrameInv'
  OBVIOUS
<1>1. CASE UNCHANGED vars
  BY <1>1 DEF vars, TypeOK, FrameInv
<1>2. CASE \E s \in Sigs : Approve(s) \/ Decline(s) \/ ApplyConfirm(s)
  BY <1>2, TypeDecisions
<1>3. CASE \E w \in Workers : ApplyStep(w) \/ ApplyCrash(w)
  BY <1>3, TypeApply
<1>4. CASE \/ PipelineStart \/ PipelineCheckpoint \/ BridgeRecordsCard
           \/ \E p \in Plans \cup {NoPlan} : PipelinePersist(p)
  BY <1>4, TypeWriters
<1>5. CASE \E v \in Verifiers, n \in 1 .. MaxVerify : VerifyStart(v, n)
  BY <1>5, TypeVerify
<1>6. CASE \E n \in 1 .. MaxVerify : VerifyNothingApplied(n)
  BY <1>6 DEF VerifyNothingApplied, TypeOK, FrameInv, env
<1>7. CASE \E v \in Verifiers : VerifyStep(v)
  <2>1. 1 \in 1 .. MaxVerify
    BY ConstAssumption
  <2>. QED BY <1>7, <2>1, TypeVerify
<1>8. CASE \/ \E c \in Claims : ClaimExpires(c)
           \/ \E s \in Sigs : ApprovalExpires(s)
           \/ \E p \in Plans : PlanExpires(p)
           \/ Recreate
  BY <1>8, TypeEnvironment
<1>. QED BY <1>1, <1>2, <1>3, <1>4, <1>5, <1>6, <1>7, <1>8 DEF Next

\* The rows, frames, queues and copies keep their types in every reachable state,
\* and a frame that passed the checks holds an approved plan.
THEOREM TypeCorrect == Spec => [](TypeOK /\ FrameInv)
BY TypeInit, TypeNext, PTL DEF Spec

-----------------------------------------------------------------------------
(* What ran is what was approved. *)

\* A step that is not a decision, a write or a change of a frame.
Quiet == UNCHANGED <<approvals, job, attempts, writes, rowLock>>

\* Who touches decisions, frames, attempts, writes and the lock.
LEMMA NextCases ==
  ASSUME [Next]_vars
  PROVE  \/ \E s \in Sigs : Approve(s) \/ Decline(s) \/ ApplyConfirm(s)
         \/ \E w \in Workers : ApplyStep(w) \/ ApplyCrash(w)
         \/ \E v \in Verifiers : VerifyCommit(v)
         \/ Quiet
BY DEF Next, vars, Quiet, PipelineStart, PipelineCheckpoint, PipelinePersist,
       BridgeRecordsCard, VerifyStart, VerifyNothingApplied, VerifyStep,
       VerifyCrash, ClaimExpires, ApprovalExpires, PlanExpires, Recreate

\* WriteAuthorised is inductive: the write takes its command and signature from a
\* frame that FrameInv describes, and decisions are never changed.
LEMMA AuthorisedNext ==
  TypeOK /\ FrameInv /\ WriteAuthorised /\ [Next]_vars => WriteAuthorised'
<1>. SUFFICES ASSUME TypeOK, FrameInv, WriteAuthorised, [Next]_vars
              PROVE  WriteAuthorised'
  OBVIOUS
<1>1. CASE \E s \in Sigs : Approve(s) \/ Decline(s) \/ ApplyConfirm(s)
  <2>1. /\ writes' = writes
        /\ \A x \in Sigs : approvals[x] = "approved" => approvals'[x] = "approved"
    BY <1>1 DEF Approve, Decline, ApplyConfirm, RecordDecision, TypeOK
  <2>2. \A i \in DOMAIN writes : writes[i].sig \in Sigs
    <3>1. writes \in Seq(Write)
      BY DEF TypeOK
    <3>2. \A i \in DOMAIN writes : writes[i] \in Write
      BY <3>1
    <3>. QED BY <3>2 DEF Write
  <2>. QED BY <2>1, <2>2 DEF WriteAuthorised
<1>2. CASE \E w \in Workers : ApplyWrite(w)
  <2>1. PICK w \in Workers : ApplyWrite(w)
    BY <1>2
  <2>2. /\ SigOf[job[w].mem.plan] = job[w].sig
        /\ approvals[job[w].sig] = "approved"
    BY <2>1 DEF ApplyWrite, FrameInv, Passed
  <2>. QED BY <2>1, <2>2 DEF ApplyWrite, WriteAuthorised, TypeOK
<1>3. CASE UNCHANGED <<approvals, writes>>
  BY <1>3 DEF WriteAuthorised
<1>. QED
  BY <1>1, <1>2, <1>3, NextCases
     DEF ApplyStep, ApplyRefused, ApplyStaleJson, ApplyStaleRow, ApplyChecked,
         ApplyRecheckFails, ApplyClaim, ApplyFinalize, ApplyFinalizeFails,
         ApplyCrash, VerifyCommit, Quiet

\* Every command that reaches the cluster is the one a human approved, for any
\* number of concurrent invocations, plans and re-fires, with or without row
\* locks.
THEOREM Authorisation == Spec => []WriteAuthorised
<1>1. Init => WriteAuthorised
  BY DEF Init, WriteAuthorised
<1>. QED BY <1>1, TypeCorrect, AuthorisedNext, PTL DEF Spec

-----------------------------------------------------------------------------
(* At most one write per incident, on a database with row locks. *)

Writing == {"claimed", "written"}

\* The strengthening of AtMostOneWrite.  A frame between the checks and the
\* claim holds the row lock and has seen an empty attempts table; that is what
\* makes the first claim the only one.  AtMostOneWrite alone is not inductive:
\* nothing in it says that a claimed frame has not yet written, or is alone.
OneWriteInv ==
  /\ \A w \in Workers : job[w].pc = "checked" => rowLock = w /\ attempts = <<>>
  /\ Len(attempts) <= 1
  /\ attempts = <<>> =>
       writes = <<>> /\ \A w \in Workers : job[w].pc \notin Writing
  /\ \A w, u \in Workers :
       job[w].pc \in Writing /\ job[u].pc \in Writing => w = u
  /\ \A w \in Workers : job[w].pc = "claimed" => writes = <<>>
  /\ Len(writes) <= 1

\* Statuses change, rows are not added: what the invariant says of attempts is
\* their number.
LEMMA OneWriteKept ==
  ASSUME OneWriteInv, TypeOK, TypeOK', Len(attempts') = Len(attempts),
         UNCHANGED writes,
         \A w \in Workers : \/ job'[w].pc \in {"idle", "queued"}
                            \/ job'[w].pc = job[w].pc,
         \A w \in Workers : job'[w].pc = "checked" => rowLock' = rowLock
  PROVE  OneWriteInv'
<1>1. attempts = <<>> <=> attempts' = <<>>
  BY DEF TypeOK
<1>. QED BY <1>1 DEF OneWriteInv, Writing

LEMMA OneWriteNext ==
  ASSUME RowLock, TypeOK, FrameInv, TypeOK', OneWriteInv, [Next]_vars
  PROVE  OneWriteInv'
<1>0. attempts \in Seq(Attempt) /\ writes \in Seq(Write) /\ job \in [Workers -> Job]
  BY DEF TypeOK
<1>1. CASE \E s \in Sigs : Approve(s) \/ Decline(s) \/ ApplyConfirm(s)
  <2>1. /\ UNCHANGED <<attempts, writes, rowLock>>
        /\ \A w \in Workers : \/ job'[w].pc \in {"idle", "queued"}
                              \/ job'[w].pc = job[w].pc
    BY <1>0, <1>1 DEF Approve, Decline, ApplyConfirm, Dispatch, IdleJob, Job
  <2>. QED BY <2>1, OneWriteKept
<1>2. CASE \E v \in Verifiers : VerifyCommit(v)
  <2>1. PICK v, outcome : RecordOnAttempt(ver[v].row, outcome)
    BY <1>2 DEF VerifyCommit
  <2>2. Len(attempts') = Len(attempts)
    BY <1>0, <2>1 DEF RecordOnAttempt
  <2>3. UNCHANGED <<job, writes, rowLock>>
    BY <1>2 DEF VerifyCommit
  <2>. QED BY <2>2, <2>3, OneWriteKept
<1>3. CASE Quiet
  BY <1>3, OneWriteKept DEF Quiet
<1>4. ASSUME NEW w \in Workers, ApplyStep(w) \/ ApplyCrash(w) PROVE OneWriteInv'
  <2>1. CASE ApplyChecked(w)
    <3>1. attempts = <<>> /\ rowLock = NoWorker /\ rowLock' = w
      <4>1. attempts # <<>> => BlockingAttempt.status \in Statuses
        <5>1. attempts # <<>> => Len(attempts) \in DOMAIN attempts
          BY <1>0
        <5>2. attempts # <<>> => BlockingAttempt \in Attempt
          BY <1>0, <5>1, RowTyped DEF BlockingAttempt
        <5>. QED BY <5>2 DEF Attempt
      <4>. QED BY <2>1, <4>1 DEF ApplyChecked, LockFree, RowRefuses, RowClaimStale,
                    Statuses
    <3>2. /\ UNCHANGED <<attempts, writes>>
          /\ \A u \in Workers : job'[u].pc = IF u = w THEN "checked" ELSE job[u].pc
          /\ \A u \in Workers : job[u].pc # "checked"
      BY <1>0, <2>1, <3>1, ConstAssumption DEF ApplyChecked, Job, OneWriteInv
    <3>. QED BY <3>1, <3>2 DEF OneWriteInv, Writing
  <2>2. CASE ApplyClaim(w)
    <3>1. /\ attempts = <<>> /\ writes = <<>> /\ rowLock = w
          /\ \A u \in Workers : job[u].pc \notin Writing
          /\ \A u \in Workers : job[u].pc = "checked" => u = w
      BY <2>2 DEF ApplyClaim, OneWriteInv
    <3>2. /\ Len(attempts') = 1 /\ UNCHANGED writes
          /\ \A u \in Workers : job'[u].pc = IF u = w THEN "claimed" ELSE job[u].pc
      BY <1>0, <2>2, <3>1 DEF ApplyClaim, Job
    <3>3. attempts' # <<>>
      BY <3>2
    <3>. QED BY <3>1, <3>2, <3>3 DEF OneWriteInv, Writing
  <2>3. CASE ApplyWrite(w)
    <3>1. writes = <<>> /\ attempts # <<>> /\ job[w].pc = "claimed"
      BY <2>3 DEF ApplyWrite, OneWriteInv, Writing
    <3>2. /\ Len(writes') = 1 /\ UNCHANGED <<attempts, rowLock>>
          /\ \A u \in Workers : job'[u].pc = IF u = w THEN "written" ELSE job[u].pc
      BY <1>0, <2>3, <3>1 DEF ApplyWrite, Job
    <3>. QED BY <3>1, <3>2 DEF OneWriteInv, Writing
  <2>4. CASE ToIdle(w) /\ UNCHANGED writes /\ Len(attempts') = Len(attempts)
             /\ (UNCHANGED rowLock \/ ReleaseLock(w))
    <3>1. \A u \in Workers : job'[u].pc = IF u = w THEN "idle" ELSE job[u].pc
      BY <1>0, <2>4 DEF ToIdle, IdleJob, Job
    <3>2. \A u \in Workers : job'[u].pc = "checked" => rowLock' = rowLock
      BY <2>4, <3>1 DEF ReleaseLock, OneWriteInv
    <3>. QED BY <2>4, <3>1, <3>2, OneWriteKept
  <2>5. ApplyStaleRow(w) \/ ApplyFinalize(w) => Len(attempts') = Len(attempts)
    <3>1. ApplyStaleRow(w) => Len(attempts') = Len(attempts)
      BY <1>0 DEF ApplyStaleRow
    <3>2. ASSUME ApplyFinalize(w) PROVE Len(attempts') = Len(attempts)
      <4>1. PICK e : attempts' = [attempts EXCEPT ![RowOf(job[w].sig)] = e]
        BY <3>2 DEF ApplyFinalize
      <4>. QED BY <1>0, <4>1
    <3>. QED BY <3>1, <3>2
  <2>. QED BY <1>4, <2>1, <2>2, <2>3, <2>4, <2>5
           DEF ApplyStep, ApplyRefused, ApplyStaleJson, ApplyStaleRow,
               ApplyRecheckFails, ApplyFinalize, ApplyFinalizeFails, ApplyCrash
<1>. QED BY <1>1, <1>2, <1>3, <1>4, NextCases

\* On a database with row locks the executor writes to the cluster at most once
\* per incident, for any number of concurrent invocations, clicks, commands,
\* re-fires and crashes, and even if a writer outlives the TTL of its claim.
THEOREM OneWrite == RowLock => (Spec => []AtMostOneWrite)
<1>. SUFFICES ASSUME RowLock PROVE Spec => []AtMostOneWrite
  OBVIOUS
<1>1. Init => OneWriteInv
  BY DEF Init, OneWriteInv, IdleJob, Writing
<1>2. TypeOK /\ FrameInv /\ TypeOK' /\ OneWriteInv /\ [Next]_vars => OneWriteInv'
  BY OneWriteNext
<1>3. OneWriteInv => AtMostOneWrite
  BY DEF OneWriteInv, AtMostOneWrite
<1>. QED BY <1>1, <1>2, <1>3, TypeCorrect, PTL DEF Spec
=============================================================================
