------------------------ MODULE SharedStateProofs ------------------------
(***************************************************************************)
(* Proofs about the components whose workers meet only in Redis or in a      *)
(* table: TaskLock, LLMBreaker, WebhookGuard, HealthReports, KubectlBreaker.  *)
(* They have no variable and no definition in common; each section is about   *)
(* the specification of one of them, for any number of callers and any        *)
(* bounds.                                                                    *)
(***************************************************************************)
EXTENDS TaskLock, LLMBreaker, WebhookGuard, HealthReports, KubectlBreaker,
        FiniteSetTheorems, TLAPS

-----------------------------------------------------------------------------
(* TaskLock. *)

LockTypes ==
  /\ lockKey \in Runs \cup {NoToken} /\ lockLeft \in 0 .. Lease
  /\ lockKey # NoToken => lockLeft > 0
  /\ lockRun \in [Runs -> LockPhases]
  /\ renewing \subseteq Runs /\ due \subseteq renewing
  /\ held \in [Runs -> 0 .. MaxHold] /\ misses \in [Runs -> Nat]
  /\ robbed \subseteq Runs

\* The renewer is still entitled to the key.
Protected(r) ==
  /\ lockRun[r] = "locked"
  /\ misses[r] + 2 <= Lease /\ held[r] < MaxHold /\ r \notin robbed

\* What is left of the lease: each renewal missed in a row costs a period, and so does
\* a tick whose renewal is still to come; the ceiling cuts it.
Secured(r) ==
  /\ lockKey = r /\ r \in renewing
  /\ LET missed == misses[r] + (IF r \in due THEN 1 ELSE 0)
     IN  lockLeft >= Lease - missed \/ lockLeft >= Remaining(r)

LockInv ==
  /\ LockTypes
  /\ \A r \in Runs : lockRun[r] = "idle" => held[r] = 0 /\ misses[r] = 0
  /\ \A r \in renewing : lockRun[r] = "locked"
  /\ \A r \in Runs : Protected(r) => Secured(r)

LEMMA LockConstants ==
  /\ Lease \in Nat /\ Lease >= 2 /\ MaxHold \in Nat /\ Lease <= MaxHold
  /\ NoToken \notin Runs
BY LockAssumption

LEMMA LockInvInit == LockInit => LockInv
BY LockConstants DEF LockInit, LockInv, LockTypes, LockPhases, Protected

LEMMA LockInvNext == LockInv /\ [LockNext]_lockVars => LockInv'
<1>. SUFFICES ASSUME LockInv, [LockNext]_lockVars PROVE LockInv'
  OBVIOUS
<1>. USE LockConstants
<1>1. CASE UNCHANGED lockVars
  BY <1>1 DEF lockVars, LockInv, LockTypes, Protected, Secured, Remaining
<1>2. CASE LockTick
  <2>0. /\ due = {} /\ due' = renewing /\ UNCHANGED <<lockRun, renewing, misses, robbed>>
        /\ lockKey' = IF lockLeft <= 1 THEN NoToken ELSE lockKey
        /\ lockLeft' = IF lockKey = NoToken THEN 0 ELSE lockLeft - 1
        /\ held' = [r \in Runs |-> IF r \in renewing /\ held[r] < MaxHold
                                   THEN held[r] + 1 ELSE held[r]]
    BY <1>2 DEF LockTick
  <2>1. LockTypes'
    BY <2>0 DEF LockInv, LockTypes
  <2>2. /\ \A r \in Runs : lockRun'[r] = "idle" => held'[r] = 0 /\ misses'[r] = 0
        /\ \A r \in renewing' : lockRun'[r] = "locked"
    BY <2>0 DEF LockInv, LockTypes
  <2>3. ASSUME NEW r \in Runs, Protected(r)' PROVE Secured(r)'
    <3>1. Protected(r)
      BY <2>0, <2>3 DEF Protected, LockInv, LockTypes
    <3>2. lockKey = r /\ r \in renewing /\ r \notin due
      BY <2>0, <3>1 DEF LockInv, Secured
    <3>3. held'[r] = held[r] + 1 /\ held'[r] < MaxHold
      BY <2>0, <2>3, <3>1, <3>2 DEF Protected
    <3>4. lockLeft >= Lease - misses[r] \/ lockLeft >= MaxHold - held[r]
      BY <3>1, <3>2 DEF LockInv, LockTypes, Secured, Remaining
    <3>5. lockLeft >= 2
      BY <3>1, <3>3, <3>4 DEF LockInv, LockTypes, Protected
    <3>. QED BY <2>0, <3>2, <3>3, <3>4, <3>5 DEF LockInv, LockTypes, Secured, Remaining
  <2>. QED BY <2>1, <2>2, <2>3 DEF LockInv
<1>3. ASSUME NEW q \in Runs, LockStep(q) PROVE LockInv'
  <2>. USE DEF Goes, RunEnds
  <2>1. CASE LockAcquire(q)
    <3>1. LockTypes'
      BY <2>1 DEF LockAcquire, LockInv, LockTypes, LockPhases
    <3>2. /\ \A r \in Runs : lockRun'[r] = "idle" => held'[r] = 0 /\ misses'[r] = 0
          /\ \A r \in renewing' : lockRun'[r] = "locked"
      BY <2>1 DEF LockAcquire, LockInv, LockTypes
    <3>3. ASSUME NEW r \in Runs, Protected(r)' PROVE Secured(r)'
      <4>1. CASE r = q
        <5>1. held'[q] = 0 /\ misses'[q] = 0 /\ q \notin due'
          BY <2>1 DEF LockAcquire, LockInv, LockTypes
        <5>. QED BY <2>1, <4>1, <5>1 DEF LockAcquire, Secured, Remaining
      <4>2. CASE r # q
        BY <2>1, <3>3, <4>2 DEF LockAcquire, LockInv, LockTypes, Protected, Secured
      <4>. QED BY <4>1, <4>2
    <3>. QED BY <3>1, <3>2, <3>3 DEF LockInv
  <2>2. CASE LockSkip(q) \/ BareEnds(q)
    BY <2>2 DEF LockSkip, BareEnds, LockInv, LockTypes, LockPhases, Protected, Secured,
                Remaining
  <2>3. CASE LockFailOpen(q)
    BY <2>3 DEF LockFailOpen, LockInv, LockTypes, LockPhases, Protected, Secured, Remaining
  <2>4. CASE ReleaseGet(q) \/ WorkerDies(q)
    BY <2>4 DEF ReleaseGet, WorkerDies, LockInv, LockTypes, LockPhases, Protected, Secured,
                Remaining
  <2>5. CASE ReleaseDelete(q)
    BY <2>5 DEF ReleaseDelete, LockInv, LockTypes, LockPhases, Protected, Secured, Remaining
  <2>6. CASE RenewOnce(q)
    BY <2>6 DEF RenewOnce, RenewedLease, LockInv, LockTypes, Protected, Secured, Remaining
  <2>7. CASE RenewMisses(q)
    BY <2>7 DEF RenewMisses, RenewedLease, LockInv, LockTypes, Protected, Secured, Remaining
  <2>. QED BY <1>3, <2>1, <2>2, <2>3, <2>4, <2>5, <2>6, <2>7 DEF LockStep
<1>. QED BY <1>1, <1>2, <1>3 DEF LockNext

\* For any lease, ceiling and number of runs: as long as the renewals missed in a row
\* leave a period of the lease and the ceiling of the hold is not reached, the run
\* keeps its key, unless the release of another run deleted it after its GET.
THEOREM LeaseIsKept == LockSpec => []LeaseProtects
<1>1. LockInv => LeaseProtects
  BY DEF LockInv, LeaseProtects, Protected, Secured
<1>. QED BY <1>1, LockInvInit, LockInvNext, PTL DEF LockSpec

-----------------------------------------------------------------------------
(* KubectlBreaker. *)

LEMMA KubeConstants ==
  /\ IsFiniteSet(Kubers) /\ Cardinality(Kubers) \in Nat
  /\ FailuresToOpen \in Nat /\ FailuresToOpen > 0 /\ MaxKubeFaults \in Nat
  /\ TopCount \in Nat
BY KubeAssumption, FS_CardinalityType DEF Kubers, TopCount

\* The callers that counted up to the threshold and have not reset the counter yet.
Openers == {c \in Kubers : /\ kubeCall[c].at \in {"counted", "opens", "resets"}
                           /\ kubeCall[c].n >= FailuresToOpen}

\* Beyond the threshold every count has a caller that will reset the counter, or had
\* one whose record failed.  So the counter never gets where the model holds inARow.
KubeInv ==
  /\ kubeFails \in [n : Nat, ttl : BOOLEAN]
  /\ kubeCall \in [Kubers -> [at : KubePhases, n : Nat]]
  /\ inARow \in 0 .. TopCount /\ kubeFaults \in 0 .. MaxKubeFaults
  /\ kubeFails.n < FailuresToOpen + Cardinality(Openers) + kubeFaults
  /\ CountsInARow

LEMMA OpenersBounded ==
  /\ IsFiniteSet(Openers) /\ Cardinality(Openers) \in Nat
  /\ Cardinality(Openers) <= Cardinality(Kubers)
BY KubeConstants, FS_Subset, FS_CardinalityType DEF Openers

LEMMA KubeInvInit == KubeInit => KubeInv
<1>. SUFFICES ASSUME KubeInit PROVE KubeInv
  OBVIOUS
<1>1. Openers = {}
  BY DEF KubeInit, Openers, NoCall
<1>. QED BY <1>1, FS_EmptySet, KubeConstants
         DEF KubeInit, KubeInv, NoCall, NoCounter, KubePhases, CountsInARow

\* How the openers change when one caller moves.
LEMMA OpenersMove ==
  ASSUME KubeInv, NEW c \in Kubers, NEW call, kubeCall' = [kubeCall EXCEPT ![c] = call]
  PROVE  /\ Cardinality(Openers') \in Nat
         /\ Cardinality(Openers') >= Cardinality(Openers) - 1
         /\ (call.at \in {"counted", "opens", "resets"} /\ call.n >= FailuresToOpen)
               => /\ Cardinality(Openers') >= Cardinality(Openers)
                  /\ c \notin Openers => Cardinality(Openers') = Cardinality(Openers) + 1
         /\ c \notin Openers => Cardinality(Openers') >= Cardinality(Openers)
<1>. DEFINE opens == call.at \in {"counted", "opens", "resets"} /\ call.n >= FailuresToOpen
<1>1. Openers' = IF opens THEN Openers \cup {c} ELSE Openers \ {c}
  BY DEF KubeInv, Openers
<1>2. /\ IsFiniteSet(Openers \cup {c}) /\ IsFiniteSet(Openers \ {c})
      /\ Cardinality(Openers \cup {c}) =
            IF c \in Openers THEN Cardinality(Openers) ELSE Cardinality(Openers) + 1
      /\ Cardinality(Openers \ {c}) =
            IF c \in Openers THEN Cardinality(Openers) - 1 ELSE Cardinality(Openers)
  BY OpenersBounded, FS_AddElement, FS_RemoveElement
<1>. HIDE DEF opens
<1>3. CASE opens
  <2>1. Cardinality(Openers') = Cardinality(Openers \cup {c})
    BY <1>1, <1>3
  <2>. QED BY <1>2, <1>3, <2>1, OpenersBounded DEF opens
<1>4. CASE ~opens
  <2>1. Cardinality(Openers') = Cardinality(Openers \ {c})
    BY <1>1, <1>4
  <2>2. Cardinality(Openers \ {c}) \in Nat
    BY <1>2, FS_CardinalityType
  <2>. QED BY <1>2, <1>4, <2>1, <2>2, OpenersBounded DEF opens
<1>. QED BY <1>3, <1>4

LEMMA KubeInvNext == KubeInv /\ [KubeNext]_kubeVars => KubeInv'
<1>. SUFFICES ASSUME KubeInv, [KubeNext]_kubeVars PROVE KubeInv'
  OBVIOUS
<1>. USE KubeConstants
<1>0. /\ kubeFails \in [n : Nat, ttl : BOOLEAN]
      /\ kubeCall \in [Kubers -> [at : KubePhases, n : Nat]]
      /\ inARow \in 0 .. TopCount /\ kubeFaults \in 0 .. MaxKubeFaults
      /\ Cardinality(Openers) \in Nat
      /\ kubeFails.n < FailuresToOpen + Cardinality(Openers) + kubeFaults
      /\ kubeFails.n < TopCount
  BY OpenersBounded DEF KubeInv, TopCount
<1>1. CASE UNCHANGED kubeVars
  BY <1>1 DEF kubeVars, KubeInv, Openers, CountsInARow
<1>2. CASE FlagExpires
  BY <1>2 DEF FlagExpires, KubeInv, Openers, CountsInARow
<1>3. CASE CounterExpires
  <2>1. Openers' = Openers
    BY <1>3 DEF CounterExpires, Openers
  <2>. QED BY <1>0, <1>3, <2>1 DEF CounterExpires, NoCounter, KubeInv, CountsInARow
<1>4. ASSUME NEW c \in Kubers, NEW call, kubeCall' = [kubeCall EXCEPT ![c] = call],
             call \in [at : KubePhases, n : Nat],
             \/ KubeStarts(c) \/ KubeUnguarded(c) \/ KubeFails(c) \/ KubeSucceeds(c)
             \/ KubeCounts(c) \/ KubeDates(c) \/ KubeOpens(c) \/ KubeResets(c)
             \/ KubeRecordFails(c)
      PROVE  KubeInv'
  <2>0. /\ kubeCall' \in [Kubers -> [at : KubePhases, n : Nat]]
        /\ kubeCall'[c] = call /\ \A d \in Kubers \ {c} : kubeCall'[d] = kubeCall[d]
    BY <1>0, <1>4
  <2>1. kubeCall[c].at \in {"idle", "calls", "failed", "succeeded"} => c \notin Openers
    BY DEF Openers
  <2>10. /\ Cardinality(Openers') \in Nat
         /\ Cardinality(Openers') >= Cardinality(Openers) - 1
         /\ (call.at \in {"counted", "opens", "resets"} /\ call.n >= FailuresToOpen)
               => /\ Cardinality(Openers') >= Cardinality(Openers)
                  /\ c \notin Openers => Cardinality(Openers') = Cardinality(Openers) + 1
         /\ c \notin Openers => Cardinality(Openers') >= Cardinality(Openers)
    BY <1>4, OpenersMove
  <2>2. CASE KubeStarts(c) \/ KubeUnguarded(c) \/ KubeFails(c)
    <3>1. /\ UNCHANGED <<kubeFails, inARow, unreset>> /\ kubeCall[c].at \in {"idle", "calls"}
          /\ kubeFaults' \in 0 .. MaxKubeFaults /\ kubeFaults' >= kubeFaults
      BY <1>0, <2>2 DEF KubeStarts, KubeUnguarded, KubeFails, KubeFault
    <3>2. CountsInARow'
      BY <2>0, <3>1 DEF KubeInv, CountsInARow
    <3>. QED BY <1>0, <1>4, <2>0, <2>1, <3>1, <3>2, <2>10 DEF KubeInv
  <2>3. CASE KubeSucceeds(c)
    <3>1. call.at = "succeeded" /\ kubeCall[c].at = "calls"
      BY <1>0, <2>0, <2>3 DEF KubeSucceeds, KubeGoes
    <3>2. CountsInARow'
      BY <2>0, <3>1 DEF CountsInARow
    <3>. QED BY <1>0, <1>4, <2>0, <2>1, <2>3, <3>1, <3>2, <2>10
             DEF KubeInv, KubeSucceeds
  <2>4. CASE KubeCounts(c)
    <3>1. /\ kubeFails' = [kubeFails EXCEPT !.n = @ + 1] /\ OneMoreInARow
          /\ UNCHANGED <<unreset, kubeFaults>> /\ kubeCall[c].at = "failed"
          /\ call = [at |-> "counted", n |-> kubeFails.n + 1]
      BY <1>0, <2>0, <2>4 DEF KubeCounts
    <3>2. /\ kubeFails'.n = kubeFails.n + 1 /\ kubeFails' \in [n : Nat, ttl : BOOLEAN]
          /\ inARow' \in 0 .. TopCount
          /\ inARow' = inARow + 1 \/ inARow' = TopCount
      BY <1>0, <3>1 DEF OneMoreInARow
    <3>3. CountsInARow'
      BY <1>0, <2>0, <3>1, <3>2 DEF KubeInv, CountsInARow
    <3>4. kubeFails'.n < FailuresToOpen + Cardinality(Openers') + kubeFaults'
      BY <1>0, <1>4, <2>1, <3>1, <3>2, <2>10
    <3>. QED BY <1>0, <2>0, <3>1, <3>2, <3>3, <3>4 DEF KubeInv
  <2>5. CASE KubeDates(c)
    <3>1. /\ UNCHANGED <<inARow, unreset, kubeFaults>> /\ kubeCall[c].at = "counted"
          /\ kubeFails'.n = kubeFails.n /\ kubeFails' \in [n : Nat, ttl : BOOLEAN]
      BY <1>0, <2>5 DEF KubeDates
    <3>2. c \in Openers => call.at = "opens" /\ call.n >= FailuresToOpen
      BY <1>0, <2>0, <2>5 DEF KubeDates, KubeGoes, Openers
    <3>3. CountsInARow'
      BY <2>0, <3>1 DEF KubeInv, CountsInARow
    <3>. QED BY <1>0, <1>4, <2>0, <3>1, <3>2, <3>3, <2>10 DEF KubeInv
  <2>6. CASE KubeOpens(c)
    <3>1. /\ UNCHANGED <<kubeFails, inARow, unreset, kubeFaults>> /\ kubeCall[c].at = "opens"
          /\ call.at = "resets" /\ call.n = kubeCall[c].n
      BY <1>0, <2>0, <2>6 DEF KubeOpens, KubeGoes
    <3>2. c \in Openers => call.n >= FailuresToOpen
      BY <3>1 DEF Openers
    <3>3. CountsInARow'
      BY <2>0, <3>1 DEF KubeInv, CountsInARow
    <3>. QED BY <1>0, <1>4, <2>0, <3>1, <3>2, <3>3, <2>10 DEF KubeInv
  <2>7. CASE KubeResets(c)
    <3>1. kubeFails' = NoCounter /\ UNCHANGED <<inARow, kubeFaults>>
      BY <2>7 DEF KubeResets
    <3>. QED BY <1>0, <1>4, <2>0, <3>1, <2>10 DEF KubeInv, CountsInARow, NoCounter
  <2>8. CASE KubeRecordFails(c)
    <3>1. /\ kubeFaults' = kubeFaults + 1 /\ kubeFaults' \in 0 .. MaxKubeFaults
          /\ unreset' = (unreset \/ (kubeCall[c].at = "succeeded" /\ kubeFails.n > 0))
      BY <1>0, <2>8 DEF KubeRecordFails, KubeFault
    <3>2. \/ UNCHANGED <<kubeFails, inARow>>
          \/ /\ kubeCall[c].at = "failed" /\ OneMoreInARow
             /\ kubeFails' = [kubeFails EXCEPT !.n = @ + 1]
      BY <2>8 DEF KubeRecordFails
    <3>3. /\ kubeFails' \in [n : Nat, ttl : BOOLEAN] /\ inARow' \in 0 .. TopCount
          /\ \/ kubeFails'.n = kubeFails.n /\ inARow' = inARow
             \/ /\ kubeFails'.n = kubeFails.n + 1 /\ kubeCall[c].at = "failed"
                /\ inARow' = inARow + 1 \/ inARow' = TopCount
      BY <1>0, <3>2 DEF OneMoreInARow
    <3>4. CountsInARow'
      <4>1. SUFFICES ASSUME kubeFails'.n > inARow', ~unreset'
                     PROVE  \E d \in Kubers : kubeCall'[d].at = "succeeded"
        BY DEF CountsInARow
      <4>2. kubeFails.n > inARow
        BY <1>0, <3>3, <4>1
      <4>3. ~unreset /\ ~(kubeCall[c].at = "succeeded" /\ kubeFails.n > 0)
        BY <3>1, <4>1
      <4>4. PICK d \in Kubers : kubeCall[d].at = "succeeded"
        BY <4>2, <4>3 DEF KubeInv, CountsInARow
      <4>5. d # c
        BY <1>0, <4>2, <4>3, <4>4
      <4>. QED BY <2>0, <4>4, <4>5
    <3>. QED BY <1>0, <2>0, <2>1, <2>10, <3>1, <3>3, <3>4 DEF KubeInv
  <2>. QED BY <1>4, <2>2, <2>3, <2>4, <2>5, <2>6, <2>7, <2>8
<1>5. ASSUME NEW c \in Kubers,
             \/ KubeStarts(c) \/ KubeUnguarded(c) \/ KubeFails(c) \/ KubeSucceeds(c)
             \/ KubeCounts(c) \/ KubeDates(c) \/ KubeOpens(c) \/ KubeResets(c)
             \/ KubeRecordFails(c)
      PROVE  \E call \in [at : KubePhases, n : Nat] :
                kubeCall' = [kubeCall EXCEPT ![c] = call]
  <2>. DEFINE moved(phase) == [kubeCall[c] EXCEPT !.at = phase]
  <2>1. \A phase \in KubePhases : moved(phase) \in [at : KubePhases, n : Nat]
    BY <1>0
  <2>2. NoCall \in [at : KubePhases, n : Nat]
    BY DEF NoCall, KubePhases
  <2>3. [at |-> "counted", n |-> kubeFails.n + 1] \in [at : KubePhases, n : Nat]
    BY <1>0 DEF KubePhases
  <2>4. \/ \E phase \in KubePhases : KubeGoes(c, phase)
        \/ KubeEnds(c)
        \/ kubeCall' = [kubeCall EXCEPT ![c] = [at |-> "counted", n |-> kubeFails.n + 1]]
    BY <1>5 DEF KubeStarts, KubeUnguarded, KubeFails, KubeSucceeds, KubeCounts, KubeDates,
                KubeOpens, KubeResets, KubeRecordFails, KubePhases
  <2>5. \A phase : KubeGoes(c, phase) => kubeCall' = [kubeCall EXCEPT ![c] = moved(phase)]
    BY <1>0 DEF KubeGoes
  <2>. HIDE DEF moved
  <2>. QED BY <2>1, <2>2, <2>3, <2>4, <2>5 DEF KubeEnds
<1>. QED BY <1>1, <1>2, <1>3, <1>4, <1>5 DEF KubeNext, KubeRefused

\* For any number of callers, threshold and failing commands: what the shared counter
\* shows beyond the failures in a row is about to be reset by a success, or was left
\* by one whose reset Redis did not take.
THEOREM CounterIsHonest == KubeSpec => []CountsInARow
<1>1. KubeInv => CountsInARow
  BY DEF KubeInv
<1>. QED BY <1>1, KubeInvInit, KubeInvNext, PTL DEF KubeSpec

-----------------------------------------------------------------------------
(* HealthReports. *)

SendingOf(fp) == {r \in Reporters : reporter[r].at = "sends" /\ reporter[r].fp = fp}
Claimed(fp) ==
  fp \in marked \/ \E r \in Reporters : reporter[r].at \in {"sends", "marks"}
                                       /\ reporter[r].fp = fp

\* Each embed and each run about to send one is excused, but for one while the window
\* of the set is closed or a run is about to close it.
EmbedsInv ==
  /\ reporter \in [Reporters -> [at : FirePhases, fp : Problems \cup {NoReport.fp}]]
  /\ \A r \in Reporters : reporter[r].at # "idle" => reporter[r].fp \in Problems
  /\ embeds \in [Problems -> Nat] /\ excuses \in [Problems -> Nat]
  /\ \A fp \in Problems :
       embeds[fp] + Cardinality(SendingOf(fp)) <= excuses[fp] + (IF Claimed(fp) THEN 1 ELSE 0)

LEMMA SendingFinite ==
  ASSUME NEW fp
  PROVE  IsFiniteSet(SendingOf(fp)) /\ Cardinality(SendingOf(fp)) \in Nat
BY ReportsAssumption, FS_Subset, FS_CardinalityType DEF SendingOf

LEMMA EmbedsInit == ReportsInit => EmbedsInv
<1>. SUFFICES ASSUME ReportsInit PROVE EmbedsInv
  OBVIOUS
<1>1. NoReport \in [at : FirePhases, fp : Problems \cup {NoReport.fp}] /\ NoReport.at = "idle"
  BY DEF NoReport, FirePhases
<1>2. ASSUME NEW fp \in Problems PROVE SendingOf(fp) = {}
  BY <1>1 DEF ReportsInit, SendingOf
<1>. QED BY <1>1, <1>2, FS_EmptySet DEF ReportsInit, EmbedsInv

\* How the senders of a set change when one run moves.
LEMMA SendingMove ==
  ASSUME EmbedsInv, NEW r \in Reporters, NEW run, reporter' = [reporter EXCEPT ![r] = run],
         NEW fp
  PROVE  /\ Cardinality(SendingOf(fp)') \in Nat
         /\ run.at = "sends" /\ run.fp = fp =>
              Cardinality(SendingOf(fp)') <= Cardinality(SendingOf(fp)) + 1
         /\ ~(run.at = "sends" /\ run.fp = fp) =>
              /\ Cardinality(SendingOf(fp)') <= Cardinality(SendingOf(fp))
              /\ r \in SendingOf(fp) =>
                   Cardinality(SendingOf(fp)') = Cardinality(SendingOf(fp)) - 1
<1>. DEFINE sends == run.at = "sends" /\ run.fp = fp
<1>1. SendingOf(fp)' = IF sends THEN SendingOf(fp) \cup {r} ELSE SendingOf(fp) \ {r}
  BY DEF EmbedsInv, SendingOf
<1>2. /\ Cardinality(SendingOf(fp) \cup {r}) =
            IF r \in SendingOf(fp) THEN Cardinality(SendingOf(fp))
                                   ELSE Cardinality(SendingOf(fp)) + 1
      /\ Cardinality(SendingOf(fp) \ {r}) =
            IF r \in SendingOf(fp) THEN Cardinality(SendingOf(fp)) - 1
                                   ELSE Cardinality(SendingOf(fp))
      /\ Cardinality(SendingOf(fp) \cup {r}) \in Nat
      /\ Cardinality(SendingOf(fp) \ {r}) \in Nat
  BY SendingFinite, FS_AddElement, FS_RemoveElement, FS_CardinalityType
<1>. HIDE DEF sends
<1>3. CASE sends
  <2>1. Cardinality(SendingOf(fp)') = Cardinality(SendingOf(fp) \cup {r})
    BY <1>1, <1>3
  <2>. QED BY <1>2, <1>3, <2>1, SendingFinite DEF sends
<1>4. CASE ~sends
  <2>1. Cardinality(SendingOf(fp)') = Cardinality(SendingOf(fp) \ {r})
    BY <1>1, <1>4
  <2>. QED BY <1>2, <1>4, <2>1, SendingFinite DEF sends
<1>. QED BY <1>3, <1>4

\* One step of a run that is about the set fp0: nothing changes for the other sets.
LEMMA EmbedsStep ==
  ASSUME EmbedsInv, NEW r \in Reporters, NEW fp0 \in Problems,
         reporter[r].fp = fp0 \/ reporter[r].at = "idle",
         reporter'[r] \in [at : FirePhases, fp : Problems \cup {NoReport.fp}],
         reporter'[r].at # "idle" => reporter'[r].fp = fp0,
         reporter' = [reporter EXCEPT ![r] = reporter'[r]],
         embeds' \in [Problems -> Nat], excuses' \in [Problems -> Nat],
         \A fp \in Problems \ {fp0} : embeds'[fp] = embeds[fp] /\ excuses'[fp] = excuses[fp],
         marked \subseteq marked', marked' \subseteq marked \cup {fp0},
         embeds'[fp0] + Cardinality(SendingOf(fp0)')
            <= excuses'[fp0] + (IF Claimed(fp0)' THEN 1 ELSE 0)
  PROVE  EmbedsInv'
<1>0. \A q \in Reporters \ {r} : reporter'[q] = reporter[q]
  BY DEF EmbedsInv
<1>1. /\ reporter' \in [Reporters -> [at : FirePhases, fp : Problems \cup {NoReport.fp}]]
      /\ \A q \in Reporters : reporter'[q].at # "idle" => reporter'[q].fp \in Problems
  BY <1>0 DEF EmbedsInv
<1>2. ASSUME NEW fp \in Problems
      PROVE  embeds'[fp] + Cardinality(SendingOf(fp)')
                <= excuses'[fp] + (IF Claimed(fp)' THEN 1 ELSE 0)
  <2>1. CASE fp = fp0
    BY <2>1
  <2>2. CASE fp # fp0
    <3>1. SendingOf(fp)' = SendingOf(fp)
      BY <1>0, <2>2 DEF SendingOf
    <3>2. Claimed(fp)' <=> Claimed(fp)
      BY <1>0, <2>2 DEF Claimed
    <3>. QED BY <2>2, <3>1, <3>2 DEF EmbedsInv
  <2>. QED BY <2>1, <2>2
<1>. QED BY <1>1, <1>2 DEF EmbedsInv

\* How a run leaves its place.
LEMMA ReportMoves ==
  ASSUME EmbedsInv, NEW r \in Reporters, NEW fp \in Problems, reporter[r].fp = fp,
         \/ ReportEnds(r)
         \/ \E phase \in {"sends", "marks"} : ReportGoes(r, phase)
  PROVE  /\ reporter' = [reporter EXCEPT ![r] = reporter'[r]]
         /\ reporter'[r] \in [at : FirePhases, fp : Problems \cup {NoReport.fp}]
         /\ reporter'[r].at # "idle" => reporter'[r].fp = fp
         /\ reporter'[r].at \in {"sends", "marks"} => Claimed(fp)'
         /\ ReportEnds(r) => reporter'[r].at = "idle"
         /\ \A phase \in {"sends", "marks"} : ReportGoes(r, phase) => reporter'[r].at = phase
<1>1. /\ reporter \in [Reporters -> [at : FirePhases, fp : Problems \cup {NoReport.fp}]]
      /\ NoReport \in [at : FirePhases, fp : Problems \cup {NoReport.fp}]
      /\ NoReport.at = "idle"
  BY DEF EmbedsInv, NoReport, FirePhases
<1>2. CASE ReportEnds(r)
  <2>1. reporter'[r] = NoReport /\ reporter' = [reporter EXCEPT ![r] = reporter'[r]]
    BY <1>1, <1>2 DEF ReportEnds
  <2>2. \A phase \in {"sends", "marks"} : ~ReportGoes(r, phase)
    BY <1>1, <2>1 DEF ReportGoes
  <2>. QED BY <1>1, <2>1, <2>2
<1>3. ASSUME NEW phase \in {"sends", "marks"}, ReportGoes(r, phase)
      PROVE  /\ reporter' = [reporter EXCEPT ![r] = reporter'[r]]
             /\ reporter'[r] \in [at : FirePhases, fp : Problems \cup {NoReport.fp}]
             /\ reporter'[r].at = phase /\ reporter'[r].fp = fp
  BY <1>1, <1>3 DEF ReportGoes, FirePhases
<1>4. ASSUME NEW phase \in {"sends", "marks"}, ReportGoes(r, phase)
      PROVE  ~ReportEnds(r) /\ Claimed(fp)'
  <2>1. reporter'[r].at = phase /\ reporter'[r].fp = fp
    BY <1>3, <1>4
  <2>2. ReportEnds(r) => reporter'[r].at = "idle"
    BY <1>1 DEF ReportEnds
  <2>. QED BY <2>1, <2>2 DEF Claimed
<1>. QED BY <1>2, <1>3, <1>4

LEMMA EmbedsNext == EmbedsInv /\ [ReportsNext]_fireVars => EmbedsInv'
<1>. SUFFICES ASSUME EmbedsInv, [ReportsNext]_fireVars PROVE EmbedsInv'
  OBVIOUS
<1>0. /\ reporter \in [Reporters -> [at : FirePhases, fp : Problems \cup {NoReport.fp}]]
      /\ embeds \in [Problems -> Nat] /\ excuses \in [Problems -> Nat]
  BY DEF EmbedsInv
<1>1. CASE UNCHANGED fireVars
  BY <1>1 DEF fireVars, EmbedsInv, SendingOf, Claimed
<1>2. ASSUME NEW fp \in Problems, MarkExpires(fp) PROVE EmbedsInv'
  <2>1. /\ marked' = marked \ {fp} /\ UNCHANGED reporter
        /\ embeds' = [embeds EXCEPT ![fp] = 0] /\ excuses' = [excuses EXCEPT ![fp] = 0]
        /\ \A r \in Reporters : reporter[r].fp = fp => reporter[r].at \in {"idle", "asks"}
    BY <1>2 DEF MarkExpires
  <2>2. Cardinality(SendingOf(fp)') = 0
    <3>1. SendingOf(fp)' = {}
      BY <2>1 DEF SendingOf
    <3>. QED BY <3>1, FS_EmptySet
  <2>3. ASSUME NEW f \in Problems
        PROVE  embeds'[f] + Cardinality(SendingOf(f)')
                  <= excuses'[f] + (IF Claimed(f)' THEN 1 ELSE 0)
    <3>1. CASE f = fp
      <4>1. embeds'[fp] = 0 /\ excuses'[fp] = 0
        BY <1>0, <2>1
      <4>. QED BY <2>2, <3>1, <4>1
    <3>2. CASE f # fp
      <4>1. SendingOf(f)' = SendingOf(f) /\ (Claimed(f)' <=> Claimed(f))
        BY <2>1, <3>2 DEF SendingOf, Claimed
      <4>. QED BY <1>0, <2>1, <3>2, <4>1 DEF EmbedsInv
    <3>. QED BY <3>1, <3>2
  <2>. QED BY <1>0, <2>1, <2>3 DEF EmbedsInv
<1>3. ASSUME NEW r \in Reporters, NEW fp \in Problems, Finds(r, fp) PROVE EmbedsInv'
  <2>1. /\ reporter' = [reporter EXCEPT ![r] = [at |-> "asks", fp |-> fp]]
        /\ reporter[r].at = "idle" /\ UNCHANGED <<marked, embeds, excuses>>
    BY <1>3 DEF Finds
  <2>2. /\ reporter'[r] = [at |-> "asks", fp |-> fp]
        /\ reporter' = [reporter EXCEPT ![r] = reporter'[r]]
        /\ reporter'[r] \in [at : FirePhases, fp : Problems \cup {NoReport.fp}]
    BY <1>0, <2>1 DEF FirePhases
  <2>3. Claimed(fp)' <=> Claimed(fp)
    BY <1>0, <2>1, <2>2 DEF Claimed
  <2>4. SendingOf(fp)' = SendingOf(fp)
    BY <1>0, <2>1, <2>2 DEF SendingOf
  <2>5. embeds'[fp] + Cardinality(SendingOf(fp)')
           <= excuses'[fp] + (IF Claimed(fp)' THEN 1 ELSE 0)
    BY <2>1, <2>3, <2>4 DEF EmbedsInv
  <2>. QED BY <1>0, <2>1, <2>2, <2>5, EmbedsStep
<1>4. ASSUME NEW r \in Reporters, NEW fp \in Problems, reporter[r].fp = fp,
             reporter[r].at # "idle",
             \/ Asks(r) \/ AsksInVain(r) \/ Sends(r) \/ SendRefused(r) \/ SendRaises(r)
             \/ Marks(r) \/ MarkFails(r)
      PROVE  EmbedsInv'
  <2>. DEFINE sending == Cardinality(SendingOf(fp))
              sendingAfter == Cardinality(SendingOf(fp)')
              bonus == IF Claimed(fp) THEN 1 ELSE 0
              bonusAfter == IF Claimed(fp)' THEN 1 ELSE 0
              at == reporter[r].at
              atAfter == reporter'[r].at
  <2>1. /\ reporter' = [reporter EXCEPT ![r] = reporter'[r]]
        /\ reporter'[r] \in [at : FirePhases, fp : Problems \cup {NoReport.fp}]
        /\ atAfter # "idle" => reporter'[r].fp = fp
        /\ atAfter \in {"sends", "marks"} => bonusAfter = 1
        /\ ReportEnds(r) => atAfter = "idle"
        /\ \A phase \in {"sends", "marks"} : ReportGoes(r, phase) => atAfter = phase
    <3>1. ReportEnds(r) \/ \E phase \in {"sends", "marks"} : ReportGoes(r, phase)
      BY <1>4 DEF Asks, AsksInVain, Sends, SendRefused, SendRaises, Marks, MarkFails
    <3>. QED BY <1>4, <3>1, ReportMoves
  <2>2. /\ sendingAfter \in Nat /\ sending \in Nat
        /\ atAfter = "sends" => sendingAfter <= sending + 1
        /\ atAfter # "sends" => sendingAfter <= sending
        /\ atAfter # "sends" /\ at = "sends" => sendingAfter = sending - 1
    <3>1. at = "sends" => r \in SendingOf(fp)
      BY <1>4 DEF SendingOf
    <3>2. /\ sendingAfter \in Nat
          /\ reporter'[r].at = "sends" /\ reporter'[r].fp = fp => sendingAfter <= sending + 1
          /\ ~(reporter'[r].at = "sends" /\ reporter'[r].fp = fp) =>
               /\ sendingAfter <= sending
               /\ r \in SendingOf(fp) => sendingAfter = sending - 1
      <4>. HIDE DEF sending
      <4>. QED BY <2>1, SendingMove DEF sending
    <3>. QED BY <2>1, <3>1, <3>2, SendingFinite
  <2>3. /\ embeds[fp] + sending <= excuses[fp] + bonus
        /\ embeds[fp] \in Nat /\ excuses[fp] \in Nat
        /\ bonus \in 0 .. 1 /\ bonusAfter \in 0 .. 1
        /\ at \in {"sends", "marks"} => bonus = 1
    BY <1>4 DEF EmbedsInv, Claimed
  \* What is left to show of each step.
  <2>4. ASSUME embeds' \in [Problems -> Nat], excuses' \in [Problems -> Nat],
               \A f \in Problems \ {fp} : embeds'[f] = embeds[f] /\ excuses'[f] = excuses[f],
               marked \subseteq marked', marked' \subseteq marked \cup {fp},
               embeds'[fp] + sendingAfter <= excuses'[fp] + bonusAfter
        PROVE  EmbedsInv'
    BY <1>4, <2>1, <2>4, EmbedsStep
  <2>5. ASSUME UNCHANGED embeds, UNCHANGED excuses
        PROVE  /\ embeds' \in [Problems -> Nat] /\ excuses' \in [Problems -> Nat]
               /\ \A f \in Problems : embeds'[f] = embeds[f] /\ excuses'[f] = excuses[f]
    BY <1>0, <2>5
  <2>6. ASSUME UNCHANGED embeds, Excused(fp)
        PROVE  /\ embeds' \in [Problems -> Nat] /\ excuses' \in [Problems -> Nat]
               /\ \A f \in Problems : embeds'[f] = embeds[f]
               /\ \A f \in Problems \ {fp} : excuses'[f] = excuses[f]
               /\ excuses'[fp] = excuses[fp] + 1
    BY <1>0, <2>6 DEF Excused
  <2>7. ASSUME embeds' = [embeds EXCEPT ![fp] = @ + 1]
        PROVE  /\ embeds' \in [Problems -> Nat] /\ embeds'[fp] = embeds[fp] + 1
               /\ \A f \in Problems \ {fp} : embeds'[f] = embeds[f]
    BY <1>0, <2>7
  <2>8. CASE Asks(r)
    <3>1. UNCHANGED <<marked, embeds>> /\ at = "asks"
      BY <2>8 DEF Asks
    <3>2. CASE fp \in marked /\ ReportEnds(r) /\ UNCHANGED excuses
      <4>1. bonusAfter = 1
        BY <3>1, <3>2 DEF Claimed
      <4>. QED BY <2>1, <2>2, <2>3, <2>4, <2>5, <3>1, <3>2, <4>1
    <3>3. CASE ReportGoes(r, "sends") /\ Excused(fp)
      BY <2>1, <2>2, <2>3, <2>4, <2>6, <3>1, <3>3
    <3>4. CASE ReportGoes(r, "sends") /\ fp \notin marked /\ ~Overlaps(r) /\ UNCHANGED excuses
      <4>1. bonus = 0
        BY <1>4, <3>1, <3>4 DEF Overlaps, Claimed
      <4>. QED BY <2>1, <2>2, <2>3, <2>4, <2>5, <3>1, <3>4, <4>1
    <3>. QED BY <1>4, <2>8, <3>2, <3>3, <3>4 DEF Asks
  <2>9. CASE AsksInVain(r)
    <3>1. UNCHANGED <<marked, embeds>> /\ Excused(fp) /\ ReportGoes(r, "sends")
      BY <1>4, <2>9 DEF AsksInVain
    <3>. QED BY <2>1, <2>2, <2>3, <2>4, <2>6, <3>1
  <2>10. CASE Sends(r)
    <3>1. /\ UNCHANGED <<marked, excuses>> /\ at = "sends" /\ ReportGoes(r, "marks")
          /\ embeds' = [embeds EXCEPT ![fp] = @ + 1]
      BY <1>4, <2>10 DEF Sends
    <3>. QED BY <1>0, <2>1, <2>2, <2>3, <2>4, <2>7, <3>1
  <2>11. CASE SendRefused(r)
    <3>1. UNCHANGED <<marked, embeds, excuses>> /\ at = "sends" /\ ReportGoes(r, "marks")
      BY <2>11 DEF SendRefused
    <3>. QED BY <2>1, <2>2, <2>3, <2>4, <2>5, <3>1
  <2>12. CASE SendRaises(r)
    <3>1. /\ UNCHANGED marked /\ at = "sends" /\ ReportEnds(r)
          /\ \/ UNCHANGED embeds /\ UNCHANGED excuses
             \/ embeds' = [embeds EXCEPT ![fp] = @ + 1] /\ Excused(fp)
      BY <1>4, <2>12 DEF SendRaises
    <3>2. CASE UNCHANGED embeds /\ UNCHANGED excuses
      BY <2>1, <2>2, <2>3, <2>4, <2>5, <3>1, <3>2
    <3>3. CASE embeds' = [embeds EXCEPT ![fp] = @ + 1] /\ Excused(fp)
      <4>1. /\ excuses' \in [Problems -> Nat] /\ excuses'[fp] = excuses[fp] + 1
            /\ \A f \in Problems \ {fp} : excuses'[f] = excuses[f]
        BY <1>0, <3>3 DEF Excused
      <4>2. embeds'[fp] + sendingAfter <= excuses'[fp] + bonusAfter
        BY <2>1, <2>2, <2>3, <2>7, <3>1, <3>3, <4>1
      <4>. QED BY <2>4, <2>7, <3>1, <3>3, <4>1, <4>2
    <3>. QED BY <3>1, <3>2, <3>3
  <2>13. CASE Marks(r)
    <3>1. /\ marked' = marked \cup {fp} /\ at = "marks" /\ ReportEnds(r)
          /\ UNCHANGED embeds /\ UNCHANGED excuses
      BY <1>4, <2>13 DEF Marks
    <3>2. bonusAfter = 1
      BY <3>1 DEF Claimed
    <3>. QED BY <2>1, <2>2, <2>3, <2>4, <2>5, <3>1, <3>2
  <2>14. CASE MarkFails(r)
    <3>1. UNCHANGED <<marked, embeds>> /\ at = "marks" /\ Excused(fp) /\ ReportEnds(r)
      BY <1>4, <2>14 DEF MarkFails
    <3>. QED BY <2>1, <2>2, <2>3, <2>4, <2>6, <3>1
  <2>. QED BY <1>4, <2>8, <2>9, <2>10, <2>11, <2>12, <2>13, <2>14
<1>5. ASSUME NEW r \in Reporters,
             \/ Asks(r) \/ AsksInVain(r) \/ Sends(r) \/ SendRefused(r) \/ SendRaises(r)
             \/ Marks(r) \/ MarkFails(r)
      PROVE  EmbedsInv'
  <2>1. reporter[r].at # "idle" /\ reporter[r].fp \in Problems
    BY <1>5 DEF EmbedsInv, Asks, AsksInVain, Sends, SendRefused, SendRaises, Marks, MarkFails
  <2>. QED BY <1>4, <1>5, <2>1
<1>. QED BY <1>1, <1>2, <1>3, <1>5 DEF ReportsNext

\* For any number of runs, sets and faults: every further embed about the same set in a
\* window has a cause that is counted, however the question, the embed and the mark of
\* different runs interleave.
THEOREM EmbedsHaveCauses == ReportsSpec => []EmbedsExplained
<1>1. EmbedsInv => EmbedsExplained
  <2>. SUFFICES ASSUME EmbedsInv, NEW fp \in Problems PROVE embeds[fp] <= 1 + excuses[fp]
    BY DEF EmbedsExplained
  <2>. QED BY SendingFinite DEF EmbedsInv
<1>. QED BY <1>1, EmbedsInit, EmbedsNext, PTL DEF ReportsSpec

-----------------------------------------------------------------------------
(* LLMBreaker. *)

LEMMA BreakerConstants ==
  /\ IsFiniteSet(Callers) /\ MaxTrials \in Nat /\ MaxTrials > 0
  /\ FailThreshold \in Nat /\ Attempts \in Nat
BY BreakerAssumption

\* The slots of the quota that are taken, as far as the quota goes.
Taken == IF cbTrial < MaxTrials THEN cbTrial ELSE MaxTrials
NewProbes == Probing \ windowOf

\* In a half-open phase the probes admitted after the first one of the window are fewer
\* than a quota.  The counter expires only when the others have ended, so these alone
\* can meet the next window.
ProbesInv ==
  /\ llm \in [Callers -> [at : LLMPhases, try : Nat]]
  /\ cbOpen \in BOOLEAN /\ cbHalf \in BOOLEAN /\ cbTrial \in Nat
  /\ windowOf \subseteq Probing
  /\ Cardinality(Probing) < 2 * MaxTrials
  /\ ~cbOpen /\ cbHalf =>
       /\ cbTrial = 0 => Cardinality(Probing) < MaxTrials
       /\ cbTrial > 0 => /\ Cardinality(NewProbes) < Taken
                         /\ Cardinality(Probing) < MaxTrials + Taken

LEMMA ProbingFinite ==
  /\ IsFiniteSet(Probing) /\ Cardinality(Probing) \in Nat
  /\ IsFiniteSet(NewProbes) /\ Cardinality(NewProbes) \in Nat
BY BreakerConstants, FS_Subset, FS_CardinalityType DEF Probing, NewProbes

LEMMA ProbesInit == BreakerInit => ProbesInv
<1>. SUFFICES ASSUME BreakerInit PROVE ProbesInv
  OBVIOUS
<1>1. Probing = {}
  BY DEF BreakerInit, Probing, Rest
<1>2. llm \in [Callers -> [at : LLMPhases, try : Nat]]
  BY DEF BreakerInit, Rest, LLMPhases
<1>3. Cardinality(Probing) = 0 /\ windowOf \subseteq Probing
  BY <1>1, FS_EmptySet DEF BreakerInit
<1>4. cbOpen \in BOOLEAN /\ cbHalf \in BOOLEAN /\ ~cbHalf /\ cbTrial = 0
  BY DEF BreakerInit
<1>. QED BY <1>2, <1>3, <1>4, BreakerConstants DEF ProbesInv

\* A step of a caller that admits no probe and forgets none of the window.
LEMMA NoNewProbe ==
  ASSUME ProbesInv, llm' \in [Callers -> [at : LLMPhases, try : Nat]],
         Probing' \subseteq Probing, windowOf' = windowOf \cap Probing',
         UNCHANGED <<cbOpen, cbHalf>>, cbTrial' \in Nat, cbTrial' >= cbTrial,
         cbTrial = 0 => cbTrial' = 0
  PROVE  ProbesInv'
<1>1. NewProbes' \subseteq NewProbes
  BY DEF NewProbes
<1>2. /\ Cardinality(Probing') <= Cardinality(Probing) /\ Cardinality(Probing') \in Nat
      /\ Cardinality(NewProbes') <= Cardinality(NewProbes) /\ Cardinality(NewProbes') \in Nat
  BY <1>1, ProbingFinite, FS_Subset, FS_CardinalityType
<1>3. Taken \in Nat /\ Taken' \in Nat /\ Taken' >= Taken
  BY BreakerConstants DEF ProbesInv, Taken
<1>. QED BY <1>2, <1>3, BreakerConstants, ProbingFinite DEF ProbesInv

\* A step after which the circuit is not half-open.
LEMMA NotHalfOpen ==
  ASSUME ProbesInv, llm' \in [Callers -> [at : LLMPhases, try : Nat]],
         Probing' \subseteq Probing, windowOf' \subseteq Probing',
         cbOpen' \in BOOLEAN, cbHalf' \in BOOLEAN, cbOpen' \/ ~cbHalf', cbTrial' \in Nat
  PROVE  ProbesInv'
<1>1. Cardinality(Probing') <= Cardinality(Probing) /\ Cardinality(Probing') \in Nat
  BY ProbingFinite, FS_Subset, FS_CardinalityType
<1>. QED BY <1>1, BreakerConstants, ProbingFinite DEF ProbesInv

LEMMA ProbesNext == ProbesInv /\ [BreakerNext]_cbVars => ProbesInv'
<1>. SUFFICES ASSUME ProbesInv, [BreakerNext]_cbVars PROVE ProbesInv'
  OBVIOUS
<1>. USE BreakerConstants
<1>0. /\ llm \in [Callers -> [at : LLMPhases, try : Nat]]
      /\ cbOpen \in BOOLEAN /\ cbHalf \in BOOLEAN /\ cbTrial \in Nat
      /\ windowOf \subseteq Probing /\ Cardinality(Probing) < 2 * MaxTrials
      /\ Rest \in [at : LLMPhases, try : Nat] /\ Rest.at = "idle"
  BY DEF ProbesInv, Rest, LLMPhases
<1>1. CASE UNCHANGED cbVars \/ FailExpires
  <2>1. UNCHANGED <<llm, cbOpen, cbHalf, cbTrial, windowOf>>
    BY <1>1 DEF cbVars, FailExpires
  <2>. QED BY <2>1 DEF ProbesInv, Probing, NewProbes, Taken
<1>2. CASE OpenExpires
  <2>1. cbOpen' \in BOOLEAN /\ UNCHANGED <<cbHalf, cbTrial, llm, windowOf>> /\ Probing = {}
    BY <1>2 DEF OpenExpires, Probing
  <2>2. Probing' = {} /\ NewProbes' = {}
    BY <2>1 DEF Probing, NewProbes
  <2>3. Cardinality(Probing') = 0 /\ Cardinality(NewProbes') = 0
    BY <2>2, FS_EmptySet
  <2>4. cbTrial' > 0 => Taken' > 0 /\ Taken' \in Nat
    BY <1>0, <2>1 DEF Taken
  <2>. QED BY <1>0, <2>1, <2>2, <2>3, <2>4 DEF ProbesInv
<1>3. CASE HalfExpires
  <2>1. cbHalf' = FALSE /\ UNCHANGED <<cbOpen, cbTrial, llm, windowOf>>
    BY <1>3 DEF HalfExpires
  <2>2. Probing' = Probing
    BY <2>1 DEF Probing
  <2>. QED BY <1>0, <2>1, <2>2, NotHalfOpen
<1>4. CASE TrialExpires
  <2>1. /\ cbTrial > 0 /\ windowOf = {} /\ cbTrial' = 0
        /\ UNCHANGED <<cbOpen, cbHalf, llm, windowOf>>
    BY <1>4 DEF TrialExpires
  <2>2. Probing' = Probing /\ NewProbes = Probing
    BY <2>1 DEF Probing, NewProbes
  <2>3. ~cbOpen /\ cbHalf => Cardinality(Probing) < MaxTrials
    BY <1>0, <2>1, <2>2, ProbingFinite DEF ProbesInv, Taken
  <2>. QED BY <1>0, <2>1, <2>2, <2>3 DEF ProbesInv
<1>5. ASSUME NEW c \in Callers, Ask(c) \/ AskUnanswered(c) \/ CallEnds(c) \/ Report(c)
      PROVE  ProbesInv'
  \* Where the caller may go, and what that does to the probes.
  <2>1. ASSUME NEW phase \in LLMPhases, Moves(c, phase)
        PROVE  /\ llm' \in [Callers -> [at : LLMPhases, try : Nat]]
               /\ Probing' = IF phase = "probing" THEN Probing \cup {c} ELSE Probing \ {c}
    BY <1>0, <2>1 DEF Moves, Probing
  <2>2. ASSUME \/ llm' = [llm EXCEPT ![c] = Rest]
               \/ llm' = [llm EXCEPT ![c] = [at |-> "idle", try |-> @.try + 1]]
        PROVE  llm' \in [Callers -> [at : LLMPhases, try : Nat]] /\ Probing' = Probing \ {c}
    BY <1>0, <2>2 DEF Probing, LLMPhases
  <2>3. llm[c].at # "probing" => c \notin Probing /\ Probing \ {c} = Probing
    BY DEF Probing
  <2>4. CASE AskOpen(c) \/ AskClosed(c)
    <3>1. /\ llm[c].at = "idle" /\ UNCHANGED <<cbOpen, cbHalf, cbTrial, windowOf>>
          /\ llm' = [llm EXCEPT ![c] = Rest] \/ Moves(c, "calling")
      BY <2>4 DEF AskOpen, AskClosed
    <3>2. llm' \in [Callers -> [at : LLMPhases, try : Nat]] /\ Probing' = Probing
      BY <2>1, <2>2, <2>3, <3>1 DEF LLMPhases
    <3>. QED BY <1>0, <3>1, <3>2, NoNewProbe
  <2>5. CASE AskHalfOpen(c)
    <3>0. /\ llm[c].at = "idle" /\ ~cbOpen /\ cbHalf /\ UNCHANGED <<cbOpen, cbHalf>>
          /\ cbTrial' = NextTrial
      BY <2>5 DEF AskHalfOpen
    <3>1. CASE TrialAllowed
      <4>1. /\ cbTrial' = cbTrial + 1 /\ cbTrial < MaxTrials
            /\ Moves(c, "probing")
            /\ windowOf' = IF cbTrial = 0 THEN Probing \cup {c} ELSE windowOf
        BY <1>0, <2>5, <3>0, <3>1 DEF AskHalfOpen, TrialAllowed, NextTrial
      <4>2. /\ llm' \in [Callers -> [at : LLMPhases, try : Nat]]
            /\ Probing' = Probing \cup {c} /\ c \notin Probing
        BY <2>1, <2>3, <3>0, <4>1 DEF LLMPhases
      <4>3. Cardinality(Probing') = Cardinality(Probing) + 1
        BY <4>2, ProbingFinite, FS_AddElement
      <4>4. Taken' = Taken + 1 /\ Taken = cbTrial
        BY <1>0, <4>1 DEF Taken
      <4>5. CASE cbTrial = 0
        <5>1. NewProbes' = {}
          BY <4>1, <4>2, <4>5 DEF NewProbes
        <5>. QED BY <1>0, <3>0, <4>1, <4>2, <4>3, <4>4, <4>5, <5>1, FS_EmptySet, ProbingFinite
                 DEF ProbesInv
      <4>6. CASE cbTrial # 0
        <5>1. NewProbes' = NewProbes \cup {c} /\ c \notin NewProbes
          BY <1>0, <4>1, <4>2, <4>6 DEF NewProbes
        <5>2. Cardinality(NewProbes') = Cardinality(NewProbes) + 1
          BY <5>1, ProbingFinite, FS_AddElement
        <5>. QED BY <1>0, <3>0, <4>1, <4>2, <4>3, <4>4, <4>6, <5>2, ProbingFinite
                 DEF ProbesInv
      <4>. QED BY <4>5, <4>6
    <3>2. CASE ~TrialAllowed
      <4>1. llm' = [llm EXCEPT ![c] = Rest] /\ UNCHANGED windowOf
        BY <2>5, <3>2 DEF AskHalfOpen
      <4>2. llm' \in [Callers -> [at : LLMPhases, try : Nat]] /\ Probing' = Probing
        BY <2>2, <2>3, <3>0, <4>1
      <4>3. cbTrial' \in Nat /\ cbTrial' >= cbTrial /\ cbTrial # 0
        BY <1>0, <3>0, <3>2 DEF TrialAllowed, NextTrial
      <4>. QED BY <1>0, <3>0, <4>1, <4>2, <4>3, NoNewProbe
    <3>. QED BY <3>1, <3>2
  <2>6. CASE AskUnanswered(c)
    <3>1. /\ llm[c].at = "idle" /\ Moves(c, "calling") /\ UNCHANGED <<cbOpen, cbHalf>>
          /\ \/ UNCHANGED <<cbTrial, windowOf>>
             \/ /\ ~cbOpen /\ cbHalf /\ cbTrial' = NextTrial
                /\ windowOf' = IF cbTrial = 0 THEN Probing ELSE windowOf
      BY <2>6 DEF AskUnanswered
    <3>2. llm' \in [Callers -> [at : LLMPhases, try : Nat]] /\ Probing' = Probing
      BY <2>1, <2>3, <3>1 DEF LLMPhases
    <3>3. CASE UNCHANGED <<cbTrial, windowOf>>
      BY <1>0, <3>1, <3>2, <3>3, NoNewProbe
    <3>4. CASE cbTrial # 0 /\ cbTrial' = NextTrial /\ windowOf' = windowOf
      <4>1. cbTrial' \in Nat /\ cbTrial' >= cbTrial
        BY <1>0, <3>4 DEF NextTrial
      <4>. QED BY <1>0, <3>1, <3>2, <3>4, <4>1, NoNewProbe
    <3>5. CASE cbTrial = 0 /\ cbTrial' = NextTrial /\ windowOf' = Probing /\ ~cbOpen /\ cbHalf
      <4>1. cbTrial' = 1 /\ Taken' = 1
        BY <3>5 DEF NextTrial, Taken
      <4>2. NewProbes' = {}
        BY <3>2, <3>5 DEF NewProbes
      <4>3. Cardinality(Probing) < MaxTrials
        BY <3>5 DEF ProbesInv
      <4>. QED BY <1>0, <3>1, <3>2, <3>5, <4>1, <4>2, <4>3, FS_EmptySet, ProbingFinite
               DEF ProbesInv
    <3>. QED BY <3>1, <3>3, <3>4, <3>5
  <2>7. CASE CallEnds(c)
    <3>1. /\ llm' = [llm EXCEPT ![c] = Rest] \/ Moves(c, "failed")
          /\ windowOf' = windowOf \ {c} /\ UNCHANGED cbOpen
          /\ \/ cbHalf' \in BOOLEAN /\ ~cbHalf' /\ cbTrial' = 0
             \/ UNCHANGED cbHalf /\ UNCHANGED cbTrial
      BY <2>7 DEF CallEnds, CallSucceeds, CallUnreported, CallFails
    <3>2. llm' \in [Callers -> [at : LLMPhases, try : Nat]] /\ Probing' = Probing \ {c}
      BY <2>1, <2>2, <3>1 DEF LLMPhases
    <3>3. windowOf' = windowOf \cap Probing'
      BY <1>0, <3>1, <3>2
    <3>4. CASE cbHalf' \in BOOLEAN /\ ~cbHalf' /\ cbTrial' = 0
      <4>1. /\ Probing' \subseteq Probing /\ windowOf' \subseteq Probing'
            /\ cbOpen' \in BOOLEAN /\ cbTrial' \in Nat
        BY <1>0, <3>1, <3>2, <3>3, <3>4
      <4>. QED BY <3>2, <3>4, <4>1, NotHalfOpen
    <3>5. CASE UNCHANGED cbHalf /\ UNCHANGED cbTrial
      BY <1>0, <3>1, <3>2, <3>3, <3>5, NoNewProbe
    <3>. QED BY <3>1, <3>4, <3>5
  <2>8. CASE OpensCircuit(c)
    <3>1. /\ cbOpen' /\ cbOpen' \in BOOLEAN /\ cbHalf' \in BOOLEAN
          /\ cbTrial' = 0 /\ windowOf' = {} /\ Moves(c, "reported")
      BY <2>8 DEF OpensCircuit
    <3>2. llm' \in [Callers -> [at : LLMPhases, try : Nat]] /\ Probing' = Probing \ {c}
      BY <2>1, <3>1 DEF LLMPhases
    <3>3. /\ Probing' \subseteq Probing /\ windowOf' \subseteq Probing'
          /\ cbTrial' \in Nat /\ (cbOpen' \/ ~cbHalf')
      BY <3>1, <3>2
    <3>. QED BY <3>1, <3>2, <3>3, NotHalfOpen
  <2>9. CASE ReadsOpen(c) \/ ReadsHalf(c) \/ CountsFailure(c) \/ ReportFails(c) \/ Retries(c)
    <3>1. UNCHANGED <<cbOpen, cbHalf, cbTrial, windowOf>> /\ llm[c].at # "probing"
      BY <2>9 DEF ReadsOpen, ReadsHalf, CountsFailure, ReportFails, Retries
    <3>2. \/ \E phase \in LLMPhases \ {"probing"} : Moves(c, phase)
          \/ llm' = [llm EXCEPT ![c] = Rest]
          \/ llm' = [llm EXCEPT ![c] = [at |-> "idle", try |-> @.try + 1]]
      BY <2>9 DEF ReadsOpen, ReadsHalf, CountsFailure, ReportFails, Retries, LLMPhases
    <3>3. llm' \in [Callers -> [at : LLMPhases, try : Nat]] /\ Probing' = Probing
      BY <2>1, <2>2, <2>3, <3>1, <3>2
    <3>. QED BY <1>0, <3>1, <3>3, NoNewProbe
  <2>. QED BY <1>5, <2>4, <2>5, <2>6, <2>7, <2>8, <2>9 DEF Ask, Report
<1>. QED BY <1>1, <1>2, <1>3, <1>4, <1>5 DEF BreakerNext

\* For any number of agents and any quota: whatever expires, whatever Redis does not
\* answer and however the calls end, a half-open circuit never has two quotas of
\* probes under way.
THEOREM HalfOpenIsGentle == BreakerSpec => []ProbesBounded
<1>1. ProbesInv => ProbesBounded
  BY DEF ProbesInv, ProbesBounded
<1>. QED BY <1>1, ProbesInit, ProbesNext, PTL DEF BreakerSpec

-----------------------------------------------------------------------------
(* WebhookGuard: the replay check. *)

\* Each entry used up a registration that was lost since, was blind, or left the
\* signature registered.
EntriesInv ==
  /\ {entered, blind, lapsed} \subseteq [Batches -> Nat]
  /\ \A b \in Batches :
       entered[b] <= blind[b] + lapsed[b] + (IF b \in nonces THEN 1 ELSE 0)

LEMMA EntriesNext == EntriesInv /\ [GuardNext]_guardVars => EntriesInv'
<1>. SUFFICES ASSUME EntriesInv, [GuardNext]_guardVars PROVE EntriesInv'
  OBVIOUS
<1>. USE DEF EntriesInv
<1>1. CASE UNCHANGED <<nonces, entered, blind, lapsed>>
  BY <1>1
<1>2. ASSUME NEW s \in Slots, ReplayShared(s) PROVE EntriesInv'
  BY <1>2 DEF ReplayShared
<1>3. ASSUME NEW s \in Slots, ReplayUnanswered(s) PROVE EntriesInv'
  <2>. DEFINE b == request[s].batch
  <2>1. /\ nonces \subseteq nonces' /\ UNCHANGED lapsed
        /\ entered' = [entered EXCEPT ![b] = @ + 1] /\ blind' = [blind EXCEPT ![b] = @ + 1]
    BY <1>3 DEF ReplayUnanswered
  <2>. HIDE DEF b
  <2>2. entered' \in [Batches -> Nat] /\ blind' \in [Batches -> Nat]
    <3>1. entered \in [Batches -> Nat] /\ blind \in [Batches -> Nat]
      OBVIOUS
    <3>2. CASE b \in Batches
      BY <2>1, <3>1, <3>2
    <3>3. CASE b \notin Batches
      <4>1. entered' = entered /\ blind' = blind
        BY <2>1, <3>1, <3>3
      <4>. QED BY <3>1, <4>1
    <3>. QED BY <3>2, <3>3
  <2>3. ASSUME NEW c \in Batches
        PROVE  entered'[c] <= blind'[c] + lapsed'[c] + (IF c \in nonces' THEN 1 ELSE 0)
    BY <2>1
  <2>. QED BY <2>1, <2>2, <2>3
<1>4. ASSUME NEW b \in Batches, Lapses(b) PROVE EntriesInv'
  BY <1>4 DEF Lapses
<1>5. ASSUME NEW s \in Slots,
             \/ \E p \in Procs, b \in Batches : Deliver(s, p, b)
             \/ LimitShared(s) \/ LimitFallback(s) \/ ReplayLocal(s)
             \/ HandlerServes(s) \/ HandlerFails(s)
      PROVE  UNCHANGED <<nonces, entered, blind, lapsed>>
  BY <1>5 DEF Deliver, LimitShared, LimitFallback, ReplayLocal, HandlerServes, HandlerFails,
              replayVars
<1>6. UNCHANGED guardVars \/ WindowTurns => UNCHANGED <<nonces, entered, blind, lapsed>>
  BY DEF guardVars, WindowTurns, replayVars
<1>7. \A p \in Procs : CooldownEnds(p) => UNCHANGED <<nonces, entered, blind, lapsed>>
  BY DEF CooldownEnds
<1>. QED BY <1>1, <1>2, <1>3, <1>4, <1>5, <1>6, <1>7 DEF GuardNext

\* For any number of processes, requests in flight and batches: a signature that got past
\* the check more than once did so blindly, or after its registration was lost.
THEOREM EntriesHaveCauses == GuardSpec => []EntriesExplained
<1>1. GuardInit => EntriesInv
  BY DEF GuardInit, EntriesInv
<1>2. EntriesInv => EntriesExplained
  BY DEF EntriesInv, EntriesExplained
<1>. QED BY <1>1, <1>2, EntriesNext, PTL DEF GuardSpec

-----------------------------------------------------------------------------
(* WebhookGuard: the rate limit. *)

LEMMA LimitConstants ==
  /\ IsFiniteSet(Procs) /\ Cardinality(Procs) \in Nat
  /\ RateLimit \in Nat /\ RateLimit > 0
BY GuardAssumption, FS_CardinalityType

\* The counts that let a request through: of the shared counter, and of each process.
SharedPasses == IF hits < RateLimit THEN hits ELSE RateLimit
LocalPasses == {x \in Procs \X (1 .. RateLimit) : x[2] <= localHits[x[1]]}

RateInv ==
  /\ request \in [Slots -> [batch : Batches \cup {NoRequest.batch},
                            proc : Procs \cup {NoRequest.proc}, step : Steps]]
  /\ \A s \in Slots : request[s].step # "none" => request[s].proc \in Procs
  /\ hits \in Nat /\ localHits \in [Procs -> Nat] /\ passed \in Nat
  /\ passed <= SharedPasses + Cardinality(LocalPasses)

LEMMA LocalPassesBounded ==
  /\ IsFiniteSet(LocalPasses) /\ Cardinality(LocalPasses) \in Nat
  /\ Cardinality(LocalPasses) <= Cardinality(Procs) * RateLimit
<1>1. IsFiniteSet(1 .. RateLimit) /\ Cardinality(1 .. RateLimit) = RateLimit
  BY LimitConstants, FS_Interval
<1>2. /\ IsFiniteSet(Procs \X (1 .. RateLimit))
      /\ Cardinality(Procs \X (1 .. RateLimit)) = Cardinality(Procs) * RateLimit
  BY <1>1, LimitConstants, FS_Product
<1>3. LocalPasses \in SUBSET (Procs \X (1 .. RateLimit))
  BY DEF LocalPasses
<1>. QED BY <1>2, <1>3, FS_Subset, FS_CardinalityType

LEMMA RateInit == GuardInit => RateInv
<1>. SUFFICES ASSUME GuardInit PROVE RateInv
  OBVIOUS
<1>1. NoRequest \in [batch : Batches \cup {NoRequest.batch},
                     proc : Procs \cup {NoRequest.proc}, step : Steps]
      /\ NoRequest.step = "none"
  BY DEF NoRequest, Steps
<1>2. LocalPasses = {}
  BY DEF GuardInit, LocalPasses
<1>3. Cardinality(LocalPasses) = 0 /\ SharedPasses = 0
  BY <1>2, FS_EmptySet, LimitConstants DEF GuardInit, SharedPasses
<1>. QED BY <1>1, <1>3 DEF GuardInit, RateInv

\* A request leaves its slot or goes on to its next step.
LEMMA RequestMoves ==
  ASSUME RateInv, NEW s \in Slots, request[s].step # "none",
         Leaves(s) \/ \E step \in Steps : Proceeds(s, step)
  PROVE  /\ request' \in [Slots -> [batch : Batches \cup {NoRequest.batch},
                                    proc : Procs \cup {NoRequest.proc}, step : Steps]]
         /\ \A q \in Slots : request'[q].step # "none" => request'[q].proc \in Procs
<1>1. NoRequest \in [batch : Batches \cup {NoRequest.batch},
                     proc : Procs \cup {NoRequest.proc}, step : Steps]
      /\ NoRequest.step = "none"
  BY DEF NoRequest, Steps
<1>. QED BY <1>1 DEF RateInv, Leaves, Proceeds

LEMMA RateNext == RateInv /\ [GuardNext]_guardVars => RateInv'
<1>. SUFFICES ASSUME RateInv, [GuardNext]_guardVars PROVE RateInv'
  OBVIOUS
<1>. USE LimitConstants
<1>0. /\ request \in [Slots -> [batch : Batches \cup {NoRequest.batch},
                                proc : Procs \cup {NoRequest.proc}, step : Steps]]
      /\ hits \in Nat /\ localHits \in [Procs -> Nat] /\ passed \in Nat
      /\ passed <= SharedPasses + Cardinality(LocalPasses)
      /\ SharedPasses \in Nat /\ Cardinality(LocalPasses) \in Nat
  BY LocalPassesBounded DEF RateInv, SharedPasses
\* A step of a request that the limit has let through.
<1>1. ASSUME UNCHANGED limitVars, NEW s \in Slots, request[s].step # "none",
             Leaves(s) \/ \E step \in Steps : Proceeds(s, step)
      PROVE  RateInv'
  BY <1>1, RequestMoves DEF RateInv, limitVars, SharedPasses, LocalPasses
<1>2. CASE UNCHANGED <<request, limitVars>>
  BY <1>2 DEF RateInv, limitVars, SharedPasses, LocalPasses
<1>3. ASSUME NEW s \in Slots, NEW p \in Procs, NEW b \in Batches, Deliver(s, p, b)
      PROVE  RateInv'
  <2>1. /\ request' = [request EXCEPT ![s] = [batch |-> b, proc |-> p, step |-> "limit"]]
        /\ UNCHANGED limitVars
    BY <1>3 DEF Deliver
  <2>2. /\ request' \in [Slots -> [batch : Batches \cup {NoRequest.batch},
                                   proc : Procs \cup {NoRequest.proc}, step : Steps]]
        /\ \A q \in Slots : request'[q].step # "none" => request'[q].proc \in Procs
    BY <2>1 DEF RateInv, Steps
  <2>. QED BY <2>1, <2>2 DEF RateInv, limitVars, SharedPasses, LocalPasses
<1>4. ASSUME NEW s \in Slots, LimitShared(s) PROVE RateInv'
  <2>1. /\ request[s].step # "none"
        /\ Leaves(s) \/ \E step \in Steps : Proceeds(s, step)
        /\ hits' = Held(hits) /\ UNCHANGED localHits
        /\ \/ hits' > RateLimit /\ UNCHANGED passed
           \/ ~(hits' > RateLimit) /\ passed' = passed + 1
    BY <1>4 DEF LimitShared, At, Steps
  <2>2. Cardinality(LocalPasses') = Cardinality(LocalPasses)
    BY <2>1 DEF LocalPasses
  <2>3. /\ SharedPasses' \in Nat /\ hits' \in Nat /\ passed' \in Nat
        /\ \/ passed' = passed /\ SharedPasses' = SharedPasses
           \/ passed' = passed + 1 /\ SharedPasses' = SharedPasses + 1
    BY <1>0, <2>1 DEF Held, SharedPasses
  <2>4. passed' <= SharedPasses' + Cardinality(LocalPasses')
    BY <1>0, <2>2, <2>3
  <2>5. localHits' \in [Procs -> Nat]
    BY <1>0, <2>1
  <2>. QED BY <2>1, <2>3, <2>4, <2>5, RequestMoves DEF RateInv
<1>5. ASSUME NEW s \in Slots, LimitFallback(s) PROVE RateInv'
  <2>. DEFINE p == request[s].proc
              n == localHits[p]
  <2>0. p \in Procs /\ n \in Nat
    BY <1>0, <1>5 DEF LimitFallback, At, RateInv
  <2>1. /\ request[s].step # "none"
        /\ Leaves(s) \/ \E step \in Steps : Proceeds(s, step)
        /\ hits' \in {hits, Held(hits)} /\ localHits' = [localHits EXCEPT ![p] = Held(n)]
        /\ \/ localHits'[p] > RateLimit /\ UNCHANGED passed
           \/ ~(localHits'[p] > RateLimit) /\ passed' = passed + 1
    BY <1>5 DEF LimitFallback, At, Steps
  <2>2. /\ SharedPasses' \in Nat /\ hits' \in Nat /\ passed' \in Nat
        /\ SharedPasses <= SharedPasses'
    BY <1>0, <2>1 DEF Held, SharedPasses
  <2>3. localHits' \in [Procs -> Nat] /\ localHits'[p] = Held(n)
    BY <1>0, <2>0, <2>1 DEF Held
  <2>. HIDE DEF p
  <2>4. CASE Held(n) > RateLimit /\ UNCHANGED passed
    <3>1. n >= RateLimit
      BY <2>0, <2>4 DEF Held
    <3>2. LocalPasses' = LocalPasses
      BY <1>0, <2>0, <2>1, <2>3, <2>4, <3>1 DEF LocalPasses
    <3>. QED BY <1>0, <2>1, <2>2, <2>3, <2>4, <3>2, RequestMoves DEF RateInv
  <2>5. CASE ~(Held(n) > RateLimit) /\ passed' = passed + 1
    <3>1. Held(n) = n + 1 /\ n + 1 \in 1 .. RateLimit
      BY <2>0, <2>5 DEF Held
    <3>2. LocalPasses' = LocalPasses \cup {<<p, n + 1>>} /\ <<p, n + 1>> \notin LocalPasses
      BY <1>0, <2>0, <2>1, <2>3, <3>1 DEF LocalPasses
    <3>3. Cardinality(LocalPasses') = Cardinality(LocalPasses) + 1
      BY <3>2, LocalPassesBounded, FS_AddElement
    <3>. QED BY <1>0, <2>1, <2>2, <2>3, <2>5, <3>3, RequestMoves DEF RateInv
  <2>. QED BY <2>1, <2>3, <2>4, <2>5
<1>6. CASE WindowTurns
  <2>1. /\ hits' = 0 /\ localHits' = [p \in Procs |-> 0] /\ passed' = 0 /\ UNCHANGED request
    BY <1>6 DEF WindowTurns
  <2>2. SharedPasses' = 0 /\ Cardinality(LocalPasses') \in Nat
    <3>1. LocalPasses' = {}
      BY <2>1 DEF LocalPasses
    <3>. QED BY <2>1, <3>1, FS_EmptySet DEF SharedPasses
  <2>. QED BY <1>0, <2>1, <2>2 DEF RateInv
<1>7. ASSUME NEW s \in Slots,
             \/ ReplayLocal(s) \/ ReplayShared(s) \/ ReplayUnanswered(s)
             \/ HandlerServes(s) \/ HandlerFails(s)
      PROVE  /\ UNCHANGED limitVars /\ request[s].step # "none"
             /\ Leaves(s) \/ \E step \in Steps : Proceeds(s, step)
  BY <1>7 DEF ReplayLocal, ReplayShared, ReplayUnanswered, HandlerServes, HandlerFails, At,
              Steps
<1>8. /\ UNCHANGED guardVars => UNCHANGED <<request, limitVars>>
      /\ \A p \in Procs : CooldownEnds(p) => UNCHANGED <<request, limitVars>>
      /\ \A b \in Batches : Lapses(b) => UNCHANGED <<request, limitVars>>
  BY DEF guardVars, CooldownEnds, Lapses, limitVars
<1>. QED BY <1>1, <1>2, <1>3, <1>4, <1>5, <1>6, <1>7, <1>8 DEF GuardNext

\* For any number of processes and any limit: errors of Redis, in whatever order they
\* come, lift the limit of a window by no more than one limit per process.
THEOREM LimitHoldsWithoutRedis == GuardSpec => []RateBounded
<1>1. RateInv => RateBounded
  <2>. SUFFICES ASSUME RateInv PROVE passed <= RateLimit * (1 + Cardinality(Procs))
    BY DEF RateBounded
  <2>1. SharedPasses <= RateLimit /\ SharedPasses \in Nat /\ passed \in Nat
    BY LimitConstants DEF RateInv, SharedPasses
  <2>2. passed <= RateLimit + Cardinality(Procs) * RateLimit
    <3>. DEFINE most == Cardinality(Procs) * RateLimit
    <3>1. most \in Nat /\ Cardinality(LocalPasses) <= most /\ Cardinality(LocalPasses) \in Nat
      BY LocalPassesBounded, LimitConstants
    <3>. HIDE DEF most
    <3>2. passed <= RateLimit + most
      BY <2>1, <3>1, LimitConstants DEF RateInv
    <3>. QED BY <3>2 DEF most
  <2>3. RateLimit * (1 + Cardinality(Procs)) = RateLimit + Cardinality(Procs) * RateLimit
    BY LimitConstants
  <2>. QED BY <2>2, <2>3
<1>. QED BY <1>1, RateInit, RateNext, PTL DEF GuardSpec

=============================================================================
