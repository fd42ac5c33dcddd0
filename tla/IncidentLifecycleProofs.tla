----------------------- MODULE IncidentLifecycleProofs ----------------------
(***************************************************************************)
(* Proofs about IncidentLifecycle, for any number of webhook requests,     *)
(* tasks, crashes and retries: two requests never start a run of the same  *)
(* closed incident; and for one claim of the row, what a resumed run       *)
(* repeats, how the status moves, and that a report which is owed is sent. *)
(***************************************************************************)
EXTENDS IncidentLifecycle, FiniteSetTheorems, TLAPS

Shape(r) == r \in [status : {r.status}, analysis : {r.analysis}, column : {r.column}]

\* A row that is not being worked on: a claim may follow.
Claimable(s) == s \in {"absent"} \cup Terminal

\* Each claim used up a closing of the row, or the row is open.
Credit == opens <= closes + (IF Claimable(row.status) THEN 0 ELSE 1)

SeenClaimable ==
  \A h \in Handlers : handler[h].pc = "enriching" => Claimable(handler[h].seen)

HandlerType ==
  /\ handler = [h \in Handlers |-> handler[h]]
  /\ \A h \in Handlers :
       handler[h] \in [pc : {handler[h].pc}, seen : {handler[h].seen}]

ClaimInv ==
  /\ opens \in Nat /\ closes \in Nat
  /\ Shape(row)
  /\ HandlerType
  /\ SeenClaimable
  /\ Credit

\* Replacing fields of the row.
LEMMA SetAnalysis ==
  ASSUME NEW r, Shape(r), NEW a
  PROVE  /\ Shape([r EXCEPT !.analysis = a])
         /\ [r EXCEPT !.analysis = a].status = r.status
  BY DEF Shape

LEMMA SetStatus ==
  ASSUME NEW r, Shape(r), NEW s
  PROVE  /\ Shape([r EXCEPT !.status = s])
         /\ [r EXCEPT !.status = s].status = s
  BY DEF Shape

LEMMA SetColumn ==
  ASSUME NEW r, Shape(r), NEW c
  PROVE  /\ Shape([r EXCEPT !.column = c])
         /\ [r EXCEPT !.column = c].status = r.status
  BY DEF Shape

\* A write that is not a claim keeps the credit, whatever status it writes: it
\* closes the row and pays one in, reopens it and owes one, or does neither.
LEMMA WriteKeepsCredit ==
  ASSUME ClaimInv, NEW new, Shape(new), WriteRow(new), opens' = opens,
         new.status = "absent" => row.status = "absent"
  PROVE  /\ opens' \in Nat /\ closes' \in Nat
         /\ Shape(row') /\ Credit'
<1>1. row' = new
  BY DEF WriteRow
<1>2. closes' = IF new.status \in Terminal /\ row.status \notin Terminal
                THEN closes + 1 ELSE closes + 0
  BY DEF WriteRow
<1>3. closes' \in Nat /\ closes' >= closes
  BY <1>2 DEF ClaimInv
<1>4. Credit'
  BY <1>1, <1>2, <1>3 DEF ClaimInv, Credit, Claimable, Terminal
<1>5. Shape(row')
  BY <1>1
<1>6. QED
  BY <1>3, <1>4, <1>5 DEF ClaimInv

\* Only the claim of a request touches the requests and the claims.
LEMMA TaskWrite ==
  ASSUME ClaimInv, NEW new, Shape(new), WriteRow(new),
         new.status = "absent" => row.status = "absent",
         UNCHANGED <<handler, opens>>
  PROVE  ClaimInv'
<1>1. HandlerType' /\ SeenClaimable'
  BY DEF ClaimInv, HandlerType, SeenClaimable
<1>2. QED
  BY <1>1, WriteKeepsCredit DEF ClaimInv

LEMMA NoWrite ==
  ASSUME ClaimInv, UNCHANGED <<row, opens, closes>>, HandlerType', SeenClaimable'
  PROVE  ClaimInv'
  BY DEF ClaimInv, Credit, Shape

LEMMA NothingSeen ==
  ASSUME ClaimInv, UNCHANGED <<row, handler, opens, closes>>
  PROVE  ClaimInv'
  BY NoWrite DEF ClaimInv, HandlerType, SeenClaimable

\* A request that goes on to a state in which it claims nothing.
LEMMA HandlerMoves ==
  ASSUME ClaimInv, NEW h \in Handlers, NEW p, NEW s,
         p = "enriching" => Claimable(s),
         handler' = [handler EXCEPT ![h] = [pc |-> p, seen |-> s]]
  PROVE  HandlerType' /\ SeenClaimable'
<1>1. \A x \in Handlers : handler'[x] = IF x = h THEN [pc |-> p, seen |-> s]
                                       ELSE handler[x]
  BY DEF ClaimInv, HandlerType
<1>2. handler' = [x \in Handlers |-> handler'[x]]
  BY DEF ClaimInv, HandlerType
<1>3. HandlerType'
  BY <1>1, <1>2 DEF ClaimInv, HandlerType
<1>4. SeenClaimable'
  BY <1>1 DEF ClaimInv, SeenClaimable
<1>5. QED
  BY <1>3, <1>4

LEMMA SetBoth ==
  ASSUME NEW r, Shape(r), NEW a, NEW s
  PROVE  /\ Shape([r EXCEPT !.analysis = a, !.status = s])
         /\ [r EXCEPT !.analysis = a, !.status = s].status = s
         /\ Shape([r EXCEPT !.status = s, !.analysis = a])
         /\ [r EXCEPT !.status = s, !.analysis = a].status = s
         /\ [r EXCEPT !.status = s, !.analysis = a]
              = [r EXCEPT !.analysis = a, !.status = s]
  BY DEF Shape

\* A commit of a status and the analysis blob.
LEMMA BothWrite ==
  ASSUME ClaimInv, NEW a, NEW s, s = "absent" => row.status = "absent",
         WriteRow([row EXCEPT !.status = s, !.analysis = a]),
         UNCHANGED <<handler, opens>>
  PROVE  ClaimInv'
<1> DEFINE new == [row EXCEPT !.status = s, !.analysis = a]
<1> Shape(row)
  BY DEF ClaimInv
<1>1. Shape(new) /\ new.status = s
  BY DEF Shape
<1>2. WriteRow(new)
  OBVIOUS
<1> HIDE DEF new
<1>3. QED
  BY <1>1, <1>2, TaskWrite

\* The terminal branch of the task.
LEMMA FailingWrite ==
  ASSUME ClaimInv, NEW a, NEW loaded,
         WriteRow([row EXCEPT !.analysis = a,
                              !.status = FailedFrom(loaded, row.status)]),
         UNCHANGED <<handler, opens>>
  PROVE  ClaimInv'
<1>1. FailedFrom(loaded, row.status) = "absent" => row.status = "absent"
  BY DEF FailedFrom
<1>2. PICK s : s = FailedFrom(loaded, row.status)
  OBVIOUS
<1>3. WriteRow([row EXCEPT !.status = s, !.analysis = a])
  BY <1>2, SetBoth DEF ClaimInv
<1>4. QED
  BY <1>1, <1>2, <1>3, BothWrite

LEMMA InitInv == Init => ClaimInv
  BY DEF Init, ClaimInv, Absent, Shape, HandlerType, SeenClaimable, IdleHandler,
         Credit, Claimable

LEMMA NextInv == ClaimInv /\ [Next]_vars => ClaimInv'
<1> SUFFICES ASSUME ClaimInv, [Next]_vars PROVE ClaimInv'
  OBVIOUS
<1>1. ASSUME NEW h \in Handlers, FireRead(h) PROVE ClaimInv'
  <2>1. HandlerType' /\ SeenClaimable'
    BY <1>1, HandlerMoves DEF FireRead, Claimable
  <2>2. QED
    BY <1>1, <2>1, NoWrite DEF FireRead
<1>2. ASSUME NEW h \in Handlers, FireClaim(h) PROVE ClaimInv'
  <2>1. CASE ClaimWins(h)
    <3>1. Claimable(row.status)
      BY <1>2, <2>1 DEF FireClaim, ClaimWins, ClaimInv, SeenClaimable
    <3>2. opens <= closes
      BY <3>1 DEF ClaimInv, Credit
    <3>3. Shape(row') /\ row'.status = "OPEN" /\ opens' = opens + 1
      <4>1. row' = [row EXCEPT !.status = "OPEN"] /\ opens' = opens + 1
        BY <1>2, <2>1 DEF FireClaim, WriteRow
      <4>2. QED
        BY <4>1, SetStatus DEF ClaimInv
    <3>4. closes' = closes + 0
      BY <1>2, <2>1, SetStatus DEF FireClaim, WriteRow, ClaimInv, Terminal
    <3>5. opens' \in Nat /\ closes' \in Nat /\ Credit'
      BY <3>2, <3>3, <3>4 DEF ClaimInv, Credit, Claimable, Terminal
    <3>6. PICK s : handler' = [handler EXCEPT ![h] = [pc |-> "claimed", seen |-> s]]
      BY <1>2, <2>1 DEF FireClaim, ClaimInv, HandlerType
    <3>7. HandlerType' /\ SeenClaimable'
      <4>1. "claimed" = "enriching" => Claimable(s)
        OBVIOUS
      <4>2. QED
        BY <3>6, <4>1, HandlerMoves, Zenon
    <3>8. QED
      BY <3>3, <3>5, <3>7 DEF ClaimInv
  <2>2. CASE ~ClaimWins(h)
    <3>1. HandlerType' /\ SeenClaimable'
      BY <1>2, <2>2, HandlerMoves DEF FireClaim, IdleHandler
    <3>2. QED
      BY <1>2, <2>2, <3>1, NoWrite DEF FireClaim
  <2>3. QED
    BY <2>1, <2>2
<1>3. ASSUME NEW h \in Handlers, FireDispatch(h) \/ FireLost(h) PROVE ClaimInv'
  <2>1. HandlerType' /\ SeenClaimable'
    BY <1>3, HandlerMoves DEF FireDispatch, FireLost, IdleHandler
  <2>2. QED
    BY <1>3, <2>1, NoWrite DEF FireDispatch, FireLost
<1>4. ASSUME NEW h \in Handlers, ResolveRead(h) PROVE ClaimInv'
  <2>1. HandlerType' /\ SeenClaimable'
    BY <1>4, HandlerMoves DEF ResolveRead
  <2>2. QED
    BY <1>4, <2>1, NoWrite DEF ResolveRead
<1>5. ASSUME NEW h \in Handlers, ResolveWrite(h) PROVE ClaimInv'
  <2>1. HandlerType' /\ SeenClaimable'
    BY <1>5, HandlerMoves DEF ResolveWrite, IdleHandler
  <2>2. CASE UNCHANGED <<row, closes>>
    BY <1>5, <2>1, <2>2, NoWrite DEF ResolveWrite
  <2>3. CASE WriteRow([row EXCEPT !.status = "RESOLVED"])
    <3>1. opens' \in Nat /\ closes' \in Nat /\ Shape(row') /\ Credit'
      BY <1>5, <2>3, SetStatus, WriteKeepsCredit DEF ResolveWrite, ClaimInv
    <3>2. QED
      BY <2>1, <3>1 DEF ClaimInv
  <2>4. QED
    BY <1>5, <2>2, <2>3 DEF ResolveWrite
<1>6. ASSUME NEW t \in Tasks,
             StartSkipped(t) \/ StartResends(t) \/ StartRuns(t)
               \/ KgPopulateFails(t) \/ StageReenters(t) \/ TimeLimit(t)
               \/ Crash(t) \/ Ack(t)
      PROVE  ClaimInv'
  BY <1>6, NothingSeen DEF StartSkipped, StartResends, StartRuns, KgPopulateFails,
                           StageReenters, TimeLimit, Crash, Ack
<1>7. ASSUME NEW t, NEW v, RecordResolvedEarly(t, v) PROVE ClaimInv'
  BY <1>7, SetAnalysis, TaskWrite DEF RecordResolvedEarly, ClaimInv
<1>8. ASSUME NEW t \in Tasks, StageCommits(t) PROVE ClaimInv'
  <2> DEFINE s == StageStates[task[t].at + 1]
  <2>1. s # "absent"
    BY <1>8 DEF StageCommits, AtStage, Stages, StageStates
  <2>2. PICK a : WriteRow([row EXCEPT !.status = s, !.analysis = a])
    BY <1>8 DEF StageCommits
  <2>3. UNCHANGED <<handler, opens>>
    BY <1>8 DEF StageCommits
  <2> HIDE DEF s
  <2>4. QED
    BY <2>1, <2>2, <2>3, BothWrite
<1>9. ASSUME NEW t, NEW a, RunFails(t, a) PROVE ClaimInv'
  BY <1>9, FailingWrite DEF RunFails
<1>10. ASSUME NEW t \in Tasks, Suppress(t) PROVE ClaimInv'
  <2>1. CASE \E a : /\ WriteRow([row EXCEPT !.status = "RESOLVED", !.analysis = a])
                    /\ UNCHANGED <<handler, opens>>
    <3>1. PICK a : /\ WriteRow([row EXCEPT !.status = "RESOLVED", !.analysis = a])
                   /\ UNCHANGED <<handler, opens>>
      BY <2>1
    <3>2. QED
      BY <3>1, BothWrite
  <2>2. CASE \E a : RunFails(t, a)
    BY <2>2, <1>9
  <2>3. QED
    BY <1>10, <2>1, <2>2 DEF Suppress
<1>11. ASSUME NEW t \in Tasks, NEW final \in {"RESOLVED", "TRIAGE_REQUIRED"},
              Persist(t, final)
       PROVE  ClaimInv'
  <2>1. PICK a : WriteRow([row EXCEPT !.status = final, !.analysis = a])
    BY <1>11 DEF Persist
  <2>2. UNCHANGED <<handler, opens>>
    BY <1>11 DEF Persist
  <2>3. QED
    BY <2>1, <2>2, BothWrite
<1>12. ASSUME NEW t \in Tasks, Transient(t) PROVE ClaimInv'
  <2>1. CASE Requeue(t) /\ UNCHANGED <<handler, opens>>
    BY <2>1, NothingSeen DEF Requeue
  <2>2. CASE \E a : RunFails(t, a)
    BY <2>2, <1>9
  <2>3. QED
    BY <1>12, <2>1, <2>2 DEF Transient
<1>13. ASSUME NEW t \in Tasks, NEW locked, Delivery(t, locked) PROVE ClaimInv'
  <2>1. CASE RefreshArgs(t, locked)
    <3>1. PICK a : WriteRow([row EXCEPT !.analysis = a])
      BY <2>1 DEF RefreshArgs
    <3>2. UNCHANGED <<handler, opens>>
      BY <2>1 DEF RefreshArgs
    <3>3. QED
      BY <3>1, <3>2, SetAnalysis, TaskWrite DEF ClaimInv
  <2>2. CASE Sent(t, locked) \/ GaveUp(t, locked)
    <3>1. PICK s : WriteRow(Marked(t, locked, s))
      BY <2>2 DEF Sent, GaveUp
    <3>2. UNCHANGED <<handler, opens>>
      BY <2>2 DEF Sent, GaveUp
    <3>3. Shape(Marked(t, locked, s)) /\ Marked(t, locked, s).status = row.status
      BY DEF Marked, MarkedRow, ClaimInv, Shape
    <3>4. QED
      BY <3>1, <3>2, <3>3, TaskWrite
  <2>3. CASE Undelivered(t, locked)
    <3>1. UNCHANGED <<handler, opens>>
      BY <2>3 DEF Undelivered
    <3>2. CASE WriteRow([row EXCEPT !.analysis = Bumped(t, locked)])
      BY <3>1, <3>2, SetAnalysis, TaskWrite DEF ClaimInv
    <3>3. CASE WriteRow([row EXCEPT !.analysis = Bumped(t, locked),
                           !.status = FailedFrom(Locked(t, locked).status, @)])
      BY <3>1, <3>3, FailingWrite
    <3>4. QED
      BY <2>3, <3>2, <3>3 DEF Undelivered
  <2>4. QED
    BY <1>13, <2>1, <2>2, <2>3 DEF Delivery
<1>14. CASE UNCHANGED vars
  BY <1>14, NothingSeen DEF vars
<1>15. ASSUME NEW t \in Tasks, TaskStep(t) PROVE ClaimInv'
  BY <1>15, <1>6, <1>7, <1>8, <1>9, <1>10, <1>11, <1>13
     DEF TaskStep, StartClosed, StageHalts, StageInvalid, Permanent
<1>16. QED
  BY <1>1, <1>2, <1>3, <1>4, <1>5, <1>6, <1>12, <1>14, <1>15 DEF Next, HandlerStep

\* webhooks.py, _claim_refire and the UNIQUE fingerprint: two requests that saw
\* the same closed incident do not both start a run of it.
THEOREM ClaimsAreExclusive == Spec => []ClaimsAlternate
<1>1. ClaimInv => ClaimsAlternate
  BY DEF ClaimInv, Credit, ClaimsAlternate
<1>2. QED
  BY InitInv, NextInv, <1>1, PTL DEF Spec

-----------------------------------------------------------------------------
(* Facts about the state machine. *)

\* The pipeline stages in order.
LEMMA StageFacts ==
  /\ Stages = 1 .. 4
  /\ StageStates[1] = "INVESTIGATING" /\ StageStates[2] = "FACTS_COLLECTED"
  /\ StageStates[3] = "HYPOTHESIS_GENERATED" /\ StageStates[4] = "FIX_PROPOSED"
BY DEF Stages, StageStates

\* _STAGE_ORDER as numbers.
LEMMA OrderFacts ==
  /\ DOMAIN Order = {"OPEN", "INVESTIGATING", "FACTS_COLLECTED",
                     "HYPOTHESIS_GENERATED", "FIX_PROPOSED"}
  /\ Order["OPEN"] = 0 /\ Order["INVESTIGATING"] = 1 /\ Order["FACTS_COLLECTED"] = 2
  /\ Order["HYPOTHESIS_GENERATED"] = 3 /\ Order["FIX_PROPOSED"] = 4
<1>1. \A s : s \in {"OPEN"} \cup {StageStates[k] : k \in Stages} <=>
          s \in {"OPEN", "INVESTIGATING", "FACTS_COLLECTED",
                     "HYPOTHESIS_GENERATED", "FIX_PROPOSED"}
  BY StageFacts
<1>2. DOMAIN Order = {"OPEN"} \cup {StageStates[k] : k \in Stages}
  BY DEF Order
<1>3. ASSUME NEW j \in 0 .. 4, NEW s \in DOMAIN Order,
             \A k \in Stages \cup {0} :
               ((k = 0 /\ s = "OPEN") \/ (k \in Stages /\ StageStates[k] = s)) <=> k = j
      PROVE  Order[s] = j
  <2>1. Order[s] = CHOOSE k \in Stages \cup {0} :
              (k = 0 /\ s = "OPEN") \/ (k \in Stages /\ StageStates[k] = s)
    BY DEF Order
  <2>2. j \in Stages \cup {0}
    BY StageFacts
  <2>. QED BY <1>3, <2>1, <2>2
<1>4. Order["OPEN"] = 0
  <2>1. \A k \in Stages \cup {0} :
         ((k = 0 /\ "OPEN" = "OPEN") \/ (k \in Stages /\ StageStates[k] = "OPEN")) <=> k = 0
    BY StageFacts
  <2>. QED BY <1>1, <1>2, <1>3, <2>1
<1>5. Order["INVESTIGATING"] = 1
  <2>1. \A k \in Stages \cup {0} :
         ((k = 0 /\ "INVESTIGATING" = "OPEN")
           \/ (k \in Stages /\ StageStates[k] = "INVESTIGATING")) <=> k = 1
    BY StageFacts
  <2>. QED BY <1>1, <1>2, <1>3, <2>1
<1>6. Order["FACTS_COLLECTED"] = 2
  <2>1. \A k \in Stages \cup {0} :
         ((k = 0 /\ "FACTS_COLLECTED" = "OPEN")
           \/ (k \in Stages /\ StageStates[k] = "FACTS_COLLECTED")) <=> k = 2
    BY StageFacts
  <2>. QED BY <1>1, <1>2, <1>3, <2>1
<1>7. Order["HYPOTHESIS_GENERATED"] = 3
  <2>1. \A k \in Stages \cup {0} :
         ((k = 0 /\ "HYPOTHESIS_GENERATED" = "OPEN")
           \/ (k \in Stages /\ StageStates[k] = "HYPOTHESIS_GENERATED")) <=> k = 3
    BY StageFacts
  <2>. QED BY <1>1, <1>2, <1>3, <2>1
<1>8. Order["FIX_PROPOSED"] = 4
  <2>1. \A k \in Stages \cup {0} :
         ((k = 0 /\ "FIX_PROPOSED" = "OPEN")
           \/ (k \in Stages /\ StageStates[k] = "FIX_PROPOSED")) <=> k = 4
    BY StageFacts
  <2>. QED BY <1>1, <1>2, <1>3, <2>1
<1>. QED BY <1>1, <1>2, <1>4, <1>5, <1>6, <1>7, <1>8

\* The edges of the state machine that the failing and closing branches ask for.
LEMMA MachineFacts ==
  /\ Statuses = {"OPEN", "INVESTIGATING", "FACTS_COLLECTED", "HYPOTHESIS_GENERATED",
       "FIX_PROPOSED", "APPROVAL_PENDING", "EXECUTING", "RESOLVED",
       "TRIAGE_REQUIRED", "FAILED"}
  /\ \A s \in Statuses : "FAILED" \in TRANSITIONS[s] <=> s \notin Terminal
  /\ "RESOLVED" \in TRANSITIONS["FACTS_COLLECTED"]
  /\ {"RESOLVED", "TRIAGE_REQUIRED"} \subseteq TRANSITIONS["FIX_PROPOSED"]
BY DEF Statuses, TRANSITIONS, Terminal

-----------------------------------------------------------------------------
(* Types, for any number of requests, tasks, resolves and deaths. *)

RowType == [status : Statuses \cup {"absent"}, analysis : Analysis,
            column : {"none", "sent", "failed"}]

\* The frame of a run: TypeOK says nothing of the copy its session loaded, nor of
\* the attempt number it read, and both are written back to the row.
TaskType == [st : {"none", "queued", "running", "staged", "sending", "acking", "done"},
             retries : 0 .. MaxRetries, at : 0 .. 4, copy : RowType,
             expired : BOOLEAN, report : 0 .. MaxAttempts - 1]

FrameTypes ==
  /\ task \in [Tasks -> TaskType]
  /\ budget \in [crashes : Nat, transient : Nat, resolves : Nat]

TypeInv == TypeOK /\ FrameTypes

LEMMA ConstantTypes ==
  /\ MaxFires \in Nat /\ MaxFires >= 1 /\ MaxRetries \in Nat
  /\ MaxAttempts \in Nat /\ MaxAttempts >= 1
  /\ Absent \in RowType /\ NoTask \in TaskType
  /\ {0} \cup Stages = 0 .. 4
<1>1. MaxFires \in Nat /\ MaxFires >= 1 /\ MaxRetries \in Nat
      /\ MaxAttempts \in Nat /\ MaxAttempts >= 1
  BY LifeAssumption
<1>2. NoAnalysis \in Analysis
  BY <1>1 DEF NoAnalysis, Analysis
<1>3. Absent \in RowType
  BY <1>2 DEF Absent, RowType
<1>4. NoTask \in TaskType
  BY <1>1, <1>3 DEF NoTask, TaskType
<1>. QED BY <1>1, <1>3, <1>4, StageFacts

LEMMA ViewType ==
  ASSUME TypeInv, NEW t \in Tasks
  PROVE  View(t) \in RowType /\ View(t).analysis \in Analysis /\ task[t] \in TaskType
BY DEF TypeInv, TypeOK, FrameTypes, TaskType, RowType, View

\* Writes of a well-typed row.
LEMMA TypedWrite ==
  ASSUME TypeInv, NEW new \in RowType, WriteRow(new)
  PROVE  row' \in RowType /\ closes' \in Nat
BY DEF WriteRow, TypeInv, TypeOK

LEMMA TypedRow ==
  ASSUME NEW r \in RowType, NEW a \in Analysis, NEW s \in Statuses \cup {"absent"}
  PROVE  /\ [r EXCEPT !.analysis = a] \in RowType
         /\ [r EXCEPT !.status = s] \in RowType
         /\ [r EXCEPT !.status = s, !.analysis = a] \in RowType
         /\ [r EXCEPT !.analysis = a, !.status = s] \in RowType
BY DEF RowType

\* What remains to be shown when the row is well typed.
LEMMA TypedStep ==
  ASSUME row' \in RowType, closes' \in Nat, opens' \in 0 .. MaxFires,
         handler' \in [Handlers -> [pc : {"idle", "enriching", "claimed", "resolving"},
                                    seen : Statuses \cup {"absent"}]],
         FrameTypes'
  PROVE  TypeInv'
<1>1. \A t \in Tasks : task'[t] \in TaskType
  BY DEF FrameTypes
<1>2. \A x \in TaskType :
        /\ x.st \in {"none", "queued", "running", "staged", "sending", "acking", "done"}
        /\ x.retries \in 0 .. MaxRetries /\ x.at \in {0} \cup Stages
  BY ConstantTypes DEF TaskType
<1>. QED BY <1>1, <1>2 DEF TypeInv, TypeOK, RowType

\* A step of the webhook requests.
LEMMA TypeHandlers ==
  ASSUME TypeInv, NEW h \in Handlers, FireRead(h) \/ ResolveRead(h) \/ HandlerStep(h)
  PROVE  TypeInv'
<1>0. /\ row \in RowType /\ closes \in Nat /\ opens \in 0 .. MaxFires
      /\ handler \in [Handlers -> [pc : {"idle", "enriching", "claimed", "resolving"},
                                   seen : Statuses \cup {"absent"}]]
      /\ FrameTypes /\ MaxFires \in Nat
  BY ConstantTypes DEF TypeInv, TypeOK, RowType
<1>1. handler' \in [Handlers -> [pc : {"idle", "enriching", "claimed", "resolving"},
                                 seen : Statuses \cup {"absent"}]]
  BY <1>0 DEF FireRead, ResolveRead, HandlerStep, FireClaim, FireDispatch, FireLost,
              ResolveWrite, IdleHandler, RowType
<1>2. FrameTypes'
  <2>1. CASE FireDispatch(h)
    BY <1>0, <2>1 DEF FireDispatch, FrameTypes, TaskType
  <2>2. CASE ResolveRead(h)
    BY <1>0, <2>2 DEF ResolveRead, FrameTypes
  <2>3. CASE UNCHANGED <<task, budget>>
    BY <1>0, <2>3 DEF FrameTypes
  <2>. QED BY <2>1, <2>2, <2>3 DEF FireRead, HandlerStep, FireClaim, FireLost, ResolveWrite
<1>3. opens' \in 0 .. MaxFires
  BY <1>0 DEF FireRead, ResolveRead, HandlerStep, FireClaim, FireDispatch, FireLost,
              ResolveWrite
<1>4. row' \in RowType /\ closes' \in Nat
  <2>1. "OPEN" \in Statuses /\ "RESOLVED" \in Statuses
    BY MachineFacts
  <2>2. /\ [row EXCEPT !.status = "OPEN"] \in RowType
        /\ [row EXCEPT !.status = "RESOLVED"] \in RowType
    BY <1>0, <2>1 DEF RowType
  <2>. QED BY <1>0, <2>2, TypedWrite
           DEF FireRead, ResolveRead, HandlerStep, FireClaim, FireDispatch, FireLost,
               ResolveWrite
<1>. QED BY <1>1, <1>2, <1>3, <1>4, TypedStep

\* Frames of a run that ends, is retried or is delivered again.
LEMMA TypedFrames ==
  ASSUME TypeInv, NEW t \in Tasks
  PROVE  /\ Acking(t) \in TaskType
         /\ task[t].retries < MaxRetries => Retried(t) \in TaskType
         /\ [NoTask EXCEPT !.st = "queued", !.retries = task[t].retries] \in TaskType
         /\ [NoTask EXCEPT !.st = "done"] \in TaskType
<1>1. /\ task[t] \in TaskType /\ NoTask \in TaskType /\ Absent \in RowType
      /\ MaxRetries \in Nat
  BY ViewType, ConstantTypes
<1>2. Acking(t) \in TaskType
  BY <1>1 DEF Acking, TaskType
<1>3. \A x \in TaskType, r \in 0 .. MaxRetries :
        /\ [x EXCEPT !.st = "queued", !.retries = r] \in TaskType
        /\ [x EXCEPT !.st = "done"] \in TaskType
  BY DEF TaskType
<1>4. /\ task[t].retries \in 0 .. MaxRetries
      /\ task[t].retries < MaxRetries => task[t].retries + 1 \in 0 .. MaxRetries
  BY <1>1 DEF TaskType
<1>. QED BY <1>1, <1>2, <1>3, <1>4 DEF Retried

\* The markers that close a report keep the blob a blob.
LEMMA TypedBlobs ==
  ASSUME NEW a \in Analysis
  PROVE  /\ [a EXCEPT !.ckpt = 0] \in Analysis
         /\ [a EXCEPT !.ckpt = 0, !.pending = -1] \in Analysis
         /\ \A s \in {"sent", "failed"} :
              [a EXCEPT !.pending = -1, !.done = @ \cup {s}] \in Analysis
<1>1. -1 \in -1 .. MaxAttempts - 1
  BY ConstantTypes
<1>2. \A s \in {"sent", "failed"} : a.done \cup {s} \in SUBSET {"sent", "failed"}
  BY DEF Analysis
<1>. QED BY <1>1, <1>2 DEF Analysis

\* The frame after a stage.
LEMMA TypedAdvance ==
  ASSUME NEW x \in TaskType, NEW r \in RowType, x.at + 1 \in 1 .. 4
  PROVE  [x EXCEPT !.at = @ + 1, !.expired = FALSE, !.copy = r] \in TaskType
<1>1. x.at + 1 \in 0 .. 4
  OBVIOUS
<1>. QED BY <1>1 DEF TaskType

\* A step of a run that leaves the budgets alone and ends in a typed frame.
LEMMA TypedFrame ==
  ASSUME TypeInv, NEW t \in Tasks, NEW f \in TaskType,
         task' = [task EXCEPT ![t] = f]
  PROVE  task' \in [Tasks -> TaskType]
BY DEF TypeInv, FrameTypes

\* The terminal branch writes a typed row.
LEMMA TypedFailure ==
  ASSUME TypeInv, NEW t \in Tasks, NEW a \in Analysis, RunFails(t, a)
  PROVE  row' \in RowType /\ closes' \in Nat /\ task' \in [Tasks -> TaskType]
         /\ UNCHANGED <<handler, opens>>
<1>1. FailedFrom(View(t).status, row.status) \in Statuses \cup {"absent"}
  BY MachineFacts DEF FailedFrom, TypeInv, TypeOK
<1>2. [row EXCEPT !.analysis = a, !.status = FailedFrom(View(t).status, row.status)]
        \in RowType
  BY <1>1, TypedRow DEF TypeInv, TypeOK, RowType
<1>. QED BY <1>2, TypedWrite, TypedFrames, TypedFrame DEF RunFails

\* A step of a run up to its terminal commit.
LEMMA TypeRun ==
  ASSUME TypeInv, NEW t \in Tasks,
         \/ StartSkipped(t) \/ StartResends(t) \/ StartClosed(t) \/ StartRuns(t)
         \/ KgPopulateFails(t) \/ StageHalts(t) \/ StageReenters(t) \/ StageCommits(t)
         \/ StageInvalid(t) \/ Suppress(t) \/ Permanent(t) \/ TimeLimit(t)
         \/ Transient(t) \/ Crash(t) \/ Ack(t)
         \/ \E final \in {"RESOLVED", "TRIAGE_REQUIRED"} : Persist(t, final)
  PROVE  row' \in RowType /\ closes' \in Nat /\ FrameTypes' /\ UNCHANGED <<handler, opens>>
<1>0. /\ row \in RowType /\ closes \in Nat /\ task \in [Tasks -> TaskType]
      /\ budget \in [crashes : Nat, transient : Nat, resolves : Nat]
      /\ row.analysis \in Analysis
  BY DEF TypeInv, TypeOK, FrameTypes, RowType
<1>1. /\ View(t) \in RowType /\ View(t).analysis \in Analysis
      /\ task[t] \in TaskType /\ Acking(t) \in TaskType
  BY ViewType, TypedFrames
<1>2. ASSUME task' \in [Tasks -> TaskType], UNCHANGED <<row, closes, budget, handler, opens>>
      PROVE  row' \in RowType /\ closes' \in Nat /\ FrameTypes'
             /\ UNCHANGED <<handler, opens>>
  BY <1>0, <1>2 DEF FrameTypes
<1>3. CASE StartSkipped(t) \/ TimeLimit(t) \/ Ack(t)
  BY <1>1, <1>2, <1>3, TypedFrame, TypedFrames DEF StartSkipped, TimeLimit, Ack
<1>4. CASE StartResends(t)
  <2>1. row.analysis.pending \in 0 .. MaxAttempts - 1
    BY <1>0, <1>4, ConstantTypes DEF StartResends, LivePending, Analysis
  <2>2. task' \in [Tasks -> TaskType]
    BY <1>0, <1>1, <1>4, <2>1 DEF StartResends, TaskType
  <2>. QED BY <1>2, <1>4, <2>2 DEF StartResends
<1>5. CASE StartRuns(t)
  <2>1. Completed(row) \in 0 .. 4
    BY OrderFacts DEF Completed
  <2>2. task' \in [Tasks -> TaskType]
    BY <1>0, <1>1, <1>5, <2>1 DEF StartRuns, TaskType
  <2>. QED BY <1>2, <1>5, <2>2 DEF StartRuns
<1>6. CASE KgPopulateFails(t)
  <2>1. task' \in [Tasks -> TaskType]
    BY <1>0, <1>1, <1>6 DEF KgPopulateFails, TaskType
  <2>. QED BY <1>2, <1>6, <2>1 DEF KgPopulateFails
<1>7. ASSUME NEW v \in RowType, RecordResolvedEarly(t, v), UNCHANGED budget
      PROVE  row' \in RowType /\ closes' \in Nat /\ FrameTypes'
             /\ UNCHANGED <<handler, opens>>
  <2>1. [v.analysis EXCEPT !.ckpt = 0, !.pending = -1] \in Analysis
    BY TypedBlobs DEF RowType
  <2>2. row' \in RowType /\ closes' \in Nat
    BY <1>0, <1>7, <2>1, TypedRow, TypedWrite DEF RecordResolvedEarly
  <2>. QED BY <1>0, <1>1, <1>7, <2>2, TypedFrame DEF RecordResolvedEarly, FrameTypes
<1>8. CASE StartClosed(t) \/ StageHalts(t)
  BY <1>0, <1>1, <1>7, <1>8 DEF StartClosed, StageHalts, RecordResolvedEarly
<1>9. AtStage(t) => Checkpointed(t) \in Analysis /\ task[t].at + 1 \in 1 .. 4
  BY <1>1, StageFacts DEF AtStage, Checkpointed, Analysis
<1>10. CASE StageReenters(t)
  <2>1. [View(t) EXCEPT !.analysis = Checkpointed(t)] \in RowType
    BY <1>1, <1>9, <1>10 DEF StageReenters, RowType
  <2>2. [task[t] EXCEPT !.at = @ + 1, !.expired = FALSE,
               !.copy = [View(t) EXCEPT !.analysis = Checkpointed(t)]] \in TaskType
    BY <1>1, <1>9, <1>10, <2>1, TypedAdvance DEF StageReenters
  <2>3. task' \in [Tasks -> TaskType]
    BY <1>0, <1>10, <2>2 DEF StageReenters
  <2>. QED BY <1>2, <1>10, <2>3 DEF StageReenters
<1>11. CASE StageCommits(t)
  <2>. DEFINE new == [row EXCEPT !.status = StageStates[task[t].at + 1],
                                 !.analysis = Checkpointed(t)]
  <2>1. /\ WriteRow(new) /\ UNCHANGED <<handler, opens, budget>>
        /\ task' = [task EXCEPT ![t].at = @ + 1, ![t].expired = FALSE, ![t].copy = new]
    BY <1>11 DEF StageCommits
  <2>2. StageStates[task[t].at + 1] \in Statuses
    BY <1>9, <1>11, StageFacts, MachineFacts DEF StageCommits
  <2>3. new \in RowType
    BY <1>0, <1>9, <1>11, <2>2 DEF StageCommits, RowType
  <2>. HIDE DEF new
  <2>4. [task[t] EXCEPT !.at = @ + 1, !.expired = FALSE, !.copy = new] \in TaskType
    BY <1>1, <1>9, <1>11, <2>3, TypedAdvance DEF StageCommits
  <2>5. task' \in [Tasks -> TaskType]
    BY <1>0, <2>1, <2>4
  <2>. QED BY <1>0, <2>1, <2>3, <2>5, TypedWrite DEF FrameTypes
<1>12. ASSUME NEW a \in Analysis, RunFails(t, a),
              budget' \in [crashes : Nat, transient : Nat, resolves : Nat]
       PROVE  row' \in RowType /\ closes' \in Nat /\ FrameTypes'
              /\ UNCHANGED <<handler, opens>>
  BY <1>12, TypedFailure DEF FrameTypes
<1>13. CASE StageInvalid(t) \/ Permanent(t)
  BY <1>0, <1>1, <1>9, <1>12, <1>13 DEF StageInvalid, Permanent
<1>14. CASE Suppress(t)
  <2>1. [View(t).analysis EXCEPT !.ckpt = 0] \in Analysis
    BY <1>1 DEF Analysis
  <2>2. CASE RunFails(t, [View(t).analysis EXCEPT !.ckpt = 0])
    BY <1>0, <1>12, <1>14, <2>1, <2>2 DEF Suppress
  <2>3. CASE /\ WriteRow([row EXCEPT !.status = "RESOLVED",
                                     !.analysis = [View(t).analysis EXCEPT !.ckpt = 0]])
             /\ task' = [task EXCEPT ![t] = Acking(t)]
             /\ UNCHANGED <<handler, opens>>
    <3>1. "RESOLVED" \in Statuses
      BY MachineFacts
    <3>2. row' \in RowType /\ closes' \in Nat
      BY <1>0, <2>1, <2>3, <3>1, TypedRow, TypedWrite
    <3>. QED BY <1>0, <1>1, <1>14, <2>3, <3>2, TypedFrame DEF Suppress, FrameTypes
  <2>. QED BY <1>14, <2>2, <2>3 DEF Suppress
<1>15. ASSUME NEW final \in {"RESOLVED", "TRIAGE_REQUIRED"}, Persist(t, final)
       PROVE  row' \in RowType /\ closes' \in Nat /\ FrameTypes'
              /\ UNCHANGED <<handler, opens>>
  <2>. DEFINE new == [row EXCEPT !.status = final,
                        !.analysis = [ckpt |-> 0, pending |-> 0, done |-> {}]]
  <2>1. /\ WriteRow(new) /\ UNCHANGED <<handler, opens, budget>>
        /\ task' = [task EXCEPT ![t].st = "staged", ![t].copy = new, ![t].report = 0]
    BY <1>15 DEF Persist
  <2>2. [ckpt |-> 0, pending |-> 0, done |-> {}] \in Analysis /\ final \in Statuses
    BY ConstantTypes, MachineFacts DEF Analysis
  <2>3. new \in RowType
    BY <1>0, <2>2, TypedRow
  <2>. HIDE DEF new
  <2>4. task' \in [Tasks -> TaskType]
    <3>1. 0 \in 0 .. MaxAttempts - 1
      BY ConstantTypes
    <3>. QED BY <1>0, <1>1, <2>1, <2>3, <3>1 DEF TaskType
  <2>. QED BY <1>0, <2>1, <2>3, <2>4, TypedWrite DEF FrameTypes
<1>16. CASE Transient(t)
  <2>1. budget' \in [crashes : Nat, transient : Nat, resolves : Nat]
    BY <1>0, <1>16 DEF Transient
  <2>2. CASE RunFails(t, View(t).analysis)
    BY <1>1, <1>12, <2>1, <2>2
  <2>3. CASE task[t].retries < MaxRetries /\ Requeue(t) /\ UNCHANGED <<handler, opens>>
    BY <1>0, <2>1, <2>3, TypedFrames, TypedFrame DEF Requeue, FrameTypes
  <2>. QED BY <1>16, <2>2, <2>3 DEF Transient
<1>17. CASE Crash(t)
  <2>1. task' \in [Tasks -> TaskType]
    BY <1>17, TypedFrames, TypedFrame DEF Crash
  <2>2. budget' \in [crashes : Nat, transient : Nat, resolves : Nat]
    BY <1>0, <1>17 DEF Crash
  <2>. QED BY <1>0, <1>17, <2>1, <2>2 DEF Crash, FrameTypes
<1>. QED BY <1>3, <1>4, <1>5, <1>6, <1>8, <1>10, <1>11, <1>13, <1>14, <1>15, <1>16, <1>17

\* A step of the delivery of a report.
LEMMA TypeDelivery ==
  ASSUME TypeInv, NEW t \in Tasks, NEW locked \in BOOLEAN, Delivery(t, locked)
  PROVE  row' \in RowType /\ closes' \in Nat /\ FrameTypes' /\ UNCHANGED <<handler, opens>>
<1>0. /\ row \in RowType /\ closes \in Nat /\ task \in [Tasks -> TaskType]
      /\ budget \in [crashes : Nat, transient : Nat, resolves : Nat]
      /\ task[t] \in TaskType /\ Acking(t) \in TaskType
      /\ task[t].retries < MaxRetries => Retried(t) \in TaskType
  BY TypedFrames DEF TypeInv, TypeOK, FrameTypes, RowType
<1>1. /\ Locked(t, locked) \in RowType /\ Locked(t, locked).analysis \in Analysis
      /\ Locked(t, locked).status \in Statuses \cup {"absent"}
  BY <1>0 DEF Locked, RowType, TaskType
<1>2. UNCHANGED <<handler, opens, budget>>
  BY DEF Delivery, RefreshArgs, Sent, GaveUp, Undelivered
<1>3. CASE RefreshArgs(t, locked)
  <2>. DEFINE old == Locked(t, locked).analysis
              new == [row EXCEPT !.analysis =
                        [old EXCEPT !.pending = IF @ >= 0 THEN @ ELSE 0]]
  <2>1. WriteRow(new) /\ task' = [task EXCEPT ![t].st = "sending", ![t].copy = new]
    BY <1>3 DEF RefreshArgs
  <2>2. [old EXCEPT !.pending = IF @ >= 0 THEN @ ELSE 0] \in Analysis
    BY <1>1, ConstantTypes DEF Analysis
  <2>3. new \in RowType
    BY <1>0, <2>2 DEF RowType
  <2>. HIDE DEF new
  <2>4. task' \in [Tasks -> TaskType]
    BY <1>0, <2>1, <2>3 DEF TaskType
  <2>. QED BY <1>0, <1>2, <2>1, <2>3, <2>4, TypedWrite DEF FrameTypes
<1>4. ASSUME NEW s \in {"sent", "failed"}, WriteRow(Marked(t, locked, s)),
             task' = [task EXCEPT ![t] = Acking(t)]
      PROVE  row' \in RowType /\ closes' \in Nat /\ FrameTypes'
  <2>1. [Locked(t, locked).analysis EXCEPT !.pending = -1, !.done = @ \cup {s}] \in Analysis
    BY <1>1, TypedBlobs
  <2>2. Marked(t, locked, s) \in RowType
    BY <1>0, <2>1 DEF Marked, MarkedRow, RowType
  <2>. QED BY <1>0, <1>2, <1>4, <2>2, TypedWrite, TypedFrame DEF FrameTypes
<1>5. CASE Undelivered(t, locked)
  <2>1. Bumped(t, locked) \in Analysis
    BY <1>0, <1>1, <1>5, ConstantTypes DEF Undelivered, AttemptsLeft, Bumped, Analysis, TaskType
  <2>2. FailedFrom(Locked(t, locked).status, row.status) \in Statuses \cup {"absent"}
    BY <1>0, MachineFacts DEF FailedFrom, RowType
  <2>3. /\ [row EXCEPT !.analysis = Bumped(t, locked)] \in RowType
        /\ [row EXCEPT !.analysis = Bumped(t, locked),
              !.status = FailedFrom(Locked(t, locked).status, row.status)] \in RowType
    BY <1>0, <2>1, <2>2, TypedRow
  <2>4. row' \in RowType /\ closes' \in Nat
    BY <1>5, <2>3, TypedWrite DEF Undelivered
  <2>5. task' \in [Tasks -> TaskType]
    BY <1>0, <1>5, TypedFrame DEF Undelivered
  <2>. QED BY <1>0, <1>2, <2>4, <2>5 DEF FrameTypes
<1>. QED BY <1>2, <1>3, <1>4, <1>5 DEF Delivery, Sent, GaveUp

LEMMA LifeTypeInit == Init => TypeInv
BY ConstantTypes DEF Init, TypeInv, TypeOK, FrameTypes, IdleHandler, Absent, RowType,
                     TaskType

LEMMA LifeTypeNext == TypeInv /\ [Next]_vars => TypeInv'
<1>. SUFFICES ASSUME TypeInv, [Next]_vars PROVE TypeInv'
  OBVIOUS
<1>1. CASE UNCHANGED vars
  BY <1>1 DEF vars, TypeInv, TypeOK, FrameTypes
<1>2. ASSUME NEW t \in Tasks, TaskStep(t) \/ Transient(t) \/ Crash(t) PROVE TypeInv'
  <2>1. /\ row' \in RowType /\ closes' \in Nat /\ FrameTypes'
        /\ UNCHANGED <<handler, opens>>
    BY <1>2, TypeRun, TypeDelivery, LifeAssumption DEF TaskStep
  <2>. QED BY <2>1, TypedStep DEF TypeInv, TypeOK
<1>. QED BY <1>1, <1>2, TypeHandlers DEF Next

\* The row, the requests and the tasks keep their types: the attempts of a pending
\* report stay below MAX_ATTEMPTS and the retries of a task within max_retries.
THEOREM LifeTypeCorrect == Spec => []TypeInv
BY LifeTypeInit, LifeTypeNext, PTL DEF Spec

-----------------------------------------------------------------------------
(* One claim of the row and no resolve webhook: nobody else writes the row.  *)
(* Then the copy a run works on is the row, whatever dies, is retried or is  *)
(* delivered again.                                                          *)

Alone == MaxFires = 1 /\ MaxResolves = 0

Closed == {"RESOLVED", "TRIAGE_REQUIRED"}

SoloHandlers ==
  /\ \A h \in Handlers : handler[h].pc # "resolving"
  /\ \A h \in Handlers : handler[h].pc = "claimed" => opens = 1 /\ task[1].st = "none"
  /\ \A h, g \in Handlers : handler[h].pc = "claimed" /\ handler[g].pc = "claimed" => h = g

\* The checkpoint never lags behind the status.
SoloRow ==
  /\ opens = 0 => row.status = "absent" /\ task[1].st = "none"
  /\ opens = 1 /\ task[1].st = "none" => row.status = "OPEN"
  /\ task[1].st # "none" => row.status \in DOMAIN Order \cup Terminal
  /\ row.status \in DOMAIN Order => Order[row.status] <= row.analysis.ckpt

\* A run is at the stage the row names, and only its own failure or closing ends it;
\* a report is sent for a closed row only.
SoloRun ==
  /\ task[1].st = "running" =>
       /\ task[1].copy = row
       /\ row.status \in DOMAIN Order \cup {"FAILED"}
       /\ row.status \in DOMAIN Order => Order[row.status] = task[1].at
       /\ row.status = "FAILED" => task[1].at = 0
  /\ task[1].st \in {"staged", "sending"} => task[1].copy = row /\ row.status \in Closed
  /\ budget.crashes = 0 /\ task[1].st \in {"queued", "running"} => row.status # "FAILED"

SoloInv == SoloHandlers /\ SoloRow /\ SoloRun

\* What a step may do to the status, as StatusFollowsMachine says it.
StatusStep ==
  \/ row'.status = row.status
  \/ row'.status = "OPEN" /\ opens' = opens + 1
  \/ row.status \in Statuses /\ row'.status \in TRANSITIONS[row.status]

LEMMA StageOrder ==
  /\ \A k \in 1 .. 4 : StageStates[k] \in DOMAIN Order /\ Order[StageStates[k]] = k
  /\ \A s \in DOMAIN Order : /\ s \in Statuses /\ s \notin Terminal /\ Order[s] \in 0 .. 4
                             /\ "FAILED" \in TRANSITIONS[s]
                             /\ s # "absent"
  /\ \A s \in DOMAIN Order : Order[s] = 2 => s = "FACTS_COLLECTED"
  /\ \A s \in DOMAIN Order : Order[s] = 4 => s = "FIX_PROPOSED"
BY StageFacts, OrderFacts, MachineFacts DEF Terminal

\* With nobody else on the row, the loaded copy is what is committed.
LEMMA SoloView == SoloRun /\ task[1].st = "running" => View(1) = row
BY DEF SoloRun, View

\* The only task.
LEMMA OneTask ==
  ASSUME Alone, TypeInv
  PROVE  /\ Tasks = {1} /\ task[1] \in TaskType
         /\ row \in RowType /\ row.analysis \in Analysis
         /\ \A f : task' = [task EXCEPT ![1] = f] => task'[1] = f
<1>1. Tasks = {1}
  BY DEF Alone, Tasks
<1>. QED BY <1>1 DEF TypeInv, TypeOK, FrameTypes, RowType

\* What a rewritten row says.
LEMMA RowFields ==
  ASSUME NEW r \in RowType, NEW a, NEW s
  PROVE  /\ [r EXCEPT !.status = s].status = s
         /\ [r EXCEPT !.status = s].analysis = r.analysis
         /\ [r EXCEPT !.analysis = a].status = r.status
         /\ [r EXCEPT !.analysis = a].analysis = a
         /\ [r EXCEPT !.analysis = a, !.status = s].status = s
         /\ [r EXCEPT !.analysis = a, !.status = s].analysis = a
         /\ [r EXCEPT !.status = s, !.analysis = a].status = s
         /\ [r EXCEPT !.status = s, !.analysis = a].analysis = a
BY DEF RowType

LEMMA SoloHandlerSteps ==
  ASSUME Alone, TypeInv, SoloInv, NEW h \in Handlers,
         FireRead(h) \/ ResolveRead(h) \/ HandlerStep(h)
  PROVE  SoloInv' /\ StatusStep
<1>0. /\ handler \in [Handlers -> [pc : {"idle", "enriching", "claimed", "resolving"},
                                   seen : Statuses \cup {"absent"}]]
      /\ opens \in 0 .. 1 /\ budget.resolves \in Nat
  BY DEF TypeInv, TypeOK, FrameTypes, Alone
<1>1. Tasks = {1} /\ task[1] \in TaskType /\ row \in RowType
  BY OneTask
<1>2. ~ResolveRead(h) /\ ~ResolveWrite(h)
  BY <1>0 DEF ResolveRead, ResolveWrite, Alone, SoloInv, SoloHandlers
<1>3. CASE FireRead(h)
  <2>1. /\ UNCHANGED <<row, task, opens, budget>>
        /\ \A g \in Handlers : handler'[g].pc = IF g = h THEN "enriching" ELSE handler[g].pc
    BY <1>0, <1>3 DEF FireRead
  <2>. QED BY <2>1 DEF SoloInv, SoloHandlers, SoloRow, SoloRun, StatusStep
<1>4. CASE FireClaim(h)
  <2>1. opens = 0 /\ UNCHANGED <<task, budget>>
    BY <1>0, <1>4 DEF FireClaim, Alone
  <2>2. /\ row.status = "absent" /\ task[1].st = "none"
        /\ \A g \in Handlers : handler[g].pc # "claimed"
    BY <2>1 DEF SoloInv, SoloHandlers, SoloRow
  <2>3. CASE ClaimWins(h)
    <3>1. /\ row' = [row EXCEPT !.status = "OPEN"] /\ opens' = 1
          /\ \A g \in Handlers : handler'[g].pc = IF g = h THEN "claimed" ELSE handler[g].pc
      BY <1>0, <1>4, <2>1, <2>3 DEF FireClaim, WriteRow
    <3>2. row'.status = "OPEN" /\ row'.analysis = row.analysis
      BY <1>1, <3>1, RowFields
    <3>3. row'.analysis.ckpt \in 0 .. 4
      BY <1>1, <3>2, StageFacts DEF RowType, Analysis
    <3>4. SoloRow'
      BY <2>1, <2>2, <3>1, <3>2, <3>3, OrderFacts DEF SoloRow
    <3>5. SoloHandlers'
      BY <2>1, <2>2, <3>1 DEF SoloInv, SoloHandlers
    <3>. QED BY <2>1, <2>2, <3>1, <3>2, <3>4, <3>5 DEF SoloInv, SoloRun, StatusStep
  <2>4. CASE ~ClaimWins(h)
    <3>1. /\ UNCHANGED <<row, opens>>
          /\ \A g \in Handlers : handler'[g].pc = IF g = h THEN "idle" ELSE handler[g].pc
      BY <1>0, <1>4, <2>4 DEF FireClaim, IdleHandler
    <3>. QED BY <2>1, <3>1 DEF SoloInv, SoloHandlers, SoloRow, SoloRun, StatusStep
  <2>. QED BY <2>3, <2>4
<1>5. CASE FireDispatch(h)
  <2>1. /\ task' = [task EXCEPT ![1].st = "queued"] /\ UNCHANGED <<row, opens, budget>>
        /\ handler[h].pc = "claimed"
        /\ \A g \in Handlers : handler'[g].pc = IF g = h THEN "idle" ELSE handler[g].pc
    BY <1>0, <1>1, <1>5 DEF FireDispatch, IdleHandler
  <2>2. task'[1].st = "queued"
    BY <1>1, <2>1 DEF TypeInv, FrameTypes, TaskType
  <2>3. row.status = "OPEN" /\ \A g \in Handlers : handler'[g].pc # "claimed"
    BY <2>1 DEF SoloInv, SoloHandlers, SoloRow
  <2>4. SoloRow'
    BY <2>1, <2>2, <2>3, OrderFacts DEF SoloInv, SoloHandlers, SoloRow
  <2>5. SoloHandlers'
    BY <2>1, <2>3 DEF SoloInv, SoloHandlers
  <2>. QED BY <2>1, <2>2, <2>3, <2>4, <2>5 DEF SoloInv, SoloRun, StatusStep
<1>6. CASE FireLost(h)
  <2>1. /\ UNCHANGED <<row, opens, budget, task>>
        /\ \A g \in Handlers : handler'[g].pc = IF g = h THEN "idle" ELSE handler[g].pc
    BY <1>0, <1>6 DEF FireLost, IdleHandler
  <2>. QED BY <2>1 DEF SoloInv, SoloHandlers, SoloRow, SoloRun, StatusStep
<1>. QED BY <1>2, <1>3, <1>4, <1>5, <1>6 DEF HandlerStep

LEMMA StageCount == Cardinality(Stages) = 4
<1>1. Cardinality(1 .. 4) = IF 1 > 4 THEN 0 ELSE 4 - 1 + 1
  <2>1. 1 \in Int /\ 4 \in Int
    OBVIOUS
  <2>. QED BY <2>1, FS_Interval, Zenon
<1>. QED BY <1>1, StageFacts

\* What is left to show of a step of the task.
LEMMA SoloTaskKept ==
  ASSUME SoloInv, UNCHANGED <<handler, opens>>, opens \in 0 .. 1,
         task[1].st # "none", task'[1].st # "none",
         row'.status \in DOMAIN Order \cup Terminal,
         row'.status \in DOMAIN Order => Order[row'.status] <= row'.analysis.ckpt,
         SoloRun'
  PROVE  SoloInv'
BY DEF SoloInv, SoloHandlers, SoloRow

\* A step that only moves the task, out of its run.
LEMMA SoloLeaves ==
  ASSUME SoloInv, UNCHANGED <<row, handler, opens, budget>>, opens \in 0 .. 1,
         task[1].st # "none", task'[1].st \in {"acking", "done"}
  PROVE  SoloInv' /\ StatusStep
BY SoloTaskKept DEF SoloInv, SoloRow, SoloRun, StatusStep

\* A step that closes or fails the row by a legal transition and ends the run.
LEMMA SoloEnds ==
  ASSUME SoloInv, UNCHANGED <<handler, opens>>, opens \in 0 .. 1,
         task[1].st # "none", task'[1].st = "acking",
         row'.status \in Terminal, StatusStep
  PROVE  SoloInv' /\ StatusStep
BY SoloTaskKept, StageOrder DEF SoloRun

\* The terminal branch: an open row fails, a failed one stays as it is.
LEMMA SoloFails ==
  ASSUME Alone, TypeInv, SoloInv, task[1].st = "running", NEW a, RunFails(1, a)
  PROVE  SoloInv' /\ StatusStep
<1>0. /\ opens \in 0 .. 1 /\ row \in RowType
      /\ task \in [Tasks -> TaskType] /\ 1 \in Tasks
  BY OneTask DEF TypeInv, TypeOK, FrameTypes, Alone
<1>1. task'[1].st = "acking" /\ UNCHANGED <<handler, opens>>
  <2>1. task'[1] = Acking(1) /\ UNCHANGED <<handler, opens>>
    BY <1>0 DEF RunFails
  <2>2. task[1] \in TaskType
    BY OneTask
  <2>. QED BY <2>1, <2>2 DEF Acking, TaskType
<1>2. View(1) = row /\ row.status \in DOMAIN Order \cup {"FAILED"}
  BY SoloView DEF SoloInv, SoloRun
<1>3. row'.status = FailedFrom(row.status, row.status)
  BY <1>0, <1>2, RowFields DEF RunFails, WriteRow
<1>4. /\ row.status \in DOMAIN Order => row'.status = "FAILED"
      /\ row.status = "FAILED" => row'.status = "FAILED"
  BY <1>3, StageOrder DEF FailedFrom
<1>5. row'.status \in Terminal /\ StatusStep
  BY <1>2, <1>4, StageOrder DEF Terminal, StatusStep
<1>. QED BY <1>0, <1>1, <1>5, SoloEnds

\* _record_resolved_early on a closed row.
LEMMA SoloRecorded ==
  ASSUME Alone, TypeInv, SoloInv, task[1].st # "none", row.status \in Closed,
         NEW v, RecordResolvedEarly(1, v)
  PROVE  SoloInv' /\ StatusStep
<1>0. /\ opens \in 0 .. 1 /\ row \in RowType /\ task[1] \in TaskType
      /\ task \in [Tasks -> TaskType] /\ 1 \in Tasks
  BY OneTask DEF TypeInv, TypeOK, FrameTypes, Alone
<1>1. task'[1].st = "acking" /\ UNCHANGED <<handler, opens>>
  BY <1>0 DEF RecordResolvedEarly, Acking, TaskType
<1>2. row'.status = row.status
  BY <1>0, RowFields DEF RecordResolvedEarly, WriteRow
<1>. QED BY <1>0, <1>1, <1>2, SoloEnds DEF StatusStep, Closed, Terminal

\* A step of the run, up to the commit of its result.
LEMMA SoloRunSteps ==
  ASSUME Alone, TypeInv, SoloInv,
         \/ StartSkipped(1) \/ StartResends(1) \/ StartClosed(1) \/ StartRuns(1)
         \/ KgPopulateFails(1) \/ StageHalts(1) \/ StageReenters(1) \/ StageCommits(1)
         \/ StageInvalid(1) \/ Suppress(1) \/ Permanent(1) \/ TimeLimit(1)
         \/ Transient(1) \/ Crash(1) \/ Ack(1)
         \/ \E final \in Closed : Persist(1, final)
  PROVE  SoloInv' /\ StatusStep
<1>0. /\ opens \in 0 .. 1 /\ row \in RowType /\ row.analysis \in Analysis
      /\ task[1] \in TaskType
      /\ task \in [Tasks -> TaskType] /\ 1 \in Tasks
      /\ budget \in [crashes : Nat, transient : Nat, resolves : Nat]
  BY OneTask DEF TypeInv, TypeOK, FrameTypes, Alone
<1>1. CASE StartSkipped(1) \/ TimeLimit(1) \/ Ack(1)
  <2>1. Acking(1).st = "acking" /\ [NoTask EXCEPT !.st = "done"].st = "done"
    BY <1>0 DEF Acking, NoTask, TaskType
  <2>2. task' = [task EXCEPT ![1] = Acking(1)]
          \/ task' = [task EXCEPT ![1] = [NoTask EXCEPT !.st = "done"]]
    BY <1>1 DEF StartSkipped, TimeLimit, Ack
  <2>3. task'[1].st \in {"acking", "done"}
    BY <1>0, <2>1, <2>2
  <2>. QED BY <1>0, <1>1, <2>3, SoloLeaves DEF StartSkipped, TimeLimit, Ack
<1>2. CASE StartResends(1)
  <2>1. task'[1].st = "sending" /\ task'[1].copy = row
    BY <1>0, <1>2 DEF StartResends, TaskType
  <2>. QED BY <1>0, <1>2, <2>1, SoloTaskKept, StageOrder
           DEF StartResends, SoloInv, SoloRow, SoloRun, StatusStep, Closed
<1>3. CASE StartClosed(1)
  BY <1>3, SoloRecorded DEF StartClosed, Closed
<1>4. CASE StartRuns(1)
  <2>1. task'[1].st = "running" /\ task'[1].copy = row /\ task'[1].at = Completed(row)
    BY <1>0, <1>4 DEF StartRuns, TaskType
  <2>2. row.status \in DOMAIN Order \cup {"FAILED"}
    BY <1>4 DEF StartRuns, SoloInv, SoloRow, Terminal
  <2>3. /\ row.status \in DOMAIN Order => Completed(row) = Order[row.status]
        /\ row.status = "FAILED" => Completed(row) = 0
    BY StageOrder DEF SoloInv, SoloRow, Completed, Terminal
  <2>. QED BY <1>0, <1>4, <2>1, <2>2, <2>3, SoloTaskKept
           DEF StartRuns, SoloInv, SoloRow, SoloRun, StatusStep
<1>5. CASE KgPopulateFails(1)
  <2>1. /\ task'[1].st = task[1].st /\ task'[1].copy = task[1].copy
        /\ task'[1].at = task[1].at
    BY <1>0, <1>5 DEF KgPopulateFails, TaskType
  <2>. QED BY <1>0, <1>5, <2>1, SoloTaskKept
           DEF KgPopulateFails, SoloInv, SoloRow, SoloRun, StatusStep
<1>6. CASE StageHalts(1)
  <2>1. FALSE
    BY <1>6, SoloView, StageOrder DEF StageHalts, AtStage, SoloInv, SoloRun, Terminal
  <2>. QED BY <2>1
<1>7. CASE StageReenters(1)
  <2>1. FALSE
    BY <1>0, <1>7, SoloView, StageOrder DEF StageReenters, AtStage, SoloInv, SoloRun, TaskType
  <2>. QED BY <2>1
<1>8. CASE StageCommits(1)
  <2>. DEFINE k == task[1].at + 1
              new == [row EXCEPT !.status = StageStates[k], !.analysis = Checkpointed(1)]
  <2>1. /\ row' = new /\ UNCHANGED <<handler, opens, budget>>
        /\ task' = [task EXCEPT ![1].at = @ + 1, ![1].expired = FALSE, ![1].copy = new]
        /\ StageStates[k] \in TRANSITIONS[View(1).status] /\ task[1].st = "running"
    BY <1>8 DEF StageCommits, WriteRow, AtStage
  <2>2. k \in 1 .. 4
    BY <1>8, StageFacts DEF StageCommits, AtStage
  <2>3. View(1) = row /\ row.status \in DOMAIN Order
    BY <1>8, SoloView DEF StageCommits, AtStage, SoloInv
  <2>4. Checkpointed(1).ckpt = k
    BY <1>0, <2>3 DEF Checkpointed, Analysis
  <2>5. row'.status = StageStates[k] /\ row'.analysis.ckpt = k
    BY <1>0, <2>1, <2>4, RowFields
  <2>6. /\ row'.status \in DOMAIN Order /\ Order[row'.status] = k
        /\ row'.status \notin Terminal
    BY <2>2, <2>5, StageOrder
  <2>7. task'[1].st = "running" /\ task'[1].at = k /\ task'[1].copy = row'
    <3>. HIDE DEF new
    <3>. QED BY <1>0, <2>1 DEF TaskType
  <2>8. StatusStep
    BY <2>1, <2>3, <2>5, StageOrder DEF StatusStep
  <2>9. SoloRun'
    BY <2>6, <2>7 DEF SoloRun, Terminal
  <2>. QED BY <1>0, <2>1, <2>2, <2>5, <2>6, <2>7, <2>8, <2>9, SoloTaskKept
<1>9. CASE StageInvalid(1)
  BY <1>9, SoloFails DEF StageInvalid, AtStage
<1>10. CASE Permanent(1)
  BY <1>10, SoloFails DEF Permanent
<1>11. CASE Suppress(1)
  <2>1. CASE "RESOLVED" \in TRANSITIONS[View(1).status]
    <3>1. /\ row' = [row EXCEPT !.status = "RESOLVED",
                                !.analysis = [View(1).analysis EXCEPT !.ckpt = 0]]
          /\ task' = [task EXCEPT ![1] = Acking(1)] /\ UNCHANGED <<handler, opens>>
          /\ task[1].st = "running" /\ task[1].at = 2
      BY <1>11, <2>1 DEF Suppress, WriteRow
    <3>2. View(1) = row /\ row.status \in DOMAIN Order
      BY <3>1, SoloView DEF SoloInv, SoloRun
    <3>3. row'.status = "RESOLVED" /\ StatusStep
      BY <1>0, <2>1, <3>1, <3>2, RowFields, StageOrder DEF StatusStep
    <3>4. task'[1].st = "acking"
      BY <1>0, <3>1 DEF Acking, TaskType
    <3>. QED BY <1>0, <3>1, <3>3, <3>4, SoloEnds DEF Terminal
  <2>2. CASE "RESOLVED" \notin TRANSITIONS[View(1).status]
    BY <1>11, <2>2, SoloFails DEF Suppress
  <2>. QED BY <2>1, <2>2
<1>12. ASSUME NEW final \in Closed, Persist(1, final) PROVE SoloInv' /\ StatusStep
  <2>. DEFINE new == [row EXCEPT !.status = final,
                        !.analysis = [ckpt |-> 0, pending |-> 0, done |-> {}]]
  <2>1. /\ row' = new /\ UNCHANGED <<handler, opens, budget>>
        /\ task' = [task EXCEPT ![1].st = "staged", ![1].copy = new, ![1].report = 0]
        /\ task[1].st = "running" /\ task[1].at = 4
    BY <1>12, StageCount DEF Persist, WriteRow
  <2>2. row.status = "FIX_PROPOSED"
    BY <2>1, StageOrder DEF SoloInv, SoloRun
  <2>3. row'.status = final
    BY <1>0, <2>1, RowFields
  <2>4. StatusStep
    BY <2>2, <2>3, MachineFacts DEF StatusStep, Closed
  <2>5. task'[1].st = "staged" /\ task'[1].copy = row'
    <3>. HIDE DEF new
    <3>. QED BY <1>0, <2>1 DEF TaskType
  <2>6. row'.status \in Terminal /\ row'.status \notin DOMAIN Order
    BY <2>3, StageOrder DEF Closed, Terminal
  <2>. QED BY <1>0, <2>1, <2>3, <2>4, <2>5, <2>6, SoloTaskKept DEF SoloRun
<1>13. CASE Transient(1)
  <2>1. CASE Requeue(1) /\ UNCHANGED <<handler, opens>>
    <3>1. task'[1].st = "queued" /\ row' = row /\ task[1].st = "running"
      BY <1>0, <1>13, <2>1 DEF Transient, Requeue, Retried, NoTask
    <3>2. budget'.crashes = budget.crashes
      BY <1>0, <1>13 DEF Transient
    <3>. QED BY <1>0, <2>1, <3>1, <3>2, SoloTaskKept
             DEF SoloInv, SoloRow, SoloRun, StatusStep
  <2>2. CASE RunFails(1, View(1).analysis)
    BY <1>13, <2>2, SoloFails DEF Transient
  <2>. QED BY <1>13, <2>1, <2>2 DEF Transient
<1>14. CASE Crash(1)
  <2>1. /\ task'[1].st = "queued" /\ UNCHANGED <<row, handler, opens>>
        /\ task[1].st # "none" /\ budget'.crashes = budget.crashes + 1
        /\ budget.crashes \in Nat
    BY <1>0, <1>14 DEF Crash, NoTask
  <2>. QED BY <1>0, <2>1, SoloTaskKept DEF SoloInv, SoloRow, SoloRun, StatusStep
<1>. QED BY <1>1, <1>2, <1>3, <1>4, <1>5, <1>6, <1>7, <1>8, <1>9, <1>10, <1>11, <1>12,
            <1>13, <1>14

\* What a delivery starts from: the session's copy, locked or not, is the row.
LEMMA SoloSending ==
  ASSUME Alone, TypeInv, SoloInv, NEW locked \in BOOLEAN, Delivery(1, locked)
  PROVE  /\ task[1].st \in {"staged", "sending"} /\ row.status \in Closed
         /\ Locked(1, locked) = row
         /\ UNCHANGED <<handler, opens, budget>>
BY DEF Delivery, RefreshArgs, Sent, GaveUp, Undelivered, Locked, SoloInv, SoloRun

\* A step of the delivery: the status stays closed.
LEMMA SoloDelivery ==
  ASSUME Alone, TypeInv, SoloInv, NEW locked \in BOOLEAN, Delivery(1, locked)
  PROVE  SoloInv' /\ StatusStep
<1>0. /\ opens \in 0 .. 1 /\ row \in RowType /\ row.analysis \in Analysis
      /\ task[1] \in TaskType
      /\ task \in [Tasks -> TaskType] /\ 1 \in Tasks
  BY OneTask DEF TypeInv, TypeOK, FrameTypes, Alone
<1>1. /\ task[1].st \in {"staged", "sending"} /\ row.status \in Closed
      /\ Locked(1, locked) = row
      /\ UNCHANGED <<handler, opens, budget>>
  BY SoloSending
<1>2. row'.status = row.status
  <2>1. CASE RefreshArgs(1, locked)
    BY <1>0, <2>1, RowFields DEF RefreshArgs, WriteRow
  <2>2. ASSUME NEW s, WriteRow(Marked(1, locked, s)) PROVE row'.status = row.status
    BY <1>0, <2>2 DEF WriteRow, Marked, MarkedRow, RowType
  <2>3. CASE Undelivered(1, locked)
    <3>1. FailedFrom(Locked(1, locked).status, row.status) = row.status
      BY <1>1, MachineFacts DEF FailedFrom, Closed, Terminal
    <3>2. \/ row' = [row EXCEPT !.analysis = Bumped(1, locked)]
          \/ row' = [row EXCEPT !.analysis = Bumped(1, locked),
                       !.status = FailedFrom(Locked(1, locked).status, row.status)]
      BY <2>3 DEF Undelivered, WriteRow
    <3>3. \E a : \/ row' = [row EXCEPT !.analysis = a]
                \/ row' = [row EXCEPT !.analysis = a, !.status = row.status]
      BY <3>1, <3>2
    <3>. QED BY <1>0, <3>3 DEF RowType
  <2>. QED BY <2>1, <2>2, <2>3 DEF Delivery, Sent, GaveUp
<1>3. row.status \in Terminal /\ row.status \notin DOMAIN Order /\ row.status # "FAILED"
  BY <1>1, StageOrder DEF Closed, Terminal
<1>4. task'[1].st # "none" /\ SoloRun'
  <2>1. CASE RefreshArgs(1, locked)
    <3>1. PICK new : /\ row' = new
                     /\ task' = [task EXCEPT ![1].st = "sending", ![1].copy = new]
      BY <2>1 DEF RefreshArgs, WriteRow
    <3>2. task'[1].st = "sending" /\ task'[1].copy = row'
      BY <1>0, <3>1 DEF TaskType
    <3>. QED BY <1>1, <1>2, <3>2 DEF SoloRun
  <2>2. CASE task' = [task EXCEPT ![1] = Acking(1)] \/ task' = [task EXCEPT ![1] = Retried(1)]
    <3>1. Acking(1).st = "acking" /\ Retried(1).st = "queued"
      BY <1>0 DEF Acking, Retried, NoTask, TaskType
    <3>2. task'[1].st \in {"acking", "queued"}
      BY <1>0, <2>2, <3>1
    <3>. QED BY <1>2, <1>3, <3>2 DEF SoloRun
  <2>. QED BY <2>1, <2>2 DEF Delivery, Sent, GaveUp, Undelivered
<1>. QED BY <1>0, <1>1, <1>2, <1>3, <1>4, SoloTaskKept DEF StatusStep

LEMMA SoloNext ==
  ASSUME Alone, TypeInv, SoloInv, [Next]_vars
  PROVE  SoloInv' /\ (Next => StatusStep)
<1>1. CASE UNCHANGED vars
  <2>1. StatusStep
    BY <1>1 DEF vars, StatusStep
  <2>. QED BY <1>1, <2>1 DEF vars, SoloInv, SoloHandlers, SoloRow, SoloRun
<1>2. ASSUME NEW t \in Tasks, TaskStep(t) \/ Transient(t) \/ Crash(t)
      PROVE  SoloInv' /\ StatusStep
  <2>1. t = 1 /\ LockOutcomes \subseteq BOOLEAN
    BY OneTask, LifeAssumption
  <2>2. TaskStep(1) \/ Transient(1) \/ Crash(1)
    BY <1>2, <2>1
  <2>. QED BY <2>1, <2>2, SoloRunSteps, SoloDelivery DEF TaskStep, Closed
<1>. QED BY <1>1, <1>2, SoloHandlerSteps DEF Next

LEMMA SoloInit == Alone /\ Init => SoloInv
BY OrderFacts, OneTask, LifeTypeInit
   DEF Init, SoloInv, SoloHandlers, SoloRow, SoloRun, Alone, Tasks, IdleHandler, NoTask,
       Absent

\* For one claim of the row without a resolve webhook, and any number of requests,
\* retries, worker deaths, errors and failed locks: a resumed or redelivered run does
\* not repeat a stage whose result the row already has.
THEOREM NoStageTwice == Alone => (Spec => []NoReburn)
<1>. SUFFICES ASSUME Alone PROVE Spec => []NoReburn
  OBVIOUS
<1>1. TypeInv /\ SoloInv => NoReburn
  <2>. SUFFICES ASSUME TypeInv, SoloInv, NEW t \in Tasks, task[t].st = "running",
                       row.status \in DOMAIN Order
                PROVE  Order[row.status] <= task[t].at
    BY DEF NoReburn
  <2>1. t = 1
    BY OneTask
  <2>. QED BY <2>1, StageOrder DEF SoloInv, SoloRun
<1>. QED BY <1>1, SoloInit, SoloNext, LifeTypeCorrect, PTL DEF Spec

\* FAILED is written only by the last attempt: as long as no worker died after the
\* commit, Celery never starts a retry on a failed row.
THEOREM FailedIsFinal == Alone => (Spec => []FailedNotRetried)
<1>. SUFFICES ASSUME Alone PROVE Spec => []FailedNotRetried
  OBVIOUS
<1>1. TypeInv /\ SoloInv => FailedNotRetried
  BY OneTask DEF SoloInv, SoloRun, FailedNotRetried
<1>. QED BY <1>1, SoloInit, SoloNext, LifeTypeCorrect, PTL DEF Spec

\* Without a resolve webhook every write of the status is an edge of
\* core/state_machine.py, although the pipeline commits from a copy it loaded earlier.
THEOREM StatusIsLegal == Alone => (Spec => StatusFollowsMachine)
<1>. SUFFICES ASSUME Alone PROVE Spec => StatusFollowsMachine
  OBVIOUS
<1>1. TypeInv /\ SoloInv /\ [Next]_vars =>
        [\/ row'.status = row.status
         \/ row'.status = "OPEN" /\ opens' = opens + 1
         \/ row.status \in Statuses /\ row'.status \in TRANSITIONS[row.status]]_vars
  BY SoloNext DEF StatusStep
<1>. QED BY <1>1, SoloInit, SoloNext, LifeTypeCorrect, PTL DEF Spec, StatusFollowsMachine

-----------------------------------------------------------------------------
(* A closed row that owes its report has a task that will send it. *)

\* No run is refused or killed at its time limit, and Celery retries as often as the
\* delivery tries: MAX_ATTEMPTS is max_retries + 1 in the code.
Delivers == Alone /\ MaySkip = FALSE /\ MaxAttempts <= MaxRetries + 1

\* As long as no retry went to anything but the report, the retries of the task are
\* covered by the attempts its marker counts, so that the last attempt comes before
\* the last retry.
PendingInv ==
  budget.transient = 0 =>
    /\ row.status \notin Closed => task[1].retries = 0 /\ row.analysis.pending = -1
    /\ task[1].st \in {"staged", "sending"} =>
         task[1].report = row.analysis.pending /\ row.analysis.done = {}
    /\ row.status \in Closed /\ LivePending(row) =>
         /\ task[1].st \in {"queued", "staged", "sending"}
         /\ task[1].retries <= row.analysis.pending

\* A step that leaves the marker, the retries and the status alone.
LEMMA PendingKept ==
  ASSUME PendingInv, UNCHANGED row, task'[1].retries = task[1].retries,
         budget'.transient = 0 => budget.transient = 0,
         task'[1].st \in {"staged", "sending"} /\ budget.transient = 0 =>
           task'[1].report = row.analysis.pending /\ row.analysis.done = {},
         budget.transient = 0 /\ row.status \in Closed /\ LivePending(row) =>
           task'[1].st \in {"queued", "staged", "sending"}
  PROVE  PendingInv'
BY DEF PendingInv, LivePending

\* A step after which the row is closed and owes nothing.
LEMMA PendingPaid ==
  ASSUME row'.status \in Closed, row'.analysis.pending = -1 \/ row'.analysis.done # {},
         task'[1].st \notin {"staged", "sending"}
  PROVE  PendingInv'
BY DEF PendingInv, LivePending

LEMMA PendingHandlers ==
  ASSUME Delivers, TypeInv, SoloInv, PendingInv, NEW h \in Handlers,
         FireRead(h) \/ ResolveRead(h) \/ HandlerStep(h)
  PROVE  PendingInv'
<1>0. /\ budget.resolves \in Nat /\ row \in RowType /\ task[1] \in TaskType
      /\ task \in [Tasks -> TaskType] /\ 1 \in Tasks /\ Tasks = {1}
      /\ opens \in 0 .. 1
  BY OneTask DEF TypeInv, TypeOK, FrameTypes, Delivers, Alone
<1>1. ~ResolveRead(h) /\ ~ResolveWrite(h)
  BY <1>0 DEF ResolveRead, ResolveWrite, Delivers, Alone, SoloInv, SoloHandlers
<1>2. CASE UNCHANGED <<row, task, budget>>
  BY <1>2 DEF PendingInv, LivePending
<1>3. CASE FireClaim(h) /\ row' = [row EXCEPT !.status = "OPEN"]
  <2>1. row.status = "absent" /\ UNCHANGED <<task, budget>> /\ task[1].st = "none"
    BY <1>0, <1>3 DEF FireClaim, SoloInv, SoloRow, Delivers, Alone
  <2>2. row'.status = "OPEN" /\ row'.analysis = row.analysis
    BY <1>0, <1>3, RowFields
  <2>. QED BY <2>1, <2>2 DEF PendingInv, Closed
<1>4. CASE FireDispatch(h)
  <2>1. /\ task' = [task EXCEPT ![1].st = "queued"] /\ UNCHANGED <<row, budget>>
        /\ task[1].st = "none"
    BY <1>0, <1>4 DEF FireDispatch
  <2>2. task'[1].st = "queued" /\ task'[1].retries = task[1].retries
    BY <1>0, <2>1 DEF TaskType
  <2>. QED BY <2>1, <2>2, PendingKept
<1>. QED BY <1>1, <1>2, <1>3, <1>4
         DEF HandlerStep, FireRead, FireClaim, FireLost, WriteRow

\* The terminal branch keeps the blob of the run, which owes no report yet.
LEMMA PendingFails ==
  ASSUME Delivers, TypeInv, SoloInv, PendingInv, task[1].st = "running",
         NEW a, a.pending = row.analysis.pending, RunFails(1, a),
         budget'.transient = 0 => budget.transient = 0
  PROVE  PendingInv'
<1>0. /\ row \in RowType /\ task[1] \in TaskType
      /\ task \in [Tasks -> TaskType] /\ 1 \in Tasks
  BY OneTask DEF TypeInv, TypeOK, FrameTypes, Delivers
<1>1. row.status \in DOMAIN Order \cup {"FAILED"} /\ View(1) = row
  BY SoloView DEF SoloInv, SoloRun
<1>2. row' = [row EXCEPT !.analysis = a, !.status = FailedFrom(row.status, row.status)]
  BY <1>1 DEF RunFails, WriteRow
<1>3. FailedFrom(row.status, row.status) = "FAILED"
  BY <1>1, StageOrder DEF FailedFrom
<1>4. row'.status = "FAILED" /\ row'.analysis = a
  BY <1>0, <1>2, <1>3, RowFields
<1>5. task'[1].st = "acking" /\ task'[1].retries = task[1].retries
  BY <1>0 DEF RunFails, Acking, TaskType
<1>6. row.status \notin Closed
  BY <1>1, StageOrder DEF Closed, Terminal
<1>. QED BY <1>4, <1>5, <1>6 DEF PendingInv, Closed

LEMMA PendingRun ==
  ASSUME Delivers, TypeInv, SoloInv, PendingInv,
         \/ StartSkipped(1) \/ StartResends(1) \/ StartClosed(1) \/ StartRuns(1)
         \/ KgPopulateFails(1) \/ StageHalts(1) \/ StageReenters(1) \/ StageCommits(1)
         \/ StageInvalid(1) \/ Suppress(1) \/ Permanent(1) \/ TimeLimit(1)
         \/ Transient(1) \/ Crash(1) \/ Ack(1)
         \/ \E final \in Closed : Persist(1, final)
  PROVE  PendingInv'
<1>0. /\ row \in RowType /\ row.analysis \in Analysis
      /\ task[1] \in TaskType /\ task \in [Tasks -> TaskType] /\ 1 \in Tasks
      /\ budget \in [crashes : Nat, transient : Nat, resolves : Nat]
  BY OneTask DEF TypeInv, TypeOK, FrameTypes, Delivers
<1>1. task[1].st = "running" =>
        /\ View(1) = row /\ row.status \in DOMAIN Order \cup {"FAILED"}
        /\ row.status \notin Closed
  BY SoloView, StageOrder DEF SoloInv, SoloRun, Closed, Terminal
<1>2. CASE StartSkipped(1) \/ TimeLimit(1)
  BY <1>2 DEF StartSkipped, TimeLimit, Delivers
<1>3. CASE Ack(1)
  <2>1. task'[1].st = "done" /\ task'[1].retries = 0
    BY <1>0, <1>3 DEF Ack, NoTask
  <2>. QED BY <1>3, <2>1 DEF Ack, PendingInv, LivePending
<1>4. CASE StartResends(1)
  <2>1. /\ task'[1].st = "sending" /\ task'[1].report = row.analysis.pending
        /\ task'[1].retries = task[1].retries
    BY <1>0, <1>4 DEF StartResends, TaskType
  <2>. QED BY <1>4, <2>1, PendingKept DEF StartResends, LivePending
<1>5. CASE StartClosed(1)
  <2>1. row' = [row EXCEPT !.analysis = [row.analysis EXCEPT !.ckpt = 0, !.pending = -1]]
    BY <1>5 DEF StartClosed, RecordResolvedEarly, WriteRow
  <2>2. row'.status = row.status /\ row'.analysis.pending = -1
    BY <1>0, <2>1 DEF RowType, Analysis
  <2>3. task'[1].st = "acking"
    BY <1>0, <1>5 DEF StartClosed, RecordResolvedEarly, Acking, TaskType
  <2>. QED BY <1>5, <2>2, <2>3, PendingPaid DEF StartClosed, Closed
<1>6. CASE StartRuns(1)
  <2>1. task'[1].st = "running" /\ task'[1].retries = task[1].retries
    BY <1>0, <1>6 DEF StartRuns, TaskType
  <2>. QED BY <1>6, <2>1, PendingKept DEF StartRuns, Closed
<1>7. CASE KgPopulateFails(1)
  <2>1. task'[1].st = "running" /\ task'[1].retries = task[1].retries
    BY <1>0, <1>7 DEF KgPopulateFails, TaskType
  <2>. QED BY <1>1, <1>7, <2>1, PendingKept DEF KgPopulateFails
<1>8. CASE StageHalts(1)
  BY <1>1, <1>8 DEF StageHalts, AtStage, Closed
<1>9. CASE StageReenters(1)
  <2>1. FALSE
    BY <1>0, <1>1, <1>9, StageOrder DEF StageReenters, AtStage, SoloInv, SoloRun, TaskType
  <2>. QED BY <2>1
<1>10. AtStage(1) => Checkpointed(1).pending = row.analysis.pending
  BY <1>0, <1>1 DEF AtStage, Checkpointed, Analysis
<1>11. CASE StageCommits(1)
  <2>1. /\ row' = [row EXCEPT !.status = StageStates[task[1].at + 1],
                             !.analysis = Checkpointed(1)]
        /\ task[1].st = "running" /\ UNCHANGED budget
        /\ task[1].at + 1 \in 1 .. 4
    BY <1>11, StageFacts DEF StageCommits, WriteRow, AtStage
  <2>2. row'.status \notin Closed /\ row'.analysis.pending = row.analysis.pending
    BY <1>0, <1>10, <1>11, <2>1, StageOrder, RowFields
       DEF Closed, Terminal, StageCommits
  <2>3. task'[1].st = "running" /\ task'[1].retries = task[1].retries
    <3>1. PICK new : task' = [task EXCEPT ![1].at = @ + 1, ![1].expired = FALSE,
                                          ![1].copy = new]
      BY <1>11 DEF StageCommits
    <3>. QED BY <1>0, <2>1, <3>1 DEF TaskType
  <2>. QED BY <1>1, <2>1, <2>2, <2>3 DEF PendingInv
<1>12. CASE StageInvalid(1)
  BY <1>10, <1>12, PendingFails DEF StageInvalid, AtStage
<1>13. CASE Permanent(1)
  BY <1>1, <1>13, PendingFails DEF Permanent
<1>14. CASE Suppress(1)
  <2>1. /\ task[1].st = "running" /\ UNCHANGED budget /\ View(1) = row
        /\ [row.analysis EXCEPT !.ckpt = 0].pending = row.analysis.pending
    BY <1>0, <1>1, <1>14 DEF Suppress, Analysis
  <2>2. CASE RunFails(1, [View(1).analysis EXCEPT !.ckpt = 0])
    BY <2>1, <2>2, PendingFails
  <2>3. CASE /\ WriteRow([row EXCEPT !.status = "RESOLVED",
                                     !.analysis = [View(1).analysis EXCEPT !.ckpt = 0]])
             /\ task' = [task EXCEPT ![1] = Acking(1)]
    <3>0. PICK b : /\ b = [row.analysis EXCEPT !.ckpt = 0]
                   /\ row' = [row EXCEPT !.status = "RESOLVED", !.analysis = b]
      BY <2>1, <2>3 DEF WriteRow
    <3>1. row'.status = "RESOLVED" /\ row'.analysis.pending = row.analysis.pending
      <4>1. row'.status = "RESOLVED" /\ row'.analysis = b
        BY <1>0, <3>0 DEF RowType
      <4>. QED BY <1>0, <2>1, <3>0, <4>1
    <3>2. task'[1].st = "acking"
      BY <1>0, <2>3 DEF Acking, TaskType
    <3>3. budget.transient = 0 => row.analysis.pending = -1
      BY <1>1, <2>1 DEF PendingInv
    <3>. QED BY <2>1, <3>1, <3>2, <3>3 DEF PendingInv, LivePending, Closed
  <2>. QED BY <1>14, <2>2, <2>3 DEF Suppress
<1>15. ASSUME NEW final \in Closed, Persist(1, final) PROVE PendingInv'
  <2>. DEFINE b == [ckpt |-> 0, pending |-> 0, done |-> {}]
              new == [row EXCEPT !.status = final, !.analysis = b]
  <2>1. /\ row' = new /\ UNCHANGED budget /\ task[1].st = "running"
        /\ task' = [task EXCEPT ![1].st = "staged", ![1].copy = new, ![1].report = 0]
    BY <1>15 DEF Persist, WriteRow
  <2>2. row'.analysis = b
    BY <1>0, <2>1, RowFields
  <2>3. /\ task'[1].st = "staged" /\ task'[1].report = 0
        /\ task'[1].retries = task[1].retries
    <3>. HIDE DEF new
    <3>. QED BY <1>0, <2>1 DEF TaskType
  <2>4. budget.transient = 0 => task[1].retries = 0
    BY <1>1, <2>1 DEF PendingInv
  <2>5. row'.status \in Closed
    BY <1>0, <1>15, <2>1, RowFields
  <2>. QED BY <2>1, <2>2, <2>3, <2>4, <2>5 DEF PendingInv
<1>16. CASE Transient(1)
  BY <1>0, <1>16 DEF Transient, PendingInv
<1>17. CASE Crash(1)
  <2>1. /\ task'[1].st = "queued" /\ task'[1].retries = task[1].retries
        /\ UNCHANGED row /\ budget'.transient = budget.transient
    <3>1. /\ task' = [task EXCEPT ![1] = [NoTask EXCEPT !.st = "queued",
                                                       !.retries = task[1].retries]]
          /\ UNCHANGED row /\ budget' = [budget EXCEPT !.crashes = @ + 1]
      BY <1>17 DEF Crash
    <3>. QED BY <1>0, <3>1 DEF NoTask
  <2>. QED BY <2>1, PendingKept
<1>. QED BY <1>2, <1>3, <1>4, <1>5, <1>6, <1>7, <1>8, <1>9, <1>11, <1>12, <1>13, <1>14,
            <1>15, <1>16, <1>17

LEMMA PendingDelivery ==
  ASSUME Delivers, TypeInv, SoloInv, PendingInv, NEW locked \in BOOLEAN,
         Delivery(1, locked)
  PROVE  PendingInv'
<1>0. /\ row \in RowType /\ row.analysis \in Analysis
      /\ task[1] \in TaskType /\ task \in [Tasks -> TaskType] /\ 1 \in Tasks
      /\ MaxAttempts \in Nat /\ MaxRetries \in Nat
      /\ Delivers
  BY OneTask, ConstantTypes DEF TypeInv, TypeOK, FrameTypes, Delivers
<1>1. /\ task[1].st \in {"staged", "sending"} /\ row.status \in Closed
      /\ Locked(1, locked) = row
      /\ UNCHANGED <<handler, opens, budget>>
  BY SoloSending DEF Delivers
<1>2. /\ task[1].report \in Nat
      /\ budget.transient = 0 =>
           /\ task[1].report = row.analysis.pending /\ row.analysis.done = {}
           /\ task[1].retries <= task[1].report
  <2>1. task[1].report \in Nat
    BY <1>0 DEF TaskType
  <2>. QED BY <1>1, <2>1 DEF PendingInv, LivePending
<1>3. CASE RefreshArgs(1, locked)
  <2>. DEFINE b == [row.analysis EXCEPT !.pending = IF @ >= 0 THEN @ ELSE 0]
              new == [row EXCEPT !.analysis = b]
  <2>1. row' = new /\ task' = [task EXCEPT ![1].st = "sending", ![1].copy = new]
    BY <1>1, <1>3 DEF RefreshArgs, WriteRow
  <2>2. row'.status = row.status /\ row'.analysis = b
    BY <1>0, <2>1, RowFields
  <2>3. /\ task'[1].st = "sending" /\ task'[1].report = task[1].report
        /\ task'[1].retries = task[1].retries
    <3>. HIDE DEF new
    <3>. QED BY <1>0, <2>1 DEF TaskType
  <2>4. budget.transient = 0 => b = row.analysis
    BY <1>0, <1>2 DEF Analysis
  <2>. QED BY <1>1, <1>2, <2>2, <2>3, <2>4 DEF PendingInv
<1>4. ASSUME NEW s, WriteRow(Marked(1, locked, s)), task' = [task EXCEPT ![1] = Acking(1)]
      PROVE  PendingInv'
  <2>1. /\ row'.status = row.status
        /\ row'.analysis = [row.analysis EXCEPT !.pending = -1, !.done = @ \cup {s}]
    BY <1>0, <1>1, <1>4 DEF WriteRow, Marked, MarkedRow, RowType
  <2>2. row'.analysis.pending = -1
    BY <1>0, <2>1 DEF Analysis
  <2>3. task'[1].st = "acking"
    BY <1>0, <1>4 DEF Acking, TaskType
  <2>. QED BY <1>1, <2>1, <2>2, <2>3, PendingPaid
<1>5. CASE Undelivered(1, locked)
  <2>. DEFINE b == [row.analysis EXCEPT !.pending = task[1].report + 1]
  <2>1. CASE task[1].retries < MaxRetries
    <3>1. row' = [row EXCEPT !.analysis = b] /\ task' = [task EXCEPT ![1] = Retried(1)]
      BY <1>1, <1>5, <2>1 DEF Undelivered, WriteRow, Bumped
    <3>2. row'.status = row.status /\ row'.analysis = b
      BY <1>0, <3>1, RowFields
    <3>3. b.pending = task[1].report + 1
      BY <1>0 DEF Analysis
    <3>4. task'[1].st = "queued" /\ task'[1].retries = task[1].retries + 1
      BY <1>0, <3>1 DEF Retried, NoTask
    <3>5. budget.transient = 0 => task[1].retries + 1 <= task[1].report + 1
      BY <1>0, <1>2 DEF TaskType
    <3>. QED BY <1>1, <3>2, <3>3, <3>4, <3>5 DEF PendingInv
  <2>2. CASE ~(task[1].retries < MaxRetries)
    <3>1. task[1].report + 1 < MaxAttempts
      BY <1>5 DEF Undelivered, AttemptsLeft
    <3>2. ~(task[1].retries <= task[1].report)
      BY <1>0, <1>2, <2>2, <3>1 DEF Delivers, TaskType
    <3>3. budget'.transient # 0
      BY <1>1, <1>2, <3>2
    <3>. QED BY <3>3 DEF PendingInv
  <2>. QED BY <2>1, <2>2
<1>. QED BY <1>3, <1>4, <1>5 DEF Delivery, Sent, GaveUp

\* For one claim of the row without a resolve webhook, when no run is refused or
\* killed: as long as no retry was spent on anything but the report, a closed row that
\* owes its report has a task that will send it, across worker deaths, failed locks
\* and undelivered reports.
THEOREM ReportIsServed == Delivers => (Spec => []PendingIsServed)
<1>. SUFFICES ASSUME Delivers PROVE Spec => []PendingIsServed
  OBVIOUS
<1>0. Alone
  BY DEF Delivers
<1>1. Init => PendingInv
  BY OneTask, LifeTypeInit, <1>0
     DEF Init, PendingInv, LivePending, Absent, NoAnalysis, NoTask, Closed, Tasks, Alone
<1>2. TypeInv /\ SoloInv /\ PendingInv /\ [Next]_vars => PendingInv'
  <2>. SUFFICES ASSUME TypeInv, SoloInv, PendingInv, [Next]_vars PROVE PendingInv'
    OBVIOUS
  <2>1. CASE UNCHANGED vars
    BY <2>1 DEF vars, PendingInv, LivePending
  <2>2. ASSUME NEW t \in Tasks, TaskStep(t) \/ Transient(t) \/ Crash(t)
        PROVE  PendingInv'
    <3>1. t = 1 /\ LockOutcomes \subseteq BOOLEAN
      BY <1>0, OneTask, LifeAssumption
    <3>2. TaskStep(1) \/ Transient(1) \/ Crash(1)
      BY <2>2, <3>1
    <3>. QED BY <3>1, <3>2, PendingRun, PendingDelivery DEF TaskStep, Closed
  <2>. QED BY <2>1, <2>2, PendingHandlers DEF Next
<1>3. TypeInv /\ PendingInv => PendingIsServed
  <2>. SUFFICES ASSUME TypeInv, PendingInv, budget.transient = 0, row.status \in Closed,
                       LivePending(row)
                PROVE  \E t \in Tasks : task[t].st \notin {"none", "done"}
    BY DEF PendingIsServed, PendingHasTask, Closed
  <2>. QED BY <1>0, OneTask DEF PendingInv
<1>. QED BY <1>0, <1>1, <1>2, <1>3, SoloInit, SoloNext, LifeTypeCorrect, PTL DEF Spec

=============================================================================
