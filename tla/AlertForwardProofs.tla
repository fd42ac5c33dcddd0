------------------------- MODULE AlertForwardProofs -------------------------
(***************************************************************************)
(* Proofs about AlertForward, for any number of replicas, fires and faults:  *)
(* the types, the count that suppresses chronic alerts, and the messages in  *)
(* the channel.                                                              *)
(***************************************************************************)
EXTENDS AlertForward, FiniteSetTheorems, TLAPS

Decisions == {"none", "send", "resurfaced", "no_dedup"}
Requests == [pc : Pcs, own : BOOLEAN, counts : BOOLEAN, decision : Decisions]

(***************************************************************************)
(* Types.                                                                    *)
(***************************************************************************)

AccountTyped == seen \in Nat /\ hoped \in Nat /\ astray \in Nat

LEMMA AccountTypes ==
  ASSUME AccountTyped, NEW p \in Replicas,
         Shown(p) \/ Hoped(p) \/ Lost(p) \/ NewAccount \/ UNCHANGED account
  PROVE  AccountTyped'
  BY DEF AccountTyped, Shown, Hoped, Lost, NewAccount, account

LEMMA IdleIsRequest == Idle \in Requests
  BY DEF Idle, Requests, Pcs, Decisions

\* The steps of decide_send keep the types.
LEMMA DecideTypes ==
  ASSUME TypeOK, NEW p \in Replicas, Decide(p)
  PROVE  TypeOK'
<1> USE ForwardAssumption, IdleIsRequest
<1> SUFFICES ASSUME req \in [Replicas -> Requests]
             PROVE  TypeOK'
  BY DEF TypeOK, Requests, Decisions, AccountTyped
<1>q. req' \in [Replicas -> Requests] =>
        (TypeOK' <=> /\ cnt' \in [n : Int, ttl : BOOLEAN] \cup {NoKey}
                     /\ last' \in {"none", "recent", "quiet"}
                     /\ resurf' \in BOOLEAN
                     /\ table' \in Row \cup {NoKey}
                     /\ memory' \in [Replicas -> Row \cup {NoKey}]
                     /\ burst' \in [Replicas -> 0 .. LinkedMin]
                     /\ fires' \in 0 .. MaxFires /\ faults' \in 0 .. MaxFaults
                     /\ AccountTyped' /\ spare' \in Int)
  BY DEF TypeOK, Requests, Decisions, AccountTyped
<1>t. AccountTyped
  BY DEF TypeOK, AccountTyped
<1>u. UNCHANGED account => AccountTyped'
  BY <1>t DEF account, AccountTyped
<1>1. CASE ReadLast(p)
  <2>1. req' \in [Replicas -> Requests]
    BY <1>1 DEF ReadLast, Goto, Requests, Pcs
  <2> QED BY <1>1, <1>q, <1>u, <2>1 DEF ReadLast, TypeOK, redis, stores
<1>2. CASE Repeat(p)
  <2>1. req' \in [Replicas -> Requests]
    BY <1>2 DEF Repeat, Goto, Delivered, Requests, Pcs
  <2>2. AccountTyped'
    BY <1>2, <1>t, <1>u, AccountTypes DEF Repeat, Delivered
  <2>3. last' \in {"none", "recent", "quiet"}
    BY <1>2 DEF Repeat, TypeOK
  <2> QED BY <1>2, <1>q, <2>1, <2>2, <2>3 DEF Repeat, TypeOK, redis, stores
<1>3. CASE ClaimResurface(p)
  <2>1. req' \in [Replicas -> Requests]
    BY <1>3 DEF ClaimResurface, Goto, Requests, Pcs
  <2> QED BY <1>3, <1>q, <1>u, <2>1 DEF ClaimResurface, TypeOK, redis, stores
<1>4. CASE ResetCount(p)
  <2> DEFINE d == IF req[p].pc = "remind" THEN "send" ELSE "resurfaced"
  <2>a. d \in Decisions
    BY DEF Decisions
  <2> HIDE DEF d
  <2>b. [req[p] EXCEPT !.pc = "touch", !.counts = TRUE, !.decision = d] \in Requests
    BY <2>a DEF Requests, Pcs
  <2>c. \A q \in Replicas : [req[q] EXCEPT !.counts = FALSE] \in Requests
    BY DEF Requests
  <2>1. req' \in [Replicas -> Requests]
    BY <1>4, <2>b, <2>c DEF ResetCount, d
  <2>2. AccountTyped'
    BY <1>4 DEF ResetCount, NewAccount, AccountTyped
  <2> QED BY <1>4, <1>q, <2>1, <2>2 DEF ResetCount, TypeOK, redis, stores
<1>5. CASE EnsureCount(p)
  <2>1. req' \in [Replicas -> Requests]
    BY <1>5 DEF EnsureCount, Goto, Requests, Pcs
  <2>a. [n |-> 0, ttl |-> TRUE] \in [n : Int, ttl : BOOLEAN]
    OBVIOUS
  <2>b. cnt' = [n |-> 0, ttl |-> TRUE] \/ cnt' = cnt
    BY <1>5 DEF EnsureCount
  <2>2. cnt' \in [n : Int, ttl : BOOLEAN] \cup {NoKey}
    BY <2>a, <2>b DEF TypeOK
  <2> QED BY <1>5, <1>q, <1>u, <2>1, <2>2 DEF EnsureCount, TypeOK, redis, stores
<1>6. CASE Incr(p)
  <2> DEFINE d == IF cnt'.n >= MinCount THEN "none" ELSE "send"
  <2>a. d \in Decisions
    BY DEF Decisions
  <2>b. req' = [req EXCEPT ![p].pc = "touch", ![p].counts = TRUE, ![p].decision = d]
    BY <1>6 DEF Incr
  <2> HIDE DEF d
  <2>c. [req[p] EXCEPT !.pc = "touch", !.counts = TRUE, !.decision = d] \in Requests
    BY <2>a DEF Requests, Pcs
  <2>d. req' = [req EXCEPT ![p] = [req[p] EXCEPT !.pc = "touch", !.counts = TRUE, !.decision = d]]
    BY <2>b
  <2>1. req' \in [Replicas -> Requests]
    BY <2>c, <2>d
  <2>2. cnt' \in [n : Int, ttl : BOOLEAN]
    BY <1>6 DEF Incr, CountAfter, TypeOK
  <2> QED BY <1>6, <1>q, <1>u, <2>1, <2>2 DEF Incr, TypeOK, redis, stores
<1>7. CASE TouchLast(p)
  <2>1. req' \in [Replicas -> Requests]
    BY <1>7 DEF TouchLast, Goto, Delivered, Requests, Pcs
  <2>2. AccountTyped'
    BY <1>7, <1>t, <1>u, AccountTypes DEF TouchLast, Delivered
  <2> QED BY <1>7, <1>q, <2>1, <2>2 DEF TouchLast, TypeOK, redis, stores
<1>8. CASE RedisFails(p)
  <2>1. req' \in [Replicas -> Requests]
    <3>1. [req[p] EXCEPT !.pc = "enrich", !.decision = "no_dedup"] \in Requests
      BY DEF Requests, Pcs, Decisions
    <3>2. req' = [req EXCEPT ![p] = [req[p] EXCEPT !.pc = "enrich", !.decision = "no_dedup"]]
      BY <1>8 DEF RedisFails
    <3> QED BY <3>1, <3>2
  <2> QED BY <1>8, <1>q, <1>u, <2>1 DEF RedisFails, Fault, TypeOK, redis, stores
<1> QED
  BY <1>1, <1>2, <1>3, <1>4, <1>5, <1>6, <1>7, <1>8 DEF Decide

\* Undelivered and the ways a claim is answered keep a request a request.
LEMMA UndeliveredTypes ==
  ASSUME req \in [Replicas -> Requests], AccountTyped, NEW p \in Replicas, Undelivered(p)
  PROVE  req' \in [Replicas -> Requests] /\ AccountTyped'
<1> USE IdleIsRequest
<1>1. CASE req[p].decision \in {"send", "resurfaced"}
  <2>1. [req[p] EXCEPT !.pc = "rollback", !.own = FALSE] \in Requests
    BY DEF Requests, Pcs
  <2>2. req' = [req EXCEPT ![p] = [req[p] EXCEPT !.pc = "rollback", !.own = FALSE]]
    BY <1>1 DEF Undelivered
  <2> QED BY <1>1, <2>1, <2>2, AccountTypes DEF Undelivered
<1>2. CASE req[p].decision \notin {"send", "resurfaced"}
  BY <1>2, AccountTypes DEF Undelivered
<1> QED BY <1>1, <1>2

LEMMA GotoTypes ==
  ASSUME req \in [Replicas -> Requests], NEW p \in Replicas, NEW l \in Pcs, Goto(p, l)
  PROVE  req' \in [Replicas -> Requests]
  BY DEF Goto, Requests

LEMMA MergeTypes ==
  ASSUME req \in [Replicas -> Requests], AccountTyped, NEW p \in Replicas, NEW row, Merge(p, row)
  PROVE  req' \in [Replicas -> Requests] /\ AccountTyped'
  BY GotoTypes, IdleIsRequest, AccountTypes DEF Merge, Pcs

LEMMA TakesOverTypes ==
  ASSUME req \in [Replicas -> Requests], NEW p \in Replicas, TakesOver(p)
  PROVE  req' \in [Replicas -> Requests]
<1> DEFINE l == IF channel = "incident" THEN "burst" ELSE "post"
<1>1. l \in Pcs
  BY DEF Pcs
<1> HIDE DEF l
<1>2. [req[p] EXCEPT !.pc = l, !.own = TRUE] \in Requests
  BY <1>1 DEF Requests
<1>3. \A q \in Replicas : [req[q] EXCEPT !.own = FALSE] \in Requests
  BY DEF Requests
<1> QED BY <1>2, <1>3 DEF TakesOver, l

LEMMA PlaceholderIsRow == Placeholder \in Row
  BY DEF Placeholder, Row, Ages

LEMMA SetStoreTypes ==
  ASSUME TypeOK, NEW p \in Replicas, NEW pg \in BOOLEAN, NEW row \in Row \cup {NoKey},
         SetStore(p, pg, row)
  PROVE  table' \in Row \cup {NoKey} /\ memory' \in [Replicas -> Row \cup {NoKey}]
  BY DEF SetStore, TypeOK

\* The steps on the way into the channel keep the types.
LEMMA SendTypes ==
  ASSUME TypeOK, NEW p \in Replicas, Send(p)
  PROVE  TypeOK'
<1> USE ForwardAssumption, IdleIsRequest
<1> SUFFICES ASSUME req \in [Replicas -> Requests]
             PROVE  TypeOK'
  BY DEF TypeOK, Requests, Decisions, AccountTyped
<1> DEFINE Rest == /\ cnt' = cnt /\ last' = last /\ resurf' = resurf /\ fires' = fires
                   /\ table' \in Row \cup {NoKey}
                   /\ memory' \in [Replicas -> Row \cup {NoKey}]
                   /\ burst' \in [Replicas -> 0 .. LinkedMin]
                   /\ faults' \in 0 .. MaxFaults
                   /\ AccountTyped' /\ spare' \in Int
<1>q. req' \in [Replicas -> Requests] /\ Rest => TypeOK'
  BY DEF TypeOK, Requests, Decisions, AccountTyped
<1>b. \A pg \in BOOLEAN : Backend(pg) => faults' \in 0 .. MaxFaults
  BY DEF Backend, Fault, TypeOK
<1>m. OneMore => spare' \in Int
  BY DEF OneMore, TypeOK
<1>t. table \in Row \cup {NoKey} /\ memory \in [Replicas -> Row \cup {NoKey}]
      /\ burst \in [Replicas -> 0 .. LinkedMin] /\ AccountTyped /\ spare \in Int
  BY DEF TypeOK, AccountTyped
<1>l. (IF channel = "incident" THEN "burst" ELSE "post") \in Pcs
  BY DEF Pcs
<1>u. UNCHANGED account => AccountTyped'
  BY <1>t DEF account, AccountTyped
<1>d. Delivered(p) => req' \in [Replicas -> Requests] /\ AccountTyped'
  BY <1>t, AccountTypes DEF Delivered
<1>1. CASE Enrich(p)
  <2>1. req' \in [Replicas -> Requests] /\ AccountTyped'
    BY <1>1, <1>t, <1>u, GotoTypes, UndeliveredTypes DEF Enrich, Pcs
  <2>2. Rest
    BY <1>1, <2>1 DEF Enrich, TypeOK, redis, stores
  <2> QED BY <1>q, <2>1, <2>2
<1>2. CASE ClaimReads(p)
  <2>1. PICK pg \in BOOLEAN : /\ Backend(pg)
                              /\ \/ Merge(p, StoreOf(p, pg))
                                 \/ Goto(p, "insert") /\ UNCHANGED account
    BY <1>2 DEF ClaimReads
  <2>2. req' \in [Replicas -> Requests] /\ AccountTyped'
    BY <1>t, <1>u, <2>1, MergeTypes, GotoTypes DEF Pcs
  <2>3. Rest
    BY <1>2, <2>1, <2>2, <1>b DEF ClaimReads, TypeOK, redis, stores
  <2> QED BY <1>q, <2>2, <2>3
<1>3. CASE ClaimInserts(p)
  <2>1. req' \in [Replicas -> Requests]
    BY <1>3, TakesOverTypes, GotoTypes DEF ClaimInserts, Pcs
  <2>2. table' \in Row \cup {NoKey} /\ memory' \in [Replicas -> Row \cup {NoKey}]
    BY <1>3, <1>t, SetStoreTypes, PlaceholderIsRow DEF ClaimInserts, stores
  <2>3. Rest
    BY <1>3, <1>b, <1>u, <2>2 DEF ClaimInserts, TypeOK, redis
  <2> QED BY <1>q, <2>1, <2>3
<1>4. CASE ClaimLocks(p)
  <2>1. req' \in [Replicas -> Requests] /\ AccountTyped'
    BY <1>4, <1>l, <1>t, <1>u, TakesOverTypes, MergeTypes, GotoTypes DEF ClaimLocks
  <2>2. table' \in Row \cup {NoKey} /\ memory' \in [Replicas -> Row \cup {NoKey}]
    BY <1>4, <1>t, SetStoreTypes, PlaceholderIsRow DEF ClaimLocks, stores
  <2>3. spare' \in Int
    BY <1>4, <1>m, <1>t DEF ClaimLocks
  <2>4. Rest
    BY <1>4, <1>b, <2>1, <2>2, <2>3 DEF ClaimLocks, TypeOK, redis
  <2> QED BY <1>q, <2>1, <2>4
<1>5. CASE ClaimFallsBack(p)
  <2>1. req' \in [Replicas -> Requests] /\ AccountTyped'
    BY <1>5, <1>l, <1>t, <1>u, MergeTypes, GotoTypes DEF ClaimFallsBack
  <2>2. table' \in Row \cup {NoKey} /\ memory' \in [Replicas -> Row \cup {NoKey}]
    BY <1>5, <1>t, SetStoreTypes, PlaceholderIsRow DEF ClaimFallsBack, stores
  <2>3. spare' \in Int
    BY <1>5, <1>m, <1>t DEF ClaimFallsBack
  <2>4. Rest
    BY <1>5, <1>b, <2>1, <2>2, <2>3 DEF ClaimFallsBack, TypeOK, redis
  <2> QED BY <1>q, <2>1, <2>4
<1>6. CASE Burst(p)
  <2>1. req' \in [Replicas -> Requests]
    BY <1>6, GotoTypes DEF Burst, Pcs
  <2>2. Rest
    BY <1>6, <1>u DEF Burst, TypeOK, redis, stores
  <2> QED BY <1>q, <2>1, <2>2
<1>7. CASE Post(p)
  <2>1. \/ Goto(p, "save") /\ spare' = spare - 1
        \/ Goto(p, "release_sent") /\ spare' = spare
        \/ Goto(p, "release") /\ spare' = spare
    BY <1>7 DEF Post, Answers
  <2>2. req' \in [Replicas -> Requests]
    BY <2>1, GotoTypes DEF Pcs
  <2>3. Rest
    BY <1>7, <1>u, <2>1 DEF Post, TypeOK, redis, stores
  <2> QED BY <1>q, <2>2, <2>3
<1>8. CASE Save(p)
  <2>1. PICK pg \in BOOLEAN, age \in Ages :
             Backend(pg) /\ SetStore(p, pg, [msg |-> TRUE, age |-> age])
    BY <1>8 DEF Save
  <2>2. req' \in [Replicas -> Requests] /\ AccountTyped'
    BY <1>8, <1>d DEF Save
  <2>3. [msg |-> TRUE, age |-> age] \in Row
    BY DEF Row
  <2>4. table' \in Row \cup {NoKey} /\ memory' \in [Replicas -> Row \cup {NoKey}]
    BY <2>1, <2>3, SetStoreTypes
  <2>5. burst' \in [Replicas -> 0 .. LinkedMin]
    BY <1>8, <1>t DEF Save
  <2>6. Rest
    BY <1>8, <1>b, <1>t, <2>1, <2>2, <2>4, <2>5 DEF Save, redis
  <2> QED BY <1>q, <2>2, <2>6
<1>9. CASE Release(p)
  <2>1. PICK pg \in BOOLEAN :
          /\ Backend(pg)
          /\ SetStore(p, pg, NoKey) \/ UNCHANGED stores
          /\ OneMore \/ UNCHANGED spare
    BY <1>9 DEF Release
  <2>2. table' \in Row \cup {NoKey} /\ memory' \in [Replicas -> Row \cup {NoKey}]
    BY <2>1, <1>t, SetStoreTypes DEF stores
  <2>3. req' \in [Replicas -> Requests] /\ AccountTyped'
    BY <1>9, <1>t, <1>d, <1>u, UndeliveredTypes, GotoTypes DEF Release, Pcs
  <2>4. Rest
    BY <1>9, <1>b, <1>t, <1>m, <2>1, <2>2, <2>3 DEF Release, redis
  <2> QED BY <1>q, <2>3, <2>4
<1>10. CASE PatchRecurrence(p)
  BY <1>10, <1>d, <1>q DEF PatchRecurrence, TypeOK, redis, stores
<1>11. CASE PatchLinked(p)
  <2>1. burst' \in [Replicas -> 0 .. LinkedMin]
    BY <1>11, <1>t DEF PatchLinked
  <2> QED BY <1>11, <1>d, <1>q, <2>1 DEF PatchLinked, TypeOK, redis, stores
<1> QED
  BY <1>1, <1>2, <1>3, <1>4, <1>5, <1>6, <1>7, <1>8, <1>9, <1>10, <1>11 DEF Send

\* Every other step keeps the types.
LEMMA OtherTypes ==
  ASSUME TypeOK,
         \/ \E p \in Replicas : \/ Arrive(p) \/ Rollback(p) \/ Dies(p) \/ MemoryAges(p)
                                \/ BurstElsewhere(p)
         \/ KeyExpires \/ RowAges
  PROVE  TypeOK'
<1> USE ForwardAssumption, IdleIsRequest
<1> SUFFICES ASSUME req \in [Replicas -> Requests]
             PROVE  TypeOK'
  BY DEF TypeOK, Requests, Decisions, AccountTyped
<1> DEFINE Rest == /\ cnt' \in [n : Int, ttl : BOOLEAN] \cup {NoKey}
                   /\ last' \in {"none", "recent", "quiet"}
                   /\ resurf' \in BOOLEAN
                   /\ table' \in Row \cup {NoKey}
                   /\ memory' \in [Replicas -> Row \cup {NoKey}]
                   /\ burst' \in [Replicas -> 0 .. LinkedMin]
                   /\ fires' \in 0 .. MaxFires /\ faults' \in 0 .. MaxFaults
                   /\ AccountTyped' /\ spare' \in Int
<1>q. req' \in [Replicas -> Requests] /\ Rest => TypeOK'
  BY DEF TypeOK, Requests, Decisions, AccountTyped
<1>t. table \in Row \cup {NoKey} /\ memory \in [Replicas -> Row \cup {NoKey}]
      /\ burst \in [Replicas -> 0 .. LinkedMin] /\ AccountTyped /\ spare \in Int
  BY DEF TypeOK, AccountTyped
<1>u. UNCHANGED account => AccountTyped'
  BY <1>t DEF account, AccountTyped
<1>n. NewAccount => AccountTyped'
  BY DEF NewAccount, AccountTyped
<1>c. \A q \in Replicas : [req[q] EXCEPT !.counts = FALSE] \in Requests
  BY DEF Requests
<1>1. ASSUME NEW p \in Replicas, Arrive(p)
      PROVE  TypeOK'
  <2>1. req' \in [Replicas -> Requests]
    BY <1>1, GotoTypes DEF Arrive, Pcs
  <2>2. Rest
    BY <1>1, <1>u DEF Arrive, TypeOK, redis, stores
  <2> QED BY <1>q, <2>1, <2>2
<1>2. ASSUME NEW p \in Replicas, RollbackDecr(p)
      PROVE  TypeOK'
  <2>1. req' \in [Replicas -> Requests]
    <3> DEFINE l == IF cnt'.n <= 0 THEN "drop" ELSE "unmark"
    <3>1. l \in Pcs
      BY DEF Pcs
    <3>2. req' = [req EXCEPT ![p].pc = l, ![p].counts = FALSE]
      BY <1>2 DEF RollbackDecr
    <3> HIDE DEF l
    <3> QED BY <3>1, <3>2 DEF Requests
  <2>2. cnt' \in [n : Int, ttl : BOOLEAN]
    BY <1>2 DEF RollbackDecr, TypeOK
  <2>3. Rest
    BY <1>2, <1>u, <2>2 DEF RollbackDecr, TypeOK, redis, stores
  <2> QED BY <1>q, <2>1, <2>3
<1>3. ASSUME NEW p \in Replicas, RollbackDrop(p)
      PROVE  TypeOK'
  <2>1. \A q \in Replicas : [req[q] EXCEPT !.counts = FALSE, !.pc = "unmark"] \in Requests
    BY DEF Requests, Pcs
  <2>2. \A q \in Replicas : [req[q] EXCEPT !.counts = FALSE, !.pc = @] = [req[q] EXCEPT !.counts = FALSE]
    BY DEF Requests
  <2>3. \A q \in Replicas : [req[q] EXCEPT !.counts = FALSE, !.pc = IF q = p THEN "unmark" ELSE @] \in Requests
    BY <1>c, <2>1, <2>2
  <2>4. req' \in [Replicas -> Requests]
    BY <1>3, <2>3 DEF RollbackDrop
  <2>5. Rest
    BY <1>3, <1>n DEF RollbackDrop, TypeOK, redis, stores
  <2> QED BY <1>q, <2>4, <2>5
<1>4. ASSUME NEW p \in Replicas, RollbackUnmark(p)
      PROVE  TypeOK'
  <2>1. Rest
    BY <1>4, <1>u DEF RollbackUnmark, TypeOK, redis, stores
  <2> QED BY <1>4, <1>q, <2>1 DEF RollbackUnmark
<1>5. ASSUME NEW p \in Replicas, RollbackFails(p)
      PROVE  TypeOK'
  <2>1. Rest
    BY <1>5, <1>t, AccountTypes DEF RollbackFails, Fault, TypeOK, redis, stores
  <2> QED BY <1>5, <1>q, <2>1 DEF RollbackFails
<1>6. ASSUME NEW p \in Replicas, Dies(p)
      PROVE  TypeOK'
  <2>1. Rest
    BY <1>6, <1>t, AccountTypes DEF Dies, Fault, TypeOK, redis, stores
  <2> QED BY <1>6, <1>q, <2>1 DEF Dies
<1>7. ASSUME NEW p \in Replicas, MemoryAges(p)
      PROVE  TypeOK'
  <2>1. memory[p] # NoKey => /\ [memory[p] EXCEPT !.age = "orphan"] \in Row
                             /\ [memory[p] EXCEPT !.age = "stale"] \in Row
    BY <1>t DEF Row, Ages
  <2>2. memory' \in [Replicas -> Row \cup {NoKey}]
    BY <1>7, <1>t, <2>1 DEF MemoryAges
  <2>3. burst' \in [Replicas -> 0 .. LinkedMin]
    BY <1>7, <1>t DEF MemoryAges
  <2>4. Rest
    BY <1>7, <1>u, <2>2, <2>3 DEF MemoryAges, TypeOK, redis
  <2> QED BY <1>7, <1>q, <2>4 DEF MemoryAges
<1>8. ASSUME NEW p \in Replicas, BurstElsewhere(p)
      PROVE  TypeOK'
  <2>1. burst' \in [Replicas -> 0 .. LinkedMin]
    BY <1>8, <1>t DEF BurstElsewhere
  <2>2. Rest
    BY <1>8, <1>u, <2>1 DEF BurstElsewhere, TypeOK, redis, stores
  <2> QED BY <1>8, <1>q, <2>2 DEF BurstElsewhere
<1>9. CASE KeyExpires
  <2>1. req' \in [Replicas -> Requests]
    BY <1>9, <1>c DEF KeyExpires, CountGone
  <2>2. Rest
    BY <1>9, <1>u, <1>n DEF KeyExpires, CountGone, TypeOK, stores
  <2> QED BY <1>q, <2>1, <2>2
<1>10. CASE RowAges
  <2>1. table' \in Row \cup {NoKey}
    BY <1>10, <1>t DEF RowAges, Row, Ages
  <2>2. Rest
    BY <1>10, <1>u, <2>1 DEF RowAges, OneMore, TypeOK, redis
  <2> QED BY <1>10, <1>q, <2>2 DEF RowAges
<1> QED
  BY <1>1, <1>2, <1>3, <1>4, <1>5, <1>6, <1>7, <1>8, <1>9, <1>10 DEF Rollback

\* The variables keep their types: requests, rows and the count, whoever expires,
\* resets or decrements it.
THEOREM ForwardTypes == Spec => []TypeOK
<1>1. ASSUME Init
      PROVE  TypeOK
  <2>1. req \in [Replicas -> Requests]
    BY <1>1, IdleIsRequest DEF Init
  <2>2. /\ fires \in 0 .. MaxFires /\ faults \in 0 .. MaxFaults
        /\ burst \in [Replicas -> 0 .. LinkedMin]
    BY <1>1, ForwardAssumption DEF Init
  <2>3. /\ cnt \in [n : Int, ttl : BOOLEAN] \cup {NoKey}
        /\ table \in Row \cup {NoKey} /\ memory \in [Replicas -> Row \cup {NoKey}]
    BY <1>1 DEF Init
  <2>4. last \in {"none", "recent", "quiet"} /\ AccountTyped /\ spare \in Int
    BY <1>1 DEF Init, AccountTyped
  <2>5. resurf \in BOOLEAN
    BY <1>1, Zenon DEF Init
  <2> QED BY <2>1, <2>2, <2>3, <2>4, <2>5 DEF TypeOK, Requests, Decisions, AccountTyped
<1>2. TypeOK /\ [Next]_vars => TypeOK'
  <2>1. TypeOK /\ Next => TypeOK'
    BY DecideTypes, SendTypes, OtherTypes DEF Next
  <2>2. TypeOK /\ UNCHANGED vars => TypeOK'
    BY DEF TypeOK, vars, redis, stores, account
  <2> QED BY <2>1, <2>2
<1> QED BY <1>1, <1>2, PTL DEF Spec

(***************************************************************************)
(* CountExplained.  A fire is counted before it is sent; until it is shown,  *)
(* merged, lost or taken back it is under way.  When the key expires, is     *)
(* reset or deleted nothing is counted any more.  A fault loses at most one  *)
(* fire: the fire of SEND_NO_DEDUP that was counted has had its fault, and a *)
(* refusal of Discord loses it without another one.                          *)
(***************************************************************************)

\* Where a request cannot be in the count: before INCR, and after DECR.
Uncounted == {"idle", "decide", "quiet", "remind", "resurface", "ensure", "incr",
              "drop", "unmark"}

\* The counted fires that will not be rolled back.
Doubtful == {p \in Replicas : req[p].counts /\ req[p].decision = "no_dedup"}

\* A counted fire without a decision to send is about to be suppressed.
Placed(p) ==
  req[p].counts => /\ req[p].pc \notin Uncounted
                   /\ req[p].decision = "none" => req[p].pc = "touch"

CountInv ==
  /\ cnt = NoKey => \A p \in Replicas : ~req[p].counts
  /\ cnt # NoKey => cnt.n <= seen + hoped + astray + Cardinality(UnderWay)
  /\ astray + Cardinality(Doubtful) <= faults
  /\ \A p \in Replicas : Placed(p)

\* The other requests may lose their part in the count, no more.
OthersKeepPc(p) ==
  \A q \in Replicas \ {p} : /\ req'[q].pc = req[q].pc
                            /\ req'[q].counts => req[q].counts
                            /\ req'[q].own => req[q].own

OthersKeepCount(p) ==
  \A q \in Replicas \ {p} : /\ req'[q].pc = req[q].pc
                            /\ req'[q].counts = req[q].counts
                            /\ req'[q].decision = req[q].decision

LEMMA FiniteParts ==
  ASSUME NEW S \in SUBSET Replicas
  PROVE  IsFiniteSet(S) /\ Cardinality(S) \in Nat
  BY ForwardAssumption, FS_Subset, FS_CardinalityType

\* One element at a time.
LEMMA SetMoves ==
  ASSUME NEW S \in SUBSET Replicas, NEW T \in SUBSET Replicas, NEW p \in Replicas,
         T \ {p} \subseteq S
  PROVE  /\ Cardinality(T) <= Cardinality(S) + 1
         /\ p \in S \/ p \notin T => Cardinality(T) <= Cardinality(S)
         /\ p \in S /\ p \notin T => Cardinality(T) <= Cardinality(S) - 1
<1>f. /\ IsFiniteSet(S) /\ Cardinality(S) \in Nat
      /\ IsFiniteSet(T) /\ Cardinality(T) \in Nat
  BY FiniteParts
<1>1. Cardinality(T) <= Cardinality(S) + 1
  <2>1. T \subseteq S \cup {p}
    OBVIOUS
  <2>2. IsFiniteSet(S \cup {p})
        /\ Cardinality(S \cup {p}) \in {Cardinality(S), Cardinality(S) + 1}
    BY <1>f, FS_AddElement
  <2>3. Cardinality(T) <= Cardinality(S \cup {p})
    BY <2>1, <2>2, FS_Subset
  <2> QED BY <1>f, <2>2, <2>3
<1>2. ASSUME p \in S \/ p \notin T
      PROVE  Cardinality(T) <= Cardinality(S)
  <2>1. T \subseteq S
    BY <1>2
  <2> QED BY <1>f, <2>1, FS_Subset
<1>3. ASSUME p \in S, p \notin T
      PROVE  Cardinality(T) <= Cardinality(S) - 1
  <2>1. T \subseteq S \ {p}
    BY <1>3
  <2>2. IsFiniteSet(S \ {p}) /\ Cardinality(S \ {p}) = Cardinality(S) - 1
    BY <1>f, <1>3, FS_RemoveElement
  <2> QED BY <2>1, <2>2, FS_Subset
<1> QED BY <1>1, <1>2, <1>3

\* How the two sets move with the step of a request.
LEMMA CountSets ==
  ASSUME NEW p \in Replicas, OthersKeepCount(p)
  PROVE  /\ Cardinality(UnderWay) <= Cardinality(UnderWay') + 1
         /\ p \in UnderWay' \/ p \notin UnderWay => Cardinality(UnderWay) <= Cardinality(UnderWay')
         /\ p \in UnderWay' /\ p \notin UnderWay => Cardinality(UnderWay) <= Cardinality(UnderWay') - 1
         /\ Cardinality(Doubtful') <= Cardinality(Doubtful) + 1
         /\ p \in Doubtful \/ p \notin Doubtful' => Cardinality(Doubtful') <= Cardinality(Doubtful)
         /\ p \in Doubtful /\ p \notin Doubtful' => Cardinality(Doubtful') <= Cardinality(Doubtful) - 1
<1>s. /\ UnderWay \in SUBSET Replicas /\ UnderWay' \in SUBSET Replicas
      /\ Doubtful \in SUBSET Replicas /\ Doubtful' \in SUBSET Replicas
  BY DEF UnderWay, Doubtful
<1>1. UnderWay \ {p} \subseteq UnderWay'
  BY DEF OthersKeepCount, UnderWay
<1>2. Doubtful' \ {p} \subseteq Doubtful
  BY DEF OthersKeepCount, Doubtful
<1>3. /\ Cardinality(UnderWay) <= Cardinality(UnderWay') + 1
      /\ p \in UnderWay' \/ p \notin UnderWay => Cardinality(UnderWay) <= Cardinality(UnderWay')
      /\ p \in UnderWay' /\ p \notin UnderWay => Cardinality(UnderWay) <= Cardinality(UnderWay') - 1
  BY <1>s, <1>1, SetMoves
<1>4. /\ Cardinality(Doubtful') <= Cardinality(Doubtful) + 1
      /\ p \in Doubtful \/ p \notin Doubtful' => Cardinality(Doubtful') <= Cardinality(Doubtful)
      /\ p \in Doubtful /\ p \notin Doubtful' => Cardinality(Doubtful') <= Cardinality(Doubtful) - 1
  BY <1>s, <1>2, SetMoves
<1> QED BY <1>3, <1>4

LEMMA CountCards ==
  /\ Cardinality(UnderWay) \in Nat /\ Cardinality(UnderWay') \in Nat
  /\ Cardinality(Doubtful) \in Nat /\ Cardinality(Doubtful') \in Nat
  BY FiniteParts DEF UnderWay, Doubtful

(***************************************************************************)
(* What the parts of the actions do to the requests.                         *)
(***************************************************************************)

OthersSame(p) == \A q \in Replicas \ {p} : req'[q] = req[q]

LEMMA TypedRequests == TypeOK => req \in [Replicas -> Requests]
  BY DEF TypeOK, Requests, Decisions, AccountTyped

LEMMA GotoEffect ==
  ASSUME TypeOK, NEW p \in Replicas, NEW l, Goto(p, l)
  PROVE  /\ OthersSame(p)
         /\ req'[p].pc = l /\ req'[p].counts = req[p].counts
         /\ req'[p].own = req[p].own /\ req'[p].decision = req[p].decision
  BY TypedRequests DEF Goto, OthersSame, Requests

LEMMA DeliveredEffect ==
  ASSUME TypeOK, NEW p \in Replicas, req' = [req EXCEPT ![p] = Idle]
  PROVE  /\ OthersSame(p)
         /\ req'[p].pc = "idle" /\ ~req'[p].counts /\ ~req'[p].own
  BY TypedRequests DEF OthersSame, Idle

LEMMA MergeEffect ==
  ASSUME TypeOK, NEW p \in Replicas, NEW row, Merge(p, row)
  PROVE  /\ OthersSame(p)
         /\ req'[p].pc \in {"patch", "idle"}
         /\ req'[p].counts => req[p].counts
         /\ req'[p].own => req[p].own
  BY GotoEffect, DeliveredEffect DEF Merge

LEMMA UndeliveredEffect ==
  ASSUME TypeOK, NEW p \in Replicas, Undelivered(p)
  PROVE  /\ OthersSame(p)
         /\ \/ /\ req[p].decision \in {"send", "resurfaced"} /\ UNCHANGED account
               /\ req'[p].pc = "rollback" /\ req'[p].counts = req[p].counts
               /\ req'[p].decision = req[p].decision /\ ~req'[p].own
            \/ /\ req[p].decision \notin {"send", "resurfaced"} /\ Lost(p)
               /\ req'[p].pc = "idle" /\ ~req'[p].counts /\ ~req'[p].own
<1>1. CASE req[p].decision \in {"send", "resurfaced"}
  <2>1. req' = [req EXCEPT ![p] = [req[p] EXCEPT !.pc = "rollback", !.own = FALSE]]
    BY <1>1 DEF Undelivered
  <2>2. /\ req'[p] = [req[p] EXCEPT !.pc = "rollback", !.own = FALSE]
        /\ OthersSame(p)
    BY <2>1, TypedRequests DEF OthersSame
  <2>3. /\ req'[p].pc = "rollback" /\ req'[p].counts = req[p].counts /\ ~req'[p].own
        /\ req'[p].decision = req[p].decision
    BY <2>2, TypedRequests DEF Requests
  <2> QED BY <1>1, <2>2, <2>3 DEF Undelivered
<1>2. CASE req[p].decision \notin {"send", "resurfaced"}
  BY <1>2, DeliveredEffect DEF Undelivered
<1> QED BY <1>1, <1>2

LEMMA RedisFailsEffect ==
  ASSUME TypeOK, NEW p \in Replicas, RedisFails(p)
  PROVE  /\ OthersSame(p)
         /\ req'[p].pc = "enrich" /\ req'[p].counts = req[p].counts
         /\ req'[p].own = req[p].own /\ req'[p].decision = "no_dedup"
<1>1. /\ req'[p] = [req[p] EXCEPT !.pc = "enrich", !.decision = "no_dedup"]
      /\ OthersSame(p)
  BY TypedRequests DEF RedisFails, OthersSame
<1> QED BY <1>1, TypedRequests DEF Requests

LEMMA DecrEffect ==
  ASSUME TypeOK, NEW p \in Replicas, RollbackDecr(p)
  PROVE  /\ OthersSame(p)
         /\ req'[p].pc \in {"drop", "unmark"} /\ ~req'[p].counts
         /\ req'[p].own = req[p].own
<1> DEFINE l == IF cnt'.n <= 0 THEN "drop" ELSE "unmark"
<1>1. l \in {"drop", "unmark"}
  OBVIOUS
<1>2. req' = [req EXCEPT ![p].pc = l, ![p].counts = FALSE]
  BY DEF RollbackDecr
<1> HIDE DEF l
<1>3. req'[p] = [req[p] EXCEPT !.pc = l, !.counts = FALSE] /\ OthersSame(p)
  BY <1>2, TypedRequests DEF OthersSame
<1>4. req'[p].pc = l /\ req'[p].counts = FALSE /\ req'[p].own = req[p].own
  BY <1>3, TypedRequests DEF Requests
<1> QED BY <1>1, <1>3, <1>4

LEMMA IncrEffect ==
  ASSUME TypeOK, NEW p \in Replicas, Incr(p)
  PROVE  /\ OthersSame(p)
         /\ req'[p].pc = "touch" /\ req'[p].counts /\ req'[p].decision \in {"none", "send"}
<1> DEFINE d == IF cnt'.n >= MinCount THEN "none" ELSE "send"
<1>1. d \in {"none", "send"}
  OBVIOUS
<1>2. req' = [req EXCEPT ![p].pc = "touch", ![p].counts = TRUE, ![p].decision = d]
  BY DEF Incr
<1> HIDE DEF d
<1>3. req'[p] = [req[p] EXCEPT !.pc = "touch", !.counts = TRUE, !.decision = d] /\ OthersSame(p)
  BY <1>2, TypedRequests DEF OthersSame
<1>4. req'[p].pc = "touch" /\ req'[p].counts = TRUE /\ req'[p].decision = d
  BY <1>3, TypedRequests DEF Requests
<1> QED BY <1>1, <1>3, <1>4

LEMMA TakesOverEffect ==
  ASSUME TypeOK, NEW p \in Replicas, TakesOver(p)
  PROVE  /\ \A q \in Replicas \ {p} : /\ req'[q].pc = req[q].pc
                                      /\ req'[q].counts = req[q].counts
                                      /\ req'[q].decision = req[q].decision
                                      /\ ~req'[q].own
         /\ req'[p].pc \in {"burst", "post"} /\ req'[p].counts = req[p].counts
         /\ req'[p].decision = req[p].decision
<1>1. /\ req'[p] = [req[p] EXCEPT !.pc = IF channel = "incident" THEN "burst" ELSE "post", !.own = TRUE]
      /\ \A q \in Replicas \ {p} : req'[q] = [req[q] EXCEPT !.own = FALSE]
  BY DEF TakesOver
<1>2. \A q \in Replicas : req[q] \in Requests
  BY TypedRequests
<1>3. /\ req'[p].pc \in {"burst", "post"} /\ req'[p].counts = req[p].counts
      /\ req'[p].decision = req[p].decision
  BY <1>1, <1>2 DEF Requests
<1>4. ASSUME NEW q \in Replicas \ {p}
      PROVE  /\ req'[q].pc = req[q].pc /\ req'[q].counts = req[q].counts
             /\ req'[q].decision = req[q].decision /\ ~req'[q].own
  <2>1. req[q] \in Requests /\ req'[q] = [req[q] EXCEPT !.own = FALSE]
    BY <1>1, <1>2
  <2>2. /\ req'[q].pc = req[q].pc /\ req'[q].counts = req[q].counts
        /\ req'[q].decision = req[q].decision
    BY <2>1 DEF Requests
  <2>3. req'[q].own = FALSE
    BY <2>1 DEF Requests
  <2> QED BY <2>2, <2>3
<1> QED BY <1>3, <1>4

LEMMA SameIsKept ==
  ASSUME NEW p \in Replicas, OthersSame(p)
  PROVE  OthersKeepPc(p) /\ OthersKeepCount(p)
  BY DEF OthersSame, OthersKeepPc, OthersKeepCount

\* The fire goes on, counted or not as before; Redis may fail on the way.
GoesOn(p) ==
  /\ OthersKeepCount(p)
  /\ req'[p].counts = req[p].counts
  /\ req'[p].decision = "no_dedup" => req[p].decision = "no_dedup" \/ faults' = faults + 1
  /\ Placed(p)'
  /\ cnt' = cnt /\ UNCHANGED account /\ faults' \in {faults, faults + 1}

\* The fire leaves the requests for the account: shown, hoped for, or lost with
\* a fault of its own.
GoesOut(p) ==
  /\ OthersKeepCount(p)
  /\ ~req'[p].counts
  /\ \/ Shown(p) \/ Hoped(p)
     \/ Lost(p) /\ (\/ faults' = faults + 1
                    \/ req[p].counts => req[p].decision = "no_dedup")
  /\ cnt' = cnt /\ faults' \in {faults, faults + 1}

LEMMA OthersPlaced ==
  ASSUME CountInv, NEW p \in Replicas, OthersKeepCount(p), Placed(p)'
  PROVE  \A q \in Replicas : Placed(q)'
  BY DEF CountInv, Placed, OthersKeepCount

LEMMA GoesOnKeepsCount ==
  ASSUME TypeOK, TypeOK', CountInv, NEW p \in Replicas, GoesOn(p)
  PROVE  CountInv'
<1> USE DEF GoesOn
<1>1. cnt' = NoKey => \A q \in Replicas : ~req'[q].counts
  BY DEF CountInv, OthersKeepCount
<1>2. p \in UnderWay' \/ p \notin UnderWay
  BY DEF UnderWay
<1>3. Cardinality(UnderWay) <= Cardinality(UnderWay')
  BY <1>2, CountSets
<1>4. cnt' # NoKey => cnt'.n <= seen' + hoped' + astray' + Cardinality(UnderWay')
  BY <1>3, CountCards DEF CountInv, TypeOK, account
<1>5. astray' + Cardinality(Doubtful') <= faults'
  <2>1. CASE faults' = faults + 1
    BY <2>1, CountSets, CountCards DEF CountInv, TypeOK, account
  <2>2. CASE req'[p].decision = "no_dedup" => req[p].decision = "no_dedup"
    <3>1. p \in Doubtful \/ p \notin Doubtful'
      BY <2>2 DEF Doubtful
    <3>2. Cardinality(Doubtful') <= Cardinality(Doubtful)
      BY <3>1, CountSets
    <3> QED BY <3>2, CountCards DEF CountInv, TypeOK, account
  <2> QED BY <2>1, <2>2
<1>6. \A q \in Replicas : Placed(q)'
  BY OthersPlaced
<1> QED BY <1>1, <1>4, <1>5, <1>6 DEF CountInv

LEMMA GoesOutKeepsCount ==
  ASSUME TypeOK, TypeOK', CountInv, NEW p \in Replicas, GoesOut(p)
  PROVE  CountInv'
<1> USE DEF GoesOut
<1>t. /\ seen \in Nat /\ hoped \in Nat /\ astray \in Nat /\ faults \in Nat
      /\ cnt # NoKey => cnt.n \in Int
  BY DEF TypeOK
<1>1. cnt' = NoKey => \A q \in Replicas : ~req'[q].counts
  BY DEF CountInv, OthersKeepCount
<1>2. Placed(p)'
  BY DEF Placed
<1>3. \A q \in Replicas : Placed(q)'
  BY <1>2, OthersPlaced
<1>4. p \notin UnderWay' /\ p \notin Doubtful'
  BY DEF UnderWay, Doubtful
<1>5. /\ Cardinality(UnderWay) <= Cardinality(UnderWay') + 1
      /\ p \notin UnderWay => Cardinality(UnderWay) <= Cardinality(UnderWay')
      /\ Cardinality(Doubtful') <= Cardinality(Doubtful)
      /\ p \in Doubtful => Cardinality(Doubtful') <= Cardinality(Doubtful) - 1
  BY <1>4, CountSets
<1>6. CASE ~req[p].counts
  <2>1. p \notin UnderWay
    BY <1>6 DEF UnderWay
  <2>2. UNCHANGED account
    BY <1>6 DEF Shown, Hoped, Lost, account
  <2>3. cnt' # NoKey => cnt'.n <= seen' + hoped' + astray' + Cardinality(UnderWay')
    BY <1>t, <1>5, <2>1, <2>2, CountCards DEF CountInv, account
  <2>4. astray' + Cardinality(Doubtful') <= faults'
    BY <1>t, <1>5, <2>2, CountCards DEF CountInv, account
  <2> QED BY <1>1, <1>3, <2>3, <2>4 DEF CountInv
<1>7. CASE req[p].counts
  <2>1. seen' + hoped' + astray' = seen + hoped + astray + 1
    BY <1>t, <1>7 DEF Shown, Hoped, Lost
  <2>2. cnt' # NoKey => cnt'.n <= seen' + hoped' + astray' + Cardinality(UnderWay')
    <3>1. cnt # NoKey /\ cnt.n <= seen + hoped + astray + Cardinality(UnderWay)
      BY <1>7 DEF CountInv
    <3> QED BY <1>t, <1>5, <2>1, <3>1, CountCards
  <2>3. astray' + Cardinality(Doubtful') <= faults'
    <3>0. astray + Cardinality(Doubtful) <= faults
      BY DEF CountInv
    <3>1. CASE astray' = astray
      BY <1>t, <1>5, <3>0, <3>1, CountCards
    <3>2. CASE astray' = astray + 1 /\ faults' = faults + 1
      BY <1>t, <1>5, <3>0, <3>2, CountCards
    <3>3. CASE astray' = astray + 1 /\ req[p].decision = "no_dedup"
      <4>1. p \in Doubtful
        BY <1>7, <3>3 DEF Doubtful
      <4> QED BY <1>t, <1>5, <3>0, <3>3, <4>1, CountCards
    <3> QED BY <1>7, <3>1, <3>2, <3>3 DEF Shown, Hoped, Lost
  <2> QED BY <1>1, <1>3, <2>2, <2>3 DEF CountInv
<1> QED BY <1>6, <1>7

\* A request goes on to another step of the same phase.
LEMMA GotoGoesOn ==
  ASSUME TypeOK, CountInv, NEW p \in Replicas, NEW l, Goto(p, l),
         l \notin Uncounted \/ req[p].pc \in Uncounted,
         req[p].pc # "touch" \/ req[p].decision # "none",
         cnt' = cnt, UNCHANGED account, faults' \in {faults, faults + 1}
  PROVE  GoesOn(p)
<1>1. OthersKeepCount(p)
  BY GotoEffect, SameIsKept
<1>2. /\ req'[p].pc = l /\ req'[p].counts = req[p].counts
      /\ req'[p].decision = req[p].decision
  BY GotoEffect
<1>3. Placed(p)'
  BY <1>2 DEF CountInv, Placed
<1> QED BY <1>1, <1>2, <1>3 DEF GoesOn

\* The end of a request.
LEMMA IdleGoesOut ==
  ASSUME TypeOK, NEW p \in Replicas, req' = [req EXCEPT ![p] = Idle],
         Shown(p) \/ Hoped(p) \/ (Lost(p) /\ faults' = faults + 1),
         cnt' = cnt, faults' \in {faults, faults + 1}
  PROVE  GoesOut(p)
  BY DeliveredEffect, SameIsKept DEF GoesOut

\* The fire is known not to have reached the channel.
LEMMA UndeliveredKeepsCount ==
  ASSUME TypeOK, TypeOK', CountInv, NEW p \in Replicas, Undelivered(p), cnt' = cnt,
         faults' \in {faults, faults + 1}, req[p].pc # "touch"
  PROVE  CountInv'
<1>o. OthersKeepCount(p)
  BY UndeliveredEffect, SameIsKept
<1>1. CASE /\ UNCHANGED account /\ req'[p].pc = "rollback" /\ req'[p].counts = req[p].counts
           /\ req'[p].decision = req[p].decision /\ req[p].decision \in {"send", "resurfaced"}
  <2>1. Placed(p)'
    BY <1>1 DEF Placed, Uncounted
  <2>2. GoesOn(p)
    BY <1>o, <1>1, <2>1 DEF GoesOn
  <2> QED BY <2>2, GoesOnKeepsCount
<1>2. CASE Lost(p) /\ ~req'[p].counts /\ req[p].decision \notin {"send", "resurfaced"}
  <2>1. req[p].counts => req[p].decision = "no_dedup"
    <3>1. req[p].counts => req[p].decision # "none"
      BY DEF CountInv, Placed
    <3>2. req[p].decision \in Decisions
      BY TypedRequests DEF Requests
    <3> QED BY <1>2, <3>1, <3>2 DEF Decisions
  <2>2. GoesOut(p)
    BY <1>o, <1>2, <2>1 DEF GoesOut
  <2> QED BY <2>2, GoesOutKeepsCount
<1> QED BY <1>1, <1>2, UndeliveredEffect

\* A key that exists is told from one that does not.
LEMMA KeyExists ==
  /\ [n |-> 0, ttl |-> TRUE] # NoKey /\ [n |-> 1, ttl |-> TRUE] # NoKey
  /\ [n |-> 1, ttl |-> FALSE] # NoKey /\ [n |-> -1, ttl |-> FALSE] # NoKey
<1>1. /\ [n |-> 0, ttl |-> TRUE] \in [n : Int, ttl : BOOLEAN]
      /\ [n |-> 1, ttl |-> TRUE] \in [n : Int, ttl : BOOLEAN]
      /\ [n |-> 1, ttl |-> FALSE] \in [n : Int, ttl : BOOLEAN]
      /\ [n |-> -1, ttl |-> FALSE] \in [n : Int, ttl : BOOLEAN]
  OBVIOUS
<1> QED BY <1>1, ForwardAssumption, Zenon

\* decide_send: INCR, the reset of a resurfaced alert, and what only reads.
LEMMA DecideKeepsCount ==
  ASSUME TypeOK, TypeOK', CountInv, NEW p \in Replicas, Decide(p)
  PROVE  CountInv'
<1> USE ForwardAssumption
<1>t. /\ seen \in Nat /\ hoped \in Nat /\ astray \in Nat /\ faults \in Nat
      /\ cnt # NoKey => cnt.n \in Int
  BY DEF TypeOK
<1>r. \A q \in Replicas : req[q] \in Requests
  BY TypedRequests
<1>1. CASE ReadLast(p)
  <2>1. GoesOn(p)
    BY <1>1, GotoGoesOn DEF ReadLast, Uncounted, redis
  <2> QED BY <2>1, GoesOnKeepsCount
<1>2. CASE Repeat(p)
  <2>1. GoesOn(p) \/ GoesOut(p)
    BY <1>2, GotoGoesOn, IdleGoesOut DEF Repeat, Delivered, Uncounted
  <2> QED BY <2>1, GoesOnKeepsCount, GoesOutKeepsCount
<1>3. CASE ClaimResurface(p)
  <2>1. GoesOn(p)
    BY <1>3, GotoGoesOn DEF ClaimResurface, Uncounted
  <2> QED BY <2>1, GoesOnKeepsCount
<1>4. CASE ResetCount(p)
  <2> DEFINE d == IF req[p].pc = "remind" THEN "send" ELSE "resurfaced"
  <2>a. d \in {"send", "resurfaced"}
    OBVIOUS
  <2>b. req'[p] = [req[p] EXCEPT !.pc = "touch", !.counts = TRUE, !.decision = d]
    BY <1>4 DEF ResetCount
  <2> HIDE DEF d
  <2>0. req'[p].pc = "touch" /\ req'[p].counts = TRUE /\ req'[p].decision = d
    BY <2>b, <1>r DEF Requests
  <2>1. \A q \in Replicas \ {p} : req'[q] = [req[q] EXCEPT !.counts = FALSE]
    BY <1>4 DEF ResetCount
  <2>2. \A q \in Replicas \ {p} : ~req'[q].counts
    BY <2>1, <1>r DEF Requests
  <2>3. p \in UnderWay' /\ Doubtful' = {}
    BY <2>0, <2>2, <2>a DEF UnderWay, Doubtful
  <2>4. Cardinality(UnderWay') >= 1 /\ Cardinality(Doubtful') = 0
    <3>1. IsFiniteSet(UnderWay') /\ {p} \subseteq UnderWay'
      BY <2>3, FiniteParts DEF UnderWay
    <3>2. Cardinality({p}) = 1
      BY FS_Singleton
    <3>3. Cardinality({p}) <= Cardinality(UnderWay')
      BY <3>1, FS_Subset
    <3> QED BY <2>3, <3>2, <3>3, FS_EmptySet
  <2>5. cnt' = [n |-> 1, ttl |-> TRUE] /\ NewAccount /\ faults' = faults
    BY <1>4 DEF ResetCount
  <2>6. cnt' # NoKey /\ cnt'.n = 1
    BY <2>5, KeyExists
  <2>7. \A q \in Replicas : Placed(q)'
    BY <2>0, <2>2, <2>a DEF Placed, Uncounted
  <2>8. /\ cnt'.n <= seen' + hoped' + astray' + Cardinality(UnderWay')
        /\ astray' + Cardinality(Doubtful') <= faults'
    BY <1>t, <2>4, <2>5, <2>6, CountCards DEF NewAccount
  <2> QED BY <2>6, <2>7, <2>8 DEF CountInv
<1>5. CASE EnsureCount(p)
  <2>1. CASE cnt = NoKey
    <3>0. OthersSame(p) /\ req'[p].counts = req[p].counts
      BY <1>5, GotoEffect DEF EnsureCount
    <3>1. \A q \in Replicas : ~req'[q].counts
      BY <2>1, <3>0 DEF CountInv, OthersSame
    <3>2. Doubtful' = {}
      BY <3>1 DEF Doubtful
    <3>3. Cardinality(Doubtful') = 0
      BY <3>2, FS_EmptySet
    <3>4. cnt' = [n |-> 0, ttl |-> TRUE] /\ UNCHANGED account /\ faults' = faults
      BY <1>5, <2>1 DEF EnsureCount
    <3>5. cnt' # NoKey /\ cnt'.n = 0
      BY <3>4, KeyExists
    <3>6. \A q \in Replicas : Placed(q)'
      BY <3>1 DEF Placed
    <3>7. /\ cnt'.n <= seen' + hoped' + astray' + Cardinality(UnderWay')
          /\ astray' + Cardinality(Doubtful') <= faults'
      BY <1>t, <3>3, <3>4, <3>5, CountCards DEF CountInv, account
    <3> QED BY <3>5, <3>6, <3>7 DEF CountInv
  <2>2. CASE cnt # NoKey
    <3>1. GoesOn(p)
      BY <1>5, <2>2, GotoGoesOn DEF EnsureCount, Uncounted
    <3> QED BY <3>1, GoesOnKeepsCount
  <2> QED BY <2>1, <2>2
<1>6. CASE Incr(p)
  <2>1. OthersKeepCount(p)
    BY <1>6, IncrEffect, SameIsKept
  <2>2. req'[p].pc = "touch" /\ req'[p].counts /\ req'[p].decision \in {"none", "send"}
    BY <1>6, IncrEffect
  <2>3. p \notin UnderWay /\ p \in UnderWay' /\ p \notin Doubtful'
    BY <1>6, <2>2 DEF Incr, CountInv, Placed, Uncounted, UnderWay, Doubtful
  <2>4. /\ Cardinality(UnderWay) <= Cardinality(UnderWay') - 1
        /\ Cardinality(Doubtful') <= Cardinality(Doubtful)
    BY <2>1, <2>3, CountSets
  <2>5. Placed(p)'
    BY <2>2 DEF Placed, Uncounted
  <2>6. \A q \in Replicas : Placed(q)'
    BY <2>1, <2>5, OthersPlaced
  <2>7. UNCHANGED account /\ faults' = faults
    BY <1>6 DEF Incr
  <2>8. astray' + Cardinality(Doubtful') <= faults'
    BY <1>t, <2>4, <2>7, CountCards DEF CountInv, account
  <2>9. cnt' # NoKey /\ cnt'.n <= seen' + hoped' + astray' + Cardinality(UnderWay')
    <3>1. CASE cnt = NoKey
      <4>1. cnt' = [n |-> 1, ttl |-> FALSE]
        BY <1>6, <3>1 DEF Incr, CountAfter
      <4>2. cnt' # NoKey /\ cnt'.n = 1
        BY <4>1, KeyExists
      <4> QED BY <1>t, <2>4, <2>7, <4>2, CountCards DEF account
    <3>2. CASE cnt # NoKey
      <4>1. cnt' = [cnt EXCEPT !.n = @ + 1]
        BY <1>6, <3>2 DEF Incr, CountAfter
      <4>2. cnt \in [n : Int, ttl : BOOLEAN]
        BY <3>2 DEF TypeOK
      <4>3. cnt' \in [n : Int, ttl : BOOLEAN] /\ cnt'.n = cnt.n + 1
        BY <4>1, <4>2
      <4>4. cnt'.n <= seen' + hoped' + astray' + Cardinality(UnderWay')
        BY <1>t, <2>4, <2>7, <3>2, <4>3, CountCards DEF CountInv, account
      <4> QED BY <4>3, <4>4
    <3> QED BY <3>1, <3>2
  <2> QED BY <2>6, <2>8, <2>9 DEF CountInv
<1>7. CASE TouchLast(p)
  <2>1. CASE Delivered(p)
    BY <1>7, <2>1, IdleGoesOut, GoesOutKeepsCount DEF TouchLast, Delivered
  <2>2. CASE Goto(p, "enrich") /\ UNCHANGED account /\ req[p].decision # "none"
    <3>1. GoesOn(p)
      BY <1>7, <2>2, GotoGoesOn DEF TouchLast, Uncounted
    <3> QED BY <3>1, GoesOnKeepsCount
  <2> QED BY <1>7, <2>1, <2>2 DEF TouchLast
<1>8. CASE RedisFails(p)
  <2>1. OthersKeepCount(p)
    BY <1>8, RedisFailsEffect, SameIsKept
  <2>2. /\ req'[p].pc = "enrich" /\ req'[p].counts = req[p].counts
        /\ req'[p].decision = "no_dedup"
    BY <1>8, RedisFailsEffect
  <2>3. Placed(p)'
    BY <2>2 DEF Placed, Uncounted
  <2>4. GoesOn(p)
    BY <1>8, <2>1, <2>2, <2>3 DEF RedisFails, Fault, GoesOn, redis
  <2> QED BY <2>4, GoesOnKeepsCount
<1> QED
  BY <1>1, <1>2, <1>3, <1>4, <1>5, <1>6, <1>7, <1>8 DEF Decide

LEMMA BackendFaults ==
  ASSUME NEW pg, Backend(pg)
  PROVE  faults' \in {faults, faults + 1}
  BY DEF Backend, Fault

\* On the way into the channel a fire goes on, is shown, is hoped for, or is known
\* to be undelivered.
LEMMA SendKeepsCount ==
  ASSUME TypeOK, TypeOK', CountInv, NEW p \in Replicas, Send(p)
  PROVE  CountInv'
<1>0. /\ cnt' = cnt /\ faults' \in {faults, faults + 1}
      /\ req[p].pc \notin {"touch"} \cup Uncounted
  BY BackendFaults DEF Send, Enrich, ClaimReads, ClaimInserts, ClaimLocks, ClaimFallsBack, Burst,
     Post, Save, Release, PatchRecurrence, PatchLinked, Uncounted, redis
<1>g. ASSUME NEW l, Goto(p, l), l \notin Uncounted, UNCHANGED account
      PROVE  CountInv'
  BY <1>0, <1>g, GotoGoesOn, GoesOnKeepsCount
<1>d. ASSUME Delivered(p)
      PROVE  CountInv'
  BY <1>0, <1>d, IdleGoesOut, GoesOutKeepsCount DEF Delivered
<1>m. ASSUME NEW row, Merge(p, row)
      PROVE  CountInv'
  <2>1. "patch" \notin Uncounted
    BY DEF Uncounted
  <2> QED BY <1>0, <1>g, <1>m, <2>1, IdleGoesOut, GoesOutKeepsCount DEF Merge
<1>o. ASSUME TakesOver(p), UNCHANGED account
      PROVE  CountInv'
  <2>1. OthersKeepCount(p)
    BY <1>o, TakesOverEffect DEF OthersKeepCount
  <2>2. /\ req'[p].pc \in {"burst", "post"} /\ req'[p].counts = req[p].counts
        /\ req'[p].decision = req[p].decision
    BY <1>o, TakesOverEffect
  <2>3. Placed(p)'
    BY <1>0, <2>2 DEF CountInv, Placed, Uncounted
  <2>4. GoesOn(p)
    BY <1>0, <1>o, <2>1, <2>2, <2>3 DEF GoesOn
  <2> QED BY <2>4, GoesOnKeepsCount
<1>u. ASSUME Undelivered(p)
      PROVE  CountInv'
  BY <1>0, <1>u, UndeliveredKeepsCount
<1>l. /\ (IF channel = "incident" THEN "burst" ELSE "post") \notin Uncounted
      /\ "claim" \notin Uncounted /\ "insert" \notin Uncounted /\ "conflict" \notin Uncounted
      /\ "release_linked" \notin Uncounted /\ "post" \notin Uncounted /\ "linked" \notin Uncounted
      /\ "save" \notin Uncounted /\ "release_sent" \notin Uncounted /\ "release" \notin Uncounted
  BY DEF Uncounted
<1>1. CASE Enrich(p)
  BY <1>1, <1>g, <1>l, <1>u DEF Enrich
<1>2. CASE ClaimReads(p)
  BY <1>2, <1>g, <1>l, <1>m DEF ClaimReads
<1>3. CASE ClaimInserts(p)
  BY <1>3, <1>g, <1>l, <1>o DEF ClaimInserts
<1>4. CASE ClaimLocks(p)
  BY <1>4, <1>g, <1>l, <1>o, <1>m DEF ClaimLocks
<1>5. CASE ClaimFallsBack(p)
  BY <1>5, <1>g, <1>l, <1>m DEF ClaimFallsBack
<1>6. CASE Burst(p)
  BY <1>6, <1>g, <1>l DEF Burst
<1>7. CASE Post(p)
  <2>1. Goto(p, "save") \/ Goto(p, "release_sent") \/ Goto(p, "release")
    BY <1>7 DEF Post, Answers
  <2> QED BY <1>7, <1>g, <1>l, <2>1 DEF Post
<1>8. CASE Release(p)
  <2>1. Undelivered(p) \/ Delivered(p) \/ (Goto(p, "linked") /\ UNCHANGED account)
    BY <1>8 DEF Release
  <2> QED BY <1>g, <1>l, <1>d, <1>u, <2>1
<1>9. CASE Save(p) \/ PatchRecurrence(p) \/ PatchLinked(p)
  BY <1>9, <1>d DEF Save, PatchRecurrence, PatchLinked
<1> QED
  BY <1>1, <1>2, <1>3, <1>4, <1>5, <1>6, <1>7, <1>8, <1>9 DEF Send

\* Nobody counts any more when the key is gone.
LEMMA GoneKeepsCount ==
  ASSUME TypeOK, cnt' = NoKey, NewAccount, faults' = faults,
         \A q \in Replicas : ~req'[q].counts
  PROVE  CountInv'
<1>1. Doubtful' = {}
  BY DEF Doubtful
<1>2. Cardinality(Doubtful') = 0
  BY <1>1, FS_EmptySet
<1>3. \A q \in Replicas : Placed(q)'
  BY DEF Placed
<1> QED BY <1>2, <1>3, ForwardAssumption DEF CountInv, TypeOK, NewAccount

\* The DECR of the roll-back takes the fire out of the count.
LEMMA DecrKeepsCount ==
  ASSUME TypeOK, TypeOK', CountInv, NEW p \in Replicas, RollbackDecr(p)
  PROVE  CountInv'
<1> USE ForwardAssumption
<1>t. /\ seen \in Nat /\ hoped \in Nat /\ astray \in Nat /\ faults \in Nat
      /\ cnt # NoKey => cnt.n \in Int
  BY DEF TypeOK
<1>1. /\ OthersKeepCount(p) /\ ~req'[p].counts /\ UNCHANGED account /\ faults' = faults
  BY DecrEffect, SameIsKept DEF RollbackDecr
<1>2. p \notin Doubtful' /\ Placed(p)'
  BY <1>1 DEF Doubtful, Placed
<1>3. /\ Cardinality(Doubtful') <= Cardinality(Doubtful)
      /\ Cardinality(UnderWay) <= Cardinality(UnderWay') + 1
      /\ \A q \in Replicas : Placed(q)'
  BY <1>1, <1>2, CountSets, OthersPlaced
<1>4. astray' + Cardinality(Doubtful') <= faults'
  BY <1>t, <1>1, <1>3, CountCards DEF CountInv, account
<1>5. cnt' # NoKey /\ cnt'.n <= seen' + hoped' + astray' + Cardinality(UnderWay')
  <2>1. CASE cnt = NoKey
    <3>1. cnt' = [n |-> -1, ttl |-> FALSE]
      BY <2>1 DEF RollbackDecr
    <3>2. cnt' # NoKey /\ cnt'.n = -1
      BY <3>1, KeyExists
    <3> QED BY <1>t, <1>1, <3>2, CountCards DEF account
  <2>2. CASE cnt # NoKey
    <3>1. cnt \in [n : Int, ttl : BOOLEAN] /\ cnt' = [cnt EXCEPT !.n = @ - 1]
      BY <2>2 DEF RollbackDecr, TypeOK
    <3>2. cnt' \in [n : Int, ttl : BOOLEAN] /\ cnt'.n = cnt.n - 1
      BY <3>1
    <3>3. cnt'.n <= seen' + hoped' + astray' + Cardinality(UnderWay')
      BY <1>t, <1>1, <1>3, <2>2, <3>2, CountCards DEF CountInv, account
    <3> QED BY <3>2, <3>3
  <2> QED BY <2>1, <2>2
<1> QED BY <1>3, <1>4, <1>5 DEF CountInv

\* Every step keeps the account.
LEMMA CountStep ==
  ASSUME TypeOK, TypeOK', CountInv, [Next]_vars
  PROVE  CountInv'
<1> USE ForwardAssumption
<1>1. ASSUME NEW p \in Replicas, Arrive(p)
      PROVE  CountInv'
  <2>0. req[p].pc = "idle" /\ ~req[p].counts /\ cnt' = cnt /\ UNCHANGED account /\ faults' = faults
    BY <1>1 DEF Arrive, CountInv, Placed, Uncounted, redis
  <2>1. CASE req' = req
    <3>1. GoesOn(p)
      BY <2>0, <2>1 DEF GoesOn, OthersKeepCount, Placed
    <3> QED BY <3>1, GoesOnKeepsCount
  <2>2. CASE Goto(p, "decide") \/ Goto(p, "claim")
    <3>1. GoesOn(p)
      BY <2>0, <2>2, GotoGoesOn DEF Uncounted
    <3> QED BY <3>1, GoesOnKeepsCount
  <2> QED BY <1>1, <2>1, <2>2 DEF Arrive
<1>2. ASSUME NEW p \in Replicas, RollbackDrop(p)
      PROVE  CountInv'
  <2>1. \A q \in Replicas : req[q] \in Requests
    BY TypedRequests
  <2>2. ASSUME NEW q \in Replicas
        PROVE  ~req'[q].counts
    <3>1. req'[q] = [req[q] EXCEPT !.counts = FALSE, !.pc = IF q = p THEN "unmark" ELSE @]
      BY <1>2 DEF RollbackDrop
    <3>2. req'[q].counts = FALSE
      BY <2>1, <3>1 DEF Requests
    <3> QED BY <3>2
  <2> QED BY <1>2, <2>2, GoneKeepsCount DEF RollbackDrop
<1>3. ASSUME NEW p \in Replicas, RollbackUnmark(p)
      PROVE  CountInv'
  <2>1. ~req[p].counts
    BY <1>3 DEF RollbackUnmark, CountInv, Placed, Uncounted
  <2>2. Shown(p) /\ req' = [req EXCEPT ![p] = Idle] /\ cnt' = cnt /\ faults' = faults
    BY <1>3, <2>1 DEF RollbackUnmark, Shown, account
  <2> QED BY <2>2, IdleGoesOut, GoesOutKeepsCount
<1>4. ASSUME NEW p \in Replicas, RollbackFails(p) \/ Dies(p)
      PROVE  CountInv'
  <2>1. /\ req' = [req EXCEPT ![p] = Idle] /\ cnt' = cnt /\ faults' = faults + 1
        /\ Shown(p) \/ Lost(p)
    BY <1>4 DEF RollbackFails, Dies, Fault, redis
  <2> QED BY <2>1, IdleGoesOut, GoesOutKeepsCount
<1>s. ASSUME cnt' = cnt, req' = req, UNCHANGED account, faults' = faults
      PROVE  CountInv'
  BY <1>s DEF CountInv, UnderWay, Doubtful, Placed, account
<1>5. ASSUME NEW p \in Replicas, MemoryAges(p) \/ BurstElsewhere(p)
      PROVE  CountInv'
  BY <1>5, <1>s DEF MemoryAges, BurstElsewhere, redis
<1>6. CASE KeyExpires
  <2>1. CASE cnt' = cnt /\ req' = req /\ UNCHANGED account
    BY <1>6, <1>s, <2>1 DEF KeyExpires
  <2>2. CASE CountGone
    <3>1. ASSUME NEW q \in Replicas
          PROVE  ~req'[q].counts
      <4>1. req[q] \in Requests /\ req'[q] = [req[q] EXCEPT !.counts = FALSE]
        BY <2>2, TypedRequests DEF CountGone
      <4>2. req'[q].counts = FALSE
        BY <4>1 DEF Requests
      <4> QED BY <4>2
    <3> QED BY <1>6, <2>2, <3>1, GoneKeepsCount DEF KeyExpires, CountGone
  <2> QED BY <1>6, <2>1, <2>2 DEF KeyExpires
<1>7. CASE RowAges
  BY <1>7, <1>s DEF RowAges, redis
<1>8. CASE UNCHANGED vars
  BY <1>8, <1>s DEF vars, redis
<1> QED
  BY <1>1, <1>2, <1>3, <1>4, <1>5, <1>6, <1>7, <1>8, DecideKeepsCount, SendKeepsCount,
     DecrKeepsCount DEF Next, Rollback

\* The count that suppresses a chronic alert never exceeds the fires of its
\* window that were shown, merged into a posted message, suppressed or are under
\* way, those merged into a placeholder that may never become a message, and at
\* most one lost fire for each fault: decide_send counts a fire first and
\* rollback_undelivered takes it back, in any interleaving with other fires,
\* expiries, resets, deletions and deaths.
THEOREM CountIsExplained == Spec => []CountExplained
<1> USE ForwardAssumption
<1>1. Init => CountInv
  <2> SUFFICES ASSUME Init PROVE CountInv
    OBVIOUS
  <2>1. \A p \in Replicas : ~req[p].counts
    BY DEF Init, Idle
  <2>2. Doubtful = {}
    BY <2>1 DEF Doubtful
  <2>3. Cardinality(Doubtful) = 0
    BY <2>2, FS_EmptySet
  <2> QED BY <2>1, <2>3 DEF Init, CountInv, Placed
<1>2. TypeOK /\ TypeOK' /\ CountInv /\ [Next]_vars => CountInv'
  BY CountStep
<1>3. TypeOK /\ CountInv => CountExplained
  BY CountCards DEF TypeOK, CountInv, CountExplained
<1> QED BY <1>1, <1>2, <1>3, ForwardTypes, PTL DEF Spec

(***************************************************************************)
(* DuplicatesExplained.  The allowance `spare` covers one message for every  *)
(* claim that is held and one for a free key, or else everything that the    *)
(* fires under way and the fires to come could post.  The second part is     *)
(* there because the allowance is capped at MaxFires.                        *)
(***************************************************************************)

MayPost == {"decide", "quiet", "remind", "resurface", "ensure", "incr", "touch",
            "enrich", "claim", "insert", "conflict", "burst", "post"}

Releasing == {"release", "release_sent", "release_linked"}

\* The fires that may still post.
Posters == {p \in Replicas : req[p].pc \in MayPost}

\* The claims held: before the POST, and after it by the owner of the placeholder
\* that is about to be released.
Holders == {p \in Replicas : \/ req[p].pc \in {"burst", "post"}
                             \/ req[p].pc \in Releasing /\ req[p].own}

FreeKey == IF table = NoKey THEN 1 ELSE 0

PostInv ==
  /\ Cardinality(Posters) <= fires
  /\ \/ spare >= Cardinality(Holders) + FreeKey
     \/ spare >= Cardinality(Posters) + MaxFires - fires

LEMMA PostCards ==
  /\ Cardinality(Posters) \in Nat /\ Cardinality(Posters') \in Nat
  /\ Cardinality(Holders) \in Nat /\ Cardinality(Holders') \in Nat
  /\ FreeKey \in {0, 1} /\ FreeKey' \in {0, 1}
  BY FiniteParts DEF Posters, Holders, FreeKey

LEMMA PostSets ==
  ASSUME NEW p \in Replicas, OthersKeepPc(p)
  PROVE  /\ Cardinality(Posters') <= Cardinality(Posters) + 1
         /\ p \in Posters \/ p \notin Posters' => Cardinality(Posters') <= Cardinality(Posters)
         /\ p \in Posters /\ p \notin Posters' => Cardinality(Posters') <= Cardinality(Posters) - 1
         /\ Cardinality(Holders') <= Cardinality(Holders) + 1
         /\ p \in Holders \/ p \notin Holders' => Cardinality(Holders') <= Cardinality(Holders)
         /\ p \in Holders /\ p \notin Holders' => Cardinality(Holders') <= Cardinality(Holders) - 1
<1>s. /\ Posters \in SUBSET Replicas /\ Posters' \in SUBSET Replicas
      /\ Holders \in SUBSET Replicas /\ Holders' \in SUBSET Replicas
  BY DEF Posters, Holders
<1>1. Posters' \ {p} \subseteq Posters
  BY DEF OthersKeepPc, Posters
<1>2. Holders' \ {p} \subseteq Holders
  BY DEF OthersKeepPc, Holders
<1>3. /\ Cardinality(Posters') <= Cardinality(Posters) + 1
      /\ p \in Posters \/ p \notin Posters' => Cardinality(Posters') <= Cardinality(Posters)
      /\ p \in Posters /\ p \notin Posters' => Cardinality(Posters') <= Cardinality(Posters) - 1
  BY <1>s, <1>1, SetMoves
<1>4. /\ Cardinality(Holders') <= Cardinality(Holders) + 1
      /\ p \in Holders \/ p \notin Holders' => Cardinality(Holders') <= Cardinality(Holders)
      /\ p \in Holders /\ p \notin Holders' => Cardinality(Holders') <= Cardinality(Holders) - 1
  BY <1>s, <1>2, SetMoves
<1> QED BY <1>3, <1>4

\* What a step takes from the claims it takes from the allowance, and what it
\* adds it pays in.
LEMMA Balance ==
  ASSUME TypeOK, PostInv, fires' = fires, Cardinality(Posters') <= Cardinality(Posters),
         \/ /\ spare' = spare
            /\ Cardinality(Holders') + FreeKey' <= Cardinality(Holders) + FreeKey
         \/ /\ OneMore
            /\ Cardinality(Holders') + FreeKey' <= Cardinality(Holders) + FreeKey + 1
         \/ /\ spare' = spare - 1
            /\ Cardinality(Holders') + FreeKey' <= Cardinality(Holders) + FreeKey - 1
            /\ Cardinality(Posters') <= Cardinality(Posters) - 1
  PROVE  PostInv'
<1> USE PostCards, ForwardAssumption
<1>t. spare \in Int /\ fires \in Nat /\ MaxFires \in Nat
  BY DEF TypeOK
<1>1. Cardinality(Posters') <= fires'
  BY <1>t DEF PostInv
<1>2. CASE spare' = spare
           /\ Cardinality(Holders') + FreeKey' <= Cardinality(Holders) + FreeKey
  BY <1>t, <1>1, <1>2 DEF PostInv
<1>3. CASE OneMore
           /\ Cardinality(Holders') + FreeKey' <= Cardinality(Holders) + FreeKey + 1
  <2>1. CASE spare < MaxFires
    <3>1. spare' = spare + 1
      BY <1>3, <2>1 DEF OneMore
    <3> QED BY <1>t, <1>1, <1>3, <3>1 DEF PostInv
  <2>2. CASE ~(spare < MaxFires)
    <3>1. spare' = spare /\ spare >= MaxFires
      BY <1>t, <1>3, <2>2 DEF OneMore
    <3>2. spare' >= Cardinality(Posters') + MaxFires - fires'
      BY <1>t, <1>1, <3>1
    <3> QED BY <1>1, <3>2 DEF PostInv
  <2> QED BY <2>1, <2>2
<1>4. CASE /\ spare' = spare - 1
           /\ Cardinality(Holders') + FreeKey' <= Cardinality(Holders) + FreeKey - 1
           /\ Cardinality(Posters') <= Cardinality(Posters) - 1
  BY <1>t, <1>1, <1>4 DEF PostInv
<1> QED BY <1>2, <1>3, <1>4

\* A step that neither claims, nor posts, nor frees the key.
LEMMA QuietPost ==
  ASSUME TypeOK, PostInv, NEW p \in Replicas, OthersKeepPc(p), fires' = fires, spare' = spare,
         p \in Posters' => p \in Posters,
         p \in Holders' => p \in Holders,
         table' = NoKey => table = NoKey
  PROVE  PostInv'
<1>1. FreeKey' <= FreeKey
  BY DEF FreeKey
<1>2. /\ Cardinality(Posters') <= Cardinality(Posters)
      /\ Cardinality(Holders') <= Cardinality(Holders)
  BY PostSets
<1>3. Cardinality(Holders') + FreeKey' <= Cardinality(Holders) + FreeKey
  BY <1>1, <1>2, PostCards
<1> QED BY <1>2, <1>3, Balance

\* A request that ends, or goes on to what is no claim and no POST.
LEMMA QuietGoto ==
  ASSUME TypeOK, PostInv, NEW p \in Replicas, OthersKeepPc(p), fires' = fires, spare' = spare,
         req'[p].pc \in MayPost => req[p].pc \in MayPost,
         req'[p].pc \notin {"burst", "post"} \cup Releasing,
         table' = NoKey => table = NoKey
  PROVE  PostInv'
<1>1. p \in Posters' => p \in Posters
  BY DEF Posters
<1>2. p \notin Holders'
  BY DEF Holders
<1> QED BY <1>1, <1>2, QuietPost

\* decide_send neither claims nor posts.
LEMMA DecideKeepsPost ==
  ASSUME TypeOK, PostInv, NEW p \in Replicas, Decide(p)
  PROVE  PostInv'
<1>r. \A q \in Replicas : req[q] \in Requests
  BY TypedRequests
<1>1. fires' = fires /\ spare' = spare /\ table' = table /\ req[p].pc \in MayPost
  BY DEF Decide, ReadLast, Repeat, ClaimResurface, ResetCount, EnsureCount, Incr, TouchLast,
         RedisFails, MayPost, stores
<1>2. OthersKeepPc(p)
      /\ req'[p].pc \in {"quiet", "ensure", "remind", "idle", "resurface", "touch", "incr", "enrich"}
  <2>1. CASE ReadLast(p)
    BY <2>1, GotoEffect, SameIsKept DEF ReadLast
  <2>2. CASE Repeat(p)
    BY <2>2, GotoEffect, DeliveredEffect, SameIsKept DEF Repeat, Delivered
  <2>3. CASE ClaimResurface(p)
    BY <2>3, GotoEffect, SameIsKept DEF ClaimResurface
  <2>4. CASE ResetCount(p)
    <3> DEFINE d == IF req[p].pc = "remind" THEN "send" ELSE "resurfaced"
    <3>1. req'[p] = [req[p] EXCEPT !.pc = "touch", !.counts = TRUE, !.decision = d]
      BY <2>4 DEF ResetCount
    <3> HIDE DEF d
    <3>2. req'[p].pc = "touch"
      BY <3>1, <1>r DEF Requests
    <3>3. ASSUME NEW q \in Replicas \ {p}
          PROVE  req'[q].pc = req[q].pc /\ req'[q].counts = FALSE /\ req'[q].own = req[q].own
      <4>1. req[q] \in Requests /\ req'[q] = [req[q] EXCEPT !.counts = FALSE]
        BY <2>4, <1>r DEF ResetCount
      <4> QED BY <4>1 DEF Requests
    <3> QED BY <3>2, <3>3 DEF OthersKeepPc
  <2>5. CASE EnsureCount(p)
    BY <2>5, GotoEffect, SameIsKept DEF EnsureCount
  <2>6. CASE Incr(p)
    BY <2>6, IncrEffect, SameIsKept
  <2>7. CASE TouchLast(p)
    BY <2>7, GotoEffect, DeliveredEffect, SameIsKept DEF TouchLast, Delivered
  <2>8. CASE RedisFails(p)
    BY <2>8, RedisFailsEffect, SameIsKept
  <2> QED BY <2>1, <2>2, <2>3, <2>4, <2>5, <2>6, <2>7, <2>8 DEF Decide
<1>3. req'[p].pc \notin {"burst", "post"} \cup Releasing
  BY <1>2 DEF Releasing
<1> QED BY <1>1, <1>2, <1>3, QuietGoto

\* A claim that is granted although no row vouches for it is paid for.
LEMMA PaidClaim ==
  ASSUME TypeOK, PostInv, NEW p \in Replicas, OthersKeepPc(p), fires' = fires, OneMore,
         req[p].pc \in MayPost, table' = NoKey => table = NoKey
  PROVE  PostInv'
<1>1. p \in Posters
  BY DEF Posters
<1>2. /\ Cardinality(Posters') <= Cardinality(Posters)
      /\ Cardinality(Holders') <= Cardinality(Holders) + 1
  BY <1>1, PostSets
<1>3. FreeKey' <= FreeKey
  BY DEF FreeKey
<1>4. Cardinality(Holders') + FreeKey' <= Cardinality(Holders) + FreeKey + 1
  BY <1>2, <1>3, PostCards
<1> QED BY <1>2, <1>4, Balance

\* Claim, POST, save and release: the INSERT takes the free key, the POST spends
\* the claim, the release of one's own placeholder turns it into a free key.
LEMMA SendKeepsPost ==
  ASSUME TypeOK, PostInv, NEW p \in Replicas, Send(p)
  PROVE  PostInv'
<1> USE ForwardAssumption
<1>f. Placeholder # NoKey
  BY PlaceholderIsRow DEF Row, Ages
<1>i. Send(p) => fires' = fires
  BY DEF Send, Enrich, ClaimReads, ClaimInserts, ClaimLocks, ClaimFallsBack, Burst, Post, Save,
         Release, PatchRecurrence, PatchLinked
<1>m. ASSUME NEW row, Merge(p, row), spare' = spare, table' = table
      PROVE  PostInv'
  <2>1. OthersKeepPc(p) /\ req'[p].pc \in {"patch", "idle"}
    BY <1>m, MergeEffect, SameIsKept
  <2>2. req'[p].pc \notin MayPost /\ req'[p].pc \notin {"burst", "post"} \cup Releasing
    BY <2>1 DEF MayPost, Releasing
  <2> QED BY <1>i, <1>m, <2>1, <2>2, QuietGoto
<1>g. ASSUME NEW l, Goto(p, l), l \in {"claim", "insert", "conflict"}, req[p].pc \in MayPost,
             spare' = spare, table' = table
      PROVE  PostInv'
  <2>1. OthersKeepPc(p) /\ req'[p].pc = l
    BY <1>g, GotoEffect, SameIsKept
  <2> QED BY <1>i, <1>g, <2>1, QuietGoto DEF Releasing
<1>1. CASE Enrich(p)
  <2>0. spare' = spare /\ table' = table /\ req[p].pc \in MayPost
    BY <1>1 DEF Enrich, stores, MayPost
  <2>1. CASE Undelivered(p)
    <3>1. OthersKeepPc(p) /\ req'[p].pc \in {"rollback", "idle"}
      BY <2>1, UndeliveredEffect, SameIsKept
    <3> QED BY <1>i, <2>0, <3>1, QuietGoto DEF Releasing, MayPost
  <2> QED BY <1>1, <1>g, <2>0, <2>1 DEF Enrich
<1>2. CASE ClaimReads(p)
  BY <1>2, <1>g, <1>m DEF ClaimReads, stores, MayPost
<1>3. CASE ClaimInserts(p)
  <2>0. spare' = spare /\ req[p].pc \in MayPost
    BY <1>3 DEF ClaimInserts, MayPost
  <2>1. CASE table = NoKey
    <3>1. table' = Placeholder /\ TakesOver(p)
      BY <1>3, <2>1 DEF ClaimInserts, SetStore
    <3>2. OthersKeepPc(p)
      BY <3>1, TakesOverEffect DEF OthersKeepPc
    <3>3. p \in Posters
      BY <2>0 DEF Posters
    <3>4. /\ Cardinality(Posters') <= Cardinality(Posters)
          /\ Cardinality(Holders') <= Cardinality(Holders) + 1
      BY <3>2, <3>3, PostSets
    <3>5. FreeKey = 1 /\ FreeKey' = 0
      BY <1>f, <2>1, <3>1 DEF FreeKey
    <3>6. Cardinality(Holders') + FreeKey' <= Cardinality(Holders) + FreeKey
      BY <3>4, <3>5, PostCards
    <3> QED BY <1>i, <2>0, <3>4, <3>6, Balance
  <2>2. CASE table # NoKey
    BY <1>3, <1>g, <2>0, <2>2 DEF ClaimInserts, stores
  <2> QED BY <2>1, <2>2
<1>4. CASE ClaimLocks(p)
  <2>0. req[p].pc \in MayPost
    BY <1>4 DEF ClaimLocks, MayPost
  <2>1. CASE table = NoKey
    <3>1. OneMore /\ table' = table
          /\ Goto(p, IF channel = "incident" THEN "burst" ELSE "post")
      BY <1>4, <2>1 DEF ClaimLocks, stores
    <3>2. OthersKeepPc(p)
      BY <3>1, GotoEffect, SameIsKept
    <3> QED BY <1>i, <2>0, <3>1, <3>2, PaidClaim
  <2>2. CASE table # NoKey /\ Reclaimable(table)
    <3>1. OneMore /\ table' = Placeholder /\ TakesOver(p)
      BY <1>4, <2>2 DEF ClaimLocks, SetStore, Reclaimable
    <3>2. OthersKeepPc(p)
      BY <3>1, TakesOverEffect DEF OthersKeepPc
    <3> QED BY <1>i, <1>f, <2>0, <3>1, <3>2, PaidClaim
  <2>3. CASE table # NoKey /\ ~Reclaimable(table)
    BY <1>4, <1>m, <2>3 DEF ClaimLocks, stores
  <2> QED BY <2>1, <2>2, <2>3
<1>5. CASE ClaimFallsBack(p)
  <2>0. req[p].pc \in MayPost
    BY <1>5 DEF ClaimFallsBack, MayPost
  <2>1. CASE Usable(memory[p])
    BY <1>5, <1>m, <2>1 DEF ClaimFallsBack, stores
  <2>2. CASE ~Usable(memory[p])
    <3>1. OneMore /\ table' = table
          /\ Goto(p, IF channel = "incident" THEN "burst" ELSE "post")
      BY <1>5, <2>2 DEF ClaimFallsBack, SetStore
    <3>2. OthersKeepPc(p)
      BY <3>1, GotoEffect, SameIsKept
    <3> QED BY <1>i, <2>0, <3>1, <3>2, PaidClaim
  <2> QED BY <2>1, <2>2
<1>6. CASE Burst(p)
  <2>1. OthersKeepPc(p) /\ req'[p].pc \in {"release_linked", "post"}
    BY <1>6, GotoEffect, SameIsKept DEF Burst
  <2>2. p \in Posters /\ p \in Holders
    BY <1>6 DEF Burst, Posters, Holders, MayPost
  <2> QED BY <1>6, <1>i, <2>1, <2>2, QuietPost DEF Burst, stores
<1>7. CASE Post(p)
  <2>0. p \in Posters /\ p \in Holders /\ table' = table
    BY <1>7 DEF Post, Posters, Holders, MayPost, stores
  <2>1. CASE Goto(p, "save") /\ spare' = spare - 1
    <3>1. OthersKeepPc(p) /\ p \notin Posters' /\ p \notin Holders'
      BY <2>1, GotoEffect, SameIsKept DEF Posters, Holders, MayPost, Releasing
    <3>2. /\ Cardinality(Posters') <= Cardinality(Posters) - 1
          /\ Cardinality(Holders') <= Cardinality(Holders) - 1
      BY <2>0, <3>1, PostSets
    <3>3. FreeKey' = FreeKey
      BY <2>0 DEF FreeKey
    <3>4. /\ Cardinality(Posters') <= Cardinality(Posters)
          /\ Cardinality(Holders') + FreeKey' <= Cardinality(Holders) + FreeKey - 1
      BY <3>2, <3>3, PostCards
    <3> QED BY <1>i, <2>1, <3>2, <3>4, Balance
  <2>2. CASE (Goto(p, "release_sent") \/ Goto(p, "release")) /\ spare' = spare
    <3>1. OthersKeepPc(p)
      BY <2>2, GotoEffect, SameIsKept
    <3> QED BY <1>i, <2>0, <2>2, <3>1, QuietPost
  <2>3. \/ Goto(p, "save") /\ spare' = spare - 1
        \/ Goto(p, "release_sent") /\ spare' = spare
        \/ Goto(p, "release") /\ spare' = spare
    BY <1>7 DEF Post, Answers
  <2> QED BY <2>1, <2>2, <2>3
<1>8. CASE Save(p)
  <2>1. PICK pg \in BOOLEAN, age \in Ages : SetStore(p, pg, [msg |-> TRUE, age |-> age])
    BY <1>8 DEF Save
  <2>2. [msg |-> TRUE, age |-> age] \in Row
    BY DEF Row
  <2>3. [msg |-> TRUE, age |-> age] # NoKey
    BY <2>2 DEF Row, Ages
  <2>4. table' = NoKey => table = NoKey
    BY <2>1, <2>3 DEF SetStore
  <2>5. OthersKeepPc(p) /\ req'[p].pc = "idle"
    BY <1>8, DeliveredEffect, SameIsKept DEF Save, Delivered
  <2> QED BY <1>8, <1>i, <2>4, <2>5, QuietGoto DEF Save, Releasing, MayPost
<1>9. CASE Release(p)
  <2>1. OthersKeepPc(p) /\ req'[p].pc \in {"rollback", "idle", "linked"}
    BY <1>9, UndeliveredEffect, DeliveredEffect, GotoEffect, SameIsKept DEF Release, Delivered
  <2>2. req'[p].pc \notin MayPost /\ req'[p].pc \notin {"burst", "post"} \cup Releasing
    BY <2>1 DEF MayPost, Releasing
  <2>3. p \notin Posters' /\ p \notin Holders'
    BY <2>2 DEF Posters, Holders
  <2>4. /\ Cardinality(Posters') <= Cardinality(Posters)
        /\ Cardinality(Holders') <= Cardinality(Holders)
        /\ p \in Holders => Cardinality(Holders') <= Cardinality(Holders) - 1
    BY <2>1, <2>3, PostSets
  <2>5. PICK pg \in BOOLEAN :
          LET row == StoreOf(p, pg)
              drops == row # NoKey /\ ~row.msg
          IN  /\ IF drops THEN SetStore(p, pg, NoKey) ELSE UNCHANGED stores
              /\ IF drops /\ pg /\ ~req[p].own THEN OneMore ELSE UNCHANGED spare
    BY <1>9 DEF Release
  <2>6. CASE table' = NoKey /\ table # NoKey
    <3>1. pg /\ StoreOf(p, pg) # NoKey /\ ~StoreOf(p, pg).msg
      BY <2>5, <2>6 DEF SetStore, stores, StoreOf
    <3>2. FreeKey' = 1 /\ FreeKey = 0
      BY <2>6 DEF FreeKey
    <3>3. CASE req[p].own
      <4>1. spare' = spare
        BY <2>5, <3>1, <3>3
      <4>2. p \in Holders
        BY <1>9, <3>3 DEF Release, Holders, Releasing
      <4>3. Cardinality(Holders') + FreeKey' <= Cardinality(Holders) + FreeKey
        BY <2>4, <3>2, <4>2, PostCards
      <4> QED BY <1>i, <2>4, <4>1, <4>3, Balance
    <3>4. CASE ~req[p].own
      <4>1. OneMore
        BY <2>5, <3>1, <3>4
      <4>2. Cardinality(Holders') + FreeKey' <= Cardinality(Holders) + FreeKey + 1
        BY <2>4, <3>2, PostCards
      <4> QED BY <1>i, <2>4, <4>1, <4>2, Balance
    <3> QED BY <3>3, <3>4
  <2>7. CASE ~(table' = NoKey /\ table # NoKey)
    <3>1. FreeKey' <= FreeKey
      BY <2>7 DEF FreeKey
    <3>2. OneMore \/ spare' = spare
      BY <2>5
    <3>3. /\ Cardinality(Holders') + FreeKey' <= Cardinality(Holders) + FreeKey
          /\ Cardinality(Holders') + FreeKey' <= Cardinality(Holders) + FreeKey + 1
      BY <2>4, <3>1, PostCards
    <3> QED BY <1>i, <2>4, <3>2, <3>3, Balance
  <2> QED BY <2>6, <2>7
<1>10. CASE PatchRecurrence(p) \/ PatchLinked(p)
  <2>1. OthersKeepPc(p) /\ req'[p].pc = "idle"
    BY <1>10, DeliveredEffect, SameIsKept DEF PatchRecurrence, PatchLinked, Delivered
  <2>2. spare' = spare /\ table' = table
    BY <1>10 DEF PatchRecurrence, PatchLinked, stores
  <2> QED BY <1>i, <2>1, <2>2, QuietGoto DEF Releasing, MayPost
<1> QED
  BY <1>1, <1>2, <1>3, <1>4, <1>5, <1>6, <1>7, <1>8, <1>9, <1>10 DEF Send

\* Every step keeps the allowance.
LEMMA PostStep ==
  ASSUME TypeOK, PostInv, [Next]_vars
  PROVE  PostInv'
<1> USE ForwardAssumption
<1>1. ASSUME NEW p \in Replicas, Arrive(p)
      PROVE  PostInv'
  <2>t. fires \in Nat /\ spare \in Int /\ fires' = fires + 1 /\ spare' = spare /\ table' = table
    BY <1>1 DEF Arrive, TypeOK, stores
  <2>1. CASE req' = req
    <3>1. Cardinality(Posters') = Cardinality(Posters) /\ Cardinality(Holders') = Cardinality(Holders)
      BY <2>1 DEF Posters, Holders
    <3>2. CASE spare >= Cardinality(Holders) + FreeKey
      BY <2>t, <3>1, <3>2, PostCards DEF PostInv, FreeKey
    <3>3. CASE spare >= Cardinality(Posters) + MaxFires - fires
      BY <2>t, <3>1, <3>3, PostCards DEF PostInv
    <3> QED BY <3>2, <3>3 DEF PostInv
  <2>2. CASE Goto(p, "decide") \/ Goto(p, "claim")
    <3>1. OthersKeepPc(p) /\ req'[p].pc \in {"decide", "claim"}
      BY <2>2, GotoEffect, SameIsKept
    <3>2. p \notin Holders'
      BY <3>1 DEF Holders, Releasing
    <3>3. /\ Cardinality(Posters') <= Cardinality(Posters) + 1
          /\ Cardinality(Holders') <= Cardinality(Holders)
      BY <3>1, <3>2, PostSets
    <3>4. FreeKey' = FreeKey
      BY <2>t DEF FreeKey
    <3>5. CASE spare >= Cardinality(Holders) + FreeKey
      BY <2>t, <3>3, <3>4, <3>5, PostCards DEF PostInv
    <3>6. CASE spare >= Cardinality(Posters) + MaxFires - fires
      BY <2>t, <3>3, <3>6, PostCards DEF PostInv
    <3> QED BY <3>5, <3>6 DEF PostInv
  <2> QED BY <1>1, <2>1, <2>2 DEF Arrive
<1>2. ASSUME NEW p \in Replicas, RollbackDecr(p)
      PROVE  PostInv'
  <2>1. OthersKeepPc(p) /\ req'[p].pc \in {"drop", "unmark"}
    BY <1>2, DecrEffect, SameIsKept
  <2> QED BY <1>2, <2>1, QuietGoto DEF RollbackDecr, stores, Releasing, MayPost
<1>3. ASSUME NEW p \in Replicas, RollbackDrop(p)
      PROVE  PostInv'
  <2>1. ASSUME NEW q \in Replicas
        PROVE  /\ req'[q].pc = IF q = p THEN "unmark" ELSE req[q].pc
               /\ req'[q].counts = FALSE /\ req'[q].own = req[q].own
    <3>1. req[q] \in Requests
      BY TypedRequests
    <3>2. req'[q] = [req[q] EXCEPT !.counts = FALSE, !.pc = IF q = p THEN "unmark" ELSE @]
      BY <1>3 DEF RollbackDrop
    <3> QED BY <3>1, <3>2 DEF Requests
  <2>2. OthersKeepPc(p) /\ req'[p].pc = "unmark"
    BY <2>1 DEF OthersKeepPc
  <2> QED BY <1>3, <2>2, QuietGoto DEF RollbackDrop, stores, Releasing, MayPost
<1>4. ASSUME NEW p \in Replicas, RollbackUnmark(p) \/ RollbackFails(p) \/ Dies(p)
      PROVE  PostInv'
  <2>1. OthersKeepPc(p) /\ req'[p].pc = "idle"
    BY <1>4, DeliveredEffect, SameIsKept DEF RollbackUnmark, RollbackFails, Dies
  <2>2. fires' = fires /\ spare' = spare /\ table' = table
    BY <1>4 DEF RollbackUnmark, RollbackFails, Dies, stores
  <2> QED BY <2>1, <2>2, QuietGoto DEF Releasing, MayPost
<1>5. ASSUME NEW p \in Replicas, MemoryAges(p) \/ BurstElsewhere(p)
      PROVE  PostInv'
  BY <1>5 DEF MemoryAges, BurstElsewhere, PostInv, Posters, Holders, FreeKey, stores
<1>6. CASE KeyExpires
  <2>1. \A q \in Replicas : req'[q].pc = req[q].pc /\ req'[q].own = req[q].own
    <3>1. CASE req' = req
      BY <3>1
    <3>2. CASE CountGone
      <4> TAKE q \in Replicas
      <4>1. req[q] \in Requests /\ req'[q] = [req[q] EXCEPT !.counts = FALSE]
        BY <3>2, TypedRequests DEF CountGone
      <4> QED BY <4>1 DEF Requests
    <3> QED BY <1>6, <3>1, <3>2 DEF KeyExpires
  <2>2. Posters' = Posters /\ Holders' = Holders
    BY <2>1 DEF Posters, Holders
  <2>3. Cardinality(Posters') = Cardinality(Posters) /\ Cardinality(Holders') = Cardinality(Holders)
    BY <2>2
  <2>4. fires' = fires /\ spare' = spare /\ FreeKey' = FreeKey
    BY <1>6 DEF KeyExpires, FreeKey, stores
  <2> QED BY <2>3, <2>4 DEF PostInv
<1>7. CASE RowAges
  <2>1. Cardinality(Posters') = Cardinality(Posters) /\ Cardinality(Holders') = Cardinality(Holders)
    BY <1>7 DEF RowAges, Posters, Holders
  <2>2. table # NoKey /\ table \in Row /\ fires' = fires
    BY <1>7 DEF RowAges, TypeOK
  <2>3. CASE OneMore
    <3>1. Cardinality(Holders') + FreeKey' <= Cardinality(Holders) + FreeKey + 1
      BY <2>1, PostCards
    <3> QED BY <2>1, <2>2, <2>3, <3>1, PostCards, Balance
  <2>4. CASE spare' = spare /\ (\E a \in Ages : table' = [table EXCEPT !.age = a])
    <3>1. table' \in Row
      BY <2>2, <2>4 DEF Row
    <3>2. table' # NoKey
      BY <3>1 DEF Row, Ages
    <3>3. FreeKey' = 0
      BY <3>2 DEF FreeKey
    <3>4. Cardinality(Holders') + FreeKey' <= Cardinality(Holders) + FreeKey
      BY <2>1, <3>3, PostCards
    <3> QED BY <2>1, <2>2, <2>4, <3>4, PostCards, Balance
  <2> QED BY <1>7, <2>3, <2>4 DEF RowAges, Ages
<1>8. CASE UNCHANGED vars
  BY <1>8 DEF vars, PostInv, Posters, Holders, FreeKey, stores
<1> QED
  BY <1>1, <1>2, <1>3, <1>4, <1>5, <1>6, <1>7, <1>8, DecideKeepsPost, SendKeepsPost
  DEF Next, Rollback

\* One message per window and key, for any number of replicas and faults: every
\* further message is paid for by a new window, an orphan, an answer of Discord
\* that was lost or had no id, the release of a foreign placeholder or a database
\* call that failed.  The claim of dedup_store is exclusive without any lock that
\* is held during the POST.
THEOREM MessagesAreExplained == Spec => []DuplicatesExplained
<1> USE ForwardAssumption
<1>1. Init => PostInv
  <2> SUFFICES ASSUME Init PROVE PostInv
    OBVIOUS
  <2>1. \A p \in Replicas : req[p].pc = "idle"
    BY DEF Init, Idle
  <2>2. Posters = {} /\ Holders = {}
    BY <2>1 DEF Posters, Holders, MayPost, Releasing
  <2>3. Cardinality(Posters) = 0 /\ Cardinality(Holders) = 0
    BY <2>2, FS_EmptySet
  <2> QED BY <2>3 DEF Init, PostInv, FreeKey
<1>2. TypeOK /\ PostInv /\ [Next]_vars => PostInv'
  BY PostStep
<1>3. TypeOK /\ PostInv => DuplicatesExplained
  BY PostCards DEF TypeOK, PostInv, DuplicatesExplained
<1> QED BY <1>1, <1>2, <1>3, ForwardTypes, PTL DEF Spec

=============================================================================
