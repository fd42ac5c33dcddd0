---------------------------- MODULE AlertForward ----------------------------
(***************************************************************************)
(* One alert on its way into Discord: every firing notification of one     *)
(* (alertname, service) passes decide_send, which counts fires in Redis,   *)
(* is enriched, and is posted or merged into the message that is already   *)
(* in the channel (discord_dedup: a placeholder row before the POST, the   *)
(* message id after it).  Replicas of the API handle fires concurrently;   *)
(* each Redis command, each transaction and each HTTP call is one step.    *)
(* The incident channel uses the same rows without decide_send and with a  *)
(* burst counter per process.                                              *)
(***************************************************************************)
EXTENDS Integers, FiniteSets

CONSTANTS
  Replicas,     \* API processes, each with at most one fire in its hands
  Channels,     \* subset of {"enriched", "incident"}
  MinCount,     \* CHRONIC_MIN_COUNT
  LinkedMin,    \* _LINKED_MIN_COUNT
  NoKey,        \* an absent Redis key, an absent row
  MaxFires,     \* bound: fires
  MaxFaults     \* bound: failing database or Redis calls and killed processes

ASSUME ForwardAssumption ==
  /\ IsFiniteSet(Replicas)
  /\ Channels \subseteq {"enriched", "incident"}
  /\ NoKey \notin [msg : BOOLEAN, age : {"fresh", "orphan", "stale"}]
  /\ NoKey \notin [n : Int, ttl : BOOLEAN]
  /\ MinCount \in Nat \ {0} /\ LinkedMin \in Nat \ {0}
  /\ MaxFires \in Nat /\ MaxFaults \in Nat

VARIABLES
  channel,   \* which of the two channels this behaviour is about
  cnt,       \* enrich:lastsent:*:cnt: [n, ttl], or NoKey
  last,      \* enrich:lastsent:*:last: "none", "recent", or "quiet" (> 2 h old)
  resurf,    \* enrich:lastsent:*:resurface is set
  table,     \* the discord_dedup row of the key: [msg, age], or NoKey
  memory,    \* _recent_enriched of each process: the same, when Postgres fails
  burst,     \* _recent_by_alertname of each process: its count, 0 = no entry
  req,       \* the fire each replica handles
  fires,     \* bound: fires so far
  faults,    \* bound: faults so far
  seen,      \* history: fires in cnt that were shown, merged or suppressed
  hoped,     \* history: fires in cnt merged into a placeholder, not a message
  astray,    \* history: fires in cnt that a fault kept from the channel
  spare      \* history: messages that are accounted for and not yet posted

redis == <<cnt, last, resurf>>
stores == <<table, memory>>
account == <<seen, hoped, astray>>
vars == <<channel, redis, stores, burst, req, fires, faults, account, spare>>

Ages == {"fresh", "orphan", "stale"}   \* up to 120 s, up to 30 min, older

\* msg: the row names a message; without one it is the placeholder of a claim.
Row == [msg : BOOLEAN, age : Ages]

\* _is_orphan_claim; a row with a message keeps its whole window.
Usable(row) ==
  /\ row # NoKey
  /\ row.age # "stale"
  /\ row.msg \/ row.age = "fresh"

\* The row a claim inserts.
Placeholder == [msg |-> FALSE, age |-> "fresh"]

\* own: the placeholder in the table is the one this request wrote; counts: the
\* count that Redis holds includes this fire.
Idle == [pc |-> "idle", decision |-> "none", counts |-> FALSE, own |-> FALSE]

\* One more message is expected, up to what the remaining fires can post.
OneMore == spare' = IF spare < MaxFires THEN spare + 1 ELSE spare

\* What becomes of a fire that cnt includes: somebody saw it, somebody may see
\* it, or it was lost.
Shown(p) == seen' = (IF req[p].counts THEN seen + 1 ELSE seen) /\ UNCHANGED <<hoped, astray>>
Hoped(p) == hoped' = (IF req[p].counts THEN hoped + 1 ELSE hoped) /\ UNCHANGED <<seen, astray>>
Lost(p) == astray' = (IF req[p].counts THEN astray + 1 ELSE astray) /\ UNCHANGED <<seen, hoped>>

\* The count is deleted or set anew, and with it what it counted.
NewAccount == seen' = 0 /\ hoped' = 0 /\ astray' = 0

Goto(p, label) == req' = [req EXCEPT ![p].pc = label]

\* Redis fails inside decide_send or rollback_undelivered, Postgres inside a
\* call of dedup_store.
Fault == faults < MaxFaults /\ faults' = faults + 1

\* The fire is done with: shown, merged into a message or suppressed.
Delivered(p) == req' = [req EXCEPT ![p] = Idle] /\ Shown(p)

-----------------------------------------------------------------------------
(* Redis: decide_send.                                                     *)

\* A notification for the alert arrives: /enrich-and-forward groups it,
\* inhibited warnings and rollout noise (L4) end here.
Arrive(p) ==
  /\ req[p].pc = "idle" /\ fires < MaxFires
  /\ fires' = fires + 1
  /\ \/ channel = "enriched" /\ Goto(p, "decide")
     \/ channel = "enriched" /\ UNCHANGED req
     \/ channel = "incident" /\ Goto(p, "claim")
  /\ UNCHANGED <<channel, redis, stores, burst, faults, account, spare>>

\* GET last.
ReadLast(p) ==
  /\ req[p].pc = "decide"
  /\ Goto(p, IF last = "quiet" THEN "quiet" ELSE "ensure")
  /\ UNCHANGED <<channel, redis, stores, burst, fires, faults, account, spare>>

\* Silent for two hours although the alert never stopped (_all_continuous): a
\* repeat of Alertmanager.  A warning is suppressed, a critical one reminded.
Repeat(p) ==
  /\ req[p].pc = "quiet"
  /\ \/ Goto(p, "remind") /\ UNCHANGED <<last, account>>
     \/ Delivered(p) /\ last' = "recent"
  /\ UNCHANGED <<channel, cnt, resurf, stores, burst, fires, faults, spare>>

\* SET NX on the marker: one winner, the loser counts as an ordinary fire.
ClaimResurface(p) ==
  /\ req[p].pc = "quiet"
  /\ resurf' = TRUE
  /\ Goto(p, IF resurf THEN "ensure" ELSE "resurface")
  /\ UNCHANGED <<channel, cnt, last, stores, burst, fires, faults, account, spare>>

\* SET cnt 1 EX window, after a won resurface or for a reminder.
ResetCount(p) ==
  /\ req[p].pc \in {"remind", "resurface"}
  /\ cnt' = [n |-> 1, ttl |-> TRUE]
  /\ NewAccount
  /\ req' = [q \in Replicas |->
       IF q = p
       THEN [req[p] EXCEPT !.pc = "touch", !.counts = TRUE,
                           !.decision = IF req[p].pc = "remind" THEN "send" ELSE "resurfaced"]
       ELSE [req[q] EXCEPT !.counts = FALSE]]
  /\ UNCHANGED <<channel, last, resurf, stores, burst, fires, faults, spare>>

\* SET cnt 0 NX EX window.
EnsureCount(p) ==
  /\ req[p].pc = "ensure"
  /\ cnt' = IF cnt = NoKey THEN [n |-> 0, ttl |-> TRUE] ELSE cnt
  /\ Goto(p, "incr")
  /\ UNCHANGED <<channel, last, resurf, stores, burst, fires, faults, account, spare>>

\* INCR creates a missing key without a TTL.
CountAfter == IF cnt = NoKey THEN [n |-> 1, ttl |-> FALSE] ELSE [cnt EXCEPT !.n = @ + 1]

\* INCR: the fire is counted before anything was sent.
Incr(p) ==
  /\ req[p].pc = "incr"
  /\ cnt' = CountAfter
  /\ req' = [req EXCEPT ![p].pc = "touch", ![p].counts = TRUE,
                        ![p].decision = IF cnt'.n >= MinCount THEN "none" ELSE "send"]
  /\ UNCHANGED <<channel, last, resurf, stores, burst, fires, faults, account, spare>>

\* SET last; SUPPRESS_CHRONIC ends the fire, SEND goes on to the enrichment.
TouchLast(p) ==
  /\ req[p].pc = "touch"
  /\ last' = "recent"
  /\ IF req[p].decision = "none" THEN Delivered(p)
     ELSE Goto(p, "enrich") /\ UNCHANGED account
  /\ UNCHANGED <<channel, cnt, resurf, stores, burst, fires, faults, spare>>

\* Any Redis command of decide_send fails: SEND_NO_DEDUP, also when INCR or SET
\* has counted the fire already.
RedisFails(p) ==
  /\ req[p].pc \in {"decide", "quiet", "remind", "resurface", "ensure", "incr", "touch"}
  /\ Fault
  /\ req' = [req EXCEPT ![p].pc = "enrich", ![p].decision = "no_dedup"]
  /\ UNCHANGED <<channel, redis, stores, burst, fires, account, spare>>

\* The count is gone.
CountGone ==
  /\ cnt' = NoKey
  /\ NewAccount
  /\ req' = [q \in Replicas |-> [req[q] EXCEPT !.counts = FALSE]]

\* Keys end with their TTL; `last` is older than two hours before it is gone.
KeyExpires ==
  /\ \/ cnt # NoKey /\ cnt.ttl /\ CountGone /\ UNCHANGED <<last, resurf>>
     \/ last = "recent" /\ last' = "quiet" /\ UNCHANGED <<cnt, resurf, req, account>>
     \/ last = "quiet" /\ last' = "none" /\ UNCHANGED <<cnt, resurf, req, account>>
     \/ resurf /\ resurf' = FALSE /\ UNCHANGED <<cnt, last, req, account>>
  /\ UNCHANGED <<channel, stores, burst, fires, faults, spare>>

-----------------------------------------------------------------------------
(* Discord: claim, POST, save.                                             *)

\* Mutant: rollback_undelivered is not called.
UndeliveredForgotten(p) == req' = [req EXCEPT ![p] = Idle] /\ UNCHANGED account

\* The fire is known not to have reached the channel; SEND_NO_DEDUP is not
\* rolled back, although the fire may have been counted before Redis failed.
Undelivered(p) ==
  IF req[p].decision \in {"send", "resurfaced"}
  THEN req' = [req EXCEPT ![p].pc = "rollback", ![p].own = FALSE] /\ UNCHANGED account
  ELSE req' = [req EXCEPT ![p] = Idle] /\ Lost(p)

\* claim returned a usable row: its message is PATCHed; the placeholder of
\* another process is taken for a message to come.
Merge(p, row) ==
  IF row.msg THEN Goto(p, "patch") /\ UNCHANGED account
  ELSE req' = [req EXCEPT ![p] = Idle] /\ Hoped(p)

\* enrich_alert ends, or raises: the except branch rolls the count back.
Enrich(p) ==
  /\ req[p].pc = "enrich"
  /\ \/ Goto(p, "claim") /\ UNCHANGED account
     \/ Undelivered(p)
  /\ UNCHANGED <<channel, redis, stores, burst, fires, faults, spare>>

\* A call of dedup_store works on the row in Postgres, or, when that raises, on
\* the memory of its own process.
Backend(pg) == (pg /\ UNCHANGED faults) \/ (~pg /\ Fault)

StoreOf(p, pg) == IF pg THEN table ELSE memory[p]

SetStore(p, pg, row) ==
  IF pg THEN table' = row /\ UNCHANGED memory
  ELSE memory' = [memory EXCEPT ![p] = row] /\ UNCHANGED table

\* claim, first part: get_fresh.
ClaimReads(p) ==
  /\ req[p].pc = "claim"
  /\ \E pg \in BOOLEAN :
       /\ Backend(pg)
       /\ IF Usable(StoreOf(p, pg)) THEN Merge(p, StoreOf(p, pg))
          ELSE Goto(p, "insert") /\ UNCHANGED account
  /\ UNCHANGED <<channel, redis, stores, burst, fires, spare>>

\* The placeholder is p's; whoever had one before has lost it.
TakesOver(p) ==
  req' = [q \in Replicas |->
            IF q = p THEN [req[p] EXCEPT !.pc = IF channel = "incident" THEN "burst" ELSE "post",
                                         !.own = TRUE]
            ELSE [req[q] EXCEPT !.own = FALSE]]

\* claim, second part: the INSERT wins a free key or meets a row.
ClaimInserts(p) ==
  /\ req[p].pc = "insert"
  /\ Backend(TRUE)
  /\ IF table = NoKey THEN SetStore(p, TRUE, Placeholder) /\ TakesOver(p)
     ELSE Goto(p, "conflict") /\ UNCHANGED stores
  /\ UNCHANGED <<channel, redis, burst, fires, account, spare>>

\* Mutant: the row that won the race is not read again.
ReclaimableAlways(row) == TRUE

\* A conflicting row that may be re-claimed: stale, or an orphan.
Reclaimable(row) == ~Usable(row)

\* claim, third part: the row is locked.  Gone meanwhile: POST without a row.
ClaimLocks(p) ==
  /\ req[p].pc = "conflict"
  /\ Backend(TRUE)
  /\ IF table = NoKey
     THEN /\ Goto(p, IF channel = "incident" THEN "burst" ELSE "post")
          /\ OneMore /\ UNCHANGED <<stores, account>>
     ELSE IF Reclaimable(table)
     THEN /\ SetStore(p, TRUE, Placeholder) /\ TakesOver(p)
          /\ IF Usable(table) THEN UNCHANGED spare ELSE OneMore
          /\ UNCHANGED account
     ELSE Merge(p, table) /\ UNCHANGED <<stores, spare>>
  /\ UNCHANGED <<channel, redis, burst, fires>>

\* Postgres fails during the INSERT or the lock: the claim is one of memory.
ClaimFallsBack(p) ==
  /\ req[p].pc \in {"insert", "conflict"}
  /\ Backend(FALSE)
  /\ IF Usable(memory[p]) THEN Merge(p, memory[p]) /\ UNCHANGED <<stores, spare>>
     ELSE /\ SetStore(p, FALSE, Placeholder)
          /\ Goto(p, IF channel = "incident" THEN "burst" ELSE "post")
          /\ OneMore /\ UNCHANGED account
  /\ UNCHANGED <<channel, redis, burst, fires>>

\* The incident channel: a burst of the alertname in this process is merged
\* into its first message, and the claim released; otherwise POST.
Burst(p) ==
  /\ req[p].pc = "burst"
  /\ IF burst[p] >= LinkedMin - 1
     THEN Goto(p, "release_linked")
     ELSE Goto(p, "post")
  /\ UNCHANGED <<channel, redis, stores, burst, fires, faults, account, spare>>

\* What a POST ends with, after its repetitions on 429: a message with its id, a
\* message without id, no message, or an exception after which there may be one.
Answers == {[reached |-> TRUE, got |-> "id"], [reached |-> TRUE, got |-> "no_id"],
            [reached |-> FALSE, got |-> "error"], [reached |-> TRUE, got |-> "error"]}

\* POST with wait=true.
Post(p) ==
  /\ req[p].pc = "post"
  /\ \E a \in Answers :
       /\ spare' = IF a.got = "id" THEN spare - 1 ELSE spare
       /\ Goto(p, CASE a.got = "id" -> "save"
                    [] a.got = "no_id" -> "release_sent"
                    [] a.got = "error" -> "release")
  /\ UNCHANGED <<channel, redis, stores, burst, fires, faults, account>>

\* first_ts is the moment before the claim: the row written by its claimant
\* keeps its age, a later claimant's row becomes older again.
AgeOf(p, row) ==
  IF row = NoKey THEN Ages
  ELSE IF req[p].own THEN {row.age}
  ELSE {a \in Ages : row.age = "stale" => a = "stale"}

\* save: an unconditional upsert of the message id; the burst of the incident
\* channel counts it.
Save(p) ==
  /\ req[p].pc = "save"
  /\ \E pg \in BOOLEAN, age \in Ages :
       /\ Backend(pg)
       /\ age \in AgeOf(p, StoreOf(p, pg))
       /\ SetStore(p, pg, [msg |-> TRUE, age |-> age])
  /\ Delivered(p)
  /\ burst' = IF channel = "incident" /\ burst[p] < LinkedMin
              THEN [burst EXCEPT ![p] = @ + 1] ELSE burst
  /\ UNCHANGED <<channel, redis, fires, spare>>

\* bump and PATCH of the message in the row; a row that is gone, a failed bump
\* or a failed PATCH changes nothing, and the fire counts as delivered.
PatchRecurrence(p) ==
  /\ req[p].pc = "patch"
  /\ Delivered(p)
  /\ UNCHANGED <<channel, redis, stores, burst, fires, faults, spare>>

\* The first message of a burst is PATCHed instead, when it is still known.
PatchLinked(p) ==
  /\ req[p].pc = "linked"
  /\ burst' = IF burst[p] \in 1 .. LinkedMin - 1 THEN [burst EXCEPT ![p] = @ + 1] ELSE burst
  /\ Delivered(p)
  /\ UNCHANGED <<channel, redis, stores, fires, faults, spare>>

\* release deletes a placeholder, also one that is no longer its own.
Release(p) ==
  /\ req[p].pc \in {"release", "release_sent", "release_linked"}
  /\ \E pg \in BOOLEAN :
       /\ Backend(pg)
       /\ LET row == StoreOf(p, pg)
              drops == row # NoKey /\ ~row.msg
          IN /\ IF drops THEN SetStore(p, pg, NoKey) ELSE UNCHANGED stores
             /\ IF drops /\ pg /\ ~req[p].own THEN OneMore ELSE UNCHANGED spare
  /\ CASE req[p].pc = "release" -> Undelivered(p)
       [] req[p].pc = "release_sent" -> Delivered(p)
       [] req[p].pc = "release_linked" -> Goto(p, "linked") /\ UNCHANGED account
  /\ UNCHANGED <<channel, redis, burst, fires>>

\* Rows grow old, and purge_stale deletes the stale ones.
RowAges ==
  /\ table # NoKey
  /\ \/ table.age = "fresh" /\ table' = [table EXCEPT !.age = "orphan"] /\ UNCHANGED spare
     \/ table.age = "orphan" /\ table' = [table EXCEPT !.age = "stale"] /\ UNCHANGED spare
     \/ table.age = "stale" /\ table' = NoKey /\ OneMore
  /\ UNCHANGED <<channel, redis, memory, burst, req, fires, faults, account>>

\* The same alertname is posted for another pod or namespace of this process.
BurstElsewhere(p) ==
  /\ channel = "incident" /\ burst[p] < LinkedMin
  /\ burst' = [burst EXCEPT ![p] = @ + 1]
  /\ UNCHANGED <<channel, redis, stores, req, fires, faults, account, spare>>

\* The same in the memory of a process, and the end of a burst.
MemoryAges(p) ==
  /\ \/ /\ memory[p] # NoKey
        /\ memory' = [memory EXCEPT ![p] =
             IF @.age = "fresh" THEN [@ EXCEPT !.age = "orphan"]
             ELSE IF @.age = "orphan" THEN [@ EXCEPT !.age = "stale"] ELSE NoKey]
        /\ UNCHANGED burst
     \/ burst[p] # 0 /\ burst' = [burst EXCEPT ![p] = 0] /\ UNCHANGED memory
  /\ UNCHANGED <<channel, redis, table, req, fires, faults, account, spare>>

-----------------------------------------------------------------------------
(* rollback_undelivered.                                                   *)

\* DECR creates a missing key too.
RollbackDecr(p) ==
  /\ req[p].pc = "rollback"
  /\ cnt' = IF cnt = NoKey THEN [n |-> -1, ttl |-> FALSE] ELSE [cnt EXCEPT !.n = @ - 1]
  /\ req' = [req EXCEPT ![p].pc = IF cnt'.n <= 0 THEN "drop" ELSE "unmark", ![p].counts = FALSE]
  /\ UNCHANGED <<channel, last, resurf, stores, burst, fires, faults, account, spare>>

\* DELETE of a count that was zero or less a moment ago.
RollbackDrop(p) ==
  /\ req[p].pc = "drop"
  /\ cnt' = NoKey
  /\ NewAccount
  /\ req' = [q \in Replicas |-> [req[q] EXCEPT !.counts = FALSE,
                                              !.pc = IF q = p THEN "unmark" ELSE @]]
  /\ UNCHANGED <<channel, last, resurf, stores, burst, fires, faults, spare>>

\* The marker of a resurface that nobody saw.
RollbackUnmark(p) ==
  /\ req[p].pc = "unmark"
  /\ resurf' = IF req[p].decision = "resurfaced" THEN FALSE ELSE resurf
  /\ req' = [req EXCEPT ![p] = Idle]
  /\ UNCHANGED <<channel, cnt, last, stores, burst, fires, faults, account, spare>>

\* The process is killed: what it counted stays counted.
Dies(p) ==
  /\ req[p].pc # "idle"
  /\ Fault
  /\ req' = [req EXCEPT ![p] = Idle]
  /\ memory' = [memory EXCEPT ![p] = NoKey]
  /\ burst' = [burst EXCEPT ![p] = 0]
  /\ IF req[p].pc \in {"save", "release_sent"} THEN Shown(p) ELSE Lost(p)
  /\ UNCHANGED <<channel, redis, table, fires, spare>>

\* Redis fails in the roll-back: the same.
RollbackFails(p) ==
  /\ req[p].pc \in {"rollback", "drop", "unmark"}
  /\ Fault
  /\ req' = [req EXCEPT ![p] = Idle]
  /\ Lost(p)
  /\ UNCHANGED <<channel, redis, stores, burst, fires, spare>>

-----------------------------------------------------------------------------
Init ==
  /\ channel \in Channels
  /\ cnt = NoKey /\ last = "none" /\ resurf = FALSE
  /\ table = NoKey
  /\ memory = [p \in Replicas |-> NoKey]
  /\ burst = [p \in Replicas |-> 0]
  /\ req = [p \in Replicas |-> Idle]
  /\ fires = 0 /\ faults = 0
  /\ seen = 0 /\ hoped = 0 /\ astray = 0 /\ spare = 1

Decide(p) ==
  \/ ReadLast(p) \/ Repeat(p) \/ ClaimResurface(p) \/ ResetCount(p)
  \/ EnsureCount(p) \/ Incr(p) \/ TouchLast(p) \/ RedisFails(p)

Send(p) ==
  \/ Enrich(p) \/ ClaimReads(p) \/ ClaimInserts(p) \/ ClaimLocks(p)
  \/ ClaimFallsBack(p) \/ Burst(p) \/ Post(p) \/ Save(p) \/ Release(p)
  \/ PatchRecurrence(p) \/ PatchLinked(p)

Rollback(p) ==
  RollbackDecr(p) \/ RollbackDrop(p) \/ RollbackUnmark(p) \/ RollbackFails(p)

Next ==
  \/ \E p \in Replicas :
       Arrive(p) \/ Decide(p) \/ Send(p) \/ Rollback(p) \/ Dies(p) \/ MemoryAges(p)
       \/ BurstElsewhere(p)
  \/ KeyExpires \/ RowAges

Spec == Init /\ [][Next]_vars

-----------------------------------------------------------------------------
Pcs == {"idle", "decide", "quiet", "remind", "resurface", "ensure", "incr",
        "touch", "enrich", "claim", "insert", "conflict", "burst", "post",
        "save", "release", "release_sent", "release_linked", "patch",
        "linked", "rollback",
        "drop", "unmark"}

TypeOK ==
  /\ cnt \in [n : Int, ttl : BOOLEAN] \cup {NoKey}
  /\ last \in {"none", "recent", "quiet"}
  /\ resurf \in BOOLEAN
  /\ table \in Row \cup {NoKey}
  /\ memory \in [Replicas -> Row \cup {NoKey}]
  /\ burst \in [Replicas -> 0 .. LinkedMin]
  /\ req \in [Replicas -> [pc : Pcs, own : BOOLEAN, counts : BOOLEAN,
                            decision : {"none", "send", "resurfaced", "no_dedup"}]]
  /\ fires \in 0 .. MaxFires /\ faults \in 0 .. MaxFaults
  /\ seen \in Nat /\ hoped \in Nat /\ astray \in Nat /\ spare \in Int

\* One message per window and key, whatever replicas, deaths and fail-overs do.
\* Each further one is paid for by a new window, a placeholder that its owner
\* let become an orphan, an answer of Discord that did not arrive or had no id,
\* a release that hit the placeholder of another process, or a database call
\* that failed.
DuplicatesExplained == spare >= 0

\* The fires under way that cnt includes, the ones that wait for their DECR too.
UnderWay == {p \in Replicas : req[p].counts}

\* Three deliveries that fail do not suppress the fourth: the count never
\* exceeds the fires of its window that were shown, merged into a posted message
\* (whether its PATCH succeeds or not) or suppressed, the fires under way, and
\* two kinds that nobody may have seen: those merged into the placeholder of a
\* claim, whose message may never come, and those lost through a fault, which
\* are no more than the faults: a process killed after INCR, a roll-back that
\* Redis refused, or Redis failing after INCR and Discord after that.  Every
\* other undelivered fire is rolled back, across expiries, resets, deletions
\* and concurrent fires.
CountExplained ==
  /\ cnt # NoKey => cnt.n <= seen + hoped + astray + Cardinality(UnderWay)
  /\ astray <= faults
=============================================================================
