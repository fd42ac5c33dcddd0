--------------------------- MODULE WebhookGuard ---------------------------
(***************************************************************************)
(* What stands between Alertmanager and a webhook handler: the rate limit    *)
(* (app/api/rate_limit.py, a middleware of app/main.py) and the protection    *)
(* against replays (app/security/replay.py, a dependency of the routes of     *)
(* app/api/webhooks.py).  Both count in Redis and fall back to the memory of  *)
(* the api process.                                                          *)
(*                                                                         *)
(* Alertmanager (external) sends a batch, and sends the same bytes, hence     *)
(* the same signature, again after a 5xx, a 429 or a timeout.                 *)
(***************************************************************************)
EXTENDS Integers, FiniteSets

CONSTANTS Procs,       \* api processes
          Slots,       \* requests that may be under way at the same time
          Batches,     \* signed batches, from one client address
          RateLimit,   \* ALERTMANAGER_RATE_LIMIT
          MaxSends,    \* bound: deliveries of one batch
          MaxLapses    \* bound: expiries and evictions of one signature

ASSUME GuardAssumption ==
    /\ IsFiniteSet(Procs) /\ IsFiniteSet(Slots) /\ IsFiniteSet(Batches)
    /\ RateLimit \in Nat \ {0}
    /\ {MaxSends, MaxLapses} \subseteq Nat

VARIABLES am,         \* what Alertmanager knows of each batch
          request,    \* the request in each slot: its batch, process and step
          hits,       \* the counter of the address and window in Redis
          localHits,  \* _fallback_counters of each process
          passed,     \* how many requests the limit has let through in the window
          seen,       \* the signatures in the SeenSignatureCache of each process
          nonces,     \* the signatures registered in Redis
          cooling,    \* the processes whose nonce store is in its cooldown
          entered,    \* how often each batch got past the replay check
          blind,      \* how often it did so without an answer of the shared store
          lapsed,     \* how often a registration of it expired or was evicted
          served      \* the batches that some handler has finished

guardVars == <<am, request, hits, localHits, passed, seen, nonces, cooling,
               entered, blind, lapsed, served>>

Steps == {"none", "limit", "verify", "handle"}

GuardTypeOK ==
    /\ am \in [Batches -> [state : {"pending", "acknowledged", "dropped"},
                           sends : 0 .. MaxSends]]
    /\ request \in [Slots -> [batch : Batches, proc : Procs, step : Steps]]
    /\ hits \in 0 .. RateLimit + 1 /\ localHits \in [Procs -> 0 .. RateLimit + 1]
    /\ passed \in Nat
    /\ seen \in [Procs -> SUBSET Batches]
    /\ nonces \subseteq Batches /\ cooling \subseteq Procs /\ served \subseteq Batches
    /\ {entered, blind, lapsed} \subseteq [Batches -> Nat]

NoRequest == [batch |-> CHOOSE b \in Batches : TRUE,
              proc  |-> CHOOSE p \in Procs : TRUE, step |-> "none"]

GuardInit ==
    /\ am = [b \in Batches |-> [state |-> "pending", sends |-> 0]]
    /\ request = [s \in Slots |-> NoRequest]
    /\ hits = 0 /\ localHits = [p \in Procs |-> 0] /\ passed = 0
    /\ seen = [p \in Procs |-> {}]
    /\ nonces = {} /\ cooling = {} /\ served = {}
    /\ entered = [b \in Batches |-> 0]
    /\ blind = [b \in Batches |-> 0]
    /\ lapsed = [b \in Batches |-> 0]

limitVars == <<hits, localHits, passed>>
replayVars == <<seen, nonces, cooling, entered, blind>>

At(s, step) == request[s].step = step
Proceeds(s, step) == request' = [request EXCEPT ![s].step = step]
Leaves(s) == request' = [request EXCEPT ![s] = NoRequest]

(* External: a delivery, the first or a repetition.  Only an acknowledged or a
   dropped batch is not sent again. *)
Deliver(s, p, b) ==
    /\ At(s, "none")
    /\ am[b].state = "pending" /\ am[b].sends < MaxSends
    /\ am' = [am EXCEPT ![b].sends = @ + 1]
    /\ request' = [request EXCEPT ![s] = [batch |-> b, proc |-> p, step |-> "limit"]]
    /\ UNCHANGED <<limitVars, replayVars, lapsed, served>>

(***************************************************************************)
(* rate_limit_middleware and check_alertmanager.                             *)
(***************************************************************************)

\* Counters are held at the first refused value.
Held(n) == IF n > RateLimit THEN n ELSE n + 1

\* INCR and its verdict; 429 leaves the batch to another delivery.
LimitShared(s) ==
    /\ At(s, "limit")
    /\ hits' = Held(hits)
    /\ IF hits' > RateLimit THEN Leaves(s) /\ UNCHANGED passed
                        ELSE Proceeds(s, "verify") /\ passed' = passed + 1
    /\ UNCHANGED <<am, localHits, replayVars, lapsed, served>>

\* Mutated LimitFallback: without Redis every request passes.
LimitOffWithoutRedis(s) ==
    /\ At(s, "limit")
    /\ hits' \in {hits, Held(hits)}
    /\ Proceeds(s, "verify") /\ passed' = passed + 1
    /\ UNCHANGED <<am, localHits, replayVars, lapsed, served>>

(* Redis raised, perhaps after it had counted: the counter of the process
   decides with the same limit. *)
LimitFallback(s) ==
    /\ At(s, "limit")
    /\ hits' \in {hits, Held(hits)}
    /\ LET p == request[s].proc
       IN  /\ localHits' = [localHits EXCEPT ![p] = Held(@)]
           /\ IF localHits'[p] > RateLimit
                 THEN Leaves(s) /\ UNCHANGED passed
                 ELSE Proceeds(s, "verify") /\ passed' = passed + 1
    /\ UNCHANGED <<am, replayVars, lapsed, served>>

\* The next minute: other keys.
WindowTurns ==
    /\ hits > 0 \/ \E p \in Procs : localHits[p] > 0
    /\ hits' = 0 /\ localHits' = [p \in Procs |-> 0] /\ passed' = 0
    /\ UNCHANGED <<am, request, replayVars, lapsed, served>>

(***************************************************************************)
(* verify_alertmanager_signature, after the signature was found valid:       *)
(* seen_recently.  It does not await, so it is one step of its process.       *)
(***************************************************************************)

\* 401.  Alertmanager does not repeat after a 4xx.
Rejected(b) ==
    am' = [am EXCEPT ![b].state = IF @ = "acknowledged" THEN @ ELSE "dropped"]

\* _seen_locally registers a signature it does not know.
Registered(p, b) == [seen EXCEPT ![p] = @ \cup {b}]

\* The local cache knows the signature.
ReplayLocal(s) ==
    LET p == request[s].proc   b == request[s].batch
    IN  /\ At(s, "verify")
        /\ b \in seen[p]
        /\ Leaves(s) /\ Rejected(b)
        /\ UNCHANGED <<limitVars, replayVars, lapsed, served>>

\* Mutated ReplayShared: the claim overwrites (SET without NX).
ReplaySharedBlind(s) ==
    LET p == request[s].proc   b == request[s].batch
    IN  /\ At(s, "verify")
        /\ b \notin seen[p] /\ p \notin cooling
        /\ seen' = Registered(p, b)
        /\ nonces' = nonces \cup {b}
        /\ entered' = [entered EXCEPT ![b] = @ + 1]
        /\ Proceeds(s, "handle")
        /\ UNCHANGED <<am, limitVars, cooling, blind, lapsed, served>>

\* SET NX answered: the first process to come takes the signature.
ReplayShared(s) ==
    LET p == request[s].proc   b == request[s].batch
    IN  /\ At(s, "verify")
        /\ b \notin seen[p] /\ p \notin cooling
        /\ seen' = Registered(p, b)
        /\ nonces' = nonces \cup {b}
        /\ \/ /\ b \in nonces
              /\ Leaves(s) /\ Rejected(b)
              /\ UNCHANGED entered
           \/ /\ b \notin nonces
              /\ entered' = [entered EXCEPT ![b] = @ + 1]
              /\ Proceeds(s, "handle") /\ UNCHANGED am
        /\ UNCHANGED <<limitVars, cooling, blind, lapsed, served>>

(* The store is in its cooldown or raises, perhaps after it had set the key;
   an error begins the cooldown.  The local answer stands. *)
ReplayUnanswered(s) ==
    LET p == request[s].proc   b == request[s].batch
    IN  /\ At(s, "verify")
        /\ b \notin seen[p]
        /\ seen' = Registered(p, b)
        /\ nonces' \in IF p \in cooling THEN {nonces} ELSE {nonces, nonces \cup {b}}
        /\ cooling' = cooling \cup {p}
        /\ entered' = [entered EXCEPT ![b] = @ + 1]
        /\ blind' = [blind EXCEPT ![b] = @ + 1]
        /\ Proceeds(s, "handle")
        /\ UNCHANGED <<am, limitVars, lapsed, served>>

CooldownEnds(p) ==
    /\ p \in cooling
    /\ cooling' = cooling \ {p}
    /\ UNCHANGED <<am, request, limitVars, seen, nonces, entered, blind, lapsed, served>>

(* A registration is gone: its TTL has run out, or, in the memory of a process,
   max_entries younger ones have pushed it out or the process was restarted. *)
Lapses(b) ==
    /\ lapsed[b] < MaxLapses
    /\ lapsed' = [lapsed EXCEPT ![b] = @ + 1]
    /\ \/ b \in nonces /\ nonces' = nonces \ {b} /\ UNCHANGED seen
       \/ /\ \E p \in Procs : b \in seen[p] /\ seen' = [seen EXCEPT ![p] = @ \ {b}]
          /\ UNCHANGED nonces
    /\ UNCHANGED <<am, request, limitVars, cooling, entered, blind, served>>

(***************************************************************************)
(* The handler, seen from here: it finishes or it does not.                  *)
(***************************************************************************)

\* 202; the answer may still be lost.
HandlerServes(s) ==
    LET b == request[s].batch
    IN  /\ At(s, "handle")
        /\ served' = served \cup {b}
        /\ Leaves(s)
        /\ \/ am' = [am EXCEPT ![b].state = IF @ = "dropped" THEN @ ELSE "acknowledged"]
           \/ UNCHANGED am
        /\ UNCHANGED <<limitVars, replayVars, lapsed>>

\* An exception (the database, the broker) becomes a 500, or the process dies.
HandlerFails(s) ==
    /\ At(s, "handle")
    /\ Leaves(s)
    /\ UNCHANGED <<am, limitVars, replayVars, lapsed, served>>

GuardNext ==
    \/ \E s \in Slots :
          \/ \E p \in Procs, b \in Batches : Deliver(s, p, b)
          \/ LimitShared(s) \/ LimitFallback(s)
          \/ ReplayLocal(s) \/ ReplayShared(s) \/ ReplayUnanswered(s)
          \/ HandlerServes(s) \/ HandlerFails(s)
    \/ WindowTurns
    \/ \E p \in Procs : CooldownEnds(p)
    \/ \E b \in Batches : Lapses(b)

GuardSpec == GuardInit /\ [][GuardNext]_guardVars

---------------------------------------------------------------------------

(* An outage of Redis degrades the limit to one per process, it does not lift
   it: in one window no more than RateLimit requests pass by the shared counter and
   no more than RateLimit by each local one, in whatever order errors come. *)
RateBounded == passed <= RateLimit * (1 + Cardinality(Procs))

(* A signature enters once.  Each further entry is paid for: by an entry that
   had no answer of the shared store, or by a registration that was lost. *)
EntriesExplained ==
    \A b \in Batches : entered[b] <= 1 + blind[b] + lapsed[b]
===========================================================================
