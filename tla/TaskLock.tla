----------------------------- MODULE TaskLock -----------------------------
(***************************************************************************)
(* The lock of a periodic task, app/workers/task_lock.py: one Redis key     *)
(* with a token and a lease, a thread that renews the lease while the run    *)
(* lives, a release that reads and then deletes.                             *)
(*                                                                         *)
(* Time is counted in periods of the renewer (_RENEW_EVERY_SECONDS).  When   *)
(* a period ends every lease is one period shorter, and every renewer of a   *)
(* running task wakes once.                                                  *)
(***************************************************************************)
EXTENDS Integers, FiniteSets

CONSTANTS Runs,       \* invocations of the task, each with a token of its own
          NoToken,    \* what GET returns when the key does not exist
          Lease,      \* min(LEASE_SECONDS, ttl_seconds), in periods
          MaxHold     \* ttl_seconds, the ceiling of a hold, in periods

ASSUME LockAssumption ==
    /\ IsFiniteSet(Runs) /\ NoToken \notin Runs
    /\ Lease \in Nat /\ Lease >= 2
    /\ MaxHold \in Nat /\ Lease <= MaxHold

VARIABLES lockKey,     \* the token stored under the key, or NoToken
          lockLeft,    \* periods until the key expires
          lockRun,     \* where each invocation is
          renewing,    \* the runs whose renewer thread is alive
          due,         \* the renewers that have not woken yet in this period
          held,        \* periods since the renewer of the run was created
          misses,      \* renewals that failed since the last one that did not
          robbed       \* runs whose key another run's release has deleted

lockVars == <<lockKey, lockLeft, lockRun, renewing, due, held, misses, robbed>>

(* "locked" runs the task under the key; "bare" runs it without (fail-open);
   "deleting" is between the GET and the DELETE of _release. *)
LockPhases == {"idle", "locked", "bare", "deleting", "over"}

LockTypeOK ==
    /\ lockKey \in Runs \cup {NoToken}
    /\ lockLeft \in 0 .. Lease
    /\ lockRun \in [Runs -> LockPhases]
    /\ renewing \subseteq Runs
    /\ due \subseteq renewing
    /\ held \in [Runs -> 0 .. MaxHold]
    /\ misses \in [Runs -> 0 .. MaxHold]
    /\ robbed \subseteq Runs

LockInit ==
    /\ lockKey = NoToken
    /\ lockLeft = 0
    /\ lockRun = [r \in Runs |-> "idle"]
    /\ renewing = {}
    /\ due = {}
    /\ held = [r \in Runs |-> 0]
    /\ misses = [r \in Runs |-> 0]
    /\ robbed = {}

Goes(r, phase) == lockRun' = [lockRun EXCEPT ![r] = phase]

\* The run is over, and with it the renewer and its counts.
RunEnds(r) ==
    /\ lockRun' = [lockRun EXCEPT ![r] = "over"]
    /\ held' = [held EXCEPT ![r] = 0]
    /\ misses' = [misses EXCEPT ![r] = 0]

(***************************************************************************)
(* The wrapper of single_instance.                                           *)
(***************************************************************************)

\* SET NX EX succeeded; the renewer starts with the task.
LockAcquire(r) ==
    /\ lockRun[r] = "idle"
    /\ lockKey = NoToken
    /\ lockKey' = r
    /\ lockLeft' = Lease
    /\ renewing' = renewing \cup {r}
    /\ Goes(r, "locked")
    /\ UNCHANGED <<due, held, misses, robbed>>

\* NX refused: the run is skipped.
LockSkip(r) ==
    /\ lockRun[r] = "idle"
    /\ lockKey # NoToken
    /\ Goes(r, "over")
    /\ UNCHANGED <<lockKey, lockLeft, renewing, due, held, misses, robbed>>

(* No client, or SET raised: the task runs without the lock.  When only the
   reply was lost the key has been set, and nobody renews or releases it. *)
LockFailOpen(r) ==
    /\ lockRun[r] = "idle"
    /\ \/ UNCHANGED <<lockKey, lockLeft>>
       \/ lockKey = NoToken /\ lockKey' = r /\ lockLeft' = Lease
    /\ Goes(r, "bare")
    /\ UNCHANGED <<renewing, due, held, misses, robbed>>

BareEnds(r) ==
    /\ lockRun[r] = "bare"
    /\ Goes(r, "over")
    /\ UNCHANGED <<lockKey, lockLeft, renewing, due, held, misses, robbed>>

(* The task returned or raised: renewer.stop, then the GET of _release.  A
   foreign token, no token, or an error: nothing is deleted. *)
ReleaseGet(r) ==
    /\ lockRun[r] = "locked"
    /\ renewing' = renewing \ {r}
    /\ due' = due \ {r}
    /\ \/ lockKey = r /\ Goes(r, "deleting") /\ UNCHANGED <<held, misses>>
       \/ RunEnds(r)
    /\ UNCHANGED <<lockKey, lockLeft, robbed>>

\* DELETE removes whatever token is there by now, or fails.
ReleaseDelete(r) ==
    /\ lockRun[r] = "deleting"
    /\ RunEnds(r)
    /\ \/ /\ lockKey' = NoToken
          /\ lockLeft' = 0
          /\ robbed' = robbed \cup ({lockKey} \ {r, NoToken})
       \/ UNCHANGED <<lockKey, lockLeft, robbed>>
    /\ UNCHANGED <<renewing, due>>

\* The process dies with its daemon thread; the key is left to its lease.
WorkerDies(r) ==
    /\ lockRun[r] \in {"locked", "bare", "deleting"}
    /\ RunEnds(r)
    /\ renewing' = renewing \ {r}
    /\ due' = due \ {r}
    /\ UNCHANGED <<lockKey, lockLeft, robbed>>

(***************************************************************************)
(* _LeaseRenewer.                                                            *)
(***************************************************************************)

Remaining(r) == MaxHold - held[r]

\* Mutated RenewedLease: the renewal compares the token and extends nothing.
RenewedNotAtAll(r) == lockLeft

\* The seconds of the next lease: never past the ceiling.
RenewedLease(r) == IF Remaining(r) < Lease THEN Remaining(r) ELSE Lease

\* Mutated RenewOnce: the ceiling of the hold is not looked at.
RenewEndless(r) ==
    /\ r \in due
    /\ due' = due \ {r}
    /\ \/ /\ lockKey # r
          /\ renewing' = renewing \ {r}
          /\ UNCHANGED <<lockLeft, misses>>
       \/ /\ lockKey = r
          /\ lockLeft' = Lease
          /\ misses' = [misses EXCEPT ![r] = 0]
          /\ UNCHANGED renewing
    /\ UNCHANGED <<lockKey, lockRun, held, robbed>>

(* renew_once: past the ceiling, or no longer the owner, it stops for good;
   otherwise one script compares the token and extends the lease. *)
RenewOnce(r) ==
    /\ r \in due
    /\ due' = due \ {r}
    /\ \/ /\ Remaining(r) <= 0 \/ lockKey # r
          /\ renewing' = renewing \ {r}
          /\ UNCHANGED <<lockLeft, misses>>
       \/ /\ Remaining(r) > 0 /\ lockKey = r
          /\ lockLeft' = RenewedLease(r)
          /\ misses' = [misses EXCEPT ![r] = 0]
          /\ UNCHANGED renewing
    /\ UNCHANGED <<lockKey, lockRun, held, robbed>>

(* The script raised, perhaps after it had extended the lease, or the thread
   did not get to run: tried again next time. *)
RenewMisses(r) ==
    /\ r \in due
    /\ Remaining(r) > 0
    /\ due' = due \ {r}
    /\ misses' = [misses EXCEPT ![r] = @ + 1]
    /\ \/ UNCHANGED lockLeft
       \/ lockKey = r /\ lockLeft' = RenewedLease(r)
    /\ UNCHANGED <<lockKey, lockRun, renewing, held, robbed>>

(* A period passes.  The wait of the renewer starts after the reply to SET, so
   the key expires before a renewer that wakes at the same count. *)
LockTick ==
    /\ due = {}
    /\ lockKey # NoToken \/ \E r \in renewing : held[r] < MaxHold
    /\ lockLeft' = IF lockKey = NoToken THEN 0 ELSE lockLeft - 1
    /\ lockKey' = IF lockLeft <= 1 THEN NoToken ELSE lockKey
    /\ held' = [r \in Runs |->
                   IF r \in renewing /\ held[r] < MaxHold THEN held[r] + 1
                                                          ELSE held[r]]
    /\ due' = renewing
    /\ UNCHANGED <<lockRun, renewing, misses, robbed>>

LockStep(r) ==
    \/ LockAcquire(r) \/ LockSkip(r) \/ LockFailOpen(r) \/ BareEnds(r)
    \/ ReleaseGet(r) \/ ReleaseDelete(r) \/ WorkerDies(r)
    \/ RenewOnce(r) \/ RenewMisses(r)

LockNext == LockTick \/ \E r \in Runs : LockStep(r)

(* Only time and the renewer threads are fair: the waits end, and a socket has
   a timeout.  Nothing is assumed of the task, which may hang. *)
LockFairness ==
    /\ WF_lockVars(LockTick)
    /\ \A r \in Runs : WF_lockVars(RenewOnce(r) \/ RenewMisses(r))

LockSpec == LockInit /\ [][LockNext]_lockVars

LockFairSpec == LockSpec /\ LockFairness

---------------------------------------------------------------------------

(* A run that renews keeps the key: one failed renewal of a lease of three
   periods is survived, and nobody else gets the key before the ceiling unless a
   release deleted it in the window between its GET and its DELETE.  Two runs of
   a task under the lock at the same time therefore mean that one of them is
   beyond the ceiling, has failed to renew for as long as its lease lasts, or was
   robbed by a release. *)
LeaseProtects ==
    \A r \in Runs :
        (/\ lockRun[r] = "locked"
         /\ misses[r] + 2 <= Lease
         /\ held[r] < MaxHold
         /\ r \notin robbed) => lockKey = r

(* Whoever holds the key, dead, hanging or alive, the key is his no more in
   the end: the next tick of the schedule is not eaten for ever. *)
LockFrees == \A r \in Runs : lockKey = r ~> lockKey # r

===========================================================================
