------------------------- MODULE RemediationBridge -------------------------
(***************************************************************************)
(* The bridge from a diagnosed alert to a card with buttons:                 *)
(* app/remediation/bridge_dispatch.py in the api process and                 *)
(* app/remediation/bridge.py in a Celery worker.                             *)
(*                                                                         *)
(* One playbook and one target, hence one key.  A proposal has a row of its  *)
(* own in `incidents` (with its decision in kg_remediation_decisions, written *)
(* and deleted in the same transactions) and a card in the channel.           *)
(***************************************************************************)
EXTENDS Integers, FiniteSets

CONSTANTS Tasks,         \* Celery tasks of the bridge for this target
          MaxProposals,  \* bound: rows ever created
          MaxFaults,     \* bound: deaths, failed commits, other exceptions
          MaxWindows     \* bound: ends of the window of the key

ASSUME BridgeAssumption ==
    /\ IsFiniteSet(Tasks)
    /\ {MaxProposals, MaxFaults, MaxWindows} \subseteq Nat

VARIABLES brQueueKey,  \* the enqueue key in Redis exists
          brKey,       \* the key of the proposal in Redis exists
          brTask,      \* phase of each task
          brProp,      \* the proposal a task is working on, 0 before its row
          brNext,      \* proposals created so far
          brRows,      \* proposals with a committed row and decision
          brRecent,    \* those whose decision is younger than the window
          brCards,     \* proposals with a card in the channel
          brOrphans,   \* cards whose POST was answered too late or not at all
          brByDb,      \* claims granted by the fallback on the database
          brFaults,    \* deaths and exceptions
          brRefused,   \* dry runs that failed
          brWindows    \* ends of the window

bridgeVars == <<brQueueKey, brKey, brTask, brProp, brNext, brRows, brRecent,
                brCards, brOrphans, brByDb, brFaults, brRefused, brWindows>>

BridgePhases == {"new", "queued", "running", "claimed", "ready", "posting",
                 "releasing", "sent", "over"}

Proposals == 1 .. MaxProposals

BridgeTypeOK ==
    /\ brQueueKey \in BOOLEAN /\ brKey \in BOOLEAN
    /\ brTask \in [Tasks -> BridgePhases]
    /\ brProp \in [Tasks -> 0 .. MaxProposals] /\ brNext \in 0 .. MaxProposals
    /\ brRecent \subseteq brRows /\ brRows \subseteq Proposals
    /\ brOrphans \subseteq brCards /\ brCards \subseteq Proposals
    /\ {brByDb, brRefused} \subseteq Nat
    /\ brFaults \in 0 .. MaxFaults /\ brWindows \in 0 .. MaxWindows

BridgeInit ==
    /\ brQueueKey = FALSE /\ brKey = FALSE
    /\ brTask = [t \in Tasks |-> "new"]
    /\ brProp = [t \in Tasks |-> 0] /\ brNext = 0
    /\ brRows = {} /\ brRecent = {} /\ brCards = {} /\ brOrphans = {}
    /\ brByDb = 0 /\ brFaults = 0 /\ brRefused = 0 /\ brWindows = 0

Turns(t, phase) == brTask' = [brTask EXCEPT ![t] = phase]

(***************************************************************************)
(* enqueue_bridge.                                                           *)
(***************************************************************************)

(* The key is taken or Redis does not answer: no task (fail-closed).  The SET may
   have been applied, or a publish failed and so did the release of its key. *)
EnqueueSkips(t) ==
    /\ brTask[t] = "new"
    /\ Turns(t, "over")
    /\ brQueueKey' \in {brQueueKey, TRUE}
    /\ UNCHANGED <<brKey, brProp, brNext, brRows, brRecent, brCards,
                   brOrphans, brByDb, brFaults, brRefused, brWindows>>

\* SET NX, then the publish; a failed publish gives the key back.
Enqueue(t) ==
    /\ brTask[t] = "new"
    /\ ~brQueueKey
    /\ \/ brQueueKey' = TRUE /\ Turns(t, "queued")
       \/ UNCHANGED brQueueKey /\ Turns(t, "over")
    /\ UNCHANGED <<brKey, brProp, brNext, brRows, brRecent, brCards, brOrphans,
                   brByDb, brFaults, brRefused, brWindows>>

\* Ten minutes later.
QueueKeyExpires ==
    /\ brQueueKey
    /\ brQueueKey' = FALSE
    /\ UNCHANGED <<brKey, brTask, brProp, brNext, brRows, brRecent, brCards,
                   brOrphans, brByDb, brFaults, brRefused, brWindows>>

(***************************************************************************)
(* run_bridge_for_incident and _propose.                                     *)
(***************************************************************************)

(* Facts, plan and policy, the flags of the executor, the snapshot of the
   target: either nothing is to be proposed, or the claim is next. *)
Plans(t) ==
    /\ brTask[t] = "queued"
    /\ Turns(t, "running") \/ Turns(t, "over")
    /\ UNCHANGED <<brQueueKey, brKey, brProp, brNext, brRows, brRecent, brCards,
                   brOrphans, brByDb, brFaults, brRefused, brWindows>>

\* Mutated ClaimRedis: SET without NX.
ClaimAlways(t) ==
    /\ brTask[t] = "running"
    /\ brKey' = TRUE
    /\ Turns(t, "claimed")
    /\ UNCHANGED <<brQueueKey, brProp, brNext, brRows, brRecent, brCards,
                   brOrphans, brByDb, brFaults, brRefused, brWindows>>

\* claim_proposal with Redis: SET NX EX.
ClaimRedis(t) ==
    /\ brTask[t] = "running"
    /\ brKey' = TRUE
    /\ Turns(t, IF brKey THEN "over" ELSE "claimed")
    /\ UNCHANGED <<brQueueKey, brProp, brNext, brRows, brRecent, brCards,
                   brOrphans, brByDb, brFaults, brRefused, brWindows>>

(* Without Redis (the SET may have been applied all the same): the decisions
   younger than the window.  Without the database too: refused. *)
ClaimDatabase(t) ==
    /\ brTask[t] = "running"
    /\ brKey' \in {brKey, TRUE}
    /\ \/ /\ brRecent = {}
          /\ brByDb' = brByDb + 1
          /\ Turns(t, "claimed") /\ UNCHANGED brFaults
       \/ /\ brRecent # {}
          /\ Turns(t, "over") /\ UNCHANGED <<brByDb, brFaults>>
       \/ /\ brFaults < MaxFaults
          /\ brFaults' = brFaults + 1
          /\ Turns(t, "over") /\ UNCHANGED brByDb
    /\ UNCHANGED <<brQueueKey, brProp, brNext, brRows, brRecent, brCards,
                   brOrphans, brRefused, brWindows>>

\* A failed dry run keeps the claim.
DryRun(t) ==
    /\ brTask[t] = "claimed"
    /\ \/ Turns(t, "ready") /\ UNCHANGED brRefused
       \/ Turns(t, "over") /\ brRefused' = 1
    /\ UNCHANGED <<brQueueKey, brKey, brProp, brNext, brRows, brRecent, brCards,
                   brOrphans, brByDb, brFaults, brWindows>>

\* Mutated Record: the card is posted before the row is committed.
RecordLater(t) ==
    /\ brTask[t] = "ready"
    /\ brNext < MaxProposals
    /\ brNext' = brNext + 1
    /\ brProp' = [brProp EXCEPT ![t] = brNext']
    /\ brCards' = brCards \cup {brNext'}
    /\ Turns(t, "posting")
    /\ UNCHANGED <<brQueueKey, brKey, brRows, brRecent, brOrphans, brByDb,
                   brFaults, brRefused, brWindows>>

\* The row APPROVAL_PENDING and its decision, one commit, before the card.
Record(t) ==
    /\ brTask[t] = "ready"
    /\ brNext < MaxProposals
    /\ brNext' = brNext + 1
    /\ brProp' = [brProp EXCEPT ![t] = brNext']
    /\ brRows' = brRows \cup {brNext'}
    /\ brRecent' = brRecent \cup {brNext'}
    /\ Turns(t, "posting")
    /\ UNCHANGED <<brQueueKey, brKey, brCards, brOrphans, brByDb, brFaults,
                   brRefused, brWindows>>

\* Discord accepted the card.
PostAccepted(t) ==
    /\ brTask[t] = "posting"
    /\ brCards' = brCards \cup {brProp[t]}
    /\ Turns(t, "sent")
    /\ UNCHANGED <<brQueueKey, brKey, brProp, brNext, brRows, brRecent,
                   brOrphans, brByDb, brFaults, brRefused, brWindows>>

(* No message came back: the row and the decision are deleted.  When only the
   answer was lost the card stays. *)
PostRefused(t) ==
    /\ brTask[t] = "posting"
    /\ \/ UNCHANGED <<brCards, brOrphans>>
       \/ /\ brCards' = brCards \cup {brProp[t]}
          /\ brOrphans' = brOrphans \cup {brProp[t]}
    /\ brRows' = brRows \ {brProp[t]}
    /\ brRecent' = brRecent \ {brProp[t]}
    /\ Turns(t, "releasing")
    /\ UNCHANGED <<brQueueKey, brKey, brProp, brNext, brByDb, brFaults, brRefused,
                   brWindows>>

\* Mutated Releases: the key is left to its TTL.
ReleaseForgotten(t) ==
    /\ brTask[t] = "releasing"
    /\ Turns(t, "over")
    /\ UNCHANGED <<brQueueKey, brKey, brProp, brNext, brRows, brRecent, brCards,
                   brOrphans, brByDb, brFaults, brRefused, brWindows>>

\* release_proposal deletes the key, whoever holds it by now.
Releases(t) ==
    /\ brTask[t] = "releasing"
    /\ brKey' = FALSE
    /\ Turns(t, "over")
    /\ UNCHANGED <<brQueueKey, brProp, brNext, brRows, brRecent, brCards, brOrphans,
                   brByDb, brFaults, brRefused, brWindows>>

\* The commit of bridge_card.
SavesCard(t) ==
    /\ brTask[t] = "sent"
    /\ Turns(t, "over")
    /\ UNCHANGED <<brQueueKey, brKey, brProp, brNext, brRows, brRecent, brCards,
                   brOrphans, brByDb, brFaults, brRefused, brWindows>>

(* The worker dies and the message is delivered again (late acknowledgement);
   or an exception, a failed commit, a failed release of the key or the soft time
   limit ends the task. *)
BridgeFault(t) ==
    /\ brTask[t] \in {"running", "claimed", "ready", "posting", "releasing", "sent"}
    /\ brFaults < MaxFaults
    /\ brFaults' = brFaults + 1
    /\ Turns(t, "queued") \/ Turns(t, "over")
    /\ brProp' = [brProp EXCEPT ![t] = 0]
    /\ UNCHANGED <<brQueueKey, brKey, brNext, brRows, brRecent, brCards, brOrphans,
                   brByDb, brRefused, brWindows>>

\* REMEDIATION_BRIDGE_DEDUP_SECONDS are over, for the key and for the decisions.
BridgeWindowEnds ==
    /\ brWindows < MaxWindows
    /\ brKey \/ brRecent # {}
    /\ \A t \in Tasks : brTask[t] \in {"new", "queued", "over"}
    /\ brWindows' = brWindows + 1
    /\ brKey' = FALSE /\ brRecent' = {}
    /\ UNCHANGED <<brQueueKey, brTask, brProp, brNext, brRows, brCards, brOrphans,
                   brByDb, brFaults, brRefused>>

BridgeStep(t) ==
    \/ EnqueueSkips(t) \/ Enqueue(t) \/ Plans(t) \/ ClaimRedis(t) \/ ClaimDatabase(t)
    \/ DryRun(t) \/ Record(t) \/ PostAccepted(t) \/ PostRefused(t) \/ Releases(t)
    \/ SavesCard(t) \/ BridgeFault(t)

BridgeNext == QueueKeyExpires \/ BridgeWindowEnds \/ \E t \in Tasks : BridgeStep(t)

BridgeSpec == BridgeInit /\ [][BridgeNext]_bridgeVars

---------------------------------------------------------------------------

(* A button never leads nowhere: a card in the channel has its committed row,
   unless Discord kept the card and its answer was lost. *)
ButtonsHaveRow == brCards \subseteq brRows \cup brOrphans

(* One card per window.  Each further one is paid for: by a window that ended,
   by a claim that only the database granted (a later task that reaches Redis
   does not see it), or by a card whose answer was lost. *)
CardsExplained ==
    Cardinality(brCards) <= 1 + brWindows + brByDb + Cardinality(brOrphans)

(* An alert is silenced for the window only after its card, after a refused dry
   run, or after a death or an exception; a refused POST is not enough. *)
SilenceExplained ==
    (/\ brKey
     /\ \A t \in Tasks : brTask[t] \in {"new", "queued", "over"})
    => brCards # {} \/ brRefused > 0 \/ brFaults > 0 \/ brByDb > 0
=============================================================================
