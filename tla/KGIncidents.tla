---------------------------- MODULE KGIncidents ----------------------------
(***************************************************************************)
(* Alerts and incidents of one service in the knowledge graph:               *)
(* the /alertmanager/store endpoint (app/api/webhooks.py,                    *)
(* knowledge_graph/auto_populator.py, populator.py), the object incident      *)
(* (knowledge_graph/incidents.py) and the synchronisation of resolved alerts  *)
(* with Alertmanager (knowledge_graph/alerts_resolve_sync.py).                *)
(*                                                                         *)
(* Sessions of PostgreSQL at READ COMMITTED: a transaction reads, computes   *)
(* in Python and commits later; the ORM writes only the columns whose value  *)
(* it changed.  The upsert of an alert locks its row until the commit.        *)
(***************************************************************************)
EXTENDS Integers, FiniteSets, FiniteSetsExt

CONSTANTS Alerts,        \* fingerprints of the alerts of the service
          Sessions,      \* requests and tasks that may be under way together
          ReopenWindow,  \* REOPEN_WINDOW_MIN, in ticks
          FallbackAge,   \* fallback_hours
          AgeOut,        \* AGE_OUT_HOURS
          MaxTime,       \* bound of the clock
          MaxFires,      \* bound: how often alerts start
          MaxExtras      \* bound: noise marked, transactions rolled back

ASSUME KGAssumption ==
    /\ IsFiniteSet(Alerts) /\ IsFiniteSet(Sessions)
    /\ {ReopenWindow, FallbackAge, AgeOut, MaxTime, MaxFires, MaxExtras} \subseteq Nat
    /\ ReopenWindow <= FallbackAge /\ FallbackAge <= AgeOut

VARIABLES kgNow,      \* the clock
          amSince,    \* external: since when each alert is firing, -1 when it is not
          amFires,    \* external: how often alerts have started
          alertRow,   \* kg_alerts
          kgInc,      \* kg_incidents of the service, in the order of their creation
          kgExtras,   \* how often noise was marked, or a session rolled back
          session,    \* the transaction of each session
          fetched,    \* does the sync task hold a snapshot of Alertmanager
          activeSet,  \* that snapshot
          closing,    \* the verdict of reconcile_incidents before its commit
          adrift,     \* history: alerts that a race or a failure parted from their incident
          raced       \* history: incidents flagged as noise from a stale read

excuses == <<adrift, raced>>
kgVars == <<kgNow, amSince, amFires, alertRow, kgInc, kgExtras, session, fetched,
            activeSet, closing, excuses>>

Incidents == 1 .. MaxFires
Times == -1 .. MaxTime

\* resolved_at is set in the resolved rows and in no other.
AlertRows ==
    {r \in [state : {"absent", "firing", "resolved"}, fired : Times,
            resolved : Times, inc : 0 .. MaxFires] :
        r.state = "resolved" <=> r.resolved >= 0}
IncidentRows ==
    {r \in [status : {"absent", "open", "resolved"}, fps : SUBSET Alerts,
            last : Times, resolved : Times, agedOut : BOOLEAN,
            marked : SUBSET Alerts, noise : BOOLEAN] :
        r.status = "resolved" <=> r.resolved >= 0}
Transactions == [does : {"nothing", "attach", "reopen", "create", "mark", "unmark"},
                 alert : Alerts \cup {"none"}, fired : Times, row : AlertRows,
                 inc : 0 .. MaxFires, read : IncidentRows]

NoIncident == [status |-> "absent", fps |-> {}, last |-> -1, resolved |-> -1,
               agedOut |-> FALSE, marked |-> {}, noise |-> FALSE]
NoAlert == [state |-> "absent", fired |-> -1, resolved |-> -1, inc |-> 0]
Nothing == [does |-> "nothing", alert |-> "none", fired |-> -1,
            row |-> NoAlert, inc |-> 0, read |-> NoIncident]

KGTypeOK ==
    /\ kgNow \in 0 .. MaxTime
    /\ amSince \in [Alerts -> Times] /\ amFires \in 0 .. MaxFires
    /\ alertRow \in [Alerts -> AlertRows]
    /\ kgInc \in [Incidents -> IncidentRows]
    /\ kgExtras \in 0 .. MaxExtras
    /\ session \in [Sessions -> Transactions]
    /\ fetched \in BOOLEAN /\ activeSet \subseteq Alerts
    /\ closing \in [inc : 0 .. MaxFires, resolved : Times, agedOut : BOOLEAN]
    /\ adrift \subseteq Alerts /\ raced \subseteq Incidents

Undecided == [inc |-> 0, resolved |-> -1, agedOut |-> FALSE]

KGInit ==
    /\ kgNow = 0
    /\ amSince = [a \in Alerts |-> -1] /\ amFires = 0
    /\ alertRow = [a \in Alerts |-> NoAlert]
    /\ kgInc = [i \in Incidents |-> NoIncident]
    /\ kgExtras = 0
    /\ session = [s \in Sessions |-> Nothing]
    /\ fetched = FALSE /\ activeSet = {}
    /\ closing = Undecided
    /\ adrift = {} /\ raced = {}

(***************************************************************************)
(* Alertmanager and the clock (external).  Alerts start while the clock       *)
(* leaves room for the age fallback.                                         *)
(***************************************************************************)

AmFiring(a) == amSince[a] >= 0

AmStarts(a) ==
    /\ ~AmFiring(a) /\ amFires < MaxFires
    /\ kgNow + FallbackAge < MaxTime
    /\ amSince' = [amSince EXCEPT ![a] = kgNow]
    /\ amFires' = amFires + 1
    /\ UNCHANGED <<kgExtras, kgNow, alertRow, kgInc, session, fetched, activeSet, closing, excuses>>

AmStops(a) ==
    /\ AmFiring(a)
    /\ amSince' = [amSince EXCEPT ![a] = -1]
    /\ UNCHANGED <<kgExtras, kgNow, amFires, alertRow, kgInc, session, fetched, activeSet, closing, excuses>>

KGTick ==
    /\ kgNow < MaxTime
    /\ kgNow' = kgNow + 1
    /\ UNCHANGED <<kgExtras, amSince, amFires, alertRow, kgInc, session, fetched, activeSet, closing, excuses>>

(***************************************************************************)
(* populate_from_incident.                                                   *)
(***************************************************************************)

SessionFree(s) == session[s].does = "nothing"

\* The row of an alert is locked from its upsert to the commit.
LockedRow(a) ==
    \E s \in Sessions : session[s].does \in {"attach", "reopen", "create"} /\ session[s].alert = a

\* Mutated Upserted: a resolved row stays resolved when its alert fires again.
UpsertedOnce(a, fired) ==
    IF alertRow[a].state = "absent"
    THEN [state |-> "firing", fired |-> fired, resolved |-> -1, inc |-> 0]
    ELSE alertRow[a]

(* record_alert_event: a resolved row is fired anew, an open one keeps its
   fired_at; the incident of the row is not touched. *)
Upserted(a, fired) ==
    CASE alertRow[a].state = "absent" ->
             [state |-> "firing", fired |-> fired, resolved |-> -1, inc |-> 0]
      [] alertRow[a].state = "resolved" ->
             [alertRow[a] EXCEPT !.state = "firing", !.fired = fired, !.resolved = -1]
      [] OTHER -> alertRow[a]

OpenIncidents == {i \in Incidents : kgInc[i].status = "open"}

\* Resolved not earlier than the window before the alert started.
RecentlyResolved(fired) ==
    {i \in Incidents : kgInc[i].status = "resolved" /\ kgInc[i].resolved >= fired - ReopenWindow}

\* The latest of them.
LatestOf(S) == CHOOSE i \in S : \A j \in S : kgInc[j].resolved <= kgInc[i].resolved

FreeIncidents == {i \in Incidents : kgInc[i].status = "absent"}

(* The upsert and the reads of attach_alert: the open incident, else the one
   that was resolved recently, else a new one. *)
StoreBegins(s, a) ==
    /\ SessionFree(s) /\ AmFiring(a) /\ ~LockedRow(a)
    /\ LET fired == amSince[a]
           choice(does, i) == [does |-> does, alert |-> a, fired |-> fired,
                               row |-> Upserted(a, fired), inc |-> i,
                               read |-> IF i = 0 THEN NoIncident ELSE kgInc[i]]
           recent == RecentlyResolved(fired)
       IN  session' = [session EXCEPT ![s] =
               CASE OpenIncidents # {} -> choice("attach", CHOOSE i \in OpenIncidents : TRUE)
                 [] OpenIncidents = {} /\ recent # {} -> choice("reopen", LatestOf(recent))
                 [] OTHER -> choice("create", 0)]
    /\ UNCHANGED <<kgExtras, kgNow, amSince, amFires, alertRow, kgInc, fetched, activeSet, closing, excuses>>

\* Mutated AllNoise: one marked alert makes the incident noise.
AnyNoise(marked, fps) == fps \cap marked # {}

\* _all_noise.
AllNoise(marked, fps) == fps # {} /\ fps \subseteq marked

\* A column is written when its new value differs from the one that was read.
Written(read, new, current) == IF new = read THEN current ELSE new

\* Mutated Attached: the list is changed in place, which the ORM does not notice.
AttachedInPlace(t) ==
    LET old == t.read
        fps == old.fps \cup {t.alert}
    IN  [kgInc[t.inc] EXCEPT !.last = IF t.fired > old.last THEN t.fired ELSE @,
                             !.noise = Written(old.noise, AllNoise(old.marked, fps), @)]

(* What the flush of attach_alert leaves of the row: fingerprints, last_alert_at
   and the noise flag, each computed from the read. *)
Attached(t) ==
    LET old == t.read
        cur == kgInc[t.inc]
        fps == old.fps \cup {t.alert}
    IN  [cur EXCEPT !.fps = Written(old.fps, fps, @),
                    !.last = IF t.fired > old.last THEN t.fired ELSE @,
                    !.noise = Written(old.noise, AllNoise(old.marked, fps), @)]

\* Another transaction has written since: the list and the status that attach
\* and reopen rely on, the columns from which the noise flag is computed.
StaleList(t) == kgInc[t.inc].fps # t.read.fps \/ kgInc[t.inc].status # t.read.status
StaleFlag(t) == kgInc[t.inc].fps # t.read.fps \/ kgInc[t.inc].marked # t.read.marked
                \/ kgInc[t.inc].noise # t.read.noise

\* The partial unique index: one open incident of the service.
IndexAllows(i) == OpenIncidents \subseteq {i}

Links(t, i) == alertRow' = [alertRow EXCEPT ![t.alert] = [t.row EXCEPT !.inc = i]]

Finishes(s) == session' = [session EXCEPT ![s] = Nothing]

\* The alerts that fire and whose rows name the incident.
FiringIn(i) == {a \in Alerts : alertRow[a].state = "firing" /\ alertRow[a].inc = i}

\* A write from a stale read may part the alerts from the incident, or flag it as
\* noise wrongly; a write from a fresh one puts its alert and the flag right.
NotesList(t) ==
    adrift' = IF StaleList(t) THEN adrift \cup FiringIn(t.inc) \cup {t.alert}
                              ELSE adrift \ {t.alert}
NotesFlag(t) ==
    raced' = IF StaleFlag(t) /\ kgInc'[t.inc].noise THEN raced \cup {t.inc} ELSE raced \ {t.inc}

\* The alert joins the open incident.
StoreAttaches(s) ==
    LET t == session[s]
    IN  /\ t.does = "attach"
        /\ kgInc' = [kgInc EXCEPT ![t.inc] = Attached(t)]
        /\ Links(t, t.inc) /\ NotesList(t) /\ NotesFlag(t) /\ Finishes(s)
        /\ UNCHANGED <<kgExtras, kgNow, amSince, amFires, fetched, activeSet, closing>>

\* The incident is opened again.
StoreReopens(s) ==
    LET t == session[s]
    IN  /\ t.does = "reopen" /\ IndexAllows(t.inc)
        /\ kgInc' = [kgInc EXCEPT ![t.inc] =
               [Attached(t) EXCEPT !.status = "open", !.resolved = -1, !.agedOut = FALSE]]
        /\ Links(t, t.inc) /\ NotesList(t) /\ NotesFlag(t) /\ Finishes(s)
        /\ UNCHANGED <<kgExtras, kgNow, amSince, amFires, fetched, activeSet, closing>>

\* A new incident.
StoreCreates(s) ==
    LET t == session[s]
        i == Min(FreeIncidents)
    IN  /\ t.does = "create" /\ IndexAllows(0) /\ FreeIncidents # {}
        /\ kgInc' = [kgInc EXCEPT ![i] =
               [NoIncident EXCEPT !.status = "open", !.fps = {t.alert}, !.last = t.fired]]
        /\ Links(t, i) /\ adrift' = adrift \ {t.alert} /\ Finishes(s)
        /\ UNCHANGED <<kgExtras, kgNow, amSince, amFires, fetched, activeSet, closing, raced>>

(* The SAVEPOINT of attach_alert is rolled back and the alert itself is kept,
   with the incident it had. *)
KeepsAlertOnly(s) ==
    LET t == session[s]
    IN  /\ alertRow' = [alertRow EXCEPT ![t.alert] = t.row]
        /\ adrift' = adrift \cup {t.alert}
        /\ Finishes(s)
        /\ UNCHANGED <<kgNow, amSince, amFires, kgInc, fetched, activeSet, closing, raced>>

\* Another session has opened an incident meanwhile.
StoreConflicts(s) ==
    /\ session[s].does \in {"reopen", "create"} /\ ~IndexAllows(session[s].inc)
    /\ KeepsAlertOnly(s)
    /\ UNCHANGED kgExtras

\* Any other failure of attach_alert.
AttachFails(s) ==
    /\ session[s].does \in {"attach", "reopen", "create"} /\ kgExtras < MaxExtras
    /\ kgExtras' = kgExtras + 1
    /\ KeepsAlertOnly(s)

\* The transaction as a whole is rolled back; Alertmanager will notify again.
StoreAborts(s) ==
    /\ session[s].does # "nothing" /\ kgExtras < MaxExtras
    /\ kgExtras' = kgExtras + 1
    /\ Finishes(s)
    /\ UNCHANGED <<kgNow, amSince, amFires, alertRow, kgInc, fetched, activeSet, closing, excuses>>

(***************************************************************************)
(* mark_incident_noise and unmark_incident_noise, in transactions of their   *)
(* own after the alert was stored.                                           *)
(***************************************************************************)

\* The incident of the alert is found by the row and read; the list, the marks and
\* the flag are the columns that are used.
NoiseBegins(s, a, does) ==
    LET i == alertRow[a].inc
    IN  /\ SessionFree(s) /\ i # 0
        /\ \/ does = "mark" /\ kgExtras < MaxExtras /\ kgExtras' = kgExtras + 1
           \/ does = "unmark" /\ a \in kgInc[i].marked /\ UNCHANGED kgExtras
        /\ session' = [session EXCEPT ![s] =
               [does |-> does, alert |-> a, fired |-> -1, row |-> NoAlert,
                inc |-> i, read |-> [NoIncident EXCEPT !.fps = kgInc[i].fps, !.marked = kgInc[i].marked,
                                                       !.noise = kgInc[i].noise]]]
        /\ UNCHANGED <<kgNow, amSince, amFires, alertRow, kgInc, fetched, activeSet, closing, excuses>>

\* The marks and the flag of the whole set are written.
NoiseCommits(s) ==
    LET t == session[s]
        cur == kgInc[t.inc]
        marked == IF t.does = "mark" THEN t.read.marked \cup {t.alert}
                                     ELSE t.read.marked \ {t.alert}
    IN  /\ t.does \in {"mark", "unmark"}
        /\ kgInc' = [kgInc EXCEPT ![t.inc] =
               [cur EXCEPT !.marked = Written(t.read.marked, marked, @),
                           !.noise = Written(t.read.noise, AllNoise(marked, t.read.fps), @)]]
        /\ NotesFlag(t) /\ Finishes(s)
        /\ UNCHANGED <<kgExtras, kgNow, amSince, amFires, alertRow, fetched, activeSet, closing, adrift>>

(***************************************************************************)
(* run_alerts_resolve_sync.                                                  *)
(***************************************************************************)

\* The snapshot; a failed fetch leaves everything as it is.
FetchActive ==
    /\ ~fetched /\ fetched' = TRUE
    /\ activeSet' = {a \in Alerts : AmFiring(a)}
    /\ UNCHANGED <<kgExtras, kgNow, amSince, amFires, alertRow, kgInc, session, closing, excuses>>

(* The rows that _mark_resolved resolves: those not in the snapshot, unless the
   snapshot is empty, and those not in the snapshot that are old enough. *)
ToResolve ==
    {a \in Alerts :
        /\ alertRow[a].state = "firing"
        /\ a \notin activeSet
        /\ activeSet # {} \/ kgNow - alertRow[a].fired > FallbackAge}

\* Mutated MarkResolved: an empty snapshot resolves nothing, whatever its age.
MarkResolvedNoFallback ==
    /\ fetched
    /\ \A a \in ToResolve : ~LockedRow(a)
    /\ alertRow' = [a \in Alerts |->
           IF a \in ToResolve /\ activeSet # {}
              THEN [alertRow[a] EXCEPT !.state = "resolved", !.resolved = kgNow]
              ELSE alertRow[a]]
    /\ fetched' = FALSE /\ activeSet' = {}
    /\ adrift' = adrift \ ToResolve
    /\ UNCHANGED <<kgExtras, kgNow, amSince, amFires, kgInc, session, closing, raced>>

\* _mark_resolved and its commit; a locked row makes it wait.
MarkResolved ==
    /\ fetched
    /\ \A a \in ToResolve : ~LockedRow(a)
    /\ alertRow' = [a \in Alerts |->
           IF a \in ToResolve
              THEN [alertRow[a] EXCEPT !.state = "resolved", !.resolved = kgNow]
              ELSE alertRow[a]]
    /\ fetched' = FALSE /\ activeSet' = {}
    /\ adrift' = adrift \ ToResolve
    /\ UNCHANGED <<kgExtras, kgNow, amSince, amFires, kgInc, session, closing, raced>>

(***************************************************************************)
(* reconcile_incidents.                                                      *)
(***************************************************************************)

\* Alerts of the incident that fire, or that have no row.
StillFiring(i) == {a \in kgInc[i].fps : alertRow[a].state # "resolved"}

\* The verdict on the open incident, before the commit.
ReconcileReads ==
    /\ closing = Undecided
    /\ \E i \in OpenIncidents :
          \/ /\ kgInc[i].fps # {} /\ StillFiring(i) = {}
             /\ closing' = [inc |-> i, agedOut |-> FALSE,
                            resolved |-> Max({alertRow[a].resolved : a \in kgInc[i].fps})]
          \/ /\ StillFiring(i) # {} \/ kgInc[i].fps = {}
             /\ kgInc[i].last < kgNow - AgeOut
             /\ closing' = [inc |-> i, agedOut |-> TRUE, resolved |-> kgNow]
    /\ UNCHANGED <<kgExtras, kgNow, amSince, amFires, alertRow, kgInc, session, fetched, activeSet, excuses>>

(* The commit writes by primary key, whatever has become of the incident: the
   verdict "all resolved" may have been overtaken by an alert that has joined or
   fires again by now. *)
ReconcileCommits ==
    /\ closing # Undecided
    /\ LET i == closing.inc
       IN  /\ kgInc' = [kgInc EXCEPT ![i] =
                  [@ EXCEPT !.status = "resolved", !.resolved = closing.resolved,
                            !.agedOut = closing.agedOut]]
           /\ adrift' = IF ~closing.agedOut /\ StillFiring(i) # {}
                        THEN adrift \cup FiringIn(i) ELSE adrift
    /\ closing' = Undecided
    /\ UNCHANGED <<kgExtras, kgNow, amSince, amFires, alertRow, session, fetched, activeSet, raced>>

StoreCommits(s) ==
    StoreAttaches(s) \/ StoreReopens(s) \/ StoreCreates(s) \/ StoreConflicts(s)

KGNext ==
    \/ \E a \in Alerts : AmStarts(a) \/ AmStops(a)
    \/ KGTick
    \/ \E s \in Sessions :
          \/ \E a \in Alerts :
                StoreBegins(s, a) \/ NoiseBegins(s, a, "mark") \/ NoiseBegins(s, a, "unmark")
          \/ StoreCommits(s) \/ NoiseCommits(s) \/ AttachFails(s) \/ StoreAborts(s)
    \/ FetchActive \/ MarkResolved
    \/ ReconcileReads \/ ReconcileCommits

(* Alertmanager repeats the notification of a firing alert, sessions end, the
   two beat tasks run and the clock goes on. *)
KGFairness ==
    /\ \A a \in Alerts : SF_kgVars(\E s \in Sessions : StoreBegins(s, a))
    /\ \A s \in Sessions : WF_kgVars(NoiseCommits(s) \/ StoreCommits(s))
    /\ WF_kgVars(FetchActive) /\ WF_kgVars(MarkResolved)
    /\ WF_kgVars(ReconcileReads) /\ WF_kgVars(ReconcileCommits)
    /\ WF_kgVars(KGTick)

KGSpec == KGInit /\ [][KGNext]_kgVars

KGFair == KGSpec /\ KGFairness

---------------------------------------------------------------------------

(* An alert that fires is in its incident and the incident is open, or was aged
   out.  The exceptions are alerts whose incident was written from a read of its
   list or its status that another transaction had overtaken, or closed by a
   verdict that had been, and alerts whose own attach failed; they last until the
   next attach of the alert that meets nobody. *)
FiringIsOpen ==
    \A a \in Alerts \ adrift :
        LET i == alertRow[a].inc
        IN  alertRow[a].state = "firing" /\ i # 0
            => /\ a \in kgInc[i].fps
               /\ kgInc[i].status = "open" \/ kgInc[i].agedOut

(* Noise is a property of the set: an incident flagged as noise has no alert that
   nobody marked, so a real alert is never muted with its neighbours.  The flag
   may be wrong after a writer whose read of the list, the marks or the flag was
   overtaken by another transaction, until the next writer that was not. *)
NoiseUnanimous ==
    \A i \in Incidents \ raced : kgInc[i].noise => kgInc[i].fps \subseteq kgInc[i].marked

Covered(a) ==
    LET i == alertRow[a].inc
    IN  alertRow[a].state = "firing" /\ i # 0
        /\ a \in kgInc[i].fps /\ kgInc[i].status = "open"

(* Whatever races resolved its row, closed its incident or dropped it from the
   list: an alert that goes on firing is seen again in an open incident. *)
RacesHeal == \A a \in Alerts : <>[]AmFiring(a) => []<>Covered(a)

(* When everything is quiet no incident stays open, also when the last snapshot
   of Alertmanager is empty and only the age resolves the rows. *)
QuietCloses == (<>[](\A a \in Alerts : ~AmFiring(a))) => <>[](OpenIncidents = {})
=============================================================================
