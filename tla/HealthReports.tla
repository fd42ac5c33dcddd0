--------------------------- MODULE HealthReports ---------------------------
(***************************************************************************)
(* The two periodic reports of app/workers/tasks.py that silence themselves  *)
(* (_kg_self_health_logic and _kg_stuck_alerts_logic have the same shape):   *)
(* find what is wrong, ask app/core/fire_dedup.py whether this very set was   *)
(* reported within the window, send one embed, mark the set as reported.      *)
(*                                                                         *)
(* One of the two tasks, hence one channel of keys.  single_instance keeps    *)
(* its runs apart, but the lock may be lost or Redis may be away (TaskLock),  *)
(* so runs may overlap.                                                      *)
(***************************************************************************)
EXTENDS Integers, FiniteSets

CONSTANTS Reporters,      \* runs of the task that may be under way together
          Problems,       \* fingerprints: sets of failed checks, of stuck alerts
          MaxReports,     \* bound: runs that found something
          MaxFireFaults   \* bound: failing Redis calls, lost answers, deaths

ASSUME ReportsAssumption ==
    /\ IsFiniteSet(Reporters) /\ IsFiniteSet(Problems)
    /\ {MaxReports, MaxFireFaults} \subseteq Nat

VARIABLES marked,      \* the fingerprints with a key in Redis
          reporter,    \* the run of each reporter
          embeds,      \* embeds of each fingerprint since its window began
          excuses,     \* what may have caused a second one in the same window
          reports, fireFaults

fireVars == <<marked, reporter, embeds, excuses, reports, fireFaults>>

FirePhases == {"idle", "asks", "sends", "marks"}

ReportsTypeOK ==
    /\ marked \subseteq Problems
    /\ reporter \in [Reporters -> [at : FirePhases, fp : Problems]]
    /\ embeds \in [Problems -> 0 .. MaxReports]
    /\ excuses \in [Problems -> Nat]
    /\ reports \in 0 .. MaxReports /\ fireFaults \in 0 .. MaxFireFaults

NoReport == [at |-> "idle", fp |-> CHOOSE fp \in Problems : TRUE]

ReportsInit ==
    /\ marked = {}
    /\ reporter = [r \in Reporters |-> NoReport]
    /\ embeds = [fp \in Problems |-> 0]
    /\ excuses = [fp \in Problems |-> 0]
    /\ reports = 0 /\ fireFaults = 0

FireFault == fireFaults < MaxFireFaults /\ fireFaults' = fireFaults + 1

Excused(fp) == excuses' = [excuses EXCEPT ![fp] = @ + 1]

ReportEnds(r) == reporter' = [reporter EXCEPT ![r] = NoReport]

ReportGoes(r, phase) == reporter' = [reporter EXCEPT ![r].at = phase]

(* A run finds something wrong (a run that finds nothing ends without a trace
   here); what is wrong changes from run to run. *)
Finds(r, fp) ==
    /\ reporter[r].at = "idle" /\ reports < MaxReports
    /\ reports' = reports + 1
    /\ reporter' = [reporter EXCEPT ![r] = [at |-> "asks", fp |-> fp]]
    /\ UNCHANGED <<marked, embeds, excuses, fireFaults>>

\* Another run has asked about the same set and has not marked it yet.
Overlaps(r) ==
    \E q \in Reporters \ {r} :
        reporter[q].fp = reporter[r].fp /\ reporter[q].at \in {"sends", "marks"}

\* should_fire: EXISTS.
Asks(r) ==
    LET fp == reporter[r].fp
    IN  /\ reporter[r].at = "asks"
        /\ IF fp \in marked
           THEN ReportEnds(r) /\ UNCHANGED excuses
           ELSE /\ ReportGoes(r, "sends")
                /\ IF Overlaps(r) THEN Excused(fp) ELSE UNCHANGED excuses
        /\ UNCHANGED <<marked, embeds, reports, fireFaults>>

\* No client, or EXISTS raised: True.
AsksInVain(r) ==
    /\ reporter[r].at = "asks"
    /\ FireFault /\ Excused(reporter[r].fp)
    /\ ReportGoes(r, "sends")
    /\ UNCHANGED <<marked, embeds, reports>>

\* The embed is in the channel.
Sends(r) ==
    /\ reporter[r].at = "sends"
    /\ embeds' = [embeds EXCEPT ![reporter[r].fp] = @ + 1]
    /\ ReportGoes(r, "marks")
    /\ UNCHANGED <<marked, excuses, reports, fireFaults>>

(* The webhook answers with an error, or with 429 after every repetition, or no
   URL is set: a line in the log, and the sender returns as after a success. *)
SendRefused(r) ==
    /\ reporter[r].at = "sends"
    /\ ReportGoes(r, "marks")
    /\ UNCHANGED <<marked, embeds, excuses, reports, fireFaults>>

\* The request raises or the worker dies, perhaps after the embed was accepted.
SendRaises(r) ==
    /\ reporter[r].at = "sends"
    /\ FireFault
    /\ \/ UNCHANGED <<embeds, excuses>>
       \/ /\ embeds' = [embeds EXCEPT ![reporter[r].fp] = @ + 1]
          /\ Excused(reporter[r].fp)
    /\ ReportEnds(r)
    /\ UNCHANGED <<marked, reports>>

\* Mutated Marks: the key is not written.
MarksNothing(r) ==
    /\ reporter[r].at = "marks"
    /\ ReportEnds(r)
    /\ UNCHANGED <<marked, embeds, excuses, reports, fireFaults>>

\* mark_fired: SETEX.
Marks(r) ==
    /\ reporter[r].at = "marks"
    /\ marked' = marked \cup {reporter[r].fp}
    /\ ReportEnds(r)
    /\ UNCHANGED <<embeds, excuses, reports, fireFaults>>

\* SETEX raises, or the worker dies before it: the window stays open.
MarkFails(r) ==
    /\ reporter[r].at = "marks"
    /\ FireFault /\ Excused(reporter[r].fp)
    /\ ReportEnds(r)
    /\ UNCHANGED <<marked, embeds, reports>>

(* The TTL has run out, and a new window begins; the runs of the old one have
   ended (their limit is far below the window). *)
MarkExpires(fp) ==
    /\ fp \in marked
    /\ \A r \in Reporters : reporter[r].fp = fp => reporter[r].at \in {"idle", "asks"}
    /\ marked' = marked \ {fp}
    /\ embeds' = [embeds EXCEPT ![fp] = 0]
    /\ excuses' = [excuses EXCEPT ![fp] = 0]
    /\ UNCHANGED <<reporter, reports, fireFaults>>

ReportsNext ==
    \/ \E r \in Reporters :
          \/ \E fp \in Problems : Finds(r, fp)
          \/ Asks(r) \/ AsksInVain(r) \/ Sends(r) \/ SendRefused(r) \/ SendRaises(r)
          \/ Marks(r) \/ MarkFails(r)
    \/ \E fp \in Problems : MarkExpires(fp)

ReportsSpec == ReportsInit /\ [][ReportsNext]_fireVars

---------------------------------------------------------------------------

(* One embed per problem and window, for all forks together.  Each further one is
   paid for: by a run that asked while another one was between its question and
   its mark (the two are separate commands), by a question or a mark that Redis
   did not take, or by an answer of Discord that did not arrive. *)
EmbedsExplained == \A fp \in Problems : embeds[fp] <= 1 + excuses[fp]

(* What the comment before mark_fired promises: a delivery that failed does not
   close the window, so a problem is silenced only after somebody has seen it. *)
SilencedWasShown == \A fp \in marked : embeds[fp] > 0
===========================================================================
