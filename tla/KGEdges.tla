------------------------------ MODULE KGEdges ------------------------------
(***************************************************************************)
(* Ageing of the topology edges (kg_service_edges): kg_sync.sync_topology,   *)
(* populator.upsert_edge, edge_decay_guard.                                  *)
(*                                                                         *)
(* Two synchronisers write the table from forked worker processes: kg_sync   *)
(* (edges KEdges) and one other source x (edges XEdges: services, ingresses  *)
(* or NATS subjects).  OrphanEdges have a kind no source answers for.        *)
(* kg_sync ends every run by ageing the whole table: an edge nobody has      *)
(* seen for InactiveAge days is marked, one unseen for DeleteAge days is     *)
(* deleted -- unless its source is not to be trusted in this cycle, by the   *)
(* last report of the source (the local one or the one in Redis, whichever   *)
(* is later) or because it refreshed none of its edges for a day.            *)
(*                                                                         *)
(* Time is the age of things in whole days (an edge is touched at most once  *)
(* in three hours, below that grain); an age stops growing at DeleteAge, the *)
(* oldest the code tells apart, and a report older than a day is no report.  *)
(***************************************************************************)
EXTENDS Integers, FiniteSets

CONSTANTS KEdges,        \* edges found by kg_sync
          XEdges,        \* edges found by the other source
          OrphanEdges,   \* edges of a kind that is mapped to no source
          EdgeProcs,     \* worker processes
          InactiveAge, DeleteAge,  \* EDGE_DECAY_INACTIVE_AFTER_DAYS, _DELETE_AFTER_DAYS
          MaxDeletePct,  \* EDGE_DECAY_MAX_DELETE_PCT
          MaxEdgeFaults, MaxEdgeChanges    \* bounds

\* Every kind of edge is mapped to one source at most.
ASSUME EdgesAssumption ==
    /\ KEdges \cap XEdges = {} /\ (KEdges \union XEdges) \cap OrphanEdges = {}
    /\ {InactiveAge, DeleteAge, MaxEdgeFaults, MaxEdgeChanges} \subseteq Nat /\ 0 < DeleteAge

VARIABLES edgeLive,   \* the edges the cluster really has (external)
          edgeAge,    \* age of last_seen_at; -1: no row
          inactive,   \* rows whose extras say inactive
          localRep,   \* x's report in the memory of every process
          sharedRep,  \* x's report in Redis
          outdone,    \* processes whose local report is older than that in Redis
          xRun,       \* the run of x under way
          kgRun,      \* the run of kg_sync under way
          edgeFaults, edgeChanges,
          confirmed,  \* ghost: live since the last complete run of their source
          unheard     \* ghost: why a bad run of x may be unknown

edgeVars == <<edgeLive, edgeAge, inactive, localRep, sharedRep, outdone, xRun, kgRun,
              edgeFaults, edgeChanges, confirmed, unheard>>

Edges == KEdges \union XEdges \union OrphanEdges
Reports == {"none", "good", "bad"}
Rows == {e \in Edges : edgeAge[e] >= 0}

\* complete: the listing was;  scoped: started with a prefix of namespaces;
\* trusted: the edges of healthy sources;  ids: the rows chosen for deletion,
\* later for the mark;  excused: ghost, some run was unheard at the choice.
XIdle == [proc |-> {}, complete |-> FALSE]
KgIdle == [at |-> "idle", proc |-> {}, errors |-> FALSE, scoped |-> FALSE,
           ids |-> {}, trusted |-> {}, excused |-> FALSE]

EdgesTypeOK ==
    /\ edgeLive \subseteq Edges
    /\ edgeAge \in [Edges -> -1 .. DeleteAge]
    /\ inactive \subseteq Rows
    /\ localRep \in [EdgeProcs -> Reports] /\ sharedRep \in Reports
    /\ outdone \subseteq EdgeProcs
    /\ xRun \in [proc : SUBSET EdgeProcs, complete : BOOLEAN]
    /\ kgRun \in [at : {"idle", "decay", "delete", "mark"}, proc : SUBSET EdgeProcs, errors : BOOLEAN,
                  scoped : BOOLEAN, ids : SUBSET Edges, trusted : SUBSET Edges, excused : BOOLEAN]
    /\ edgeFaults \in 0 .. MaxEdgeFaults /\ edgeChanges \in 0 .. MaxEdgeChanges
    /\ confirmed \subseteq edgeLive
    /\ unheard \subseteq {"under way", "died", "redis", "silent"}

EdgesInit ==
    /\ edgeLive = Edges
    /\ edgeAge = [e \in Edges |-> 0]
    /\ inactive = {}
    /\ localRep = [p \in EdgeProcs |-> "none"] /\ sharedRep = "none" /\ outdone = {}
    /\ xRun = XIdle /\ kgRun = KgIdle
    /\ edgeFaults = 0 /\ edgeChanges = 0
    /\ confirmed = KEdges \union XEdges
    /\ unheard = {}

(***************************************************************************)
(* The cluster and the clock (external).                                     *)
(***************************************************************************)

EdgeChanges(e) ==
    /\ edgeChanges < MaxEdgeChanges
    /\ edgeChanges' = edgeChanges + 1
    /\ edgeLive' = IF e \in edgeLive THEN edgeLive \ {e} ELSE edgeLive \union {e}
    /\ confirmed' = confirmed \ {e}
    /\ UNCHANGED <<edgeAge, inactive, localRep, sharedRep, outdone, xRun, kgRun, edgeFaults, unheard>>

\* A day passes; no decay takes that long.
DayPasses ==
    /\ kgRun = KgIdle
    /\ edgeAge' = [e \in Edges |-> IF edgeAge[e] \in 0 .. DeleteAge - 1 THEN edgeAge[e] + 1 ELSE edgeAge[e]]
    /\ localRep' = [p \in EdgeProcs |-> "none"] /\ sharedRep' = "none" /\ outdone' = {}
    /\ UNCHANGED <<edgeLive, inactive, xRun, kgRun, edgeFaults, edgeChanges, confirmed, unheard>>

(***************************************************************************)
(* The other source: upserts committed in portions, then its report.         *)
(***************************************************************************)

\* upsert_edge: the row is inserted or its last_seen_at renewed; the flag
\* inactive in extras is not touched.
Upsert(seen) == edgeAge' = [e \in Edges |-> IF e \in seen THEN 0 ELSE edgeAge[e]]

Fault(n) == /\ edgeFaults + n <= MaxEdgeFaults
            /\ edgeFaults' = edgeFaults + n

(* sync_all_services and its like: the edges that were found are upserted.  A run
   that misses a live edge has failed in part: nothing was listed, an item was
   rolled back to its savepoint, or one of several listings fell short. *)
XUpserts(p, seen) ==
    LET complete == seen = edgeLive \cap XEdges
    IN  /\ xRun = XIdle
        /\ Upsert(seen)
        /\ xRun' = [proc |-> {p}, complete |-> complete]
        /\ Fault(IF complete THEN 0 ELSE 1)
        /\ IF complete
           THEN /\ confirmed' = confirmed \union seen
                /\ unheard' = {}
           ELSE /\ unheard' = unheard \union {"under way"}
                /\ UNCHANGED confirmed
        /\ UNCHANGED <<edgeLive, inactive, localRep, sharedRep, outdone, kgRun, edgeChanges>>

\* _grade_report: failed, errors > 0 or nothing fetched make the report bad; a
\* failure that was only logged (_kubectl_get_all) is not counted.
Graded(counted) == IF xRun.complete \/ ~counted THEN "good" ELSE "bad"

(* record_source_run and _persist_report: the memory of this process, then
   Redis; a failure of Redis is swallowed. *)
XReports(persisted, counted) ==
    /\ xRun # XIdle /\ (xRun.complete => counted)
    /\ Fault(IF persisted THEN 0 ELSE 1)
    /\ localRep' = [p \in EdgeProcs |-> IF p \in xRun.proc THEN Graded(counted) ELSE localRep[p]]
    /\ sharedRep' = IF persisted THEN Graded(counted) ELSE sharedRep
    /\ outdone' = IF persisted THEN EdgeProcs \ xRun.proc ELSE outdone \ xRun.proc
    /\ unheard' = (unheard \ {"under way"}) \union
                  (CASE xRun.complete -> {}
                     [] ~xRun.complete /\ ~counted -> {"silent"}
                     [] OTHER -> IF persisted THEN {} ELSE {"redis"})
    /\ xRun' = XIdle
    /\ UNCHANGED <<edgeLive, edgeAge, inactive, kgRun, edgeChanges, confirmed>>

\* An exception or a kill between the commits and the report.
XDies ==
    /\ xRun # XIdle
    /\ Fault(1)
    /\ unheard' = (unheard \ {"under way"}) \union (IF xRun.complete THEN {} ELSE {"died"})
    /\ xRun' = XIdle
    /\ UNCHANGED <<edgeLive, edgeAge, inactive, localRep, sharedRep, outdone, kgRun, edgeChanges, confirmed>>

ReportLost ==
    /\ sharedRep # "none"
    /\ Fault(1)
    /\ sharedRep' = "none" /\ outdone' = {}
    /\ unheard' = IF sharedRep = "bad" THEN unheard \union {"redis"} ELSE unheard
    /\ UNCHANGED <<edgeLive, edgeAge, inactive, localRep, xRun, kgRun, edgeChanges, confirmed>>

(***************************************************************************)
(* kg_sync.                                                                  *)
(***************************************************************************)

(* Passes 1 and 2, a commit per namespace: the live edges of the namespaces
   that were read.  A namespace that fails counts as an error; one outside the
   prefix of a run started by hand does not. *)
KgPasses(p, seen, errors, scoped) ==
    /\ kgRun = KgIdle
    /\ ~errors /\ ~scoped => seen = edgeLive \cap KEdges
    /\ Fault(IF errors \/ scoped THEN 1 ELSE 0)
    /\ Upsert(seen)
    /\ kgRun' = [KgIdle EXCEPT !.at = "decay", !.proc = {p}, !.errors = errors, !.scoped = scoped]
    /\ confirmed' = IF errors \/ scoped THEN confirmed ELSE confirmed \union seen
    /\ UNCHANGED <<edgeLive, inactive, localRep, sharedRep, outdone, xRun, edgeChanges, unheard>>

\* get_source_report: the later of the two.
SeenReport(p) ==
    CASE localRep[p] = "none" -> sharedRep
      [] sharedRep = "none" -> localRep[p]
      [] OTHER -> IF p \in outdone THEN sharedRep ELSE localRep[p]

\* The data signal: some edge of the source was refreshed within the day.
Refreshed(source) == \E e \in source : edgeAge[e] = 0

(* The edges whose source may be trusted (unhealthy_sources and
   edge_block_reason); kg_sync has just reported its own run.  An edge of an
   unmapped kind is never among them. *)
TrustedEdges(p, errors) ==
    (IF ~errors /\ Refreshed(KEdges) THEN KEdges ELSE {})
    \union (IF SeenReport(p) # "bad" /\ Refreshed(XEdges) THEN XEdges ELSE {})

\* Mutated TooMany: the limit itself is refused.
TooManyAtLimit(n) == n > 0 /\ n * 100 >= MaxDeletePct * Cardinality(Rows)

\* _edge_decay_should_skip.
TooMany(n) == n * 100 > MaxDeletePct * Cardinality(Rows)

\* Mutated Revived: nothing takes the flag back.
RevivedNone == {}

\* _revive_active_edges: seen again within InactiveAge.
Revived == {e \in inactive : edgeAge[e] < InactiveAge}

(* _decay_stale_edges up to the deletion.  A skipped decay still commits what
   was revived. *)
KgSelects ==
    /\ kgRun.at = "decay"
    /\ \E p \in kgRun.proc :
         LET trusted == TrustedEdges(p, kgRun.errors)
             ids == {e \in trusted : edgeAge[e] >= DeleteAge}
         IN  kgRun' = IF kgRun.errors \/ TooMany(Cardinality(ids))
                      THEN KgIdle
                      ELSE [kgRun EXCEPT !.at = "delete", !.ids = ids, !.trusted = trusted,
                                             !.excused = unheard # {}]
    /\ inactive' = inactive \ Revived
    /\ UNCHANGED <<edgeLive, edgeAge, localRep, sharedRep, outdone, xRun, edgeFaults, edgeChanges,
                   confirmed, unheard>>

\* Mutated Deletable: DELETE by primary key alone.
DeletableById == kgRun.ids

\* The DELETE repeats the condition on last_seen_at.
Deletable == {e \in kgRun.ids : edgeAge[e] >= DeleteAge}

\* DELETE, and the SELECT of the rows to be marked.
KgDeletes ==
    /\ kgRun.at = "delete"
    /\ edgeAge' = [e \in Edges |-> IF e \in Deletable THEN -1 ELSE edgeAge[e]]
    /\ inactive' = inactive \ Deletable
    /\ kgRun' = [kgRun EXCEPT !.at = "mark", !.trusted = {}, !.excused = FALSE,
                              !.ids = {e \in kgRun.trusted :
                                         InactiveAge <= edgeAge[e] /\ edgeAge[e] < DeleteAge}]
    /\ UNCHANGED <<edgeLive, localRep, sharedRep, outdone, xRun, edgeFaults, edgeChanges,
                   confirmed, unheard>>

(* The soft mark writes extras of the rows loaded, whatever became of their
   last_seen_at since, and the transaction commits. *)
KgMarks ==
    /\ kgRun.at = "mark"
    /\ inactive' = inactive \union (kgRun.ids \cap Rows)
    /\ kgRun' = KgIdle
    /\ UNCHANGED <<edgeLive, edgeAge, localRep, sharedRep, outdone, xRun, edgeFaults, edgeChanges,
                   confirmed, unheard>>

KgDies ==
    /\ kgRun.at = "decay"
    /\ Fault(1)
    /\ kgRun' = KgIdle
    /\ UNCHANGED <<edgeLive, edgeAge, inactive, localRep, sharedRep, outdone, xRun, edgeChanges,
                   confirmed, unheard>>

XSteps ==
    \/ \E p \in EdgeProcs, seen \in SUBSET (edgeLive \cap XEdges) : XUpserts(p, seen)
    \/ \E persisted, counted \in BOOLEAN : XReports(persisted, counted)
    \/ XDies \/ ReportLost

KgSteps ==
    \/ \E p \in EdgeProcs, seen \in SUBSET (edgeLive \cap KEdges), errors, scoped \in BOOLEAN :
         KgPasses(p, seen, errors, scoped)
    \/ KgSelects \/ KgDeletes \/ KgMarks \/ KgDies

EdgesNext ==
    \/ \E e \in KEdges \union XEdges : EdgeChanges(e)
    \/ DayPasses
    \/ XSteps
    \/ KgSteps

(* beat starts both synchronisers again and again and days go by; both run
   many times a day, so time and again kg_sync ages the table on a day on
   which the other source has run.  The faults and the changes of the cluster
   are bounded by their counters. *)
EdgesFairness ==
    /\ WF_edgeVars(KgSteps) /\ WF_edgeVars(XSteps) /\ SF_edgeVars(DayPasses)
    /\ []<><<KgSelects /\ Refreshed(XEdges)>>_edgeVars

EdgesSpec == EdgesInit /\ [][EdgesNext]_edgeVars
EdgesFair == EdgesSpec /\ EdgesFairness

(***************************************************************************)
(* Properties.                                                               *)
(***************************************************************************)

(* The guard of the decay: an edge the cluster has had ever since the last
   complete run of its source is deleted only if a failed run of the other
   source went unheard (it died before its report, is still under way, counted
   no error, or Redis lost the report), or kg_sync was started by hand for some namespaces
   only.  A refresh between the selection and the DELETE saves the edge. *)
LiveEdgesKept ==
    [][\A e \in confirmed : edgeAge'[e] = -1 /\ edgeAge[e] >= 0 =>
          IF e \in XEdges THEN kgRun.excused ELSE kgRun.scoped]_edgeVars

(* Once the faults are over, an edge that stays in the cluster is again and
   again in the graph and not marked inactive. *)
LiveEdgesReturn ==
    \A e \in KEdges \union XEdges :
        <>[](e \in edgeLive) => []<>(e \in Rows \ inactive)

(* Once the faults are over, a single vanished edge whose source still has
   others leaves the graph for good.  (Of several, the limit on the share that
   one run may delete can keep all of them for ever.) *)
DeadEdgesLeave ==
    \A e \in KEdges \union XEdges :
        <>[](edgeLive = Edges \ {e}) => <>[](e \notin Rows)

=============================================================================
