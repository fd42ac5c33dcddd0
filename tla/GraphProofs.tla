---------------------------- MODULE GraphProofs ----------------------------
(***************************************************************************)
(* Proofs about the knowledge graph: the decay of topology edges (KGEdges)   *)
(* and the incidents of a service (KGIncidents), for any number of edges,    *)
(* alerts, processes and sessions.                                           *)
(***************************************************************************)
EXTENDS KGIncidents, KGEdges, FiniteSetTheorems, WellFoundedInduction, TLAPS

(***************************************************************************)
(* KGEdges: types.                                                           *)
(***************************************************************************)

KgRuns == [at : {"idle", "decay", "delete", "mark"}, proc : SUBSET EdgeProcs, errors : BOOLEAN,
           scoped : BOOLEAN, ids : SUBSET Edges, trusted : SUBSET Edges, excused : BOOLEAN]

LEMMA EdgeNats ==
    /\ InactiveAge \in Nat /\ DeleteAge \in Nat /\ 0 < DeleteAge
    /\ MaxEdgeFaults \in Nat /\ MaxEdgeChanges \in Nat
  BY EdgesAssumption

LEMMA EdgeIdles ==
    XIdle \in [proc : SUBSET EdgeProcs, complete : BOOLEAN] /\ KgIdle \in KgRuns
  BY DEF XIdle, KgIdle, KgRuns

\* The parts of the type invariant that arithmetic is done with.
LEMMA EdgeNumbers ==
  ASSUME EdgesTypeOK
  PROVE  /\ edgeAge \in [Edges -> -1 .. DeleteAge] /\ inactive \subseteq Rows
         /\ edgeFaults \in 0 .. MaxEdgeFaults /\ edgeChanges \in 0 .. MaxEdgeChanges
  BY DEF EdgesTypeOK

LEMMA UpsertTypes ==
  ASSUME EdgesTypeOK, NEW seen \in SUBSET Edges, Upsert(seen)
  PROVE  /\ edgeAge' \in [Edges -> -1 .. DeleteAge]
         /\ inactive \subseteq Rows'
<1>1. edgeAge' \in [Edges -> -1 .. DeleteAge]
  BY EdgeNumbers, EdgeNats DEF Upsert
<1>2. Rows \subseteq Rows'
  BY EdgeNumbers, EdgeNats DEF Upsert, Rows
<1> QED BY <1>1, <1>2, EdgeNumbers

LEMMA FaultTypes ==
  ASSUME EdgesTypeOK, NEW n \in {0, 1}, Fault(n)
  PROVE  edgeFaults' \in 0 .. MaxEdgeFaults
  BY EdgeNumbers, EdgeNats DEF Fault

LEMMA XTypes ==
  ASSUME EdgesTypeOK, XSteps
  PROVE  EdgesTypeOK'
<1> USE EdgeNats, EdgeIdles
<1>1. ASSUME NEW p \in EdgeProcs, NEW seen \in SUBSET (edgeLive \cap XEdges), XUpserts(p, seen)
      PROVE  EdgesTypeOK'
  <2>1. seen \in SUBSET Edges /\ Upsert(seen)
    BY <1>1 DEF XUpserts, Edges
  <2>2. edgeAge' \in [Edges -> -1 .. DeleteAge] /\ inactive' \subseteq Rows'
    BY <1>1, <2>1, UpsertTypes DEF XUpserts
  <2>3. edgeFaults' \in 0 .. MaxEdgeFaults
    BY <1>1, FaultTypes DEF XUpserts
  <2>4. xRun' \in [proc : SUBSET EdgeProcs, complete : BOOLEAN]
    BY <1>1 DEF XUpserts
  <2>5. confirmed' \subseteq edgeLive' /\ unheard' \subseteq {"under way", "died", "redis", "silent"}
    BY <1>1 DEF XUpserts, EdgesTypeOK
  <2> QED BY <1>1, <2>2, <2>3, <2>4, <2>5 DEF XUpserts, EdgesTypeOK
<1>2. ASSUME NEW persisted \in BOOLEAN, NEW counted \in BOOLEAN, XReports(persisted, counted)
      PROVE  EdgesTypeOK'
  <2>1. Graded(counted) \in Reports
    BY DEF Graded, Reports
  <2>2. localRep' \in [EdgeProcs -> Reports] /\ sharedRep' \in Reports
    BY <1>2, <2>1 DEF XReports, EdgesTypeOK
  <2>3. edgeFaults' \in 0 .. MaxEdgeFaults
    BY <1>2, FaultTypes DEF XReports
  <2>4. outdone' \subseteq EdgeProcs /\ unheard' \subseteq {"under way", "died", "redis", "silent"}
    BY <1>2 DEF XReports, EdgesTypeOK
  <2> QED BY <1>2, <2>2, <2>3, <2>4 DEF XReports, EdgesTypeOK, Rows
<1>3. CASE XDies
  <2>1. edgeFaults' \in 0 .. MaxEdgeFaults
    BY <1>3, FaultTypes DEF XDies
  <2>2. unheard' \subseteq {"under way", "died", "redis", "silent"}
    BY <1>3 DEF XDies, EdgesTypeOK
  <2> QED BY <1>3, <2>1, <2>2 DEF XDies, EdgesTypeOK, Rows
<1>4. CASE ReportLost
  <2>1. edgeFaults' \in 0 .. MaxEdgeFaults
    BY <1>4, FaultTypes DEF ReportLost
  <2>2. unheard' \subseteq {"under way", "died", "redis", "silent"} /\ sharedRep' \in Reports
    BY <1>4 DEF ReportLost, EdgesTypeOK, Reports
  <2> QED BY <1>4, <2>1, <2>2 DEF ReportLost, EdgesTypeOK, Rows
<1> QED BY <1>1, <1>2, <1>3, <1>4 DEF XSteps

LEMMA KgTypes ==
  ASSUME EdgesTypeOK, KgSteps
  PROVE  EdgesTypeOK'
<1> USE EdgeNats, EdgeIdles
<1>r. kgRun \in KgRuns
  BY DEF EdgesTypeOK, KgRuns
<1>q. kgRun' \in KgRuns =>
        (EdgesTypeOK' <=> /\ edgeLive' \subseteq Edges
                          /\ edgeAge' \in [Edges -> -1 .. DeleteAge]
                          /\ inactive' \subseteq Rows'
                          /\ localRep' \in [EdgeProcs -> Reports] /\ sharedRep' \in Reports
                          /\ outdone' \subseteq EdgeProcs
                          /\ xRun' \in [proc : SUBSET EdgeProcs, complete : BOOLEAN]
                          /\ edgeFaults' \in 0 .. MaxEdgeFaults /\ edgeChanges' \in 0 .. MaxEdgeChanges
                          /\ confirmed' \subseteq edgeLive'
                          /\ unheard' \subseteq {"under way", "died", "redis", "silent"})
  BY DEF EdgesTypeOK, KgRuns
<1>1. ASSUME NEW p \in EdgeProcs, NEW seen \in SUBSET (edgeLive \cap KEdges),
             NEW errors \in BOOLEAN, NEW scoped \in BOOLEAN, KgPasses(p, seen, errors, scoped)
      PROVE  EdgesTypeOK'
  <2>1. seen \in SUBSET Edges /\ Upsert(seen)
    BY <1>1 DEF KgPasses, Edges
  <2>2. edgeAge' \in [Edges -> -1 .. DeleteAge] /\ inactive' \subseteq Rows'
    BY <1>1, <2>1, UpsertTypes DEF KgPasses
  <2>3. edgeFaults' \in 0 .. MaxEdgeFaults
    BY <1>1, FaultTypes DEF KgPasses
  <2>4. kgRun' \in KgRuns
    BY <1>1 DEF KgPasses, KgIdle, KgRuns
  <2>5. confirmed' \subseteq edgeLive'
    BY <1>1 DEF KgPasses, EdgesTypeOK
  <2> QED BY <1>1, <1>q, <2>2, <2>3, <2>4, <2>5 DEF KgPasses, EdgesTypeOK
<1>2. CASE KgSelects
  <2>1. PICK p \in kgRun.proc :
          \/ kgRun' = KgIdle
          \/ kgRun' = [kgRun EXCEPT !.at = "delete",
                         !.ids = {e \in TrustedEdges(p, kgRun.errors) : edgeAge[e] >= DeleteAge},
                         !.trusted = TrustedEdges(p, kgRun.errors),
                         !.excused = unheard # {}]
    BY <1>2 DEF KgSelects
  <2>2. TrustedEdges(p, kgRun.errors) \subseteq Edges
    BY DEF TrustedEdges, Edges
  <2> DEFINE ids == {e \in TrustedEdges(p, kgRun.errors) : edgeAge[e] >= DeleteAge}
             b == unheard # {}
             run2 == [kgRun EXCEPT !.at = "delete", !.ids = ids, !.excused = b,
                                   !.trusted = TrustedEdges(p, kgRun.errors)]
  <2>a. ids \subseteq Edges /\ b \in BOOLEAN
    BY <2>2
  <2>b. kgRun' = KgIdle \/ kgRun' = run2
    BY <2>1, <1>r DEF KgRuns
  <2> HIDE DEF ids, b
  <2>p. PICK r \in KgRuns, i \in SUBSET Edges, t \in SUBSET Edges, x \in BOOLEAN :
            r = kgRun /\ i = ids /\ t = TrustedEdges(p, kgRun.errors) /\ x = b
    BY <1>r, <2>2, <2>a
  <2>c. [r EXCEPT !.at = "delete", !.ids = i, !.excused = x, !.trusted = t] \in KgRuns
    BY DEF KgRuns
  <2>3. kgRun' \in KgRuns
    BY <2>b, <2>c, <2>p
  <2>4. inactive' \subseteq Rows'
    BY <1>2 DEF KgSelects, EdgesTypeOK, Rows
  <2> QED BY <1>2, <1>q, <2>3, <2>4 DEF KgSelects, EdgesTypeOK
<1>3. CASE KgDeletes
  <2>1. kgRun' \in KgRuns
    BY <1>3, <1>r DEF KgDeletes, KgRuns
  <2>2. edgeAge' \in [Edges -> -1 .. DeleteAge]
    BY <1>3, EdgeNumbers DEF KgDeletes
  <2>3. inactive' \subseteq Rows'
    BY <1>3 DEF KgDeletes, EdgesTypeOK, Rows
  <2> QED BY <1>3, <1>q, <2>1, <2>2, <2>3 DEF KgDeletes, EdgesTypeOK
<1>4. CASE KgMarks
  <2>1. inactive' \subseteq Rows'
    BY <1>4 DEF KgMarks, EdgesTypeOK, Rows
  <2> QED BY <1>4, <1>q, <2>1 DEF KgMarks, EdgesTypeOK
<1>5. CASE KgDies
  <2>1. edgeFaults' \in 0 .. MaxEdgeFaults
    BY <1>5, FaultTypes DEF KgDies
  <2> QED BY <1>5, <1>q, <2>1 DEF KgDies, EdgesTypeOK, Rows
<1> QED BY <1>1, <1>2, <1>3, <1>4, <1>5 DEF KgSteps

\* The table, the reports and the runs keep their types; a row that is marked
\* inactive exists.
THEOREM EdgesTyped == EdgesSpec => []EdgesTypeOK
<1> USE EdgeNats, EdgeIdles
<1>1. EdgesInit => EdgesTypeOK
  BY DEF EdgesInit, EdgesTypeOK, Edges, Rows, Reports, KgRuns
<1>2. ASSUME EdgesTypeOK, NEW e \in KEdges \union XEdges, EdgeChanges(e)
      PROVE  EdgesTypeOK'
  <2>1. edgeLive' \subseteq Edges /\ confirmed' \subseteq edgeLive'
    BY <1>2 DEF EdgeChanges, EdgesTypeOK, Edges
  <2>2. edgeChanges' \in 0 .. MaxEdgeChanges
    BY <1>2, EdgeNumbers DEF EdgeChanges
  <2> QED BY <1>2, <2>1, <2>2 DEF EdgeChanges, EdgesTypeOK, Rows
<1>3. ASSUME EdgesTypeOK, DayPasses
      PROVE  EdgesTypeOK'
  <2>1. edgeAge' \in [Edges -> -1 .. DeleteAge] /\ Rows \subseteq Rows'
    BY <1>3, EdgeNumbers DEF DayPasses, Rows
  <2>2. localRep' \in [EdgeProcs -> Reports] /\ sharedRep' \in Reports
    BY <1>3 DEF DayPasses, Reports
  <2> QED BY <1>3, <2>1, <2>2 DEF DayPasses, EdgesTypeOK
<1>4. EdgesTypeOK /\ UNCHANGED edgeVars => EdgesTypeOK'
  BY DEF EdgesTypeOK, edgeVars, Rows
<1>5. EdgesTypeOK /\ [EdgesNext]_edgeVars => EdgesTypeOK'
  BY <1>2, <1>3, <1>4, XTypes, KgTypes DEF EdgesNext
<1> QED BY <1>1, <1>5, PTL DEF EdgesSpec

(***************************************************************************)
(* LiveEdgesKept.  The invariant says why an edge that is confirmed is not   *)
(* among the rows to be deleted: kg_sync has just refreshed it, or the other *)
(* source has not run today, has refreshed it in a complete run, or is known *)
(* to have failed, in every process that may ask.  The one exception, a      *)
(* failed run nobody heard of, is what `unheard` and `excused` record.       *)
(***************************************************************************)

KFresh == \A e \in confirmed \cap KEdges : edgeAge[e] = 0
XFresh == \A e \in confirmed \cap XEdges : edgeAge[e] = 0
ReportedBad == \A p \in EdgeProcs : SeenReport(p) = "bad"

KRunInv ==
    kgRun.at \in {"decay", "delete"} /\ ~kgRun.errors /\ ~kgRun.scoped => KFresh

SelectionInv ==
    kgRun.at = "delete" =>
        /\ ~kgRun.errors /\ kgRun.ids \subseteq KEdges \union XEdges
        /\ kgRun.excused \/ \A e \in confirmed \cap XEdges \cap kgRun.ids : edgeAge[e] = 0

XRunInv == xRun.complete => "under way" \notin unheard /\ (~Refreshed(XEdges) \/ XFresh)

HeardInv == unheard = {} => ~Refreshed(XEdges) \/ XFresh \/ ReportedBad

EdgesInv == KRunInv /\ SelectionInv /\ XRunInv /\ HeardInv

\* A run of the other source touches its own edges only.
LEMMA XUpsertsKeep ==
  ASSUME EdgesTypeOK, EdgesInv, NEW p \in EdgeProcs, NEW seen \in SUBSET (edgeLive \cap XEdges),
         XUpserts(p, seen)
  PROVE  EdgesInv'
<1> USE EdgesAssumption, EdgeNats
<1>d. \A e \in KEdges : e \notin XEdges
  OBVIOUS
<1>a. edgeAge' = [e \in Edges |-> IF e \in seen THEN 0 ELSE edgeAge[e]]
  BY DEF XUpserts, Upsert
<1>b. \A e \in Edges : edgeAge'[e] = 0 \/ edgeAge'[e] = edgeAge[e]
  BY <1>a
<1>e. confirmed \subseteq edgeLive /\ edgeLive \subseteq Edges
  BY DEF EdgesTypeOK
<1>c. confirmed' \subseteq confirmed \union seen /\ kgRun' = kgRun
  BY DEF XUpserts
<1>s. \A e \in seen : edgeAge'[e] = 0
  BY <1>a, <1>e
<1>1. KFresh => KFresh'
  BY <1>b, <1>c, <1>d, <1>e DEF KFresh
<1>2. KRunInv'
  BY <1>1, <1>c DEF EdgesInv, KRunInv
<1>3. SelectionInv'
  BY <1>b, <1>c, <1>e, <1>s DEF EdgesInv, SelectionInv
<1>4. CASE seen = edgeLive \cap XEdges
  <2>1. XFresh'
    BY <1>4, <1>c, <1>e, <1>s DEF XFresh
  <2>2. unheard' = {}
    BY <1>4 DEF XUpserts
  <2>3. XRunInv' /\ HeardInv'
    BY <2>1, <2>2 DEF XRunInv, HeardInv
  <2> QED BY <1>2, <1>3, <2>3 DEF EdgesInv
<1>5. CASE seen # edgeLive \cap XEdges
  <2>1. unheard' = unheard \union {"under way"} /\ xRun' = [proc |-> {p}, complete |-> FALSE]
    BY <1>5 DEF XUpserts
  <2>2. unheard' # {} /\ xRun'.complete = FALSE
    BY <2>1
  <2>3. XRunInv' /\ HeardInv'
    BY <2>2 DEF XRunInv, HeardInv
  <2> QED BY <1>2, <1>3, <2>3 DEF EdgesInv
<1> QED BY <1>4, <1>5

\* The ways in which a run of the other source ends: a failed run is reported to
\* every process, or it goes unheard.
LEMMA XEndsKeep ==
  ASSUME EdgesTypeOK, EdgesInv,
         (\E persisted, counted \in BOOLEAN : XReports(persisted, counted)) \/ XDies \/ ReportLost
  PROVE  EdgesInv'
<1>k. /\ edgeAge' = edgeAge /\ confirmed' = confirmed /\ kgRun' = kgRun
  BY DEF XReports, XDies, ReportLost
<1>1. KRunInv' /\ SelectionInv'
  BY <1>k DEF EdgesInv, KRunInv, SelectionInv, KFresh
<1>2. (Refreshed(XEdges))' = Refreshed(XEdges) /\ XFresh' = XFresh
  BY <1>k DEF Refreshed, XFresh
<1>t. /\ localRep \in [EdgeProcs -> Reports] /\ sharedRep \in Reports
      /\ outdone \subseteq EdgeProcs /\ xRun.proc \subseteq EdgeProcs
      /\ xRun \in [proc : SUBSET EdgeProcs, complete : BOOLEAN]
  BY DEF EdgesTypeOK
<1>3. ASSUME NEW persisted \in BOOLEAN, NEW counted \in BOOLEAN, XReports(persisted, counted)
      PROVE  XRunInv' /\ HeardInv'
  <2>1. ~xRun'.complete
    BY <1>3 DEF XReports, XIdle
  <2>2. CASE xRun.complete
    <3>1. unheard' = {} => ~Refreshed(XEdges) \/ XFresh
      BY <1>3, <2>2 DEF XReports, EdgesInv, XRunInv
    <3> QED BY <1>2, <2>1, <3>1 DEF XRunInv, HeardInv
  <2>3. CASE ~xRun.complete /\ counted /\ persisted
    <3>1. Graded(counted) = "bad"
      BY <2>3 DEF Graded
    <3>2. /\ sharedRep' = "bad" /\ outdone' = EdgeProcs \ xRun.proc
          /\ localRep' = [p \in EdgeProcs |-> IF p \in xRun.proc THEN "bad" ELSE localRep[p]]
      BY <1>3, <2>3, <3>1 DEF XReports
    <3>3. ASSUME NEW p \in EdgeProcs
          PROVE  (SeenReport(p))' = "bad"
      BY <3>2 DEF SeenReport
    <3>4. ReportedBad'
      BY <3>3 DEF ReportedBad
    <3> QED BY <2>1, <3>4 DEF XRunInv, HeardInv
  <2>4. CASE ~xRun.complete /\ ~(counted /\ persisted)
    <3>1. unheard' # {}
      BY <1>3, <2>4 DEF XReports
    <3> QED BY <2>1, <3>1 DEF XRunInv, HeardInv
  <2> QED BY <2>2, <2>3, <2>4
<1>4. CASE XDies
  <2>1. ~xRun'.complete
    BY <1>4 DEF XDies, XIdle
  <2>2. CASE xRun.complete
    <3>1. unheard' = {} => ~Refreshed(XEdges) \/ XFresh
      BY <1>4, <2>2 DEF XDies, EdgesInv, XRunInv
    <3> QED BY <1>1, <1>2, <2>1, <3>1 DEF XRunInv, HeardInv, EdgesInv
  <2>3. CASE ~xRun.complete
    <3>1. unheard' # {}
      BY <1>4, <2>3 DEF XDies
    <3> QED BY <1>1, <2>1, <3>1 DEF XRunInv, HeardInv, EdgesInv
  <2> QED BY <2>2, <2>3
<1>5. CASE ReportLost
  <2>1. XRunInv'
    BY <1>5, <1>2 DEF ReportLost, EdgesInv, XRunInv
  <2>2. CASE sharedRep = "bad"
    <3>1. unheard' # {}
      BY <1>5, <2>2 DEF ReportLost
    <3> QED BY <1>1, <2>1, <3>1 DEF HeardInv, EdgesInv
  <2>3. CASE sharedRep # "bad"
    <3>1. unheard' = unheard /\ sharedRep' = "none" /\ localRep' = localRep /\ sharedRep # "none"
      BY <1>5, <2>3 DEF ReportLost
    <3>2. ASSUME NEW p \in EdgeProcs, SeenReport(p) = "bad"
          PROVE  (SeenReport(p))' = "bad"
      BY <2>3, <3>1, <3>2, <1>t DEF SeenReport, Reports
    <3>3. ReportedBad => ReportedBad'
      BY <3>2 DEF ReportedBad
    <3> QED BY <1>1, <1>2, <2>1, <3>1, <3>3 DEF EdgesInv, HeardInv
  <2> QED BY <2>2, <2>3
<1> QED BY <1>1, <1>3, <1>4, <1>5 DEF EdgesInv

\* kg_sync: the passes refresh, the selection asks for the reports, the DELETE
\* takes nothing that is fresh.
LEMMA KgKeeps ==
  ASSUME EdgesTypeOK, EdgesInv, KgSteps
  PROVE  EdgesInv'
<1> USE EdgesAssumption, EdgeNats
<1>r. kgRun \in KgRuns
  BY DEF EdgesTypeOK, KgRuns
<1>e. confirmed \subseteq edgeLive /\ edgeLive \subseteq Edges /\ XEdges \subseteq Edges
  BY DEF EdgesTypeOK, Edges
<1>n. edgeAge \in [Edges -> -1 .. DeleteAge]
  BY EdgeNumbers
<1>x. ASSUME xRun' = xRun, unheard' = unheard, localRep' = localRep, sharedRep' = sharedRep,
             outdone' = outdone, (Refreshed(XEdges))' => Refreshed(XEdges), XFresh => XFresh'
      PROVE  XRunInv' /\ HeardInv'
  <2>1. ReportedBad' = ReportedBad
    BY <1>x DEF ReportedBad, SeenReport
  <2> QED BY <1>x, <2>1 DEF EdgesInv, XRunInv, HeardInv
<1>1. ASSUME NEW p \in EdgeProcs, NEW seen \in SUBSET (edgeLive \cap KEdges),
             NEW errors \in BOOLEAN, NEW scoped \in BOOLEAN, KgPasses(p, seen, errors, scoped)
      PROVE  EdgesInv'
  <2>a. edgeAge' = [e \in Edges |-> IF e \in seen THEN 0 ELSE edgeAge[e]]
    BY <1>1 DEF KgPasses, Upsert
  <2>b. \A e \in XEdges : edgeAge'[e] = edgeAge[e]
    BY <1>e, <2>a
  <2>c. confirmed' \subseteq confirmed \union seen
    BY <1>1 DEF KgPasses
  <2>d. (Refreshed(XEdges))' => Refreshed(XEdges)
    BY <2>b DEF Refreshed
  <2>f. XFresh => XFresh'
    BY <2>b, <2>c DEF XFresh
  <2>1. XRunInv' /\ HeardInv'
    BY <1>1, <1>x, <2>d, <2>f DEF KgPasses
  <2>2. /\ kgRun'.at = "decay" /\ kgRun'.errors = errors /\ kgRun'.scoped = scoped
    BY <1>1 DEF KgPasses, KgIdle
  <2>3. ~errors /\ ~scoped => KFresh'
    BY <1>1, <1>e, <2>a, <2>c DEF KgPasses, KFresh
  <2> QED BY <2>1, <2>2, <2>3 DEF EdgesInv, KRunInv, SelectionInv
<1>2. CASE KgSelects
  <2>1. /\ edgeAge' = edgeAge /\ confirmed' = confirmed
        /\ xRun' = xRun /\ unheard' = unheard /\ localRep' = localRep /\ sharedRep' = sharedRep
        /\ outdone' = outdone
    BY <1>2 DEF KgSelects
  <2>2. XRunInv' /\ HeardInv'
    BY <1>x, <2>1 DEF Refreshed, XFresh
  <2>3. PICK p \in kgRun.proc :
          \/ kgRun' = KgIdle
          \/ /\ ~kgRun.errors
             /\ kgRun' = [kgRun EXCEPT !.at = "delete",
                            !.ids = {e \in TrustedEdges(p, kgRun.errors) : edgeAge[e] >= DeleteAge},
                            !.trusted = TrustedEdges(p, kgRun.errors),
                            !.excused = unheard # {}]
    BY <1>2 DEF KgSelects
  <2>4. CASE kgRun' = KgIdle
    <3>1. kgRun'.at = "idle"
      BY <2>4 DEF KgIdle
    <3> QED BY <2>2, <3>1 DEF EdgesInv, KRunInv, SelectionInv
  <2>5. CASE /\ ~kgRun.errors
             /\ kgRun' = [kgRun EXCEPT !.at = "delete",
                            !.ids = {e \in TrustedEdges(p, kgRun.errors) : edgeAge[e] >= DeleteAge},
                            !.trusted = TrustedEdges(p, kgRun.errors),
                            !.excused = unheard # {}]
    <3> DEFINE ids == {e \in TrustedEdges(p, kgRun.errors) : edgeAge[e] >= DeleteAge}
    <3>1. /\ kgRun'.at = "delete" /\ kgRun'.ids = ids
          /\ kgRun'.errors = kgRun.errors /\ kgRun'.scoped = kgRun.scoped
      BY <1>r, <2>5 DEF KgRuns
    <3>2. kgRun'.excused = (unheard # {})
      BY <1>r, <2>5 DEF KgRuns
    <3>3. ids \subseteq KEdges \union XEdges
      BY DEF TrustedEdges
    <3>4. kgRun.at = "decay"
      BY <1>2 DEF KgSelects
    <3>5. KRunInv'
      BY <2>1, <3>1, <3>4 DEF EdgesInv, KRunInv, KFresh
    <3>6. ASSUME unheard = {}, NEW e \in confirmed \cap XEdges \cap ids
          PROVE  edgeAge[e] = 0
      <4>1. SeenReport(p) # "bad" /\ Refreshed(XEdges)
        BY <3>6 DEF TrustedEdges
      <4>2. p \in EdgeProcs
        BY <1>r DEF KgRuns
      <4>3. ~ReportedBad
        BY <4>1, <4>2 DEF ReportedBad
      <4>4. XFresh
        BY <3>6, <4>1, <4>3 DEF EdgesInv, HeardInv
      <4> QED BY <3>6, <4>4 DEF XFresh
    <3> HIDE DEF ids
    <3>7. SelectionInv'
      <4>1. CASE unheard = {}
        BY <2>1, <2>5, <3>1, <3>3, <3>6, <4>1 DEF SelectionInv
      <4>2. CASE unheard # {}
        BY <2>5, <3>1, <3>2, <3>3, <4>2 DEF SelectionInv
      <4> QED BY <4>1, <4>2
    <3> QED BY <2>2, <3>5, <3>7 DEF EdgesInv
  <2> QED BY <2>3, <2>4, <2>5
<1>3. CASE KgDeletes
  <2>1. edgeAge' = [e \in Edges |-> IF e \in Deletable THEN -1 ELSE edgeAge[e]]
    BY <1>3 DEF KgDeletes
  <2>2. ASSUME NEW e \in XEdges
        PROVE  edgeAge'[e] = 0 <=> edgeAge[e] = 0
    BY <1>e, <1>n, <2>1 DEF Deletable
  <2>3. (Refreshed(XEdges))' => Refreshed(XEdges)
    BY <2>2 DEF Refreshed
  <2>4. XFresh => XFresh'
    BY <1>3, <2>2 DEF XFresh, KgDeletes
  <2>5. XRunInv' /\ HeardInv'
    BY <1>3, <1>x, <2>3, <2>4 DEF KgDeletes
  <2>6. kgRun'.at = "mark"
    BY <1>3, <1>r DEF KgDeletes, KgRuns
  <2> QED BY <2>5, <2>6 DEF EdgesInv, KRunInv, SelectionInv
<1>4. CASE KgMarks \/ KgDies
  <2>1. /\ edgeAge' = edgeAge /\ confirmed' = confirmed
        /\ xRun' = xRun /\ unheard' = unheard /\ localRep' = localRep /\ sharedRep' = sharedRep
        /\ outdone' = outdone
    BY <1>4 DEF KgMarks, KgDies
  <2>2. XRunInv' /\ HeardInv'
    BY <1>x, <2>1 DEF Refreshed, XFresh
  <2>3. kgRun'.at = "idle"
    BY <1>4 DEF KgMarks, KgDies, KgIdle
  <2> QED BY <2>2, <2>3 DEF EdgesInv, KRunInv, SelectionInv
<1> QED BY <1>1, <1>2, <1>3, <1>4 DEF KgSteps

\* The cluster and the clock: a change of the cluster confirms nothing, and after
\* a day nothing is fresh and no report counts.
LEMMA WorldKeeps ==
  ASSUME EdgesTypeOK, EdgesInv, (\E e \in KEdges \union XEdges : EdgeChanges(e)) \/ DayPasses
  PROVE  EdgesInv'
<1> USE EdgeNats
<1>1. ASSUME NEW e \in KEdges \union XEdges, EdgeChanges(e)
      PROVE  EdgesInv'
  <2>1. /\ edgeAge' = edgeAge /\ confirmed' \subseteq confirmed /\ kgRun' = kgRun
        /\ xRun' = xRun /\ unheard' = unheard /\ localRep' = localRep /\ sharedRep' = sharedRep
        /\ outdone' = outdone
    BY <1>1 DEF EdgeChanges
  <2>2. (KFresh => KFresh') /\ (XFresh => XFresh')
    BY <2>1 DEF KFresh, XFresh
  <2>3. (Refreshed(XEdges))' = Refreshed(XEdges) /\ ReportedBad' = ReportedBad
    BY <2>1 DEF Refreshed, ReportedBad, SeenReport
  <2>4. KRunInv' /\ SelectionInv'
    BY <2>1, <2>2 DEF EdgesInv, KRunInv, SelectionInv
  <2>5. XRunInv' /\ HeardInv'
    BY <2>1, <2>2, <2>3 DEF EdgesInv, XRunInv, HeardInv
  <2> QED BY <2>4, <2>5 DEF EdgesInv
<1>2. CASE DayPasses
  <2>1. kgRun' = KgIdle /\ xRun' = xRun /\ unheard' = unheard
    BY <1>2 DEF DayPasses
  <2>2. kgRun'.at = "idle"
    BY <2>1 DEF KgIdle
  <2>3. ASSUME NEW e \in XEdges
        PROVE  edgeAge'[e] # 0
    <3>1. e \in Edges /\ edgeAge[e] \in -1 .. DeleteAge
      BY EdgeNumbers DEF Edges
    <3>2. edgeAge'[e] = IF edgeAge[e] \in 0 .. DeleteAge - 1 THEN edgeAge[e] + 1 ELSE edgeAge[e]
      BY <1>2, <3>1 DEF DayPasses
    <3> QED BY <3>1, <3>2
  <2>4. ~(Refreshed(XEdges))'
    BY <2>3 DEF Refreshed
  <2>5. XRunInv' /\ HeardInv'
    BY <2>1, <2>4 DEF EdgesInv, XRunInv, HeardInv
  <2> QED BY <2>2, <2>5 DEF EdgesInv, KRunInv, SelectionInv
<1> QED BY <1>1, <1>2

\* The DELETE of the decay spares what is confirmed.
LEMMA DeletesAreExcused ==
  ASSUME EdgesTypeOK, EdgesInv, [EdgesNext]_edgeVars,
         NEW e \in confirmed, edgeAge[e] >= 0, edgeAge'[e] = -1
  PROVE  IF e \in XEdges THEN kgRun.excused ELSE kgRun.scoped
<1> USE EdgeNats, EdgesAssumption
<1>e. e \in Edges /\ edgeAge \in [Edges -> -1 .. DeleteAge]
  BY EdgeNumbers DEF EdgesTypeOK
<1>1. CASE KgDeletes
  <2>1. e \in kgRun.ids /\ edgeAge[e] >= DeleteAge /\ kgRun.at = "delete"
    BY <1>1, <1>e DEF KgDeletes, Deletable
  <2>2. edgeAge[e] # 0
    BY <1>e, <2>1
  <2>3. CASE e \in XEdges
    BY <2>1, <2>2, <2>3 DEF EdgesInv, SelectionInv
  <2>4. CASE e \notin XEdges
    <3>1. e \in KEdges /\ ~kgRun.errors
      BY <2>1, <2>4 DEF EdgesInv, SelectionInv
    <3>2. ~KFresh
      BY <2>2, <3>1 DEF KFresh
    <3> QED BY <2>1, <2>4, <3>1, <3>2 DEF EdgesInv, KRunInv
  <2> QED BY <2>3, <2>4
<1>2. CASE edgeAge' = edgeAge
  BY <1>2
<1>3. ASSUME NEW seen, Upsert(seen)
      PROVE  FALSE
  BY <1>e, <1>3 DEF Upsert
<1>4. CASE DayPasses
  BY <1>4, <1>e DEF DayPasses
<1>5. KgDeletes \/ edgeAge' = edgeAge \/ (\E seen : Upsert(seen)) \/ DayPasses
  BY DEF EdgesNext, EdgeChanges, XSteps, XUpserts, XReports, XDies, ReportLost, KgSteps, KgPasses,
         KgSelects, KgMarks, KgDies, edgeVars
<1> QED BY <1>1, <1>2, <1>3, <1>4, <1>5

\* The guard of the decay, for any number of edges, processes and faults: an edge
\* that the cluster has had since the last complete run of its source is deleted
\* only if a failed run of the other source went unheard or kg_sync was started by
\* hand for some namespaces.
THEOREM LiveEdgesAreKept == EdgesSpec => LiveEdgesKept
<1>1. EdgesInit => EdgesInv
  <2> SUFFICES ASSUME EdgesInit PROVE EdgesInv
    OBVIOUS
  <2>1. kgRun.at = "idle" /\ ~xRun.complete
    BY DEF EdgesInit, KgIdle, XIdle
  <2>2. XFresh
    BY DEF EdgesInit, XFresh, Edges
  <2> QED BY <2>1, <2>2 DEF EdgesInv, KRunInv, SelectionInv, XRunInv, HeardInv
<1>2. EdgesTypeOK /\ EdgesInv /\ [EdgesNext]_edgeVars => EdgesInv'
  <2>1. EdgesInv /\ UNCHANGED edgeVars => EdgesInv'
    BY DEF EdgesInv, KRunInv, SelectionInv, XRunInv, HeardInv, KFresh, XFresh, ReportedBad,
           SeenReport, Refreshed, edgeVars
  <2> QED BY <2>1, XUpsertsKeep, XEndsKeep, KgKeeps, WorldKeeps DEF EdgesNext, XSteps
<1>3. EdgesTypeOK /\ EdgesInv /\ [EdgesNext]_edgeVars =>
        [\A e \in confirmed : edgeAge'[e] = -1 /\ edgeAge[e] >= 0 =>
            IF e \in XEdges THEN kgRun.excused ELSE kgRun.scoped]_edgeVars
  BY DeletesAreExcused
<1> QED BY <1>1, <1>2, <1>3, EdgesTyped, PTL DEF EdgesSpec, LiveEdgesKept

(***************************************************************************)
(* KGIncidents: types.  Min and Max are CHOOSEn, so that the minimum of a    *)
(* set of naturals and the maximum of a bounded set exist is shown first.    *)
(***************************************************************************)

LEMMA MinExists ==
  ASSUME NEW S \in SUBSET Nat, S # {}
  PROVE  \E m \in S : \A k \in S : m <= k
<1> DEFINE T == {0 .. m : m \in S}
<1>1. IsWellFoundedOn(StrictSubsetOrdering(Nat), FiniteSubsetsOf(Nat))
  BY FS_StrictSubsetOrderingWellFounded
<1>2. T \subseteq FiniteSubsetsOf(Nat)
  <2> SUFFICES ASSUME NEW m \in S PROVE 0 .. m \in FiniteSubsetsOf(Nat)
    OBVIOUS
  <2>1. IsFiniteSet(0 .. m)
    BY FS_Interval
  <2>2. 0 .. m \subseteq Nat
    OBVIOUS
  <2> QED BY <2>1, <2>2 DEF FiniteSubsetsOf
<1>3. T # {}
  OBVIOUS
<1> HIDE DEF T
<1>4. PICK x \in T : \A y \in T : <<y, x>> \notin StrictSubsetOrdering(Nat)
  BY <1>1, <1>2, <1>3, WFMin
<1>5. PICK m \in S : x = 0 .. m
  BY <1>4 DEF T
<1>6. ASSUME NEW k \in S, k < m
      PROVE  FALSE
  <2>1. 0 .. k \in T
    BY DEF T
  <2>2. 0 .. k \subseteq 0 .. m /\ 0 .. k # 0 .. m
    BY <1>6
  <2>3. 0 .. k \subseteq Nat /\ 0 .. m \subseteq Nat
    OBVIOUS
  <2>4. <<0 .. k, 0 .. m>> \in StrictSubsetOrdering(Nat)
    BY <2>2, <2>3 DEF StrictSubsetOrdering
  <2> QED BY <1>4, <1>5, <2>1, <2>4
<1>7. \A k \in S : m <= k
  BY <1>6
<1> QED BY <1>7

LEMMA MaxExists ==
  ASSUME NEW b \in Int, NEW S \in SUBSET Int, S # {}, \A x \in S : x <= b
  PROVE  \E m \in S : \A k \in S : m >= k
<1> DEFINE T == {b - x : x \in S}
<1>0. \A x \in S : b - x \in Nat
  OBVIOUS
<1>1. T \in SUBSET Nat /\ T # {}
  BY <1>0
<1> HIDE DEF T
<1>2. PICK d \in T : \A k \in T : d <= k
  BY <1>1, MinExists
<1>3. PICK m \in S : d = b - m
  BY DEF T
<1>4. ASSUME NEW k \in S
      PROVE  m >= k
  <2>1. b - k \in T
    BY DEF T
  <2>2. b - m <= b - k
    BY <1>2, <1>3, <2>1
  <2> QED BY <2>2
<1> QED BY <1>4

LEMMA KGNats ==
    /\ ReopenWindow \in Nat /\ FallbackAge \in Nat /\ AgeOut \in Nat
    /\ MaxTime \in Nat /\ MaxFires \in Nat /\ MaxExtras \in Nat
  BY KGAssumption

RawAlerts == [state : {"absent", "firing", "resolved"}, fired : Times,
              resolved : Times, inc : 0 .. MaxFires]
RawIncidents == [status : {"absent", "open", "resolved"}, fps : SUBSET Alerts,
                 last : Times, resolved : Times, agedOut : BOOLEAN,
                 marked : SUBSET Alerts, noise : BOOLEAN]

LEMMA RowTypes ==
    /\ \A r : r \in AlertRows <=> r \in RawAlerts /\ (r.state = "resolved" <=> r.resolved >= 0)
    /\ \A r : r \in IncidentRows <=> r \in RawIncidents /\ (r.status = "resolved" <=> r.resolved >= 0)
  BY DEF AlertRows, IncidentRows, RawAlerts, RawIncidents

LEMMA NoRows ==
    NoIncident \in IncidentRows /\ NoAlert \in AlertRows /\ Nothing \in Transactions
<1> USE KGNats
<1>1. NoIncident \in RawIncidents /\ NoAlert \in RawAlerts
  BY DEF NoIncident, NoAlert, RawIncidents, RawAlerts, Times
<1>2. NoIncident \in IncidentRows /\ NoAlert \in AlertRows
  BY <1>1, RowTypes DEF NoIncident, NoAlert
<1> QED BY <1>2 DEF Nothing, Transactions, Times

\* An upserted row fires.
LEMMA UpsertedRow ==
  ASSUME KGTypeOK, NEW a \in Alerts, NEW f \in Times
  PROVE  /\ Upserted(a, f) \in AlertRows /\ Upserted(a, f).state = "firing"
         /\ Upserted(a, f).inc \in {0, alertRow[a].inc}
<1> USE KGNats
<1>0. alertRow[a] \in AlertRows /\ alertRow[a] \in RawAlerts
  BY RowTypes DEF KGTypeOK
<1>1. CASE alertRow[a].state = "absent"
  <2>1. Upserted(a, f) = [state |-> "firing", fired |-> f, resolved |-> -1, inc |-> 0]
    BY <1>1 DEF Upserted
  <2>2. Upserted(a, f) \in RawAlerts /\ Upserted(a, f).state = "firing"
        /\ Upserted(a, f).inc = 0 /\ Upserted(a, f).resolved = -1
    BY <2>1 DEF RawAlerts, Times
  <2> QED BY <2>2, RowTypes
<1>2. CASE alertRow[a].state = "resolved"
  <2>1. Upserted(a, f) = [alertRow[a] EXCEPT !.state = "firing", !.fired = f, !.resolved = -1]
    BY <1>2 DEF Upserted
  <2>m. PICK m \in Times : m = -1
    BY DEF Times
  <2>n. Upserted(a, f) = [alertRow[a] EXCEPT !.state = "firing", !.fired = f, !.resolved = m]
    BY <2>1, <2>m
  <2>2. Upserted(a, f) \in RawAlerts /\ Upserted(a, f).state = "firing"
        /\ Upserted(a, f).inc = alertRow[a].inc /\ Upserted(a, f).resolved = -1
    BY <1>0, <2>m, <2>n DEF RawAlerts
  <2> QED BY <2>2, RowTypes
<1>3. CASE alertRow[a].state \notin {"absent", "resolved"}
  <2>1. Upserted(a, f) = alertRow[a]
    BY <1>3 DEF Upserted
  <2> QED BY <1>0, <1>3, <2>1 DEF RawAlerts
<1> QED BY <1>1, <1>2, <1>3

(***************************************************************************)
(* FiringIsOpen and NoiseUnanimous.  What they need beyond the types: the    *)
(* incidents that rows, transactions and the verdict of reconcile_incidents  *)
(* refer to exist, and an alert is attached to what was read as open.        *)
(***************************************************************************)

Exists(i) == kgInc[i].status # "absent"

LinkInv == \A a \in Alerts : alertRow[a].inc # 0 => Exists(alertRow[a].inc)

SessionInv ==
    \A s \in Sessions :
        /\ session[s].does # "nothing" => session[s].alert \in Alerts
        /\ session[s].does \in {"attach", "reopen", "mark", "unmark"} =>
               session[s].inc \in Incidents /\ Exists(session[s].inc)
        /\ session[s].does \in {"attach", "reopen", "create"} /\ session[s].row.inc # 0 =>
               Exists(session[s].row.inc)
        /\ session[s].does = "attach" => session[s].read.status = "open"

ClosingInv == closing # Undecided => closing.inc \in Incidents /\ closing.resolved >= 0

KGInv == KGTypeOK /\ LinkInv /\ SessionInv /\ ClosingInv

\* No incident disappears.
NoneLost == \A i \in Incidents : Exists(i) => kgInc'[i].status # "absent"

LEMMA KGTyped ==
  ASSUME KGTypeOK
  PROVE  /\ kgInc \in [Incidents -> IncidentRows] /\ alertRow \in [Alerts -> AlertRows]
         /\ session \in [Sessions -> Transactions]
         /\ amSince \in [Alerts -> Times] /\ kgNow \in 0 .. MaxTime
         /\ closing \in [inc : 0 .. MaxFires, resolved : Times, agedOut : BOOLEAN]
         /\ adrift \subseteq Alerts /\ raced \subseteq Incidents /\ activeSet \subseteq Alerts
  BY DEF KGTypeOK

\* What attach_alert leaves of an incident, whatever others wrote meanwhile.
LEMMA AttachedRow ==
  ASSUME KGTypeOK, NEW t \in Transactions, t.inc \in Incidents, t.alert \in Alerts,
         NEW r, r = Attached(t)
  PROVE  /\ r \in IncidentRows
         /\ r.status = kgInc[t.inc].status /\ r.resolved = kgInc[t.inc].resolved
         /\ r.agedOut = kgInc[t.inc].agedOut /\ r.marked = kgInc[t.inc].marked
         /\ ~StaleList(t) => r.fps = kgInc[t.inc].fps \cup {t.alert}
         /\ ~StaleFlag(t) => (r.noise => r.fps \subseteq r.marked)
<1> DEFINE old == t.read
           cur == kgInc[t.inc]
           f == Written(old.fps, old.fps \cup {t.alert}, cur.fps)
           l == IF t.fired > old.last THEN t.fired ELSE cur.last
           n == Written(old.noise, AllNoise(old.marked, old.fps \cup {t.alert}), cur.noise)
<1>1. cur \in RawIncidents /\ (cur.status = "resolved" <=> cur.resolved >= 0)
  BY KGTyped, RowTypes
<1>2. old \in RawIncidents /\ t.fired \in Times
  BY RowTypes DEF Transactions
<1>3. f \in SUBSET Alerts
  BY <1>1, <1>2 DEF Written, RawIncidents
<1>4. l \in Times
  BY <1>1, <1>2 DEF RawIncidents
<1>5. n \in BOOLEAN
  BY <1>1, <1>2 DEF Written, AllNoise, RawIncidents
<1>6. r = [cur EXCEPT !.fps = f, !.last = l, !.noise = n]
  BY DEF Attached
<1>7. cur.fps = old.fps => f = cur.fps \cup {t.alert}
  BY DEF Written
<1>8. ~StaleFlag(t) => (n => cur.fps \cup {t.alert} \subseteq cur.marked)
  BY DEF StaleFlag, Written, AllNoise
<1>c. (~StaleList(t) => cur.fps = old.fps) /\ (~StaleFlag(t) => cur.fps = old.fps)
  BY DEF StaleList, StaleFlag
<1> HIDE DEF f, l, n, cur, old
<1>9. /\ r \in RawIncidents
      /\ r.status = cur.status /\ r.resolved = cur.resolved
      /\ r.agedOut = cur.agedOut /\ r.marked = cur.marked /\ r.fps = f
  BY <1>1, <1>3, <1>4, <1>5, <1>6 DEF RawIncidents
<1>10. r.noise = n
  BY <1>1, <1>3, <1>4, <1>5, <1>6 DEF RawIncidents
<1>11. r \in IncidentRows
  BY <1>1, <1>9, RowTypes
<1>12. /\ ~StaleList(t) => r.fps = cur.fps \cup {t.alert}
       /\ ~StaleFlag(t) => (r.noise => r.fps \subseteq r.marked)
  BY <1>7, <1>8, <1>9, <1>10, <1>c
<1> QED BY <1>9, <1>11, <1>12 DEF cur

\* The incident of a reopening.
LEMMA ReopenedRow ==
  ASSUME NEW q \in IncidentRows, NEW r,
         r = [q EXCEPT !.status = "open", !.resolved = -1, !.agedOut = FALSE]
  PROVE  /\ r \in IncidentRows /\ r.status = "open"
         /\ r.fps = q.fps /\ r.marked = q.marked /\ r.noise = q.noise
<1>1. PICK m \in Times : m = -1
  BY KGNats DEF Times
<1>2. q \in RawIncidents /\ r = [q EXCEPT !.status = "open", !.resolved = m, !.agedOut = FALSE]
  BY <1>1, RowTypes
<1>3. /\ r \in RawIncidents /\ r.status = "open" /\ r.resolved = m
      /\ r.fps = q.fps /\ r.marked = q.marked
  BY <1>2 DEF RawIncidents
<1>4. r.noise = q.noise
  BY <1>2 DEF RawIncidents
<1>n. ~(r.resolved >= 0) /\ r.status # "resolved"
  BY <1>1, <1>3
<1>5. r \in IncidentRows
  BY <1>3, <1>n, RowTypes, Zenon
<1> QED BY <1>3, <1>4, <1>5

\* A new incident, with the first of its alerts.
LEMMA CreatedRow ==
  ASSUME NEW a \in Alerts, NEW f \in Times, NEW r,
         r = [NoIncident EXCEPT !.status = "open", !.fps = {a}, !.last = f]
  PROVE  r \in IncidentRows /\ r.status = "open" /\ r.fps = {a} /\ ~r.noise
<1>1. NoIncident \in RawIncidents /\ NoIncident.resolved = -1 /\ ~NoIncident.noise
  BY NoRows, RowTypes DEF NoIncident
<1>2. r \in RawIncidents /\ r.status = "open" /\ r.fps = {a} /\ r.resolved = NoIncident.resolved
  BY <1>1 DEF RawIncidents
<1>3. r.noise = NoIncident.noise
  BY <1>1 DEF RawIncidents
<1>n. ~(r.resolved >= 0) /\ r.status # "resolved"
  BY <1>1, <1>2
<1>4. r \in IncidentRows
  BY <1>2, <1>n, RowTypes, Zenon
<1> QED BY <1>1, <1>2, <1>3, <1>4

\* The row of an alert with another incident.
LEMMA LinkedRow ==
  ASSUME NEW q \in AlertRows, NEW i \in 0 .. MaxFires, NEW r, r = [q EXCEPT !.inc = i]
  PROVE  r \in AlertRows /\ r.inc = i /\ r.state = q.state
<1>1. q \in RawAlerts /\ (q.state = "resolved" <=> q.resolved >= 0)
  BY RowTypes
<1>2. r \in RawAlerts /\ r.inc = i /\ r.state = q.state /\ r.resolved = q.resolved
  BY <1>1 DEF RawAlerts
<1> QED BY <1>1, <1>2, RowTypes

KGAll == KGInv /\ FiringIsOpen /\ NoiseUnanimous

LEMMA KGAllTypes ==
  ASSUME KGAll
  PROVE  /\ KGTypeOK
         /\ \A i \in Incidents : kgInc[i] \in IncidentRows
         /\ \A a \in Alerts : /\ alertRow[a] \in AlertRows
                              /\ alertRow[a].inc # 0 => alertRow[a].inc \in Incidents
         /\ \A s \in Sessions : /\ session[s] \in Transactions /\ session[s].row \in AlertRows
                                /\ session[s].fired \in Times /\ session[s].inc \in 0 .. MaxFires
                                /\ session[s].read \in IncidentRows
                                /\ session[s].row.inc # 0 => session[s].row.inc \in Incidents
<1> USE KGNats
<1>1. KGTypeOK
  BY DEF KGAll, KGInv
<1>2. \A r \in AlertRows : r.inc # 0 => r.inc \in Incidents
  BY RowTypes DEF RawAlerts, Incidents
<1>3. /\ \A i \in Incidents : kgInc[i] \in IncidentRows
      /\ \A a \in Alerts : alertRow[a] \in AlertRows
      /\ \A s \in Sessions : session[s] \in Transactions
  BY <1>1, KGTyped
<1>4. \A t \in Transactions : /\ t.row \in AlertRows /\ t.fired \in Times
                              /\ t.inc \in 0 .. MaxFires /\ t.read \in IncidentRows
  BY DEF Transactions
<1> QED BY <1>1, <1>2, <1>3, <1>4

\* The transactions that go on refer to what still exists.
LEMMA SessionsKept ==
  ASSUME KGAll, NoneLost, session' = session \/ \E s \in Sessions : Finishes(s)
  PROVE  SessionInv' /\ session' \in [Sessions -> Transactions]
<1>0. session \in [Sessions -> Transactions]
  BY KGTyped, KGAllTypes
<1>1. session' \in [Sessions -> Transactions]
      /\ \A q \in Sessions : session'[q] = session[q] \/ session'[q] = Nothing
  BY <1>0, NoRows DEF Finishes
<1>2. Nothing.does = "nothing"
  BY DEF Nothing
<1>3. ASSUME NEW q \in Sessions
      PROVE  /\ session'[q].does # "nothing" => session'[q].alert \in Alerts
             /\ session'[q].does \in {"attach", "reopen", "mark", "unmark"} =>
                    session'[q].inc \in Incidents /\ kgInc'[session'[q].inc].status # "absent"
             /\ session'[q].does \in {"attach", "reopen", "create"} /\ session'[q].row.inc # 0 =>
                    kgInc'[session'[q].row.inc].status # "absent"
             /\ session'[q].does = "attach" => session'[q].read.status = "open"
  <2>1. CASE session'[q] = Nothing
    BY <1>2, <2>1
  <2>2. CASE session'[q] = session[q]
    BY <2>2, KGAllTypes DEF KGAll, KGInv, SessionInv, NoneLost, Exists
  <2> QED BY <1>1, <2>1, <2>2
<1> QED BY <1>1, <1>3 DEF SessionInv, Exists

\* An alert joins an incident: attached to it, or reopening it.
LEMMA JoinKeeps ==
  ASSUME KGAll, NEW s \in Sessions, NEW t, t = session[s], t.does \in {"attach", "reopen"},
         NEW r \in IncidentRows, r.status # "absent",
         ~StaleList(t) => r.fps = kgInc[t.inc].fps \cup {t.alert} /\ r.status = "open",
         ~StaleFlag(t) => (r.noise => r.fps \subseteq r.marked),
         kgInc' = [kgInc EXCEPT ![t.inc] = r],
         Links(t, t.inc), NotesList(t), NotesFlag(t), Finishes(s),
         UNCHANGED <<kgExtras, kgNow, amSince, amFires, fetched, activeSet, closing>>
  PROVE  KGAll'
<1> USE KGNats
<1>t. /\ t.alert \in Alerts /\ t.inc \in Incidents /\ t.row \in AlertRows
      /\ kgInc[t.inc].status # "absent" /\ t.inc \in 0 .. MaxFires /\ t.inc # 0
  BY KGAllTypes DEF KGAll, KGInv, SessionInv, Exists, Incidents
<1>k. kgInc \in [Incidents -> IncidentRows] /\ alertRow \in [Alerts -> AlertRows]
      /\ adrift \subseteq Alerts /\ raced \subseteq Incidents
  BY KGTyped, KGAllTypes
<1>1. kgInc' \in [Incidents -> IncidentRows] /\ kgInc'[t.inc] = r
      /\ \A i \in Incidents \ {t.inc} : kgInc'[i] = kgInc[i]
  BY <1>k, <1>t
<1>2. NoneLost
  BY <1>1 DEF NoneLost, Exists
<1>3. SessionInv' /\ session' \in [Sessions -> Transactions]
  BY <1>2, SessionsKept
<1>4. PICK row : row = [t.row EXCEPT !.inc = t.inc]
  OBVIOUS
<1>5. row \in AlertRows /\ row.inc = t.inc
  BY <1>4, <1>t, LinkedRow
<1>6. /\ alertRow' \in [Alerts -> AlertRows] /\ alertRow'[t.alert] = row
      /\ \A a \in Alerts \ {t.alert} : alertRow'[a] = alertRow[a]
  BY <1>k, <1>t, <1>4, <1>5 DEF Links
<1>7. /\ adrift' \subseteq Alerts /\ adrift \subseteq adrift' \cup {t.alert}
      /\ t.alert \notin adrift' => ~StaleList(t)
      /\ \A a \in Alerts \ adrift' :
             a # t.alert /\ alertRow[a].state = "firing" /\ alertRow[a].inc = t.inc => ~StaleList(t)
  BY <1>k, <1>t DEF NotesList, FiringIn
<1>f. /\ raced' \subseteq Incidents /\ raced \subseteq raced' \cup {t.inc}
      /\ t.inc \notin raced' => ~StaleFlag(t) \/ ~kgInc'[t.inc].noise
  BY <1>k, <1>t DEF NotesFlag
<1>8. KGTypeOK'
  BY <1>1, <1>3, <1>6, <1>7, <1>f, KGAllTypes DEF KGTypeOK
<1>9. LinkInv'
  <2> SUFFICES ASSUME NEW a \in Alerts, alertRow'[a].inc # 0
               PROVE  kgInc'[alertRow'[a].inc].status # "absent"
    BY DEF LinkInv, Exists
  <2>1. CASE a = t.alert
    BY <1>1, <1>5, <1>6, <2>1
  <2>2. CASE a # t.alert
    BY <1>2, <1>6, <2>2, KGAllTypes DEF KGAll, KGInv, LinkInv, NoneLost, Exists
  <2> QED BY <2>1, <2>2
<1>10. ClosingInv'
  BY DEF KGAll, KGInv, ClosingInv
<1>11. FiringIsOpen'
  <2> SUFFICES ASSUME NEW a \in Alerts, alertRow'[a].state = "firing", alertRow'[a].inc # 0,
                      a \notin adrift'
               PROVE  /\ a \in kgInc'[alertRow'[a].inc].fps
                      /\ \/ kgInc'[alertRow'[a].inc].status = "open"
                         \/ kgInc'[alertRow'[a].inc].agedOut
    BY DEF FiringIsOpen
  <2>1. CASE a = t.alert
    BY <1>1, <1>5, <1>6, <1>7, <2>1
  <2>2. CASE a # t.alert
    <3>1. alertRow'[a] = alertRow[a] /\ alertRow[a].inc \in Incidents /\ a \notin adrift
      BY <1>6, <1>7, <2>2, KGAllTypes
    <3>2. /\ a \in kgInc[alertRow[a].inc].fps
          /\ kgInc[alertRow[a].inc].status = "open" \/ kgInc[alertRow[a].inc].agedOut
      BY <3>1 DEF KGAll, FiringIsOpen
    <3>3. CASE alertRow[a].inc = t.inc
      BY <1>1, <1>7, <3>1, <3>2, <3>3
    <3>4. CASE alertRow[a].inc # t.inc
      BY <1>1, <3>1, <3>2, <3>4
    <3> QED BY <3>3, <3>4
  <2> QED BY <2>1, <2>2
<1>12. NoiseUnanimous'
  <2> SUFFICES ASSUME NEW i \in Incidents \ raced', kgInc'[i].noise
               PROVE  kgInc'[i].fps \subseteq kgInc'[i].marked
    BY DEF NoiseUnanimous
  <2>1. CASE i = t.inc
    BY <1>1, <1>f, <2>1
  <2>2. CASE i # t.inc
    BY <1>1, <1>f, <2>2 DEF KGAll, NoiseUnanimous
  <2> QED BY <2>1, <2>2
<1> QED BY <1>3, <1>8, <1>9, <1>10, <1>11, <1>12 DEF KGAll, KGInv

LEMMA AttachKeeps ==
  ASSUME KGAll, NEW s \in Sessions, StoreAttaches(s) \/ StoreReopens(s)
  PROVE  KGAll'
<1> DEFINE t == session[s]
<1>t. /\ t \in Transactions /\ t.inc \in Incidents /\ t.alert \in Alerts
      /\ kgInc[t.inc].status # "absent" /\ t.does \in {"attach", "reopen"}
      /\ t.does = "attach" => t.read.status = "open"
  BY KGAllTypes DEF StoreAttaches, StoreReopens, KGAll, KGInv, SessionInv, Exists
<1>r. PICK q : q = Attached(t)
  OBVIOUS
<1>q. /\ q \in IncidentRows /\ q.status = kgInc[t.inc].status
      /\ ~StaleList(t) => q.fps = kgInc[t.inc].fps \cup {t.alert}
      /\ ~StaleFlag(t) => (q.noise => q.fps \subseteq q.marked)
  BY <1>t, <1>r, AttachedRow, KGAllTypes
<1>1. CASE StoreAttaches(s)
  <2>1. ~StaleList(t) => q.status = "open"
    BY <1>1, <1>t, <1>q DEF StoreAttaches, StaleList
  <2>2. /\ kgInc' = [kgInc EXCEPT ![t.inc] = q]
        /\ Links(t, t.inc) /\ NotesList(t) /\ NotesFlag(t) /\ Finishes(s)
        /\ UNCHANGED <<kgExtras, kgNow, amSince, amFires, fetched, activeSet, closing>>
    BY <1>1, <1>r DEF StoreAttaches
  <2> QED BY <1>t, <1>q, <2>1, <2>2, JoinKeeps
<1>2. CASE StoreReopens(s)
  <2>1. PICK r : r = [q EXCEPT !.status = "open", !.resolved = -1, !.agedOut = FALSE]
    OBVIOUS
  <2>2. /\ r \in IncidentRows /\ r.status = "open"
        /\ r.fps = q.fps /\ r.marked = q.marked /\ r.noise = q.noise
    BY <1>q, <2>1, ReopenedRow
  <2>3. /\ kgInc' = [kgInc EXCEPT ![t.inc] = r]
        /\ Links(t, t.inc) /\ NotesList(t) /\ NotesFlag(t) /\ Finishes(s)
        /\ UNCHANGED <<kgExtras, kgNow, amSince, amFires, fetched, activeSet, closing>>
    BY <1>2, <1>r, <2>1 DEF StoreReopens
  <2> QED BY <1>t, <1>q, <2>2, <2>3, JoinKeeps
<1> QED BY <1>1, <1>2

\* Steps that leave alerts, incidents and the history alone.
LEMMA RowsUntouched ==
  ASSUME KGAll, UNCHANGED <<kgInc, alertRow, excuses>>, KGTypeOK', SessionInv', ClosingInv'
  PROVE  KGAll'
<1>1. LinkInv'
  BY DEF KGAll, KGInv, LinkInv, Exists
<1>2. FiringIsOpen'
  BY DEF KGAll, FiringIsOpen, excuses
<1>3. NoiseUnanimous'
  BY DEF KGAll, NoiseUnanimous, excuses
<1> QED BY <1>1, <1>2, <1>3 DEF KGAll, KGInv

\* Alertmanager, the clock, the snapshot, an aborted transaction.
LEMMA QuietKeeps ==
  ASSUME KGAll,
         \/ \E a \in Alerts : AmStarts(a) \/ AmStops(a)
         \/ KGTick \/ FetchActive
         \/ \E s \in Sessions : StoreAborts(s)
         \/ UNCHANGED kgVars
  PROVE  KGAll'
<1> USE KGNats
<1>0. /\ UNCHANGED <<kgInc, alertRow, excuses, closing>>
      /\ session' = session \/ \E s \in Sessions : Finishes(s)
  BY DEF AmStarts, AmStops, KGTick, FetchActive, StoreAborts, kgVars
<1>1. NoneLost
  BY <1>0 DEF NoneLost, Exists
<1>2. SessionInv' /\ session' \in [Sessions -> Transactions]
  BY <1>0, <1>1, SessionsKept
<1>3. ClosingInv'
  BY <1>0 DEF KGAll, KGInv, ClosingInv
<1>4. KGTypeOK
  BY KGAllTypes
<1>5. kgNow' \in 0 .. MaxTime /\ amFires' \in 0 .. MaxFires /\ kgExtras' \in 0 .. MaxExtras
  BY <1>4 DEF KGTypeOK, AmStarts, AmStops, KGTick, FetchActive, StoreAborts, kgVars
<1>m. PICK m \in Times : m = -1
  BY DEF Times
<1>n. kgNow \in Times
  BY <1>4 DEF KGTypeOK, Times
<1>6. amSince' \in [Alerts -> Times]
  <2>1. amSince \in [Alerts -> Times]
    BY <1>4, KGTyped
  <2>2. \/ amSince' = amSince
        \/ \E a \in Alerts : amSince' = [amSince EXCEPT ![a] = kgNow]
        \/ \E a \in Alerts : amSince' = [amSince EXCEPT ![a] = m]
    BY <1>m DEF AmStarts, AmStops, KGTick, FetchActive, StoreAborts, kgVars
  <2> QED BY <1>n, <2>1, <2>2
<1>7. fetched' \in BOOLEAN /\ activeSet' \subseteq Alerts
  BY <1>4 DEF KGTypeOK, AmStarts, AmStops, KGTick, FetchActive, StoreAborts, kgVars
<1>8. KGTypeOK'
  BY <1>0, <1>2, <1>4, <1>5, <1>6, <1>7 DEF KGTypeOK, excuses
<1> QED BY <1>0, <1>2, <1>3, <1>8, RowsUntouched

\* A transaction begins with what it has read.
LEMMA BeginKeeps ==
  ASSUME KGAll, NEW s \in Sessions, NEW t \in Transactions,
         t.alert \in Alerts,
         t.does \in {"attach", "reopen", "mark", "unmark"} =>
             t.inc \in Incidents /\ Exists(t.inc),
         t.row.inc # 0 => Exists(t.row.inc),
         t.does = "attach" => t.read.status = "open",
         session' = [session EXCEPT ![s] = t], kgExtras' \in 0 .. MaxExtras,
         UNCHANGED <<kgNow, amSince, amFires, alertRow, kgInc, fetched, activeSet, closing, excuses>>
  PROVE  KGAll'
<1>0. session \in [Sessions -> Transactions] /\ KGTypeOK
  BY KGTyped, KGAllTypes
<1>1. /\ session' \in [Sessions -> Transactions] /\ session'[s] = t
      /\ \A q \in Sessions \ {s} : session'[q] = session[q]
  BY <1>0
<1>2. SessionInv'
  <2> SUFFICES ASSUME NEW q \in Sessions
      PROVE  /\ session'[q].does # "nothing" => session'[q].alert \in Alerts
             /\ session'[q].does \in {"attach", "reopen", "mark", "unmark"} =>
                    session'[q].inc \in Incidents /\ kgInc'[session'[q].inc].status # "absent"
             /\ session'[q].does \in {"attach", "reopen", "create"} /\ session'[q].row.inc # 0 =>
                    kgInc'[session'[q].row.inc].status # "absent"
             /\ session'[q].does = "attach" => session'[q].read.status = "open"
    BY DEF SessionInv, Exists
  <2>1. CASE q = s
    BY <1>1, <2>1 DEF Exists
  <2>2. CASE q # s
    BY <1>1, <2>2 DEF KGAll, KGInv, SessionInv, Exists
  <2> QED BY <2>1, <2>2
<1>3. ClosingInv'
  BY DEF KGAll, KGInv, ClosingInv
<1>4. KGTypeOK'
  BY <1>0, <1>1 DEF KGTypeOK, excuses
<1> QED BY <1>2, <1>3, <1>4, RowsUntouched

\* The latest of resolved incidents is one of them.
LEMMA LatestIsOne ==
  ASSUME KGTypeOK, NEW S \in SUBSET Incidents, S # {}
  PROVE  LatestOf(S) \in S
<1> USE KGNats
<1> DEFINE R == {kgInc[j].resolved : j \in S}
<1>1. \A j \in S : kgInc[j].resolved \in Times
  BY KGTyped, RowTypes DEF RawIncidents
<1>2. R \in SUBSET Int /\ R # {} /\ MaxTime \in Int /\ \A x \in R : x <= MaxTime
  BY <1>1 DEF Times
<1> HIDE DEF R
<1>3. \E m \in R : \A k \in R : m >= k
  BY <1>2, MaxExists, Zenon
<1>m. PICK m \in R : \A k \in R : m >= k
  BY <1>3
<1>4. PICK i \in S : m = kgInc[i].resolved
  BY DEF R
<1>5. \A j \in S : kgInc[j].resolved <= kgInc[i].resolved
  <2> SUFFICES ASSUME NEW j \in S PROVE kgInc[j].resolved <= kgInc[i].resolved
    OBVIOUS
  <2>1. kgInc[j].resolved \in R
    BY DEF R
  <2>2. m >= kgInc[j].resolved
    BY <1>m, <2>1
  <2>3. m \in Int /\ kgInc[j].resolved \in Int
    BY <1>2, <2>1
  <2> QED BY <1>4, <2>2, <2>3
<1> QED BY <1>4, <1>5 DEF LatestOf

LEMMA StoreBeginKeeps ==
  ASSUME KGAll, NEW s \in Sessions, NEW a \in Alerts, StoreBegins(s, a)
  PROVE  KGAll'
<1> USE KGNats
<1> DEFINE fired == amSince[a]
           recent == RecentlyResolved(fired)
           up == Upserted(a, fired)
<1>0. KGTypeOK
  BY KGAllTypes
<1>1. fired \in Times /\ kgExtras \in 0 .. MaxExtras /\ kgExtras' = kgExtras
  BY <1>0 DEF KGTypeOK, StoreBegins
<1>2. up \in AlertRows /\ up.inc \in {0, alertRow[a].inc}
  BY <1>0, <1>1, UpsertedRow
<1>3. up.inc # 0 => Exists(up.inc)
  BY <1>2 DEF KGAll, KGInv, LinkInv
<1> HIDE DEF up
<1>4. PICK t : /\ session' = [session EXCEPT ![s] = t]
               /\ \/ \E i \in Incidents :
                        /\ i \in OpenIncidents
                        /\ t = [does |-> "attach", alert |-> a, fired |-> fired, row |-> up,
                                inc |-> i, read |-> kgInc[i]]
                  \/ \E i \in Incidents :
                        /\ i \in recent
                        /\ t = [does |-> "reopen", alert |-> a, fired |-> fired, row |-> up,
                                inc |-> i, read |-> kgInc[i]]
                  \/ t = [does |-> "create", alert |-> a, fired |-> fired, row |-> up,
                          inc |-> 0, read |-> NoIncident]
  <2>1. CASE OpenIncidents # {}
    <3>1. PICK i : i = CHOOSE j \in OpenIncidents : TRUE
      OBVIOUS
    <3>2. i \in OpenIncidents /\ i \in Incidents /\ i # 0
      BY <2>1, <3>1 DEF OpenIncidents, Incidents
    <3>3. session' = [session EXCEPT ![s] =
              [does |-> "attach", alert |-> a, fired |-> fired, row |-> up,
               inc |-> i, read |-> kgInc[i]]]
      BY <2>1, <3>1, <3>2 DEF StoreBegins, up
    <3> QED BY <3>2, <3>3
  <2>2. CASE OpenIncidents = {} /\ recent # {}
    <3>0. recent \in SUBSET Incidents
      BY DEF RecentlyResolved
    <3>1. PICK i : i = LatestOf(recent)
      OBVIOUS
    <3>2. i \in recent /\ i \in Incidents /\ i # 0
      BY <1>0, <2>2, <3>0, <3>1, LatestIsOne DEF Incidents
    <3>3. session' = [session EXCEPT ![s] =
              [does |-> "reopen", alert |-> a, fired |-> fired, row |-> up,
               inc |-> i, read |-> kgInc[i]]]
      BY <2>2, <3>1, <3>2 DEF StoreBegins, up
    <3> QED BY <3>2, <3>3
  <2>3. CASE OpenIncidents = {} /\ recent = {}
    <3>3. session' = [session EXCEPT ![s] =
              [does |-> "create", alert |-> a, fired |-> fired, row |-> up,
               inc |-> 0, read |-> NoIncident]]
      BY <2>3 DEF StoreBegins, up
    <3> QED BY <3>3
  <2> QED BY <2>1, <2>2, <2>3
<1>5. \A i \in Incidents : kgInc[i] \in IncidentRows /\ i \in 0 .. MaxFires
  BY KGAllTypes DEF Incidents
<1> HIDE DEF fired
<1>6. /\ t \in Transactions /\ t.alert = a /\ t.row = up
      /\ t.does \in {"attach", "reopen", "create"}
  BY <1>1, <1>2, <1>4, <1>5, NoRows DEF Transactions
<1>7. t.does \in {"attach", "reopen"} => t.inc \in Incidents /\ Exists(t.inc)
  BY <1>4 DEF OpenIncidents, RecentlyResolved, Exists
<1>8. t.does = "attach" => t.read.status = "open"
  BY <1>4 DEF OpenIncidents
<1>9. UNCHANGED <<kgNow, amSince, amFires, alertRow, kgInc, fetched, activeSet, closing, excuses>>
  BY DEF StoreBegins
<1> QED BY <1>1, <1>3, <1>4, <1>6, <1>7, <1>8, <1>9, BeginKeeps

LEMMA NoiseBeginKeeps ==
  ASSUME KGAll, NEW s \in Sessions, NEW a \in Alerts, NEW does \in {"mark", "unmark"},
         NoiseBegins(s, a, does)
  PROVE  KGAll'
<1> USE KGNats
<1> DEFINE i == alertRow[a].inc
<1>0. KGTypeOK
  BY KGAllTypes
<1>1. i \in Incidents /\ kgInc[i] \in IncidentRows /\ i \in 0 .. MaxFires /\ Exists(i)
  BY KGAllTypes DEF NoiseBegins, KGAll, KGInv, LinkInv, Incidents
<1>2. kgExtras' \in 0 .. MaxExtras
  BY <1>0 DEF KGTypeOK, NoiseBegins
<1>m. PICK m \in Times : m = -1
  BY DEF Times
<1>r. PICK r : r = [NoIncident EXCEPT !.fps = kgInc[i].fps, !.marked = kgInc[i].marked,
                                      !.noise = kgInc[i].noise]
  OBVIOUS
<1>q. r \in IncidentRows
  <2>1. kgInc[i].fps \in SUBSET Alerts /\ kgInc[i].marked \in SUBSET Alerts
        /\ kgInc[i].noise \in BOOLEAN
    BY <1>1 DEF IncidentRows
  <2>2. PICK F, M, b : F = kgInc[i].fps /\ M = kgInc[i].marked /\ b = kgInc[i].noise
    OBVIOUS
  <2>3. r = [status |-> "absent", fps |-> F, last |-> m, resolved |-> m,
             agedOut |-> FALSE, marked |-> M, noise |-> b]
    BY <1>m, <1>r, <2>2 DEF NoIncident
  <2>4. F \in SUBSET Alerts /\ M \in SUBSET Alerts /\ b \in BOOLEAN
    BY <2>1, <2>2
  <2> QED BY <1>m, <2>3, <2>4 DEF IncidentRows
<1>3. PICK t : t = [does |-> does, alert |-> a, fired |-> m, row |-> NoAlert,
                    inc |-> i, read |-> r]
  OBVIOUS
<1>4. session' = [session EXCEPT ![s] = t]
  BY <1>m, <1>r, <1>3 DEF NoiseBegins
<1>5. t \in Transactions /\ t.alert = a /\ t.does = does /\ t.inc = i /\ t.row = NoAlert
  BY <1>1, <1>q, <1>3, NoRows DEF Transactions
<1>6. t.row.inc = 0
  BY <1>5 DEF NoAlert
<1>7. UNCHANGED <<kgNow, amSince, amFires, alertRow, kgInc, fetched, activeSet, closing, excuses>>
  BY DEF NoiseBegins
<1> QED BY <1>1, <1>2, <1>4, <1>5, <1>6, <1>7, BeginKeeps

\* A new incident takes a number no row refers to.
LEMMA CreateKeeps ==
  ASSUME KGAll, NEW s \in Sessions, StoreCreates(s)
  PROVE  KGAll'
<1> USE KGNats
<1> DEFINE t == session[s]
<1>t. t.alert \in Alerts /\ t.row \in AlertRows /\ t.fired \in Times
  BY KGAllTypes DEF KGAll, KGInv, SessionInv, StoreCreates
<1>k. kgInc \in [Incidents -> IncidentRows] /\ alertRow \in [Alerts -> AlertRows]
      /\ adrift \subseteq Alerts /\ raced \subseteq Incidents
  BY KGTyped, KGAllTypes
<1>p. PICK i : i = Min(FreeIncidents)
  OBVIOUS
<1>0. i \in FreeIncidents
  <2>1. FreeIncidents \in SUBSET Nat /\ FreeIncidents # {}
    BY DEF StoreCreates, FreeIncidents, Incidents
  <2>2. \E m \in FreeIncidents : \A k \in FreeIncidents : m <= k
    BY <2>1, MinExists, Zenon
  <2> QED BY <1>p, <2>2 DEF Min
<1>i. i \in Incidents /\ ~Exists(i) /\ i # 0 /\ i \in 0 .. MaxFires
  BY <1>0 DEF FreeIncidents, Exists, Incidents
<1>r. PICK r : r = [NoIncident EXCEPT !.status = "open", !.fps = {t.alert}, !.last = t.fired]
  OBVIOUS
<1>q. r \in IncidentRows /\ r.status = "open" /\ r.fps = {t.alert} /\ ~r.noise
  BY <1>t, <1>r, CreatedRow
<1>4. PICK row : row = [t.row EXCEPT !.inc = i]
  OBVIOUS
<1>5. row \in AlertRows /\ row.inc = i
  BY <1>4, <1>t, <1>i, LinkedRow
<1>a. /\ kgInc' = [kgInc EXCEPT ![i] = r]
      /\ alertRow' = [alertRow EXCEPT ![t.alert] = row]
      /\ adrift' = adrift \ {t.alert} /\ Finishes(s)
      /\ UNCHANGED <<kgExtras, kgNow, amSince, amFires, fetched, activeSet, closing, raced>>
  BY <1>p, <1>r, <1>4 DEF StoreCreates, Links
<1>1. kgInc' \in [Incidents -> IncidentRows] /\ kgInc'[i] = r
      /\ \A j \in Incidents \ {i} : kgInc'[j] = kgInc[j]
  BY <1>k, <1>i, <1>q, <1>a
<1>2. NoneLost
  BY <1>1, <1>i, <1>q DEF NoneLost, Exists
<1>3. SessionInv' /\ session' \in [Sessions -> Transactions]
  BY <1>2, <1>a, SessionsKept
<1>6. /\ alertRow' \in [Alerts -> AlertRows] /\ alertRow'[t.alert] = row
      /\ \A a \in Alerts \ {t.alert} : alertRow'[a] = alertRow[a]
  BY <1>k, <1>t, <1>5, <1>a
<1>8. KGTypeOK'
  BY <1>1, <1>3, <1>6, <1>a, <1>k, KGAllTypes DEF KGTypeOK
<1>l. ASSUME NEW a \in Alerts, a # t.alert, alertRow[a].inc # 0
      PROVE  /\ alertRow[a].inc \in Incidents \ {i} /\ Exists(alertRow[a].inc)
             /\ alertRow'[a] = alertRow[a]
             /\ kgInc'[alertRow[a].inc] = kgInc[alertRow[a].inc]
  BY <1>l, <1>1, <1>6, <1>i, KGAllTypes DEF KGAll, KGInv, LinkInv
<1>9. LinkInv'
  <2> SUFFICES ASSUME NEW a \in Alerts, alertRow'[a].inc # 0
               PROVE  kgInc'[alertRow'[a].inc].status # "absent"
    BY DEF LinkInv, Exists
  <2>1. CASE a = t.alert
    BY <1>1, <1>5, <1>6, <1>q, <2>1
  <2>2. CASE a # t.alert
    BY <1>l, <1>6, <2>2 DEF Exists
  <2> QED BY <2>1, <2>2
<1>10. ClosingInv'
  BY <1>a DEF KGAll, KGInv, ClosingInv
<1>11. FiringIsOpen'
  <2> SUFFICES ASSUME NEW a \in Alerts, alertRow'[a].state = "firing", alertRow'[a].inc # 0,
                      a \notin adrift'
               PROVE  /\ a \in kgInc'[alertRow'[a].inc].fps
                      /\ \/ kgInc'[alertRow'[a].inc].status = "open"
                         \/ kgInc'[alertRow'[a].inc].agedOut
    BY DEF FiringIsOpen
  <2>1. CASE a = t.alert
    BY <1>1, <1>5, <1>6, <1>q, <2>1
  <2>2. CASE a # t.alert
    <3>1. alertRow'[a] = alertRow[a] /\ alertRow[a].inc # 0 /\ a \notin adrift
      BY <1>6, <1>a, <2>2
    <3>2. kgInc'[alertRow[a].inc] = kgInc[alertRow[a].inc]
      BY <1>l, <2>2, <3>1
    <3>3. /\ a \in kgInc[alertRow[a].inc].fps
          /\ kgInc[alertRow[a].inc].status = "open" \/ kgInc[alertRow[a].inc].agedOut
      BY <3>1 DEF KGAll, FiringIsOpen
    <3> QED BY <3>1, <3>2, <3>3
  <2> QED BY <2>1, <2>2
<1>12. NoiseUnanimous'
  <2> SUFFICES ASSUME NEW j \in Incidents \ raced', kgInc'[j].noise
               PROVE  kgInc'[j].fps \subseteq kgInc'[j].marked
    BY DEF NoiseUnanimous
  <2>1. CASE j = i
    BY <1>1, <1>q, <2>1
  <2>2. CASE j # i
    BY <1>1, <1>a, <2>2 DEF KGAll, NoiseUnanimous
  <2> QED BY <2>1, <2>2
<1> QED BY <1>3, <1>8, <1>9, <1>10, <1>11, <1>12 DEF KGAll, KGInv

(* The savepoint is rolled back: the row fires with the incident it had, and
   the alert is adrift until it is attached. *)
LEMMA AlertOnlyKeeps ==
  ASSUME KGAll, NEW s \in Sessions, StoreConflicts(s) \/ AttachFails(s)
  PROVE  KGAll'
<1> USE KGNats
<1> DEFINE t == session[s]
<1>t. /\ t.alert \in Alerts /\ t.row \in AlertRows
      /\ t.row.inc # 0 => t.row.inc \in Incidents /\ Exists(t.row.inc)
  BY KGAllTypes DEF KGAll, KGInv, SessionInv, StoreConflicts, AttachFails
<1>k. /\ alertRow \in [Alerts -> AlertRows] /\ adrift \subseteq Alerts
      /\ kgExtras \in 0 .. MaxExtras
  BY KGTyped, KGAllTypes DEF KGTypeOK
<1>a. /\ alertRow' = [alertRow EXCEPT ![t.alert] = t.row]
      /\ adrift' = adrift \cup {t.alert}
      /\ Finishes(s)
      /\ UNCHANGED <<kgNow, amSince, amFires, kgInc, fetched, activeSet, closing, raced>>
  BY DEF StoreConflicts, AttachFails, KeepsAlertOnly
<1>e. kgExtras' \in 0 .. MaxExtras
  BY <1>k DEF StoreConflicts, AttachFails
<1>2. NoneLost
  BY <1>a DEF NoneLost, Exists
<1>3. SessionInv' /\ session' \in [Sessions -> Transactions]
  BY <1>2, <1>a, SessionsKept
<1>6. /\ alertRow' \in [Alerts -> AlertRows] /\ alertRow'[t.alert] = t.row
      /\ \A a \in Alerts \ {t.alert} : alertRow'[a] = alertRow[a]
  BY <1>k, <1>t, <1>a
<1>7. adrift' \subseteq Alerts /\ adrift \subseteq adrift' /\ t.alert \in adrift'
  BY <1>k, <1>a, <1>t
<1>8. KGTypeOK'
  BY <1>3, <1>6, <1>7, <1>a, <1>e, KGAllTypes DEF KGTypeOK
<1>9. LinkInv'
  BY <1>a, <1>t, <1>6 DEF KGAll, KGInv, LinkInv, Exists
<1>10. ClosingInv'
  BY <1>a DEF KGAll, KGInv, ClosingInv
<1>11. FiringIsOpen'
  <2> SUFFICES ASSUME NEW a \in Alerts, alertRow'[a].state = "firing", alertRow'[a].inc # 0,
                      a \notin adrift'
               PROVE  /\ a \in kgInc'[alertRow'[a].inc].fps
                      /\ \/ kgInc'[alertRow'[a].inc].status = "open"
                         \/ kgInc'[alertRow'[a].inc].agedOut
    BY DEF FiringIsOpen
  <2>1. a # t.alert
    BY <1>7
  <2>2. alertRow'[a] = alertRow[a] /\ a \notin adrift
    BY <1>6, <1>7, <2>1
  <2>3. /\ a \in kgInc[alertRow[a].inc].fps
        /\ kgInc[alertRow[a].inc].status = "open" \/ kgInc[alertRow[a].inc].agedOut
    BY <2>2 DEF KGAll, FiringIsOpen
  <2> QED BY <1>a, <2>2, <2>3
<1>12. NoiseUnanimous'
  BY <1>a DEF KGAll, NoiseUnanimous
<1> QED BY <1>3, <1>8, <1>9, <1>10, <1>11, <1>12 DEF KGAll, KGInv

\* One incident is written, alerts are not.
LEMMA WriteKeeps ==
  ASSUME KGAll, NEW i \in Incidents, NEW r \in IncidentRows, r.status # "absent",
         kgInc' = [kgInc EXCEPT ![i] = r],
         adrift \subseteq adrift', adrift' \subseteq Alerts,
         raced \subseteq raced' \cup {i}, raced' \subseteq Incidents,
         i \notin raced' => (r.noise => r.fps \subseteq r.marked),
         \A a \in Alerts \ adrift' :
             alertRow[a].state = "firing" /\ alertRow[a].inc = i =>
                 a \in r.fps /\ (r.status = "open" \/ r.agedOut),
         session' = session \/ \E s \in Sessions : Finishes(s),
         closing' = closing \/ closing' = Undecided,
         UNCHANGED <<kgExtras, kgNow, amSince, amFires, alertRow, fetched, activeSet>>
  PROVE  KGAll'
<1> USE KGNats
<1>k. kgInc \in [Incidents -> IncidentRows]
      /\ closing \in [inc : 0 .. MaxFires, resolved : Times, agedOut : BOOLEAN]
  BY KGTyped, KGAllTypes
<1>1. kgInc' \in [Incidents -> IncidentRows] /\ kgInc'[i] = r
      /\ \A j \in Incidents \ {i} : kgInc'[j] = kgInc[j]
  BY <1>k
<1>2. NoneLost
  BY <1>1 DEF NoneLost, Exists
<1>3. SessionInv' /\ session' \in [Sessions -> Transactions]
  BY <1>2, SessionsKept
<1>m. PICK m \in Times : m = -1
  BY DEF Times
<1>u. Undecided \in [inc : 0 .. MaxFires, resolved : Times, agedOut : BOOLEAN]
  BY <1>m DEF Undecided
<1>4. closing' \in [inc : 0 .. MaxFires, resolved : Times, agedOut : BOOLEAN]
  BY <1>k, <1>u
<1>8. KGTypeOK'
  BY <1>1, <1>3, <1>4, KGAllTypes DEF KGTypeOK
<1>9. LinkInv'
  BY <1>2, KGAllTypes DEF KGAll, KGInv, LinkInv, NoneLost, Exists
<1>10. ClosingInv'
  BY DEF KGAll, KGInv, ClosingInv
<1>11. FiringIsOpen'
  <2> SUFFICES ASSUME NEW a \in Alerts, alertRow[a].state = "firing", alertRow[a].inc # 0,
                      a \notin adrift'
               PROVE  /\ a \in kgInc'[alertRow[a].inc].fps
                      /\ \/ kgInc'[alertRow[a].inc].status = "open"
                         \/ kgInc'[alertRow[a].inc].agedOut
    BY DEF FiringIsOpen
  <2>1. CASE alertRow[a].inc = i
    BY <1>1, <2>1
  <2>2. CASE alertRow[a].inc # i
    <3>1. alertRow[a].inc \in Incidents \ {i} /\ a \notin adrift
      BY <2>2, KGAllTypes
    <3>2. /\ a \in kgInc[alertRow[a].inc].fps
          /\ kgInc[alertRow[a].inc].status = "open" \/ kgInc[alertRow[a].inc].agedOut
      BY <3>1 DEF KGAll, FiringIsOpen
    <3> QED BY <1>1, <3>1, <3>2
  <2> QED BY <2>1, <2>2
<1>12. NoiseUnanimous'
  <2> SUFFICES ASSUME NEW j \in Incidents \ raced', kgInc'[j].noise
               PROVE  kgInc'[j].fps \subseteq kgInc'[j].marked
    BY DEF NoiseUnanimous
  <2>1. CASE j = i
    BY <1>1, <2>1
  <2>2. CASE j # i
    BY <1>1, <2>2 DEF KGAll, NoiseUnanimous
  <2> QED BY <2>1, <2>2
<1> QED BY <1>3, <1>8, <1>9, <1>10, <1>11, <1>12 DEF KGAll, KGInv

LEMMA NoiseCommitKeeps ==
  ASSUME KGAll, NEW s \in Sessions, NoiseCommits(s)
  PROVE  KGAll'
<1> USE KGNats
<1> DEFINE t == session[s]
           cur == kgInc[t.inc]
           marked == IF t.does = "mark" THEN t.read.marked \cup {t.alert}
                                        ELSE t.read.marked \ {t.alert}
           m == Written(t.read.marked, marked, cur.marked)
           b == Written(t.read.noise, AllNoise(marked, t.read.fps), cur.noise)
<1>t. /\ t.alert \in Alerts /\ t.inc \in Incidents /\ cur.status # "absent"
      /\ cur \in IncidentRows /\ t.read \in IncidentRows
  BY KGAllTypes DEF KGAll, KGInv, SessionInv, NoiseCommits, Exists
<1>k. adrift \subseteq Alerts /\ raced \subseteq Incidents
  BY KGTyped, KGAllTypes
<1>1. cur \in RawIncidents /\ t.read \in RawIncidents
  BY <1>t, RowTypes
<1>2. marked \in SUBSET Alerts
  BY <1>t, <1>1 DEF RawIncidents
<1>3. m \in SUBSET Alerts
  BY <1>1, <1>2 DEF Written, RawIncidents
<1>4. b \in BOOLEAN
  BY <1>1 DEF Written, AllNoise, RawIncidents
<1>5. ~StaleFlag(t) => m = marked
  BY DEF StaleFlag, Written
<1>6. ~StaleFlag(t) => (b => cur.fps \subseteq marked)
  BY DEF StaleFlag, Written, AllNoise
<1>7. kgInc' = [kgInc EXCEPT ![t.inc] = [cur EXCEPT !.marked = m, !.noise = b]]
  BY DEF NoiseCommits
<1>9. /\ NotesFlag(t) /\ Finishes(s)
      /\ UNCHANGED <<kgExtras, kgNow, amSince, amFires, alertRow, fetched, activeSet, closing,
                     adrift>>
  BY DEF NoiseCommits
<1> HIDE DEF m, b, marked, cur, t
<1>q. PICK q \in IncidentRows, n \in SUBSET Alerts, c \in BOOLEAN :
          q = cur /\ n = m /\ c = b
  BY <1>t, <1>3, <1>4
<1>r. PICK r : r = [q EXCEPT !.marked = n, !.noise = c]
  OBVIOUS
<1>8. kgInc' = [kgInc EXCEPT ![t.inc] = r]
  BY <1>7, <1>q, <1>r, Zenon
<1>s. /\ r \in IncidentRows /\ r.status = q.status /\ r.agedOut = q.agedOut
      /\ r.fps = q.fps /\ r.marked = n /\ r.noise = c
  <2>1. q \in RawIncidents /\ (q.status = "resolved" <=> q.resolved >= 0)
    BY RowTypes
  <2>2. /\ r \in RawIncidents /\ r.status = q.status /\ r.resolved = q.resolved
        /\ r.fps = q.fps /\ r.marked = n
    BY <1>r, <2>1 DEF RawIncidents
  <2>3. r.noise = c /\ r.agedOut = q.agedOut
    BY <1>r, <2>1 DEF RawIncidents
  <2>4. r \in IncidentRows
    BY <2>1, <2>2, RowTypes
  <2> QED BY <2>2, <2>3, <2>4
<1>10. /\ r \in IncidentRows /\ r.status = cur.status /\ r.agedOut = cur.agedOut
       /\ r.fps = cur.fps /\ r.marked = m /\ r.noise = b
  BY <1>q, <1>s, Zenon
<1>n. kgInc'[t.inc] = r
  BY <1>8, <1>t, KGTyped, KGAllTypes
<1>11. /\ raced' \subseteq Incidents /\ raced \subseteq raced' \cup {t.inc}
       /\ t.inc \notin raced' => ~StaleFlag(t) \/ ~r.noise
  BY <1>9, <1>k, <1>n, <1>t DEF NotesFlag
<1>12. t.inc \notin raced' => (r.noise => r.fps \subseteq r.marked)
  BY <1>5, <1>6, <1>10, <1>11
<1>13. \A a \in Alerts \ adrift' :
           alertRow[a].state = "firing" /\ alertRow[a].inc = t.inc =>
               a \in r.fps /\ (r.status = "open" \/ r.agedOut)
  <2> SUFFICES ASSUME NEW a \in Alerts \ adrift',
                      alertRow[a].state = "firing", alertRow[a].inc = t.inc
               PROVE  a \in r.fps /\ (r.status = "open" \/ r.agedOut)
    OBVIOUS
  <2>1. a \in Alerts \ adrift /\ t.inc # 0
    BY <1>9, <1>t DEF Incidents
  <2>2. a \in cur.fps /\ (cur.status = "open" \/ cur.agedOut)
    BY <2>1 DEF KGAll, FiringIsOpen, cur
  <2> QED BY <1>10, <2>2
<1> QED BY <1>k, <1>t, <1>8, <1>9, <1>10, <1>11, <1>12, <1>13, WriteKeeps DEF cur

LEMMA ReconcileCommitKeeps ==
  ASSUME KGAll, ReconcileCommits
  PROVE  KGAll'
<1> USE KGNats
<1> DEFINE i == closing.inc
<1>1. i \in Incidents /\ closing.resolved >= 0
  BY DEF KGAll, KGInv, ClosingInv, ReconcileCommits
<1>2. closing.resolved \in Times /\ closing.agedOut \in BOOLEAN
  BY KGTyped, KGAllTypes
<1>3. kgInc[i] \in IncidentRows
  BY <1>1, KGAllTypes
<1>4. PICK r : r = [kgInc[i] EXCEPT !.status = "resolved", !.resolved = closing.resolved,
                                    !.agedOut = closing.agedOut]
  OBVIOUS
<1>5. kgInc' = [kgInc EXCEPT ![i] = r]
  BY <1>4, <1>1 DEF ReconcileCommits
<1>q. PICK q \in IncidentRows, v \in Times, b \in BOOLEAN :
          q = kgInc[i] /\ v = closing.resolved /\ b = closing.agedOut
  BY <1>2, <1>3
<1>r. r = [q EXCEPT !.status = "resolved", !.resolved = v, !.agedOut = b] /\ v >= 0
  BY <1>1, <1>4, <1>q
<1>s. /\ r \in IncidentRows /\ r.status = "resolved"
      /\ r.fps = q.fps /\ r.marked = q.marked /\ r.noise = q.noise /\ r.agedOut = b
  <2>1. q \in RawIncidents
    BY RowTypes
  <2>2. /\ r \in RawIncidents /\ r.status = "resolved" /\ r.resolved = v
        /\ r.fps = q.fps /\ r.marked = q.marked
    BY <1>r, <2>1 DEF RawIncidents
  <2>3. r.noise = q.noise /\ r.agedOut = b
    BY <1>r, <2>1 DEF RawIncidents
  <2>4. r \in IncidentRows
    BY <1>r, <2>2, RowTypes
  <2> QED BY <2>2, <2>3, <2>4
<1>6. /\ r \in IncidentRows /\ r.status = "resolved"
      /\ r.fps = kgInc[i].fps /\ r.marked = kgInc[i].marked /\ r.noise = kgInc[i].noise
      /\ r.agedOut = closing.agedOut
  BY <1>q, <1>s, Zenon
<1>7. /\ adrift' = IF ~closing.agedOut /\ StillFiring(i) # {} THEN adrift \cup FiringIn(i) ELSE adrift
      /\ closing' = Undecided /\ raced' = raced
      /\ UNCHANGED <<kgExtras, kgNow, amSince, amFires, alertRow, session, fetched, activeSet>>
  BY DEF ReconcileCommits
<1>8. /\ adrift' \subseteq Alerts /\ adrift \subseteq adrift'
      /\ raced \subseteq raced' \cup {i} /\ raced' \subseteq Incidents
  BY <1>7, KGTyped, KGAllTypes DEF FiringIn
<1>10. i \notin raced' => (r.noise => r.fps \subseteq r.marked)
  BY <1>1, <1>6, <1>7 DEF KGAll, NoiseUnanimous
<1>11. \A a \in Alerts \ adrift' :
           alertRow[a].state = "firing" /\ alertRow[a].inc = i =>
               a \in r.fps /\ (r.status = "open" \/ r.agedOut)
  <2> SUFFICES ASSUME NEW a \in Alerts \ adrift',
                      alertRow[a].state = "firing", alertRow[a].inc = i
               PROVE  a \in r.fps /\ r.agedOut
    OBVIOUS
  <2>1. a \in kgInc[i].fps
    BY <1>1, <1>8 DEF KGAll, FiringIsOpen, Incidents
  <2>2. a \in StillFiring(i) /\ a \in FiringIn(i)
    BY <2>1 DEF StillFiring, FiringIn
  <2>3. closing.agedOut
    BY <1>7, <2>2
  <2> QED BY <1>6, <2>1, <2>3
<1>12. r.status # "absent"
  BY <1>6
<1> HIDE DEF i
<1> QED BY <1>1, <1>5, <1>6, <1>7, <1>8, <1>10, <1>11, <1>12, WriteKeeps

\* _mark_resolved: fewer alerts fire, and none changes its incident.
LEMMA MarkResolvedKeeps ==
  ASSUME KGAll, MarkResolved
  PROVE  KGAll'
<1> USE KGNats
<1>k. alertRow \in [Alerts -> AlertRows] /\ kgNow \in 0 .. MaxTime
  BY KGTyped, KGAllTypes
<1>1. ASSUME NEW a \in Alerts
      PROVE  /\ alertRow'[a] \in AlertRows /\ alertRow'[a].inc = alertRow[a].inc
             /\ alertRow'[a].state = "firing" => alertRow[a].state = "firing" /\ a \notin ToResolve
  <2>1. CASE a \in ToResolve
    <3>1. alertRow'[a] = [alertRow[a] EXCEPT !.state = "resolved", !.resolved = kgNow]
      BY <2>1 DEF MarkResolved
    <3>2. alertRow[a] \in RawAlerts /\ kgNow \in Times /\ kgNow >= 0
      BY <1>k, RowTypes DEF Times
    <3>3. /\ alertRow'[a] \in RawAlerts /\ alertRow'[a].inc = alertRow[a].inc
          /\ alertRow'[a].state = "resolved" /\ alertRow'[a].resolved = kgNow
      BY <3>1, <3>2 DEF RawAlerts
    <3> QED BY <3>2, <3>3, RowTypes
  <2>2. CASE a \notin ToResolve
    BY <1>k, <2>2 DEF MarkResolved
  <2> QED BY <2>1, <2>2
<1>2. alertRow' = [a \in Alerts |-> alertRow'[a]]
  BY DEF MarkResolved
<1>3. alertRow' \in [Alerts -> AlertRows]
  BY <1>1, <1>2
<1>4. /\ UNCHANGED <<kgExtras, kgNow, amSince, amFires, kgInc, session, closing, raced>>
      /\ adrift' = adrift \ ToResolve /\ fetched' = FALSE /\ activeSet' = {}
  BY DEF MarkResolved
<1>5. NoneLost
  BY <1>4 DEF NoneLost, Exists
<1>6. SessionInv' /\ session' \in [Sessions -> Transactions]
  BY <1>4, <1>5, SessionsKept
<1>7. KGTypeOK'
  BY <1>3, <1>4, <1>6, KGAllTypes DEF KGTypeOK
<1>8. LinkInv'
  BY <1>1, <1>4 DEF KGAll, KGInv, LinkInv, Exists
<1>9. ClosingInv'
  BY <1>4 DEF KGAll, KGInv, ClosingInv
<1>10. FiringIsOpen'
  BY <1>1, <1>4 DEF KGAll, FiringIsOpen
<1>11. NoiseUnanimous'
  BY <1>4 DEF KGAll, NoiseUnanimous
<1> QED BY <1>6, <1>7, <1>8, <1>9, <1>10, <1>11 DEF KGAll, KGInv

\* reconcile_incidents before its commit: the verdict has a time.
LEMMA ReconcileReadKeeps ==
  ASSUME KGAll, ReconcileReads
  PROVE  KGAll'
<1> USE KGNats
<1>k. alertRow \in [Alerts -> AlertRows] /\ kgNow \in 0 .. MaxTime
  BY KGTyped, KGAllTypes
<1>0. UNCHANGED <<kgExtras, kgNow, amSince, amFires, alertRow, kgInc, session, fetched,
                  activeSet, excuses>>
  BY DEF ReconcileReads
<1>o. PICK i \in OpenIncidents :
          \/ /\ kgInc[i].fps # {} /\ StillFiring(i) = {}
             /\ closing' = [inc |-> i, agedOut |-> FALSE,
                            resolved |-> Max({alertRow[a].resolved : a \in kgInc[i].fps})]
          \/ closing' = [inc |-> i, agedOut |-> TRUE, resolved |-> kgNow]
  BY DEF ReconcileReads
<1>v. PICK v : v = closing'.resolved
  OBVIOUS
<1>1. /\ closing' = [inc |-> i, agedOut |-> FALSE, resolved |-> v]
         \/ closing' = [inc |-> i, agedOut |-> TRUE, resolved |-> v]
      /\ \/ /\ kgInc[i].fps # {} /\ StillFiring(i) = {}
            /\ v = Max({alertRow[a].resolved : a \in kgInc[i].fps})
         \/ v = kgNow
  BY <1>o, <1>v
<1>i. i \in Incidents /\ i \in 0 .. MaxFires
  BY DEF OpenIncidents, Incidents
<1>2. v \in Times /\ v >= 0
  <2>1. CASE v = kgNow
    BY <1>k, <2>1 DEF Times
  <2>2. CASE /\ kgInc[i].fps # {} /\ StillFiring(i) = {}
             /\ v = Max({alertRow[a].resolved : a \in kgInc[i].fps})
    <3> DEFINE R == {alertRow[a].resolved : a \in kgInc[i].fps}
    <3>0. kgInc[i].fps \subseteq Alerts
      BY <1>i, KGAllTypes, RowTypes DEF RawIncidents
    <3>1. \A a \in kgInc[i].fps : alertRow[a].state = "resolved"
      BY <2>2 DEF StillFiring
    <3>2. \A a \in kgInc[i].fps : alertRow[a].resolved \in Times /\ alertRow[a].resolved >= 0
      BY <1>k, <3>0, <3>1, RowTypes DEF RawAlerts
    <3>3. R # {} /\ \A x \in R : x \in Times /\ x >= 0
      BY <2>2, <3>2
    <3> HIDE DEF R
    <3>4. R \in SUBSET Int /\ MaxTime \in Int /\ \A x \in R : x <= MaxTime
      BY <3>3 DEF Times
    <3>5. \E m \in R : \A k \in R : m >= k
      BY <3>3, <3>4, MaxExists, Zenon
    <3>6. Max(R) \in R
      BY <3>5 DEF Max
    <3>7. v = Max(R)
      BY <2>2 DEF R
    <3> QED BY <3>3, <3>6, <3>7
  <2> QED BY <1>1, <2>1, <2>2
<1>3. closing' \in [inc : 0 .. MaxFires, resolved : Times, agedOut : BOOLEAN]
      /\ closing'.inc = i /\ closing'.resolved = v
  <2>1. CASE closing' = [inc |-> i, agedOut |-> FALSE, resolved |-> v]
    BY <1>2, <1>i, <2>1
  <2>2. CASE closing' = [inc |-> i, agedOut |-> TRUE, resolved |-> v]
    BY <1>2, <1>i, <2>2
  <2> QED BY <1>1, <2>1, <2>2
<1>4. ClosingInv'
  BY <1>2, <1>3, <1>i DEF ClosingInv
<1>5. NoneLost
  BY <1>0 DEF NoneLost, Exists
<1>6. SessionInv'
  BY <1>0, <1>5, SessionsKept
<1>7. KGTypeOK'
  BY <1>0, <1>3, KGAllTypes DEF KGTypeOK, excuses
<1> QED BY <1>0, <1>4, <1>6, <1>7, RowsUntouched

LEMMA KGStarts ==
  ASSUME KGInit
  PROVE  KGAll
<1> USE KGNats
<1>m. PICK m \in Times : m = -1
  BY DEF Times
<1>1. amSince \in [Alerts -> Times]
  BY <1>m DEF KGInit
<1>2. alertRow \in [Alerts -> AlertRows] /\ kgInc \in [Incidents -> IncidentRows]
      /\ session \in [Sessions -> Transactions]
  BY NoRows DEF KGInit
<1>3. closing \in [inc : 0 .. MaxFires, resolved : Times, agedOut : BOOLEAN]
  BY <1>m DEF KGInit, Undecided
<1>n. kgNow \in 0 .. MaxTime /\ amFires \in 0 .. MaxFires /\ kgExtras \in 0 .. MaxExtras
  BY DEF KGInit
<1>b. fetched \in BOOLEAN /\ activeSet \subseteq Alerts
      /\ adrift \subseteq Alerts /\ raced \subseteq Incidents
  BY DEF KGInit
<1>4. KGTypeOK
  BY <1>1, <1>2, <1>3, <1>n, <1>b DEF KGTypeOK
<1>5. LinkInv /\ SessionInv /\ ClosingInv
  BY DEF KGInit, LinkInv, SessionInv, ClosingInv, Nothing, NoAlert
<1>6. FiringIsOpen
  BY DEF KGInit, FiringIsOpen, NoAlert
<1>7. NoiseUnanimous
  BY DEF KGInit, NoiseUnanimous, NoIncident
<1> QED BY <1>4, <1>5, <1>6, <1>7 DEF KGAll, KGInv

LEMMA KGStep ==
  ASSUME KGAll, [KGNext]_kgVars
  PROVE  KGAll'
<1>1. CASE \/ \E a \in Alerts : AmStarts(a) \/ AmStops(a)
           \/ KGTick \/ FetchActive
           \/ UNCHANGED kgVars
  BY <1>1, QuietKeeps
<1>2. ASSUME NEW s \in Sessions,
             \/ \E a \in Alerts :
                   StoreBegins(s, a) \/ NoiseBegins(s, a, "mark") \/ NoiseBegins(s, a, "unmark")
             \/ StoreCommits(s) \/ NoiseCommits(s) \/ AttachFails(s) \/ StoreAborts(s)
      PROVE  KGAll'
  <2>1. CASE \E a \in Alerts : StoreBegins(s, a)
    BY <2>1, StoreBeginKeeps
  <2>2. CASE \E a \in Alerts : NoiseBegins(s, a, "mark") \/ NoiseBegins(s, a, "unmark")
    BY <2>2, NoiseBeginKeeps
  <2>3. CASE StoreAttaches(s) \/ StoreReopens(s)
    BY <2>3, AttachKeeps
  <2>4. CASE StoreCreates(s)
    BY <2>4, CreateKeeps
  <2>5. CASE StoreConflicts(s) \/ AttachFails(s)
    BY <2>5, AlertOnlyKeeps
  <2>6. CASE NoiseCommits(s)
    BY <2>6, NoiseCommitKeeps
  <2>7. CASE StoreAborts(s)
    BY <2>7, QuietKeeps
  <2> QED BY <1>2, <2>1, <2>2, <2>3, <2>4, <2>5, <2>6, <2>7 DEF StoreCommits
<1>3. CASE MarkResolved
  BY <1>3, MarkResolvedKeeps
<1>4. CASE ReconcileReads
  BY <1>4, ReconcileReadKeeps
<1>5. CASE ReconcileCommits
  BY <1>5, ReconcileCommitKeeps
<1> QED BY <1>1, <1>2, <1>3, <1>4, <1>5 DEF KGNext

(* The types of the alerts and incidents of a service, with the two rules of the
   rows: resolved_at is set exactly in what is resolved (record_alert_event,
   _mark_resolved, attach_alert, reconcile_incidents). *)
THEOREM IncidentsTyped == KGSpec => []KGTypeOK
<1>1. KGInit => KGAll
  BY KGStarts
<1>2. KGAll /\ [KGNext]_kgVars => KGAll'
  BY KGStep
<1>3. KGAll => KGTypeOK
  BY DEF KGAll, KGInv
<1> QED BY <1>1, <1>2, <1>3, PTL DEF KGSpec

(* However requests, noise votes and the two beat tasks interleave, and whatever
   rolls back: an alert that fires is listed in its incident, and that incident is
   open or was aged out.  What parts an alert from it is a write or a closing from
   a read that another transaction had overtaken, or a failed attach of the alert
   itself, and only until the alert's next attach that meets nobody. *)
THEOREM FiringIsCovered == KGSpec => []FiringIsOpen
<1>1. KGInit => KGAll
  BY KGStarts
<1>2. KGAll /\ [KGNext]_kgVars => KGAll'
  BY KGStep
<1>3. KGAll => FiringIsOpen
  BY DEF KGAll
<1> QED BY <1>1, <1>2, <1>3, PTL DEF KGSpec

(* An incident is noise only while every alert of it is marked: an alert that
   joins, is unmarked or starts a new incident takes the flag away (attach_alert,
   mark_incident_noise, unmark_incident_noise).  Only a writer whose read another
   transaction had overtaken may leave the flag wrong, until the next one whose
   read is fresh. *)
THEOREM NoiseIsUnanimous == KGSpec => []NoiseUnanimous
<1>1. KGInit => KGAll
  BY KGStarts
<1>2. KGAll /\ [KGNext]_kgVars => KGAll'
  BY KGStep
<1>3. KGAll => NoiseUnanimous
  BY DEF KGAll
<1> QED BY <1>1, <1>2, <1>3, PTL DEF KGSpec

=============================================================================
