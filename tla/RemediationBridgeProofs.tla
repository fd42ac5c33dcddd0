---------------------- MODULE RemediationBridgeProofs ----------------------
(***************************************************************************)
(* Proofs about RemediationBridge, for any number of tasks, proposals,       *)
(* faults and windows: a card always has its row, the cards of a window are  *)
(* accounted for, and no alert is silenced without a reason.  Then about     *)
(* PlaybookGate, for any deployments, tiers and replicas: what the gate      *)
(* admits was proved by the facts, is not risky, and loses no scaling.       *)
(***************************************************************************)
EXTENDS RemediationBridge, PlaybookGate, FiniteSetTheorems, TLAPS

LEMMA BridgeBounds ==
  IsFiniteSet(Tasks) /\ MaxProposals \in Nat /\ MaxFaults \in Nat /\ MaxWindows \in Nat
BY BridgeAssumption

-----------------------------------------------------------------------------
(* Types.                                                                    *)

\* A task that posts a card knows which proposal it is for.
BridgeInv ==
  /\ BridgeTypeOK
  /\ \A t \in Tasks : brTask[t] = "posting" => brProp[t] \in Proposals

LEMMA BridgeTypeInit == BridgeInit => BridgeInv
<1>. SUFFICES ASSUME BridgeInit PROVE BridgeInv
  OBVIOUS
<1>1. brQueueKey \in BOOLEAN /\ brKey \in BOOLEAN
  BY DEF BridgeInit
<1>2. /\ brTask \in [Tasks -> BridgePhases]
      /\ \A t \in Tasks : brTask[t] = "posting" => brProp[t] \in Proposals
  BY DEF BridgeInit, BridgePhases
<1>3. brProp \in [Tasks -> 0 .. MaxProposals] /\ brNext \in 0 .. MaxProposals
  BY BridgeBounds DEF BridgeInit
<1>. QED BY <1>1, <1>2, <1>3, BridgeBounds DEF BridgeInit, BridgeInv, BridgeTypeOK

LEMMA BridgeTypeNext == BridgeInv /\ [BridgeNext]_bridgeVars => BridgeInv'
<1>. SUFFICES ASSUME BridgeInv, [BridgeNext]_bridgeVars PROVE BridgeInv'
  OBVIOUS
<1>. USE BridgeBounds DEF BridgeInv, BridgeTypeOK
<1>1. CASE UNCHANGED bridgeVars
  BY <1>1 DEF bridgeVars
<1>2. CASE QueueKeyExpires \/ BridgeWindowEnds
  <2>1. CASE QueueKeyExpires
    BY <2>1 DEF QueueKeyExpires
  <2>2. CASE BridgeWindowEnds
    <3>1. brWindows + 1 \in 0 .. MaxWindows
      BY <2>2 DEF BridgeWindowEnds
    <3>. QED BY <2>2, <3>1 DEF BridgeWindowEnds
  <2>. QED BY <1>2, <2>1, <2>2
<1>3. ASSUME NEW t \in Tasks, BridgeStep(t) PROVE BridgeInv'
  <2>. USE DEF Turns, BridgePhases
  <2>1. CASE EnqueueSkips(t) \/ Enqueue(t)
    BY <2>1 DEF EnqueueSkips, Enqueue
  <2>2. CASE Plans(t) \/ ClaimRedis(t)
    <3>1. CASE Plans(t)
      BY <3>1 DEF Plans
    <3>2. CASE ClaimRedis(t)
      <4>1. /\ Turns(t, "over") \/ Turns(t, "claimed")
            /\ UNCHANGED <<brQueueKey, brProp, brNext, brRows, brRecent, brCards,
                           brOrphans, brByDb, brFaults, brRefused, brWindows>>
        BY <3>2 DEF ClaimRedis
      <4>2. brKey' = TRUE
        BY <3>2 DEF ClaimRedis
      <4>. QED BY <4>1, <4>2
    <3>. QED BY <2>2, <3>1, <3>2
  <2>3. CASE ClaimDatabase(t)
    <3>1. /\ Turns(t, "over") \/ Turns(t, "claimed")
          /\ UNCHANGED <<brQueueKey, brProp, brNext, brRows, brRecent, brCards,
                         brOrphans, brRefused, brWindows>>
      BY <2>3 DEF ClaimDatabase
    <3>2. brKey' \in BOOLEAN
      BY <2>3 DEF ClaimDatabase
    <3>3. brByDb' \in Nat /\ brFaults' \in 0 .. MaxFaults
      BY <2>3 DEF ClaimDatabase
    <3>. QED BY <3>1, <3>2, <3>3
  <2>4. CASE DryRun(t)
    BY <2>4 DEF DryRun
  <2>5. CASE Record(t)
    <3>1. brNext + 1 \in Proposals
      BY <2>5 DEF Record, Proposals
    <3>. QED BY <2>5, <3>1 DEF Record, Proposals
  <2>6. CASE PostAccepted(t)
    BY <2>6 DEF PostAccepted
  <2>7. CASE PostRefused(t)
    BY <2>7 DEF PostRefused
  <2>8. CASE Releases(t) \/ SavesCard(t)
    BY <2>8 DEF Releases, SavesCard
  <2>9. CASE BridgeFault(t)
    BY <2>9 DEF BridgeFault
  <2>. QED BY <1>3, <2>1, <2>2, <2>3, <2>4, <2>5, <2>6, <2>7, <2>8, <2>9 DEF BridgeStep
<1>. QED BY <1>1, <1>2, <1>3 DEF BridgeNext

\* Every value in Redis, in the tables and in the tasks stays in its domain.
THEOREM BridgeTypeCorrect == BridgeSpec => [](BridgeInv /\ BridgeTypeOK)
<1>1. BridgeInv => BridgeTypeOK
  BY DEF BridgeInv
<1>. QED BY <1>1, BridgeTypeInit, BridgeTypeNext, PTL DEF BridgeSpec

-----------------------------------------------------------------------------
(* A card and its row. *)

\* The proposal a task posts is its own: it has its row and no card yet, so that
\* deleting the row after a refused POST takes it from no other card.
PostingInv ==
  /\ \A p \in brRows \cup brCards : p <= brNext
  /\ \A t \in Tasks : brTask[t] = "posting" =>
       /\ brProp[t] \in brRows \ brCards
       /\ \A u \in Tasks \ {t} : brTask[u] = "posting" => brProp[u] # brProp[t]
  /\ ButtonsHaveRow

LEMMA PostingInit == BridgeInit => PostingInv
BY DEF BridgeInit, PostingInv, ButtonsHaveRow

LEMMA PostingNext == BridgeInv /\ PostingInv /\ [BridgeNext]_bridgeVars => PostingInv'
<1>. SUFFICES ASSUME BridgeInv, PostingInv, [BridgeNext]_bridgeVars PROVE PostingInv'
  OBVIOUS
<1>0. /\ brTask \in [Tasks -> BridgePhases] /\ brProp \in [Tasks -> 0 .. MaxProposals]
      /\ brNext \in Nat /\ brRows \subseteq Proposals /\ brCards \subseteq Proposals
      /\ brOrphans \subseteq brCards /\ Proposals \subseteq Nat
  BY BridgeBounds DEF BridgeInv, BridgeTypeOK, Proposals
\* A task that starts no POST changes nothing here.
<1>1. ASSUME UNCHANGED <<brProp, brNext, brRows, brCards, brOrphans>>,
             \A t \in Tasks : brTask'[t] = "posting" => brTask[t] = "posting"
      PROVE  PostingInv'
  BY <1>1 DEF PostingInv, ButtonsHaveRow
<1>2. CASE UNCHANGED bridgeVars \/ QueueKeyExpires \/ BridgeWindowEnds
  BY <1>1, <1>2 DEF bridgeVars, QueueKeyExpires, BridgeWindowEnds
<1>3. ASSUME NEW t \in Tasks, BridgeStep(t) PROVE PostingInv'
  <2>1. ASSUME NEW phase, phase # "posting", Turns(t, phase),
               UNCHANGED <<brProp, brNext, brRows, brCards, brOrphans>>
        PROVE  PostingInv'
    BY <1>0, <1>1, <2>1 DEF Turns
  <2>2. CASE EnqueueSkips(t) \/ Enqueue(t) \/ Plans(t) \/ Releases(t) \/ SavesCard(t)
    BY <2>1, <2>2 DEF EnqueueSkips, Enqueue, Plans, Releases, SavesCard
  <2>3. CASE ClaimRedis(t) \/ ClaimDatabase(t) \/ DryRun(t)
    BY <2>1, <2>3 DEF ClaimRedis, ClaimDatabase, DryRun
  <2>4. CASE Record(t)
    BY <1>0, <2>4 DEF Record, Turns, PostingInv, ButtonsHaveRow
  <2>5. CASE PostAccepted(t)
    BY <1>0, <2>5 DEF PostAccepted, Turns, PostingInv, ButtonsHaveRow
  <2>6. CASE PostRefused(t)
    BY <1>0, <2>6 DEF PostRefused, Turns, PostingInv, ButtonsHaveRow
  <2>7. CASE BridgeFault(t)
    BY <1>0, <2>7 DEF BridgeFault, Turns, PostingInv, ButtonsHaveRow
  <2>. QED BY <1>3, <2>2, <2>3, <2>4, <2>5, <2>6, <2>7 DEF BridgeStep
<1>. QED BY <1>2, <1>3 DEF BridgeNext

\* The row is committed before its card is posted, and it is deleted again only when
\* no message came back: whatever the tasks do to one another, and whatever dies, a
\* button in the channel leads to a row, unless Discord kept a card whose answer was
\* lost.
THEOREM ButtonsLeadToRows == BridgeSpec => []ButtonsHaveRow
<1>1. PostingInv => ButtonsHaveRow
  BY DEF PostingInv
<1>. QED BY <1>1, PostingInit, PostingNext, BridgeTypeCorrect, PTL DEF BridgeSpec

-----------------------------------------------------------------------------
(* One card per window. *)

\* The tasks that hold a claim for which no card was kept yet; one that is about to
\* delete the key after a refused POST still holds its own.
Claiming == {"claimed", "ready", "posting", "releasing"}
Holders == {t \in Tasks : brTask[t] \in Claiming}
Kept == brCards \ brOrphans

\* Each claim comes with the key, or is counted as granted by the database; the end
\* of a window pays for the key it takes away.
TokenInv ==
  Cardinality(Kept) + Cardinality(Holders)
     <= (IF brKey THEN 1 ELSE 0) + brWindows + brByDb

LEMMA HoldersFinite == IsFiniteSet(Holders) /\ Cardinality(Holders) \in Nat
BY BridgeBounds, FS_Subset, FS_CardinalityType DEF Holders

LEMMA CardsFinite ==
  ASSUME BridgeInv
  PROVE  /\ IsFiniteSet(brCards) /\ IsFiniteSet(brOrphans) /\ IsFiniteSet(Kept)
         /\ Cardinality(Kept) \in Nat
         /\ Cardinality(brCards) = Cardinality(Kept) + Cardinality(brOrphans)
<1>1. IsFiniteSet(Proposals)
  BY BridgeBounds, FS_Interval DEF Proposals
<1>2. IsFiniteSet(brCards) /\ brCards \cap brOrphans = brOrphans
  BY <1>1, FS_Subset DEF BridgeInv, BridgeTypeOK
<1>3. IsFiniteSet(brOrphans) /\ IsFiniteSet(Kept)
  BY <1>2, FS_Intersection, FS_Difference DEF Kept
<1>4. Cardinality(Kept) = Cardinality(brCards) - Cardinality(brOrphans)
  BY <1>2, FS_Difference DEF Kept
<1>. QED BY <1>2, <1>3, <1>4, FS_CardinalityType

\* How the holders change when a task changes its phase.
LEMMA HoldersMove ==
  ASSUME BridgeInv, NEW t \in Tasks, NEW phase, Turns(t, phase)
  PROVE  /\ Cardinality(Holders') \in Nat
         /\ phase \in Claiming =>
              /\ brTask[t] \in Claiming => Cardinality(Holders') = Cardinality(Holders)
              /\ Cardinality(Holders') <= Cardinality(Holders) + 1
         /\ phase \notin Claiming =>
              /\ brTask[t] \in Claiming => Cardinality(Holders') = Cardinality(Holders) - 1
              /\ Cardinality(Holders') <= Cardinality(Holders)
<1>1. brTask \in [Tasks -> BridgePhases]
  BY DEF BridgeInv, BridgeTypeOK
<1>2. Holders' = IF phase \in Claiming THEN Holders \cup {t} ELSE Holders \ {t}
  BY <1>1 DEF Holders, Turns
<1>3. t \in Holders <=> brTask[t] \in Claiming
  BY DEF Holders
<1>4. /\ IsFiniteSet(Holders \cup {t}) /\ IsFiniteSet(Holders \ {t})
      /\ Cardinality(Holders \cup {t}) =
            IF t \in Holders THEN Cardinality(Holders) ELSE Cardinality(Holders) + 1
      /\ Cardinality(Holders \ {t}) =
            IF t \in Holders THEN Cardinality(Holders) - 1 ELSE Cardinality(Holders)
  BY HoldersFinite, FS_AddElement, FS_RemoveElement
<1>5. Cardinality(Holders') \in Nat
  BY <1>2, <1>4, FS_CardinalityType
<1>. QED BY <1>2, <1>3, <1>4, <1>5, HoldersFinite

LEMMA TokenInit == BridgeInit => TokenInv
<1>. SUFFICES ASSUME BridgeInit PROVE TokenInv
  OBVIOUS
<1>1. Kept = {} /\ Holders = {}
  BY DEF BridgeInit, Kept, Holders, Claiming
<1>. QED BY <1>1, FS_EmptySet DEF BridgeInit, TokenInv

LEMMA TokenNext == BridgeInv /\ PostingInv /\ TokenInv /\ [BridgeNext]_bridgeVars => TokenInv'
<1>. SUFFICES ASSUME BridgeInv, PostingInv, TokenInv, [BridgeNext]_bridgeVars
              PROVE  TokenInv'
  OBVIOUS
<1>. DEFINE key == IF brKey THEN 1 ELSE 0
<1>0. /\ brWindows \in Nat /\ brByDb \in Nat /\ key \in 0 .. 1 /\ key' \in 0 .. 1
      /\ Cardinality(Kept) \in Nat /\ Cardinality(Holders) \in Nat
      /\ Cardinality(Kept) + Cardinality(Holders) <= key + brWindows + brByDb
  BY CardsFinite, HoldersFinite, BridgeBounds DEF BridgeInv, BridgeTypeOK, TokenInv
<1>1. SUFFICES Cardinality(Kept') + Cardinality(Holders') <= key' + brWindows' + brByDb'
  BY DEF TokenInv
<1>2. UNCHANGED <<brCards, brOrphans>> => Kept' = Kept
  BY DEF Kept
<1>3. UNCHANGED brTask => Holders' = Holders
  BY DEF Holders
<1>4. CASE UNCHANGED bridgeVars \/ QueueKeyExpires
  BY <1>0, <1>2, <1>3, <1>4 DEF bridgeVars, QueueKeyExpires
<1>5. CASE BridgeWindowEnds
  <2>1. key' = 0
    BY <1>5 DEF BridgeWindowEnds
  <2>2. brWindows' = brWindows + 1 /\ UNCHANGED <<brByDb, brTask, brCards, brOrphans>>
    BY <1>5 DEF BridgeWindowEnds
  <2>. QED BY <1>0, <1>2, <1>3, <2>1, <2>2
<1>6. ASSUME NEW t \in Tasks, BridgeStep(t)
      PROVE  Cardinality(Kept') + Cardinality(Holders') <= key' + brWindows' + brByDb'
  <2>1. CASE EnqueueSkips(t) \/ Enqueue(t) \/ Plans(t) \/ SavesCard(t)
    <3>1. Turns(t, "over") \/ Turns(t, "queued") \/ Turns(t, "running")
      BY <2>1 DEF EnqueueSkips, Enqueue, Plans, SavesCard
    <3>2. UNCHANGED <<brKey, brWindows, brByDb, brCards, brOrphans>>
      BY <2>1 DEF EnqueueSkips, Enqueue, Plans, SavesCard
    <3>. QED BY <1>0, <1>2, <3>1, <3>2, HoldersMove DEF Claiming
  <2>2. CASE ClaimRedis(t)
    <3>1. key' = 1 /\ UNCHANGED <<brWindows, brByDb, brCards, brOrphans>>
      BY <2>2 DEF ClaimRedis
    <3>2. CASE brKey
      BY <1>0, <1>2, <2>2, <3>1, <3>2, HoldersMove DEF ClaimRedis, Claiming
    <3>3. CASE ~brKey
      BY <1>0, <1>2, <2>2, <3>1, <3>3, HoldersMove DEF ClaimRedis, Claiming
    <3>. QED BY <3>2, <3>3
  <2>3. CASE ClaimDatabase(t)
    <3>1. key' >= key
      <4>1. brKey' = brKey \/ brKey' = TRUE
        BY <2>3 DEF ClaimDatabase
      <4>. QED BY <1>0, <4>1
    <3>2. /\ \/ brByDb' = brByDb + 1 /\ Turns(t, "claimed")
             \/ UNCHANGED brByDb /\ Turns(t, "over")
          /\ UNCHANGED <<brWindows, brCards, brOrphans>>
      BY <2>3 DEF ClaimDatabase
    <3>. QED BY <1>0, <1>2, <3>1, <3>2, HoldersMove DEF Claiming
  <2>4. CASE DryRun(t) \/ Record(t)
    <3>1. brTask[t] \in Claiming /\ \E phase : Turns(t, phase)
      BY <2>4 DEF DryRun, Record, Claiming
    <3>2. UNCHANGED <<brKey, brWindows, brByDb, brCards, brOrphans>>
      BY <2>4 DEF DryRun, Record
    <3>. QED BY <1>0, <1>2, <3>1, <3>2, HoldersMove DEF Claiming
  <2>5. CASE PostAccepted(t)
    <3>1. /\ brTask[t] \in Claiming /\ Turns(t, "sent")
          /\ UNCHANGED <<brKey, brWindows, brByDb>>
      BY <2>5 DEF PostAccepted, Claiming
    <3>2. Kept' = Kept \cup {brProp[t]} \/ Kept' = Kept
      BY <2>5 DEF PostAccepted, Kept
    <3>3. Cardinality(Kept') <= Cardinality(Kept) + 1 /\ Cardinality(Kept') \in Nat
      <4>1. Cardinality(Kept \cup {brProp[t]}) \in {Cardinality(Kept), Cardinality(Kept) + 1}
        BY CardsFinite, FS_AddElement
      <4>2. Cardinality(Kept') \in {Cardinality(Kept), Cardinality(Kept) + 1}
        BY <3>2, <4>1, Zenon
      <4>. QED BY <1>0, <4>2
    <3>. QED BY <1>0, <3>1, <3>3, HoldersMove DEF Claiming
  <2>6. CASE PostRefused(t)
    <3>1. /\ brTask[t] \in Claiming /\ Turns(t, "releasing")
          /\ UNCHANGED <<brKey, brWindows, brByDb>>
      BY <2>6 DEF PostRefused, Claiming
    <3>2. Kept' = Kept
      BY <2>6 DEF PostRefused, PostingInv, Kept
    <3>. QED BY <1>0, <3>1, <3>2, HoldersMove DEF Claiming
  <2>7. CASE Releases(t)
    <3>1. key' = 0
      BY <2>7 DEF Releases
    <3>2. /\ brTask[t] \in Claiming /\ Turns(t, "over")
          /\ UNCHANGED <<brWindows, brByDb, brCards, brOrphans>>
      BY <2>7 DEF Releases, Claiming
    <3>. QED BY <1>0, <1>2, <3>1, <3>2, HoldersMove DEF Claiming
  <2>8. CASE BridgeFault(t)
    <3>1. Turns(t, "over") \/ Turns(t, "queued")
      BY <2>8 DEF BridgeFault
    <3>2. UNCHANGED <<brKey, brWindows, brByDb, brCards, brOrphans>>
      BY <2>8 DEF BridgeFault
    <3>. QED BY <1>0, <1>2, <3>1, <3>2, HoldersMove DEF Claiming
  <2>. QED BY <1>6, <2>1, <2>2, <2>3, <2>4, <2>5, <2>6, <2>7, <2>8 DEF BridgeStep
<1>. QED BY <1>4, <1>5, <1>6 DEF BridgeNext

\* However the tasks interleave, however often Redis loses an answer, a worker dies or
\* a release deletes a key that is not its own, the channel never holds more cards
\* than the key, the ended windows, the claims of the database and the lost answers of
\* Discord account for.
THEOREM OneCardPerWindow == BridgeSpec => []CardsExplained
<1>1. BridgeInv /\ TokenInv => CardsExplained
  <2>. SUFFICES ASSUME BridgeInv, TokenInv PROVE CardsExplained
    OBVIOUS
  <2>1. brWindows \in Nat /\ brByDb \in Nat /\ Cardinality(brOrphans) \in Nat
    BY CardsFinite, FS_CardinalityType DEF BridgeInv, BridgeTypeOK
  <2>. QED BY <2>1, CardsFinite, HoldersFinite DEF TokenInv, CardsExplained
<1>. QED BY <1>1, PostingInit, PostingNext, TokenInit, TokenNext, BridgeTypeCorrect, PTL
         DEF BridgeSpec

-----------------------------------------------------------------------------
(* Silence. *)

\* What excuses a key or a recent decision without a card.
Excuse == brRefused > 0 \/ brFaults > 0 \/ brByDb > 0

\* Behind the key there is a holder, a card or an excuse; behind each decision that
\* answers a claim of the database there is its task, its card or an excuse.
SilenceInv ==
  /\ brKey => Holders # {} \/ brCards # {} \/ Excuse
  /\ \A p \in brRecent :
       \/ Excuse \/ p \in brCards
       \/ \E t \in Tasks : brTask[t] = "posting" /\ brProp[t] = p

LEMMA SilenceInit == BridgeInit => SilenceInv
BY DEF BridgeInit, SilenceInv

\* Counters of excuses never go back.
LEMMA ExcuseKept == BridgeInv /\ Excuse /\ [BridgeNext]_bridgeVars => SilenceInv'
<1>. SUFFICES ASSUME BridgeInv, Excuse, [BridgeNext]_bridgeVars PROVE Excuse'
  BY DEF SilenceInv
<1>1. brByDb \in Nat /\ brFaults \in Nat /\ brRefused \in Nat
  BY BridgeBounds DEF BridgeInv, BridgeTypeOK
<1>2. /\ brByDb' \in {brByDb, brByDb + 1} /\ brFaults' \in {brFaults, brFaults + 1}
      /\ brRefused' \in {brRefused, 1}
  <2>1. CASE UNCHANGED bridgeVars \/ QueueKeyExpires \/ BridgeWindowEnds
    BY <2>1 DEF bridgeVars, QueueKeyExpires, BridgeWindowEnds
  <2>2. ASSUME NEW t \in Tasks, BridgeStep(t)
        PROVE  /\ brByDb' \in {brByDb, brByDb + 1} /\ brFaults' \in {brFaults, brFaults + 1}
               /\ brRefused' \in {brRefused, 1}
    BY <2>2 DEF BridgeStep, EnqueueSkips, Enqueue, Plans, ClaimRedis, ClaimDatabase,
          DryRun, Record, PostAccepted, PostRefused, Releases, SavesCard, BridgeFault
  <2>. QED BY <2>1, <2>2 DEF BridgeNext
<1>3. brByDb' > 0 \/ brFaults' > 0 \/ brRefused' > 0
  BY <1>1, <1>2 DEF Excuse
<1>. QED BY <1>3 DEF Excuse

LEMMA SilenceNext == BridgeInv /\ SilenceInv /\ [BridgeNext]_bridgeVars => SilenceInv'
<1>. SUFFICES ASSUME BridgeInv, SilenceInv, [BridgeNext]_bridgeVars, ~Excuse
              PROVE  SilenceInv'
  BY ExcuseKept
<1>0. /\ brTask \in [Tasks -> BridgePhases] /\ brProp \in [Tasks -> 0 .. MaxProposals]
      /\ brRefused \in Nat /\ brFaults \in Nat /\ brByDb \in Nat
  BY BridgeBounds DEF BridgeInv, BridgeTypeOK
<1>1. CASE UNCHANGED bridgeVars \/ QueueKeyExpires
  BY <1>1 DEF bridgeVars, QueueKeyExpires, SilenceInv, Excuse, Holders
<1>2. CASE BridgeWindowEnds
  BY <1>2 DEF BridgeWindowEnds, SilenceInv
<1>3. ASSUME NEW t \in Tasks, BridgeStep(t) PROVE SilenceInv'
  \* A step that leaves the key, the decisions and the POST in progress alone.
  <2>1. ASSUME UNCHANGED <<brKey, brRecent, brProp, brCards>>, NEW phase, Turns(t, phase),
               brTask[t] # "posting", brTask[t] \in Claiming => phase \in Claiming
        PROVE  SilenceInv'
    <3>1. Holders \subseteq Holders'
      BY <1>0, <2>1 DEF Holders, Turns
    <3>2. \A u \in Tasks : brTask[u] = "posting" => brTask'[u] = "posting"
      BY <1>0, <2>1 DEF Turns
    <3>. QED BY <2>1, <3>1, <3>2 DEF SilenceInv
  \* A step after which the task holds a claim.
  <2>2. CASE EnqueueSkips(t) \/ Enqueue(t) \/ Plans(t)
    BY <2>1, <2>2 DEF EnqueueSkips, Enqueue, Plans, Claiming
  <2>3. CASE ClaimRedis(t)
    <3>1. CASE brKey
      BY <2>1, <2>3, <3>1 DEF ClaimRedis, Claiming
    <3>2. CASE ~brKey
      <4>1. /\ brTask' = [brTask EXCEPT ![t] = "claimed"] /\ brTask[t] = "running"
            /\ UNCHANGED <<brRecent, brProp, brCards>>
        BY <2>3, <3>2 DEF ClaimRedis, Turns
      <4>2. t \in Holders'
        BY <1>0, <4>1 DEF Holders, Claiming
      <4>3. \A u \in Tasks : brTask[u] = "posting" => brTask'[u] = "posting"
        BY <1>0, <4>1
      <4>. QED BY <4>1, <4>2, <4>3 DEF SilenceInv
    <3>. QED BY <3>1, <3>2
  <2>4. CASE ClaimDatabase(t)
    <3>1. CASE brByDb' = brByDb + 1 \/ brFaults' = brFaults + 1
      BY <1>0, <3>1 DEF SilenceInv, Excuse
    <3>2. CASE brRecent # {} /\ Turns(t, "over")
      <4>1. UNCHANGED <<brRecent, brProp, brCards>> /\ brTask[t] = "running"
        BY <2>4 DEF ClaimDatabase
      <4>2. \A u \in Tasks : brTask'[u] # brTask[u] => brTask[u] = "running"
        BY <1>0, <3>2, <4>1 DEF Turns
      <4>3. Holders \subseteq Holders'
        BY <4>2 DEF Holders, Claiming
      <4>4. Holders # {} \/ brCards # {}
        BY <3>2 DEF SilenceInv, Holders, Claiming
      <4>. QED BY <4>1, <4>2, <4>3, <4>4 DEF SilenceInv
    <3>. QED BY <2>4, <3>1, <3>2 DEF ClaimDatabase
  <2>5. CASE DryRun(t)
    <3>1. CASE brRefused' = 1
      BY <3>1 DEF SilenceInv, Excuse
    <3>2. CASE Turns(t, "ready")
      BY <2>1, <2>5, <3>2 DEF DryRun, Claiming
    <3>. QED BY <2>5, <3>1, <3>2 DEF DryRun
  <2>6. CASE Record(t)
    <3>1. /\ brTask' = [brTask EXCEPT ![t] = "posting"]
          /\ brProp' = [brProp EXCEPT ![t] = brNext + 1]
          /\ brRecent' = brRecent \cup {brNext + 1}
          /\ UNCHANGED <<brKey, brCards>> /\ brTask[t] = "ready"
      BY <2>6 DEF Record, Turns
    <3>2. brTask'[t] = "posting" /\ brProp'[t] = brNext + 1
      BY <1>0, <3>1
    <3>3. \A u \in Tasks \ {t} : brTask'[u] = brTask[u] /\ brProp'[u] = brProp[u]
      BY <1>0, <3>1
    <3>4. t \in Holders'
      BY <3>2 DEF Holders, Claiming
    <3>. QED BY <3>1, <3>2, <3>3, <3>4 DEF SilenceInv
  <2>7. CASE PostAccepted(t)
    <3>1. \A u \in Tasks \ {t} : brTask'[u] = brTask[u]
      BY <1>0, <2>7 DEF PostAccepted, Turns
    <3>. QED BY <2>7, <3>1 DEF PostAccepted, SilenceInv
  <2>8. CASE PostRefused(t)
    <3>1. \A u \in Tasks \ {t} : brTask'[u] = brTask[u]
      BY <1>0, <2>8 DEF PostRefused, Turns
    <3>2. t \in Holders'
      BY <1>0, <2>8 DEF PostRefused, Turns, Holders, Claiming
    <3>3. brCards \subseteq brCards' /\ brRecent' = brRecent \ {brProp[t]} /\ brProp' = brProp
      BY <2>8 DEF PostRefused
    <3>. QED BY <3>1, <3>2, <3>3 DEF SilenceInv
  <2>9. CASE Releases(t)
    <3>1. \A u \in Tasks : brTask[u] = "posting" => brTask'[u] = "posting"
      BY <1>0, <2>9 DEF Releases, Turns
    <3>. QED BY <2>9, <3>1 DEF Releases, SilenceInv
  <2>10. CASE SavesCard(t)
    BY <2>1, <2>10 DEF SavesCard, Claiming
  <2>11. CASE BridgeFault(t)
    BY <1>0, <2>11 DEF BridgeFault, SilenceInv, Excuse
  <2>. QED BY <1>3, <2>2, <2>3, <2>4, <2>5, <2>6, <2>7, <2>8, <2>9, <2>10, <2>11
           DEF BridgeStep
<1>. QED BY <1>1, <1>2, <1>3 DEF BridgeNext

\* Once the tasks are done, the key silences the alert only behind a card, a refused
\* dry run, a death or an exception, or a claim of the database; a POST that Discord
\* refused never does.
THEOREM SilenceHasReason == BridgeSpec => []SilenceExplained
<1>1. SilenceInv => SilenceExplained
  BY DEF SilenceInv, SilenceExplained, Excuse, Holders, Claiming
<1>. QED BY <1>1, SilenceInit, SilenceNext, BridgeTypeCorrect, PTL DEF BridgeSpec

-----------------------------------------------------------------------------
(***************************************************************************)
(* PlaybookGate: the tables of the registry and the policy.                  *)
(***************************************************************************)

LEMMA GateNats ==
    /\ MaxReplicas \in Nat \ {0} /\ MaxEdition \in Nat \ {0}
    /\ MaxGateFaults \in Nat /\ MaxScales \in Nat /\ MaxAnalyses \in Nat
  BY GateAssumption

(* What evaluate_policy lets through under the policy of the executor: the tier,
   the data plane and the confidence are all named as harmless. *)
LEMMA GateVerdict ==
  ASSUME NEW tier, NEW plane, NEW rev, NEW conf, NEW axes,
         axes = [tier |-> tier, dataPlane |-> plane, reversibility |-> rev, confidence |-> conf],
         Evaluate(GatePolicy, axes) # "block"
  PROVE  tier \in {"dev", "squad"} /\ plane \in {"no", "maybe"} /\ conf # "weak"
<1> DEFINE block == [tier |-> {"prod", "system"}, dataPlane |-> {"yes"},
                     reversibility |-> {"hard"}, confidence |-> {"weak"}]
           approve == [tier |-> {"dev", "squad"}, dataPlane |-> {"no", "maybe"}]
<1>1. GatePolicy.block = block /\ GatePolicy.auto = <<>> /\ GatePolicy.approve = approve
  BY DEF GatePolicy
<1>2. DOMAIN block = {"tier", "dataPlane", "reversibility", "confidence"}
      /\ block["confidence"] = {"weak"} /\ axes["confidence"] = conf
  OBVIOUS
<1>3. DOMAIN approve = {"tier", "dataPlane"} /\ approve["tier"] = {"dev", "squad"}
      /\ approve["dataPlane"] = {"no", "maybe"}
      /\ axes["tier"] = tier /\ axes["dataPlane"] = plane
  OBVIOUS
<1> HIDE DEF block, approve
<1>4. ~Meets(<<>>, axes)
  BY DEF Meets
<1>5. ~(\E a \in DOMAIN block : axes[a] \in block[a]) /\ Meets(approve, axes)
  BY <1>1, <1>4 DEF Evaluate
<1>6. conf # "weak"
  BY <1>2, <1>5
<1>7. tier \in {"dev", "squad"} /\ plane \in {"no", "maybe"}
  BY <1>3, <1>5 DEF Meets
<1> QED BY <1>6, <1>7

\* match_playbooks accepts a playbook only if the facts speak for it.
LEMMA MatchedIsProved ==
  ASSUME NEW facts \in FactStores, NEW crash \in Crashes, NEW pb \in Playbooks,
         CheckPreconditions(pb, facts, crash)
  PROVE  Proved(pb, facts, crash)
<1> DEFINE said(k) == IF k = "process_crash" THEN crash ELSE facts[k]
<1>1. /\ \A k \in Found[pb] : /\ said(k) \cap {"found", "banned"} # {}
                              /\ "banned" \notin said(k)
      /\ \A k \in Absent[pb] : said(k) = {"absent"}
  BY DEF CheckPreconditions
<1>2. CASE pb = "restart_crashloop"
  <2>1. Found[pb] = {"crashloop", "process_crash"} /\ Absent[pb] = {"oom_killed", "recent_deploy"}
    BY <1>2 DEF Found, Absent
  <2>2. said("crashloop") = facts["crashloop"] /\ said("process_crash") = crash
        /\ said("oom_killed") = facts["oom_killed"]
        /\ said("recent_deploy") = facts["recent_deploy"]
    OBVIOUS
  <2> HIDE DEF said
  <2>3. "found" \in facts["crashloop"] /\ "found" \in crash /\ "banned" \notin crash
    BY <1>1, <2>1, <2>2
  <2>5. facts["oom_killed"] = {"absent"} /\ facts["recent_deploy"] = {"absent"}
    BY <1>1, <2>1, <2>2
  <2> QED BY <1>2, <2>3, <2>5 DEF Proved
<1>3. CASE pb = "scale_out"
  <2>1. Found[pb] = {"resource_pressure"}
        /\ Absent[pb] = {"crashloop", "oom_killed", "recent_deploy"}
    BY <1>3 DEF Found, Absent
  <2>2. said("crashloop") = facts["crashloop"]
        /\ said("resource_pressure") = facts["resource_pressure"]
        /\ said("oom_killed") = facts["oom_killed"]
        /\ said("recent_deploy") = facts["recent_deploy"]
    OBVIOUS
  <2> HIDE DEF said
  <2>3. "found" \in facts["resource_pressure"]
    BY <1>1, <2>1, <2>2
  <2>5. /\ facts["oom_killed"] = {"absent"} /\ facts["recent_deploy"] = {"absent"}
        /\ facts["crashloop"] = {"absent"}
    BY <1>1, <2>1, <2>2
  <2> QED BY <1>3, <2>3, <2>5 DEF Proved
<1> QED BY <1>2, <1>3 DEF Playbooks

LEMMA OutcomesAreProved ==
  ASSUME NEW o \in Outcomes
  PROVE  o.matched \subseteq o.proved /\ o.matched \subseteq Playbooks /\ o.proved \subseteq Playbooks
<1>1. PICK alert \in {"CrashLooping", "CPUThrottling"}, facts \in FactStores, crash \in Crashes :
          o = [matched |-> MatchPlaybooks(alert, facts, crash),
               proved |-> {pb \in Playbooks : Proved(pb, facts, crash)}]
  BY DEF Outcomes
<1>2. /\ o.matched = MatchPlaybooks(alert, facts, crash)
      /\ o.proved = {pb \in Playbooks : Proved(pb, facts, crash)}
  BY <1>1
<1> QED BY <1>2, MatchedIsProved DEF MatchPlaybooks

(***************************************************************************)
(* PlaybookGate: the invariant.  GateShape gives the stored records their    *)
(* domains.  The rest follows the hash of an intent from the match to the    *)
(* command: what carries a hash was matched, hence proved, and its hash      *)
(* names the edition it was matched in; a hash is only handed out where the  *)
(* binding is required; a scale that carries one is conditioned on the       *)
(* number of replicas in it.                                                 *)
(***************************************************************************)

Hashes == [edition : 0 .. MaxEdition, server : Servers]
StoredEntries == [edition : 0 .. MaxEdition, server : Servers, binding : Hashes]
GateRuns == [at : {"idle", "matched", "bind", "store"}, bridge : BOOLEAN,
             tier : Tiers \union {"none"}, matched : SUBSET Playbooks,
             proved : SUBSET Playbooks, born : 0 .. MaxEdition, intent : Intents,
             snapshot : [Playbooks -> Entries]]
Analyses == [bridge : BOOLEAN, tier : Tiers \union {"none"}, intent : Intents,
             snapshot : [Playbooks -> StoredEntries]]

GateShape ==
    /\ bindingOn \in BOOLEAN
    /\ replicas \in [Targets -> 0 .. MaxReplicas]
    /\ edition \in 1 .. MaxEdition
    /\ run \in GateRuns /\ analysis \in Analyses /\ writing \in Intents
    /\ gateFaults \in 0 .. MaxGateFaults /\ scales \in 0 .. MaxScales
    /\ analyses \in 0 .. MaxAnalyses

Sound(i, bridge) ==
    i.match # NoHash => i.proved /\ i.match.edition = i.born /\ (bridge \/ bindingOn)

MatchInv ==
    /\ run.matched \subseteq run.proved
    /\ \A pb \in run.matched : run.snapshot[pb].edition = run.born /\ run.born > 0
    /\ run.matched # {} => run.bridge \/ bindingOn

RunInv ==
    /\ run.at = "bind" => run.intent.target \in Targets
    /\ run.intent.match # NoHash =>
           run.intent.playbook \in run.matched /\ run.intent.born = run.born
    /\ Sound(run.intent, run.bridge)

StoredInv == Sound(analysis.intent, analysis.bridge)

CommandInv ==
    writing.match # NoHash /\ writing.action = "scale" =>
        writing.current # -1 /\ writing.match.server.count = writing.current

GateInv == GateShape /\ MatchInv /\ RunInv /\ StoredInv /\ CommandInv

LEMMA HashTypes ==
    /\ Nowhere \in Servers /\ NoHash \in Hashes
    /\ NoHash.edition = 0
    /\ NoEntry \in Entries /\ NoEntry.edition = 0
  BY GateNats DEF Nowhere, Servers, NoHash, Hashes, NoEntry, Entries

\* The hash of an entry that the server made names its edition.
LEMMA EntryTypes ==
  ASSUME NEW e \in Entries
  PROVE  /\ e.edition \in 0 .. MaxEdition /\ e.server \in Servers /\ e.binding \in Hashes
         /\ e.binding.edition = e.edition /\ e \in StoredEntries
<1> USE GateNats
<1>1. CASE e = NoEntry
  BY <1>1, HashTypes DEF NoEntry, NoHash, StoredEntries, Hashes
<1>2. CASE e # NoEntry
  <2>1. PICK n \in 1 .. MaxEdition, s \in Servers :
            e = [edition |-> n, server |-> s, binding |-> [edition |-> n, server |-> s]]
    BY <1>2 DEF Entries
  <2>2. n \in 0 .. MaxEdition
    OBVIOUS
  <2> QED BY <2>1, <2>2 DEF StoredEntries, Hashes
<1> QED BY <1>1, <1>2

\* An entry is hashed again once the server's number is in it.
LEMMA HashedEntry ==
  ASSUME NEW e \in Entries, e.edition > 0, NEW s \in Servers,
         NEW h, h = Hashed([e EXCEPT !.server = s])
  PROVE  /\ h \in Entries /\ h.edition = e.edition
         /\ h.binding \in Hashes /\ h.binding.edition = e.edition
<1> USE GateNats
<1>1. e \in StoredEntries
  BY EntryTypes
<1>2. PICK n : n = e.edition
  OBVIOUS
<1>3. n \in 1 .. MaxEdition
  BY <1>1, <1>2 DEF StoredEntries
<1>4. PICK b : b = [edition |-> n, server |-> s]
  OBVIOUS
<1>5. b \in Hashes
  BY <1>3, <1>4 DEF Hashes
<1>6. PICK g : g = [e EXCEPT !.server = s]
  OBVIOUS
<1>7. g \in StoredEntries /\ g.edition = n /\ g.server = s
  BY <1>1, <1>2, <1>6 DEF StoredEntries
<1>8. Hash(g) = b
  BY <1>4, <1>7 DEF Hash
<1>9. h = [g EXCEPT !.binding = b]
  BY <1>6, <1>8 DEF Hashed
<1>10. h = [edition |-> n, server |-> s, binding |-> b]
  BY <1>5, <1>7, <1>9 DEF StoredEntries
<1>11. h \in Entries
  BY <1>3, <1>4, <1>10 DEF Entries
<1> QED BY <1>2, <1>4, <1>5, <1>10, <1>11

LEMMA IdleTypes ==
    /\ NoIntent \in Intents /\ NoIntent.match = NoHash
    /\ NoSnapshot \in [Playbooks -> Entries]
    /\ NoRun \in GateRuns /\ NoRun.intent = NoIntent /\ NoRun.matched = {} /\ NoRun.at = "idle"
    /\ NoAnalysis \in Analyses /\ NoAnalysis.intent = NoIntent
<1> USE GateNats
<1>m. PICK m \in -1 .. MaxReplicas : m = -1
  OBVIOUS
<1>1. NoIntent \in Intents /\ NoIntent.match = NoHash
  BY <1>m, HashTypes DEF NoIntent, Intents, Hashes
<1>2. NoSnapshot \in [Playbooks -> Entries]
  BY HashTypes DEF NoSnapshot
<1>3. NoRun \in GateRuns /\ NoRun.intent = NoIntent /\ NoRun.matched = {} /\ NoRun.at = "idle"
  BY <1>1, <1>2 DEF NoRun, GateRuns
<1>4. NoSnapshot \in [Playbooks -> StoredEntries]
  BY <1>2, EntryTypes
<1>5. NoAnalysis \in Analyses /\ NoAnalysis.intent = NoIntent
  BY <1>1, <1>4 DEF NoAnalysis, Analyses
<1> QED BY <1>1, <1>2, <1>3, <1>5

LEMMA GateTyped ==
  ASSUME GateInv
  PROVE  /\ GateShape /\ bindingOn \in BOOLEAN
         /\ run \in GateRuns /\ analysis \in Analyses /\ writing \in Intents
         /\ run.intent \in Intents /\ run.snapshot \in [Playbooks -> Entries]
         /\ run.matched \subseteq Playbooks /\ run.born \in 0 .. MaxEdition
         /\ analysis.intent \in Intents /\ analysis.snapshot \in [Playbooks -> StoredEntries]
<1>1. GateShape /\ run \in GateRuns /\ analysis \in Analyses /\ writing \in Intents
      /\ bindingOn \in BOOLEAN
  BY DEF GateInv, GateShape
<1> QED BY <1>1 DEF GateRuns, Analyses

(* The analysis under way gets its intent, or the number for it, under the same
   match. *)
LEMMA IntentStep ==
  ASSUME GateInv, run' \in GateRuns,
         run'.matched = run.matched, run'.proved = run.proved, run'.born = run.born,
         run'.bridge = run.bridge,
         \A pb \in run.matched : run'.snapshot[pb].edition = run.born,
         run'.at = "bind" => run'.intent.target \in Targets,
         run'.intent.match # NoHash =>
             /\ run'.intent.playbook \in run.matched /\ run'.intent.born = run.born
             /\ run'.intent.proved /\ run'.intent.match.edition = run.born,
         UNCHANGED <<bindingOn, replicas, edition, analysis, writing, gateFaults, scales, analyses>>
  PROVE  GateInv'
<1>1. GateShape'
  BY GateTyped DEF GateShape
<1>2. MatchInv'
  BY DEF GateInv, MatchInv
<1>3. RunInv'
  BY DEF GateInv, MatchInv, RunInv, Sound
<1>4. StoredInv' /\ CommandInv'
  BY DEF GateInv, StoredInv, CommandInv, Sound
<1> QED BY <1>1, <1>2, <1>3, <1>4 DEF GateInv

\* The analysis is over, or the world changes around it.
LEMMA IdleStep ==
  ASSUME GateInv, run' = run \/ run' = NoRun,
         bindingOn' = bindingOn, replicas' \in [Targets -> 0 .. MaxReplicas],
         edition' \in 1 .. MaxEdition, analysis' \in Analyses,
         \/ analysis'.intent = analysis.intent /\ analysis'.bridge = analysis.bridge
         \/ analysis'.intent = run.intent /\ analysis'.bridge = run.bridge,
         writing' \in Intents, CommandInv',
         gateFaults' \in 0 .. MaxGateFaults, scales' \in 0 .. MaxScales,
         analyses' \in 0 .. MaxAnalyses
  PROVE  GateInv'
<1>1. GateShape'
  BY GateTyped, IdleTypes DEF GateShape
<1>2. MatchInv'
  BY IdleTypes DEF GateInv, MatchInv
<1>3. RunInv'
  BY IdleTypes DEF GateInv, RunInv, Sound
<1>4. StoredInv'
  BY DEF GateInv, StoredInv, RunInv, Sound
<1> QED BY <1>1, <1>2, <1>3, <1>4 DEF GateInv

LEMMA MatchKeeps ==
  ASSUME GateInv, NEW bridge \in BOOLEAN, NEW tier \in Tiers, NEW outcome \in Outcomes,
         Match(bridge, tier, outcome)
  PROVE  GateInv'
<1> USE GateNats
<1> DEFINE matched == IF bridge \/ bindingOn THEN outcome.matched ELSE {}
<1>1. /\ matched \subseteq Playbooks /\ matched \subseteq outcome.proved
      /\ outcome.proved \subseteq Playbooks
  BY OutcomesAreProved
<1>2. matched # {} => bridge \/ bindingOn
  OBVIOUS
<1>3. PICK snap : snap = Snapshot(matched)
  OBVIOUS
<1>4. run' = [NoRun EXCEPT !.at = "matched", !.bridge = bridge, !.tier = tier,
                           !.matched = matched, !.born = edition, !.snapshot = snap,
                           !.proved = outcome.proved]
      /\ analyses < MaxAnalyses /\ analyses' = analyses + 1
      /\ UNCHANGED <<bindingOn, replicas, edition, analysis, writing, gateFaults, scales>>
  BY <1>3 DEF Match
<1> HIDE DEF matched
<1>5. edition \in 1 .. MaxEdition /\ edition \in 0 .. MaxEdition /\ edition > 0
      /\ analyses \in 0 .. MaxAnalyses
  BY GateTyped DEF GateShape
<1>6. snap \in [Playbooks -> Entries] /\ \A pb \in matched : snap[pb].edition = edition
  <2> DEFINE e == Hashed([NoEntry EXCEPT !.edition = edition])
  <2>1. NoEntry = [edition |-> 0, server |-> Nowhere, binding |-> NoHash]
    BY DEF NoEntry
  <2>2. e = [edition |-> edition, server |-> Nowhere,
             binding |-> [edition |-> edition, server |-> Nowhere]]
    <3>1. PICK g : g = [NoEntry EXCEPT !.edition = edition]
      OBVIOUS
    <3>2. g = [edition |-> edition, server |-> Nowhere, binding |-> NoHash]
      BY <2>1, <3>1
    <3>3. Hash(g) = [edition |-> edition, server |-> Nowhere]
      BY <3>2 DEF Hash
    <3>4. e = [g EXCEPT !.binding = Hash(g)]
      BY <3>1 DEF Hashed
    <3> QED BY <3>2, <3>3, <3>4
  <2>3. e \in Entries /\ e.edition = edition
    BY <1>5, <2>2, HashTypes DEF Entries
  <2> HIDE DEF e
  <2>4. snap = [pb \in Playbooks |-> IF pb \in matched THEN e ELSE NoEntry]
    BY <1>3 DEF Snapshot, e
  <2> QED BY <1>1, <2>3, <2>4, HashTypes
<1>7. /\ run' \in GateRuns /\ run'.matched = matched /\ run'.proved = outcome.proved
      /\ run'.born = edition /\ run'.snapshot = snap /\ run'.intent = NoIntent
      /\ run'.at = "matched"
  BY <1>1, <1>4, <1>5, <1>6, IdleTypes DEF GateRuns
<1>8. run'.bridge = bridge
  BY <1>4, IdleTypes DEF GateRuns
<1>9. analyses' \in 0 .. MaxAnalyses
  BY <1>4, <1>5
<1>10. GateShape'
  BY <1>4, <1>7, <1>9, GateTyped DEF GateShape
<1>11. MatchInv'
  BY <1>1, <1>2, <1>4, <1>5, <1>6, <1>7, <1>8 DEF MatchInv
<1>12. RunInv'
  BY <1>7, IdleTypes DEF RunInv, Sound
<1>13. StoredInv' /\ CommandInv'
  BY <1>4 DEF GateInv, StoredInv, CommandInv, Sound
<1> QED BY <1>10, <1>11, <1>12, <1>13 DEF GateInv

\* What the model proposes carries a hash only if its playbook was matched.
LEMMA SuggestKeeps ==
  ASSUME GateInv, NEW i \in LLMIntents, Suggest(i)
  PROVE  GateInv'
<1> USE GateNats
<1>1. i \in Intents /\ i.match = NoHash /\ i.target \in Targets
  <2>1. {0} \union {MaxReplicas} \subseteq 0 .. MaxReplicas /\ {-1} \subseteq -1 .. MaxReplicas
        /\ {0} \subseteq 0 .. MaxEdition
    OBVIOUS
  <2>2. NoHash \in [edition : 0 .. MaxEdition, server : Servers]
    BY HashTypes DEF Hashes
  <2>3. i \in Intents
    BY <2>1, <2>2 DEF LLMIntents, Intents
  <2> QED BY <2>3 DEF LLMIntents
<1>2. PICK g \in BOOLEAN : g = (i.playbook \in run.proved)
  <2>1. (i.playbook \in run.proved) \in BOOLEAN
    OBVIOUS
  <2> QED BY <2>1, Zenon
<1>3. PICK h : h = [i EXCEPT !.proved = g, !.born = run.born]
  OBVIOUS
<1>4. /\ h \in Intents /\ h.match = NoHash /\ h.target = i.target /\ h.playbook = i.playbook
      /\ h.born = run.born
  BY <1>1, <1>3, GateTyped DEF Intents
<1>5. h.proved = g
  BY <1>1, <1>3, GateTyped DEF Intents
<1>6. PICK j : j = Enforced(h)
  OBVIOUS
<1>7. run' = [run EXCEPT !.at = "bind", !.intent = j]
      /\ UNCHANGED <<bindingOn, replicas, edition, analysis, writing, gateFaults, scales, analyses>>
  BY <1>2, <1>3, <1>6 DEF Suggest
<1>8. /\ j \in Intents /\ j.target \in Targets
      /\ j.match # NoHash => /\ j.playbook \in run.matched /\ j.born = run.born
                             /\ j.proved /\ j.match.edition = run.born
  <2>1. CASE ~bindingOn
    BY <1>1, <1>4, <1>6, <2>1 DEF Enforced
  <2>2. CASE bindingOn /\ h.playbook \in run.matched
    <3>1. j = [h EXCEPT !.match = run.snapshot[h.playbook].binding]
      BY <1>6, <2>2 DEF Enforced
    <3>2. run.snapshot[h.playbook] \in Entries
      BY <2>2, GateTyped
    <3>3. PICK b \in Hashes : b = run.snapshot[h.playbook].binding
      BY <3>2, EntryTypes
    <3>4. b.edition = run.born
      BY <2>2, <3>2, <3>3, EntryTypes DEF GateInv, MatchInv
    <3>5. /\ j \in Intents /\ j.target = i.target /\ j.playbook = h.playbook /\ j.born = run.born
          /\ j.match = b
      BY <1>4, <3>1, <3>3 DEF Intents, Hashes
    <3>6. j.proved = h.proved
      BY <1>4, <3>1, <3>3 DEF Intents, Hashes
    <3>7. g
      BY <1>2, <1>4, <2>2 DEF GateInv, MatchInv
    <3> QED BY <1>1, <1>5, <2>2, <3>4, <3>5, <3>6, <3>7
  <2>3. CASE bindingOn /\ h.playbook \notin run.matched
    <3>1. j = [h EXCEPT !.playbook = "none"]
      BY <1>6, <2>3 DEF Enforced
    <3>2. j \in Intents /\ j.match = NoHash /\ j.target = i.target
      BY <1>4, <3>1 DEF Intents
    <3> QED BY <1>1, <3>2
  <2> QED BY <2>1, <2>2, <2>3
<1>9. /\ run' \in GateRuns /\ run'.matched = run.matched /\ run'.proved = run.proved
      /\ run'.born = run.born /\ run'.snapshot = run.snapshot /\ run'.intent = j
  BY <1>7, <1>8, GateTyped DEF GateRuns
<1>10. run'.bridge = run.bridge
  BY <1>7, <1>8, GateTyped DEF GateRuns
<1>11. \A pb \in run.matched : run'.snapshot[pb].edition = run.born
  BY <1>9 DEF GateInv, MatchInv
<1> QED BY <1>7, <1>8, <1>9, <1>10, <1>11, IntentStep

\* The bridge renders the step of a matched playbook.
LEMMA RenderKeeps ==
  ASSUME GateInv, NEW pb \in Playbooks, NEW target \in Targets, Render(pb, target)
  PROVE  GateInv'
<1> USE GateNats
<1>1. pb \in run.matched /\ run.snapshot[pb] \in Entries
  BY GateTyped DEF Render
<1>2. PICK b \in Hashes : b = run.snapshot[pb].binding
  BY <1>1, EntryTypes
<1>3. b.edition = run.born
  BY <1>1, <1>2, EntryTypes DEF GateInv, MatchInv
<1>4. PICK count \in 0 .. MaxReplicas, current \in -1 .. MaxReplicas :
          /\ count = IF pb = "scale_out" THEN replicas[target] + 1 ELSE 0
          /\ current = IF pb = "scale_out" THEN replicas[target] ELSE -1
  <2>1. CASE pb = "scale_out"
    <3>1. replicas[target] \in 1 .. MaxReplicas - 1
      BY <2>1 DEF Render
    <3> QED BY <2>1, <3>1
  <2>2. CASE pb # "scale_out"
    BY <2>2
  <2> QED BY <2>1, <2>2
<1>5. PICK action \in {"restart", "scale"} : action = ActionOf[pb]
  BY DEF ActionOf, Playbooks
<1>6. PICK tier \in Tiers \union {"none"} : tier = run.tier
  BY GateTyped DEF GateRuns
<1>7. PICK g \in BOOLEAN : g = (pb \in run.proved)
  <2>1. (pb \in run.proved) \in BOOLEAN
    OBVIOUS
  <2> QED BY <2>1, Zenon
<1>8. PICK j : j = [action |-> action, type |-> "deployment", target |-> target,
                    tier |-> tier, count |-> count, current |-> current, playbook |-> pb,
                    match |-> b, proved |-> g, born |-> run.born]
  OBVIOUS
<1>9. run' = [run EXCEPT !.at = "bind", !.intent = j]
      /\ UNCHANGED <<bindingOn, replicas, edition, analysis, writing, gateFaults, scales, analyses>>
  BY <1>2, <1>4, <1>5, <1>6, <1>7, <1>8 DEF Render
<1>10. /\ j \in Intents /\ j.target = target /\ j.playbook = pb /\ j.born = run.born /\ j.match = b
  BY <1>8, GateTyped DEF Intents, Hashes, GateActions
<1>11. j.proved
  <2>1. g
    BY <1>1, <1>7 DEF GateInv, MatchInv
  <2> QED BY <1>8, <2>1
<1>12. /\ run' \in GateRuns /\ run'.matched = run.matched /\ run'.proved = run.proved
       /\ run'.born = run.born /\ run'.snapshot = run.snapshot /\ run'.intent = j
  BY <1>9, <1>10, GateTyped DEF GateRuns
<1>13. run'.bridge = run.bridge
  BY <1>9, <1>10, GateTyped DEF GateRuns
<1>14. \A p \in run.matched : run'.snapshot[p].edition = run.born
  BY <1>12 DEF GateInv, MatchInv
<1> QED BY <1>1, <1>3, <1>9, <1>10, <1>11, <1>12, <1>13, <1>14, IntentStep

\* bind_server_params keeps the edition of the entry it hashes again.
LEMMA BindKeeps ==
  ASSUME GateInv, NEW answered \in BOOLEAN, Bind(answered)
  PROVE  GateInv'
<1> USE GateNats
<1>m. PICK m \in -1 .. MaxReplicas : m = -1
  OBVIOUS
<1>i. PICK i : i = [run.intent EXCEPT !.current = m]
  OBVIOUS
<1>1. /\ i \in Intents /\ i.match = run.intent.match /\ i.target = run.intent.target
      /\ i.playbook = run.intent.playbook /\ i.born = run.intent.born
  BY <1>i, GateTyped DEF Intents
<1>2. i.proved = run.intent.proved
  BY <1>i, GateTyped DEF Intents
<1>3. i.match # NoHash =>
          /\ i.playbook \in run.matched /\ i.born = run.born
          /\ i.proved /\ i.match.edition = run.born
  BY <1>1, <1>2 DEF GateInv, RunInv, Sound
<1>4. run.at = "bind" /\ run.intent.target \in Targets
      /\ UNCHANGED <<bindingOn, replicas, edition, analysis, writing, gateFaults, scales, analyses>>
  BY DEF Bind, GateInv, RunInv
<1>5. CASE i.match = NoHash
  <2>1. run' = [run EXCEPT !.at = "store", !.intent = i]
    BY <1>5, <1>m, <1>i DEF Bind
  <2>2. /\ run' \in GateRuns /\ run'.matched = run.matched /\ run'.proved = run.proved
        /\ run'.born = run.born /\ run'.snapshot = run.snapshot /\ run'.intent = i
        /\ run'.at = "store"
    BY <1>1, <2>1, GateTyped DEF GateRuns
  <2>3. run'.bridge = run.bridge
    BY <1>1, <2>1, GateTyped DEF GateRuns
  <2>4. \A p \in run.matched : run'.snapshot[p].edition = run.born
    BY <2>2 DEF GateInv, MatchInv
  <2> QED BY <1>4, <1>5, <2>2, <2>3, <2>4, IntentStep
<1>6. CASE i.match # NoHash
  <2> DEFINE counted == WantsCount(i) /\ answered
             live == replicas[i.target]
  <2>1. live \in 0 .. MaxReplicas /\ i.target \in Targets
    BY <1>1, <1>4, GateTyped DEF GateShape
  <2>2. PICK s \in Servers : s = IF counted THEN [target |-> i.target, count |-> live] ELSE Nowhere
    BY <2>1, HashTypes DEF Servers
  <2>3. PICK c \in -1 .. MaxReplicas : c = IF counted THEN live ELSE m
    BY <2>1, <1>m
  <2>4. PICK e : e = Hashed([run.snapshot[i.playbook] EXCEPT !.server = s])
    OBVIOUS
  <2>5. PICK j : j = [i EXCEPT !.match = e.binding, !.current = c]
    OBVIOUS
  <2>6. run' = [run EXCEPT !.at = "store", !.snapshot[i.playbook] = e, !.intent = j]
    BY <1>6, <1>m, <1>i, <2>2, <2>3, <2>4, <2>5 DEF Bind
  <2> HIDE DEF counted, live
  <2>7. i.playbook \in run.matched /\ i.playbook \in Playbooks
        /\ run.snapshot[i.playbook] \in Entries
        /\ run.snapshot[i.playbook].edition = run.born /\ run.born > 0
    BY <1>3, <1>6, GateTyped DEF GateInv, MatchInv
  <2>8. /\ e \in Entries /\ e.edition = run.born
        /\ e.binding \in Hashes /\ e.binding.edition = run.born
    BY <2>4, <2>7, HashedEntry
  <2>9. /\ j \in Intents /\ j.playbook = i.playbook /\ j.born = i.born /\ j.match = e.binding
    BY <1>1, <2>5, <2>8 DEF Intents, Hashes
  <2>10. j.proved = i.proved
    BY <1>1, <2>5, <2>8 DEF Intents, Hashes
  <2>11. PICK snap : snap = [run.snapshot EXCEPT ![i.playbook] = e]
    OBVIOUS
  <2>12. snap \in [Playbooks -> Entries] /\ \A p \in run.matched : snap[p].edition = run.born
    BY <2>7, <2>8, <2>11, GateTyped DEF GateInv, MatchInv
  <2>13. run' = [run EXCEPT !.at = "store", !.snapshot = snap, !.intent = j]
    BY <2>6, <2>11
  <2>14. /\ run' \in GateRuns /\ run'.matched = run.matched /\ run'.proved = run.proved
         /\ run'.born = run.born /\ run'.snapshot = snap /\ run'.intent = j
         /\ run'.at = "store"
    BY <2>9, <2>12, <2>13, GateTyped DEF GateRuns
  <2>15. run'.bridge = run.bridge
    BY <2>9, <2>12, <2>13, GateTyped DEF GateRuns
  <2> QED BY <1>3, <1>4, <1>6, <2>7, <2>8, <2>9, <2>10, <2>12, <2>14, <2>15, IntentStep
<1> QED BY <1>5, <1>6

\* The result is stored, or there is none; the world changes.
LEMMA WorldKeeps ==
  ASSUME GateInv,
         \/ NoProposal \/ Store \/ NewImage
         \/ \E target \in Targets, n \in 0 .. MaxReplicas : ScaledElsewhere(target, n)
  PROVE  GateInv'
<1> USE GateNats
<1>0. /\ replicas \in [Targets -> 0 .. MaxReplicas] /\ edition \in 1 .. MaxEdition
      /\ gateFaults \in 0 .. MaxGateFaults /\ scales \in 0 .. MaxScales
      /\ analyses \in 0 .. MaxAnalyses
  BY GateTyped DEF GateShape
<1>1. UNCHANGED <<bindingOn, writing, gateFaults, analyses>> /\ (run' = run \/ run' = NoRun)
  BY DEF NoProposal, Store, NewImage, ScaledElsewhere
<1>2. replicas' \in [Targets -> 0 .. MaxReplicas]
  BY <1>0 DEF NoProposal, Store, NewImage, ScaledElsewhere
<1>3. edition' \in 1 .. MaxEdition /\ scales' \in 0 .. MaxScales
  BY <1>0 DEF NoProposal, Store, NewImage, ScaledElsewhere
<1>4. CommandInv'
  BY <1>1 DEF GateInv, CommandInv
<1>5. CASE Store
  <2>1. analysis' = [bridge |-> run.bridge, tier |-> run.tier, intent |-> run.intent,
                     snapshot |-> run.snapshot]
    BY <1>5 DEF Store
  <2>2. run.snapshot \in [Playbooks -> StoredEntries]
    BY GateTyped, EntryTypes
  <2>3. analysis' \in Analyses /\ analysis'.intent = run.intent
    BY <2>1, <2>2, GateTyped DEF Analyses, GateRuns
  <2>4. analysis'.bridge = run.bridge
    BY <2>1
  <2> QED BY <1>0, <1>1, <1>2, <1>3, <1>4, <2>3, <2>4, GateTyped, IdleStep
<1>6. CASE ~Store
  <2>1. analysis' = analysis
    BY <1>6 DEF NoProposal, NewImage, ScaledElsewhere
  <2> QED BY <1>0, <1>1, <1>2, <1>3, <1>4, <2>1, GateTyped, IdleStep
<1> QED BY <1>5, <1>6

\* Another writer changes the stored snapshot, never the intent.
LEMMA RewriteKeeps ==
  ASSUME GateInv, NEW pb \in Playbooks, NEW e \in Entries, NEW hashed \in BOOLEAN,
         Rewritten(pb, e, hashed)
  PROVE  GateInv'
<1> USE GateNats
<1>0. /\ replicas \in [Targets -> 0 .. MaxReplicas] /\ edition \in 1 .. MaxEdition
      /\ gateFaults \in 0 .. MaxGateFaults /\ scales \in 0 .. MaxScales
      /\ analyses \in 0 .. MaxAnalyses
  BY GateTyped DEF GateShape
<1>1. UNCHANGED <<bindingOn, replicas, edition, run, writing, scales, analyses>>
      /\ gateFaults' \in 0 .. MaxGateFaults
  BY <1>0 DEF Rewritten
<1>2. PICK g : g = IF hashed THEN e ELSE [e EXCEPT !.binding = analysis.snapshot[pb].binding]
  OBVIOUS
<1>3. g \in StoredEntries
  <2>1. e \in StoredEntries /\ analysis.snapshot[pb] \in StoredEntries
    BY EntryTypes, GateTyped
  <2>2. analysis.snapshot[pb].binding \in Hashes
    BY <2>1 DEF StoredEntries
  <2> QED BY <1>2, <2>1, <2>2 DEF StoredEntries
<1>4. PICK snap : snap = [analysis.snapshot EXCEPT ![pb] = g]
  OBVIOUS
<1>5. snap \in [Playbooks -> StoredEntries]
  BY <1>3, <1>4, GateTyped
<1>6. analysis' = [analysis EXCEPT !.snapshot = snap]
  BY <1>2, <1>4 DEF Rewritten
<1>7. analysis' \in Analyses /\ analysis'.intent = analysis.intent
  BY <1>5, <1>6, GateTyped DEF Analyses
<1>8. analysis'.bridge = analysis.bridge
  BY <1>5, <1>6, GateTyped DEF Analyses
<1>9. CommandInv'
  BY <1>1 DEF GateInv, CommandInv
<1> QED BY <1>0, <1>1, <1>7, <1>8, <1>9, GateTyped, IdleStep

\* What evaluate_intent_gate has seen of an intent it does not block.
LEMMA AdmittedIsHarmless ==
  ASSUME NEW i \in Intents, Evaluate(GatePolicy, Axes(i)) # "block"
  PROVE  /\ i.tier \in {"dev", "squad"} /\ i.target \notin DataTargets
         /\ i.action \in Mutating => i.type = "deployment"
         /\ i.action = "scale" => i.count > 0
<1> DEFINE plane == IF i.target \in DataTargets THEN "yes" ELSE "maybe"
           odd == \/ i.action \in Mutating /\ i.type # "deployment"
                  \/ i.action = "scale" /\ i.count = 0
           rev == IF plane = "yes" THEN "hard" ELSE "partial"
           conf == IF odd THEN "weak" ELSE "medium"
<1>1. Axes(i) = [tier |-> i.tier, dataPlane |-> plane, reversibility |-> rev, confidence |-> conf]
  BY DEF Axes
<1>2. i.tier \in {"dev", "squad"} /\ plane \in {"no", "maybe"} /\ conf # "weak"
  <2> HIDE DEF plane, odd, rev, conf
  <2> QED BY <1>1, GateVerdict
<1>3. ~odd /\ i.target \notin DataTargets
  BY <1>2
<1>4. i.count \in Nat
  BY GateNats DEF Intents
<1> QED BY <1>2, <1>3, <1>4

(* check_intent_binding: the intent is the mutating step of its plan, its hash is
   of the running edition, and a scale is conditioned on the number in it. *)
LEMMA BoundIntent ==
  ASSUME GateInv, NEW i \in Intents, NEW snapshot, Bound(i, snapshot), i.action \in Mutating
  PROVE  /\ i.match # NoHash /\ i.match.edition = edition /\ i.action = ActionOf[i.playbook]
         /\ i.action = "scale" => i.current # -1 /\ i.match.server.count = i.current
<1> DEFINE e == snapshot[i.playbook]
<1>1. /\ i.match # NoHash /\ i.playbook # "none"
      /\ e.binding = Hash(e) /\ i.match = e.binding /\ e.edition = edition
      /\ WantsCount(i) => e.server = [target |-> i.target, count |-> i.current]
      /\ InPlan(i)
  BY DEF Bound
<1>2. i.match = [edition |-> e.edition, server |-> e.server]
  BY <1>1 DEF Hash
<1> HIDE DEF e
<1>3. i.match.edition = edition /\ i.match.server = e.server
  BY <1>1, <1>2
<1>4. i.action = ActionOf[i.playbook]
      /\ (i.action = "scale" => i.current # -1)
  BY <1>1 DEF InPlan, Mutating
<1>5. i.playbook \in Playbooks
  BY <1>1 DEF Intents
<1>6. i.action = "scale" => i.playbook = "scale_out"
  BY <1>4, <1>5 DEF ActionOf, Playbooks
<1>7. i.action = "scale" => e.server = [target |-> i.target, count |-> i.current]
  BY <1>1, <1>6 DEF WantsCount
<1>8. i.action = "scale" => i.match.server.count = i.current
  BY <1>3, <1>7
<1> QED BY <1>1, <1>3, <1>4, <1>8

\* apply_intent: what is admitted.
LEMMA ApplyAdmits ==
  ASSUME GateInv, Apply, NEW i, i = analysis.intent
  PROVE  /\ writing' = i /\ i \in Intents
         /\ i.tier \in {"dev", "squad"} /\ i.target \notin DataTargets
         /\ i.action \in Mutating => i.type = "deployment"
         /\ i.action = "scale" => i.count > 0
         /\ (analysis.bridge \/ bindingOn) /\ i.action \in Mutating =>
                /\ i.match # NoHash /\ i.match.edition = edition
                /\ i.action = ActionOf[i.playbook]
                /\ i.action = "scale" => i.current # -1 /\ i.match.server.count = i.current
<1>1. writing' = i /\ i \in Intents
  BY GateTyped DEF Apply
<1>2. /\ Evaluate(GatePolicy, Axes(i)) # "block"
      /\ (analysis.bridge \/ bindingOn) /\ i.action \in Mutating => Bound(i, analysis.snapshot)
  BY DEF Apply, Admits
<1>3. /\ i.tier \in {"dev", "squad"} /\ i.target \notin DataTargets
      /\ i.action \in Mutating => i.type = "deployment"
      /\ i.action = "scale" => i.count > 0
  BY <1>1, <1>2, AdmittedIsHarmless
<1>4. (analysis.bridge \/ bindingOn) /\ i.action \in Mutating =>
          /\ i.match # NoHash /\ i.match.edition = edition
          /\ i.action = ActionOf[i.playbook]
          /\ i.action = "scale" => i.current # -1 /\ i.match.server.count = i.current
  BY <1>1, <1>2, BoundIntent
<1> QED BY <1>1, <1>3, <1>4

LEMMA CommandKeeps ==
  ASSUME GateInv, Apply \/ Write
  PROVE  GateInv'
<1> USE GateNats
<1>0. /\ replicas \in [Targets -> 0 .. MaxReplicas] /\ edition \in 1 .. MaxEdition
      /\ gateFaults \in 0 .. MaxGateFaults /\ scales \in 0 .. MaxScales
      /\ analyses \in 0 .. MaxAnalyses
  BY GateTyped DEF GateShape
<1>1. UNCHANGED <<bindingOn, edition, analysis, run, gateFaults, scales, analyses>>
  BY DEF Apply, Write
<1>2. CASE Apply
  <2>1. PICK i : i = analysis.intent
    OBVIOUS
  <2>2. writing' = i /\ i \in Intents /\ replicas' = replicas
    BY <1>2, <2>1, ApplyAdmits DEF Apply
  <2>3. CommandInv'
    <3> SUFFICES ASSUME i.match # NoHash, i.action = "scale"
                 PROVE  i.current # -1 /\ i.match.server.count = i.current
      BY <2>2 DEF CommandInv
    <3>1. analysis.bridge \/ bindingOn
      BY <2>1 DEF GateInv, StoredInv, Sound
    <3>2. i.action \in Mutating
      BY DEF Mutating
    <3> QED BY <1>2, <2>1, <3>1, <3>2, ApplyAdmits
  <2> QED BY <1>0, <1>1, <2>2, <2>3, GateTyped, IdleStep
<1>3. CASE Write
  <2>1. writing' = NoIntent /\ writing' \in Intents
    BY <1>3, IdleTypes DEF Write
  <2>2. replicas' \in [Targets -> 0 .. MaxReplicas]
    <3>1. PICK n \in 0 .. MaxReplicas : n = writing.count
      BY GateTyped DEF Intents
    <3>2. replicas' = replicas \/ replicas' = [replicas EXCEPT ![writing.target] = n]
      BY <1>3, <3>1 DEF Write
    <3> QED BY <1>0, <3>2
  <2>3. CommandInv'
    BY <2>1, IdleTypes DEF CommandInv
  <2> QED BY <1>0, <1>1, <2>1, <2>2, <2>3, GateTyped, IdleStep
<1> QED BY <1>2, <1>3

LEMMA GateStarts ==
  ASSUME GateInit
  PROVE  GateInv
<1> USE GateNats
<1>1. replicas \in [Targets -> 0 .. MaxReplicas] /\ edition \in 1 .. MaxEdition
      /\ gateFaults \in 0 .. MaxGateFaults /\ scales \in 0 .. MaxScales
      /\ analyses \in 0 .. MaxAnalyses
  BY DEF GateInit
<1>2. bindingOn \in BOOLEAN /\ run = NoRun /\ analysis = NoAnalysis /\ writing = NoIntent
  BY DEF GateInit
<1>3. GateShape
  BY <1>1, <1>2, IdleTypes DEF GateShape
<1>4. MatchInv
  BY <1>2, IdleTypes DEF MatchInv
<1>5. RunInv /\ StoredInv /\ CommandInv
  BY <1>2, IdleTypes DEF RunInv, StoredInv, CommandInv, Sound
<1> QED BY <1>3, <1>4, <1>5 DEF GateInv

LEMMA GateStep ==
  ASSUME GateInv, [GateNext]_gateVars
  PROVE  GateInv'
<1>1. CASE \E bridge \in BOOLEAN, tier \in Tiers, outcome \in Outcomes :
               Match(bridge, tier, outcome)
  BY <1>1, MatchKeeps
<1>2. CASE \E i \in LLMIntents : Suggest(i)
  BY <1>2, SuggestKeeps
<1>3. CASE \E pb \in Playbooks, target \in Targets : Render(pb, target)
  BY <1>3, RenderKeeps
<1>4. CASE \E answered \in BOOLEAN : Bind(answered)
  BY <1>4, BindKeeps
<1>5. CASE \/ NoProposal \/ Store \/ NewImage
           \/ \E target \in Targets, n \in 0 .. MaxReplicas : ScaledElsewhere(target, n)
  BY <1>5, WorldKeeps
<1>6. CASE \E pb \in Playbooks, e \in Entries, hashed \in BOOLEAN : Rewritten(pb, e, hashed)
  BY <1>6, RewriteKeeps
<1>7. CASE Apply \/ Write
  BY <1>7, CommandKeeps
<1>8. CASE UNCHANGED gateVars
  BY <1>8 DEF gateVars, GateInv, GateShape, MatchInv, RunInv, StoredInv, CommandInv, Sound
<1> QED BY <1>1, <1>2, <1>3, <1>4, <1>5, <1>6, <1>7, <1>8 DEF GateNext

LEMMA GateInvariance == GateSpec => []GateInv
<1>1. GateInit => GateInv
  BY GateStarts
<1>2. GateInv /\ [GateNext]_gateVars => GateInv'
  BY GateStep
<1> QED BY <1>1, <1>2, PTL DEF GateSpec

\* Only apply_intent admits; only the write ends a command.
LEMMA WhoWrites ==
  ASSUME [GateNext]_gateVars
  PROVE  /\ writing' # writing => Apply \/ Write
         /\ Write => writing' = NoIntent
  BY DEF GateNext, gateVars, Match, Suggest, Render, NoProposal, Bind, Store,
         ScaledElsewhere, NewImage, Rewritten, Apply, Write

(* The promise of the playbook binding, for any deployments, tiers, replicas,
   editions and any number of analyses, scalings and rewritten snapshots: where
   the binding is required, a mutating intent that passes the gate was proved by
   the facts of its own analysis, under the edition that still runs, and is the
   mutating step of its plan (match_playbooks, bind_server_params,
   check_intent_binding). *)
THEOREM BoundMeansProved == GateSpec => BoundIntentsProved
<1>1. GateInv /\ [GateNext]_gateVars =>
        [\A i \in {writing'} :
            Admitted(i) /\ i.action \in Mutating /\ (analysis.bridge \/ bindingOn) =>
              i.proved /\ i.born = edition /\ i.action = ActionOf[i.playbook]]_gateVars
  <2> SUFFICES ASSUME GateInv, [GateNext]_gateVars, NEW i, i = writing',
                      writing = NoIntent, i # NoIntent, i.action \in Mutating,
                      analysis.bridge \/ bindingOn
               PROVE  i.proved /\ i.born = edition /\ i.action = ActionOf[i.playbook]
    BY DEF Admitted
  <2>1. Apply
    BY WhoWrites
  <2>2. i = analysis.intent
    BY <2>1 DEF Apply
  <2>3. i.match # NoHash /\ i.match.edition = edition /\ i.action = ActionOf[i.playbook]
    BY <2>1, <2>2, ApplyAdmits
  <2>4. i.proved /\ i.match.edition = i.born
    BY <2>2, <2>3 DEF GateInv, StoredInv, Sound
  <2> QED BY <2>3, <2>4
<1> QED BY <1>1, GateInvariance, PTL DEF GateSpec, BoundIntentsProved

(* With the binding or without it: the gate admits nothing that changes the
   cluster outside dev and squad, on a target that looks stateful, of another type
   than a deployment or as a scale to nothing (compute_risk_axes,
   _apply_fail_closed_axes, evaluate_policy). *)
THEOREM RiskIsRefused == GateSpec => RiskyNeverAdmitted
<1>1. GateInv /\ [GateNext]_gateVars =>
        [\A i \in {writing'} : Admitted(i) /\ i.action \in Mutating =>
            /\ i.tier \in {"dev", "squad"} /\ i.target \notin DataTargets
            /\ i.type = "deployment" /\ (i.action = "scale" => i.count > 0)]_gateVars
  <2> SUFFICES ASSUME GateInv, [GateNext]_gateVars, NEW i, i = writing',
                      writing = NoIntent, i # NoIntent, i.action \in Mutating
               PROVE  /\ i.tier \in {"dev", "squad"} /\ i.target \notin DataTargets
                      /\ i.type = "deployment" /\ (i.action = "scale" => i.count > 0)
    BY DEF Admitted
  <2>1. Apply
    BY WhoWrites
  <2>2. i = analysis.intent
    BY <2>1 DEF Apply
  <2> QED BY <2>1, <2>2, ApplyAdmits
<1> QED BY <1>1, GateInvariance, PTL DEF GateSpec, RiskyNeverAdmitted

(* A bound scale writes only over the number of replicas that was read when its
   parameters were bound: whoever scaled the deployment in between is not
   overwritten (bind_server_params, to_argv with --current-replicas). *)
THEOREM ScalesAreKept == GateSpec => NoScaleLost
<1>1. GateInv /\ [GateNext]_gateVars =>
        [writing # NoIntent /\ writing.match # NoHash /\ replicas' # replicas
         /\ writing' = NoIntent =>
            replicas[writing.target] = writing.match.server.count]_gateVars
  <2> SUFFICES ASSUME GateInv, [GateNext]_gateVars, writing # NoIntent,
                      writing.match # NoHash, replicas' # replicas, writing' = NoIntent
               PROVE  replicas[writing.target] = writing.match.server.count
    OBVIOUS
  <2>1. Write
    BY WhoWrites DEF Apply
  <2>2. writing.action = "scale" /\ Precondition(writing)
    BY <2>1 DEF Write
  <2>3. writing.current # -1 /\ writing.match.server.count = writing.current
    BY <2>2 DEF GateInv, CommandInv
  <2> QED BY <2>2, <2>3 DEF Precondition
<1> QED BY <1>1, GateInvariance, PTL DEF GateSpec, NoScaleLost

=============================================================================
