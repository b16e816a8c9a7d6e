--------------------------- MODULE Sources_proofs ---------------------------
(***************************************************************************)
(* Proofs about the sources: the importers of unpacked archives (module    *)
(* TreeImport), the pushed events and webhooks (module Push), the mbox     *)
(* import (module Mbox) and the polling connectors (module Feeds).         *)
(* TreeInv, PushInv, MboxInv and FeedInv are the inductive invariants.     *)
(***************************************************************************)
EXTENDS Feeds, Push, TreeImport, Mbox, FiniteSetTheorems, WellFoundedInduction, TLAPS

-----------------------------------------------------------------------------
(* The importers of unpacked archives. *)

TreeTypes ==
    /\ leg \in {"idle", "pool", "collect", "purchases", "over"}
    /\ next \in 1..(Files + 1) /\ slot \in [AllFiles -> {"none", "ok", "err"}]
    /\ taken \subseteq 1..(next - 1) /\ running \subseteq 1..(next - 1)
    /\ purchase \in 1..(Candidates + 1)

\* The jobs in the workers' hands; they are back when the pool's leg is over.
Hands ==
    /\ taken \cap running = {} /\ Cardinality(taken \cup running) <= Pool
    /\ leg # "pool" => taken = {} /\ running = {}

\* A slot says what became of its file, and is empty exactly while its job was
\* not handed out or is in a worker's hands.
SlotsTold ==
    /\ \A f \in AllFiles : slot[f] = "ok" <=> f \in delivered
    /\ leg = "pool" => \A f \in AllFiles : slot[f] = "none" <=> f >= next \/ f \in taken \cup running
    /\ leg = "over" /\ delivered # {} => \A f \in AllFiles : slot[f] # "none"

\* How far each leg of an import has come.
Legs ==
    /\ leg \in {"pool", "collect", "purchases"} => (apple_Claims \/ walhelm_Claims) /\ verdict = "none"
    /\ leg \in {"pool", "collect"} => delivered \subseteq AllFiles /\ purchase = 1
    /\ leg \in {"collect", "purchases"} => AllFiles \subseteq delivered
    /\ leg = "purchases" => \A p \in Purchases : p < purchase => Files + p \in delivered
    /\ tmpDirs => leg = "purchases"

TreeInv == TreeTypes /\ Hands /\ SlotsTold /\ Legs /\ ImportedWhole /\ PurchasesLast

LEMMA TreeFacts ==
    /\ Files \in Nat /\ Files >= 1 /\ Candidates \in Nat /\ Pool \in Nat /\ Pool >= 1
    /\ \A p \in Purchases : p \in 1..Candidates /\ Files + p \notin AllFiles
BY TreeAssumption DEF AllFiles

LEMMA TreeStart == TreeInit => TreeInv
<1> SUFFICES ASSUME TreeInit PROVE TreeInv
  OBVIOUS
<1>1. TreeTypes
  BY TreeFacts DEF TreeInit, TreeTypes
<1>2. Hands
  <2>1. Cardinality({} \cup {}) = 0
    BY FS_EmptySet
  <2> QED BY <2>1, TreeFacts DEF TreeInit, Hands
<1>3. SlotsTold /\ Legs /\ ImportedWhole /\ PurchasesLast
  BY DEF TreeInit, SlotsTold, Legs, ImportedWhole, PurchasesLast
<1> QED BY <1>1, <1>2, <1>3 DEF TreeInv

LEMMA ImportStep == ASSUME TreeInv, Import PROVE TreeInv'
<1>0. /\ next' = 1 /\ taken' = {} /\ running' = {} /\ delivered' = {}
      /\ slot' = [f \in AllFiles |-> "none"] /\ purchase' = 1
      /\ UNCHANGED <<importer, receipt, tmpDirs>> /\ ~tmpDirs
      /\ \/ (apple_Claims \/ walhelm_Claims) /\ leg' = "pool" /\ verdict' = "none"
         \/ leg' = "over" /\ verdict' = "err"
  BY DEF Import, archiveVars, TreeInv, Legs
<1>1. TreeTypes'
  BY <1>0, TreeFacts DEF TreeTypes
<1>2. Hands'
  <2>1. Cardinality({} \cup {}) = 0
    BY FS_EmptySet
  <2> QED BY <2>1, <1>0, TreeFacts DEF Hands
<1>3. SlotsTold'
  <2>1. \A f \in AllFiles : f >= 1 /\ slot'[f] = "none"
    BY <1>0, TreeFacts DEF AllFiles
  <2> QED BY <2>1, <1>0 DEF SlotsTold
<1>4. Legs' /\ ImportedWhole' /\ PurchasesLast'
  BY <1>0 DEF Legs, ImportedWhole, PurchasesLast, apple_Claims, walhelm_Claims
<1> QED BY <1>1, <1>2, <1>3, <1>4 DEF TreeInv

\* The jobs handed out are finitely many.
LEMMA HandsFinite ==
  ASSUME TreeInv
  PROVE  IsFiniteSet(taken \cup running) /\ Cardinality(taken \cup running) \in Nat
<1>1. taken \cup running \in SUBSET (1..Files)
  BY TreeFacts DEF TreeInv, TreeTypes
<1>2. IsFiniteSet(1..Files)
  BY TreeFacts, FS_Interval
<1>3. IsFiniteSet(taken \cup running)
  BY <1>1, <1>2, FS_Subset
<1> QED BY <1>3, FS_CardinalityType

LEMMA StageAllStep == ASSUME TreeInv, stageAll PROVE TreeInv'
<1>0. /\ leg = "pool" /\ next <= Files
      /\ UNCHANGED <<importer, receipt, leg, running, purchase, tmpDirs, verdict, delivered>>
  BY DEF stageAll, archiveVars
<1>1. next \in 1..Files /\ next \notin taken \cup running /\ next \in AllFiles
  BY <1>0, TreeFacts DEF TreeInv, TreeTypes, AllFiles
<1>2. Legs' /\ ImportedWhole' /\ PurchasesLast'
  BY <1>0 DEF TreeInv, Legs, ImportedWhole, PurchasesLast, apple_Claims, walhelm_Claims
<1>3. CASE /\ Cardinality(taken \cup running) < Pool
           /\ taken' = taken \cup {next} /\ next' = next + 1 /\ slot' = slot
  <2>1. TreeTypes'
    BY <1>0, <1>1, <1>3, TreeFacts DEF TreeInv, TreeTypes
  <2>2. Hands'
    <3>1. taken' \cup running' = (taken \cup running) \cup {next}
      BY <1>0, <1>3
    <3>2. Cardinality(taken' \cup running') = Cardinality(taken \cup running) + 1
      BY <3>1, <1>1, HandsFinite, FS_AddElement
    <3>3. Cardinality(taken' \cup running') <= Pool
      BY <3>2, <1>3, HandsFinite, TreeFacts
    <3>4. taken' \cap running' = {}
      BY <1>0, <1>1, <1>3 DEF TreeInv, Hands
    <3> QED BY <3>3, <3>4, <1>0 DEF Hands
  <2>3. SlotsTold'
    <3>1. \A f \in AllFiles : f >= next + 1 \/ f = next <=> f >= next
      BY <1>1 DEF AllFiles
    <3> QED BY <3>1, <1>0, <1>1, <1>3 DEF TreeInv, SlotsTold
  <2> QED BY <2>1, <2>2, <2>3, <1>2 DEF TreeInv
<1>4. CASE /\ taken' = taken /\ next' = Files + 1
           /\ slot' = [f \in AllFiles |-> IF f >= next THEN "err" ELSE slot[f]]
  <2>0. 1..(next - 1) \subseteq 1..Files /\ next' \in 1..(Files + 1) /\ 1..(next' - 1) = 1..Files
    BY <1>1, <1>4, TreeFacts
  <2>1. TreeTypes'
    <3>1. slot' \in [AllFiles -> {"none", "ok", "err"}]
      BY <1>4 DEF TreeInv, TreeTypes
    <3>2. taken' \subseteq 1..(next' - 1) /\ running' \subseteq 1..(next' - 1)
      BY <2>0, <1>0, <1>4 DEF TreeInv, TreeTypes
    <3> QED BY <3>1, <3>2, <2>0, <1>0 DEF TreeInv, TreeTypes
  <2>2. Hands'
    BY <1>0, <1>4 DEF TreeInv, Hands
  <2>3. SlotsTold'
    <3> SUFFICES ASSUME NEW f \in AllFiles
                 PROVE  /\ slot'[f] = "ok" <=> f \in delivered
                        /\ slot'[f] = "none" <=> f >= next' \/ f \in taken' \cup running'
      BY <1>0 DEF SlotsTold
    <3>1. /\ slot[f] = "ok" <=> f \in delivered
          /\ slot[f] = "none" <=> f >= next \/ f \in taken \cup running
      BY <1>0 DEF TreeInv, SlotsTold
    <3>2. f \in Nat /\ f <= Files /\ next \in Nat
      BY <1>1, TreeFacts DEF AllFiles
    <3>3. CASE f >= next
      <4>1. f \notin taken \cup running
        BY <3>2, <3>3, <1>1 DEF TreeInv, TreeTypes
      <4> QED BY <4>1, <3>1, <3>2, <3>3, <1>0, <1>4, TreeFacts
    <3>4. CASE ~(f >= next)
      BY <3>1, <3>2, <3>4, <1>0, <1>4, TreeFacts
    <3> QED BY <3>3, <3>4
  <2> QED BY <2>1, <2>2, <2>3, <1>2 DEF TreeInv
<1> QED BY <1>3, <1>4 DEF stageAll

\* Fewer jobs in the workers' hands are within the pool too.
LEMMA FewerHands ==
  ASSUME TreeInv, NEW S, S \subseteq taken \cup running
  PROVE  Cardinality(S) <= Pool
<1>1. IsFiniteSet(S) /\ Cardinality(S) <= Cardinality(taken \cup running)
  BY HandsFinite, FS_Subset
<1>2. Cardinality(S) \in Nat
  BY <1>1, FS_CardinalityType
<1> QED BY <1>1, <1>2, HandsFinite, TreeFacts DEF TreeInv, Hands

LEMMA WorkerStep == ASSUME TreeInv, NEW f \in AllFiles, Worker(f) PROVE TreeInv'
<1>0. /\ f \in taken /\ taken' = taken \ {f}
      /\ \/ slot' = [slot EXCEPT ![f] = "err"] /\ running' = running
         \/ running' = running \cup {f} /\ slot' = slot
      /\ UNCHANGED <<importer, receipt, leg, next, purchase, tmpDirs, verdict, delivered>>
  BY DEF Worker, archiveVars
<1>1. leg = "pool" /\ f \notin running /\ f < next /\ slot[f] = "none" /\ f \notin delivered
  <2>1. leg = "pool" /\ f \notin running
    BY <1>0 DEF TreeInv, Hands
  <2>2. slot[f] = "none"
    BY <1>0, <2>1 DEF TreeInv, SlotsTold
  <2>3. f < next
    BY <1>0, TreeFacts DEF TreeInv, TreeTypes
  <2> QED BY <2>1, <2>2, <2>3 DEF TreeInv, SlotsTold
<1>2. Legs' /\ ImportedWhole' /\ PurchasesLast'
  BY <1>0 DEF TreeInv, Legs, ImportedWhole, PurchasesLast, apple_Claims, walhelm_Claims
<1>3. Hands'
  <2>1. taken' \cup running' \subseteq taken \cup running /\ taken' \cap running' = {}
    BY <1>0 DEF TreeInv, Hands
  <2> QED BY <2>1, <1>0, <1>1, FewerHands DEF Hands
<1>4. TreeTypes'
  BY <1>0 DEF TreeInv, TreeTypes
<1>5. SlotsTold'
  <2> SUFFICES ASSUME NEW g \in AllFiles
               PROVE  /\ slot'[g] = "ok" <=> g \in delivered
                      /\ slot'[g] = "none" <=> g >= next \/ g \in taken' \cup running'
    BY <1>0, <1>1 DEF SlotsTold
  <2>1. /\ slot[g] = "ok" <=> g \in delivered
        /\ slot[g] = "none" <=> g >= next \/ g \in taken \cup running
    BY <1>1 DEF TreeInv, SlotsTold
  <2>2. CASE g = f
    <3>1. ~(f >= next)
      BY <1>1, TreeFacts DEF TreeInv, TreeTypes, AllFiles
    <3> QED BY <3>1, <2>1, <2>2, <1>0, <1>1 DEF TreeInv, TreeTypes
  <2>3. CASE g # f
    BY <2>1, <2>3, <1>0 DEF TreeInv, TreeTypes
  <2> QED BY <2>2, <2>3
<1> QED BY <1>2, <1>3, <1>4, <1>5 DEF TreeInv

LEMMA StageFileStep == ASSUME TreeInv, NEW f \in AllFiles, StageFile(f) PROVE TreeInv'
<1>0. /\ f \in running /\ running' = running \ {f}
      /\ \/ slot' = [slot EXCEPT ![f] = "ok"] /\ delivered' = delivered \cup {f}
         \/ slot' = [slot EXCEPT ![f] = "err"] /\ delivered' = delivered
      /\ UNCHANGED <<importer, receipt, leg, next, taken, purchase, tmpDirs, verdict>>
  BY DEF StageFile, archiveVars
<1>1. leg = "pool" /\ f \notin taken /\ f < next /\ slot[f] = "none" /\ f \notin delivered
  <2>1. leg = "pool" /\ f \notin taken
    BY <1>0 DEF TreeInv, Hands
  <2>2. slot[f] = "none"
    BY <1>0, <2>1 DEF TreeInv, SlotsTold
  <2>3. f < next
    BY <1>0, TreeFacts DEF TreeInv, TreeTypes
  <2> QED BY <2>1, <2>2, <2>3 DEF TreeInv, SlotsTold
<1>2. Legs'
  BY <1>0, <1>1 DEF TreeInv, Legs, apple_Claims, walhelm_Claims
<1>3. Hands'
  <2>1. taken' \cup running' \subseteq taken \cup running /\ taken' \cap running' = {}
    BY <1>0 DEF TreeInv, Hands
  <2> QED BY <2>1, <1>0, <1>1, FewerHands DEF Hands
<1>4. TreeTypes'
  BY <1>0 DEF TreeInv, TreeTypes
<1>5. SlotsTold'
  <2> SUFFICES ASSUME NEW g \in AllFiles
               PROVE  /\ slot'[g] = "ok" <=> g \in delivered'
                      /\ slot'[g] = "none" <=> g >= next \/ g \in taken' \cup running'
    BY <1>0, <1>1 DEF SlotsTold
  <2>1. /\ slot[g] = "ok" <=> g \in delivered
        /\ slot[g] = "none" <=> g >= next \/ g \in taken \cup running
    BY <1>1 DEF TreeInv, SlotsTold
  <2>2. CASE g = f
    <3>1. ~(f >= next)
      BY <1>1, TreeFacts DEF TreeInv, TreeTypes, AllFiles
    <3> QED BY <3>1, <2>1, <2>2, <1>0, <1>1 DEF TreeInv, TreeTypes
  <2>3. CASE g # f
    BY <2>1, <2>3, <1>0 DEF TreeInv, TreeTypes
  <2> QED BY <2>2, <2>3
<1>6. ImportedWhole' /\ PurchasesLast'
  <2>1. delivered' \subseteq AllFiles
    BY <1>0, <1>1 DEF TreeInv, Legs
  <2> QED BY <2>1, <1>0, <1>1, TreeFacts DEF ImportedWhole, PurchasesLast
<1> QED BY <1>2, <1>3, <1>4, <1>5, <1>6 DEF TreeInv

LEMMA TallyStep == ASSUME TreeInv, Tally PROVE TreeInv'
<1> DEFINE bad == \E f \in AllFiles : slot[f] = "err"
<1>0. /\ leg = "pool" /\ next > Files /\ taken = {} /\ running = {}
      /\ UNCHANGED <<importer, receipt, next, taken, running, slot, purchase, tmpDirs, delivered>>
      /\ leg' = IF ~bad /\ receipt = "media-services" THEN "collect" ELSE "over"
      /\ verdict' = IF bad THEN "err" ELSE IF leg' = "over" THEN "ok" ELSE verdict
  BY DEF Tally, archiveVars
<1>1. \A f \in AllFiles : slot[f] # "none"
  <2>1. \A f \in AllFiles : ~(f >= next)
    BY <1>0, TreeFacts DEF TreeInv, TreeTypes, AllFiles
  <2> QED BY <2>1, <1>0 DEF TreeInv, SlotsTold
<1>2. ~bad => AllFiles \subseteq delivered
  <2>1. ASSUME ~bad, NEW f \in AllFiles PROVE slot[f] = "ok"
    BY <2>1, <1>1 DEF TreeInv, TreeTypes
  <2> QED BY <2>1 DEF TreeInv, SlotsTold
<1>3. leg' \in {"collect", "over"} /\ ~tmpDirs
  BY <1>0 DEF TreeInv, Legs
<1> HIDE DEF bad
<1>4. TreeTypes' /\ Hands' /\ SlotsTold' /\ PurchasesLast'
  BY <1>0, <1>1, <1>3 DEF TreeInv, TreeTypes, Hands, SlotsTold, PurchasesLast
<1>5. Legs' /\ ImportedWhole'
  <2>1. apple_Claims' = apple_Claims /\ walhelm_Claims' = walhelm_Claims
    BY <1>0 DEF apple_Claims, walhelm_Claims
  <2>2. Legs'
    BY <2>1, <1>0, <1>2, <1>3 DEF TreeInv, Legs
  <2>3. ImportedWhole'
    BY <2>1, <1>0, <1>2, <1>3 DEF TreeInv, Legs, ImportedWhole
  <2> QED BY <2>2, <2>3
<1> QED BY <1>4, <1>5 DEF TreeInv

LEMMA CollectStep == ASSUME TreeInv, collectMediaServicesCSVs PROVE TreeInv'
<1>0. /\ leg = "collect"
      /\ \/ leg' = "purchases" /\ verdict' = verdict
         \/ leg' = "over" /\ verdict' = "err" /\ tmpDirs' = FALSE
      /\ UNCHANGED <<importer, receipt, next, taken, running, slot, purchase, delivered>>
  BY DEF collectMediaServicesCSVs, UnpackZip, archiveVars
<1>1. \A p \in Purchases : ~(p < 1)
  BY TreeFacts
<1>2. \A f \in AllFiles : slot[f] # "none"
  BY <1>0 DEF TreeInv, SlotsTold, Legs
<1>3. TreeTypes' /\ Hands' /\ SlotsTold' /\ PurchasesLast'
  BY <1>0, <1>2 DEF TreeInv, TreeTypes, Hands, SlotsTold, PurchasesLast
<1>4. Legs' /\ ImportedWhole'
  <2>1. apple_Claims' = apple_Claims /\ walhelm_Claims' = walhelm_Claims
    BY <1>0 DEF apple_Claims, walhelm_Claims
  <2> QED BY <2>1, <1>0, <1>1 DEF TreeInv, Legs, ImportedWhole
<1> QED BY <1>3, <1>4 DEF TreeInv

LEMMA PurchasesStep == ASSUME TreeInv, stageMediaServicesPurchases PROVE TreeInv'
<1>0. /\ leg = "purchases"
      /\ UNCHANGED <<importer, receipt, next, taken, running, slot>>
      /\ apple_Claims' = apple_Claims /\ walhelm_Claims' = walhelm_Claims
      /\ purchase \in 1..(Candidates + 1) /\ AllFiles \subseteq delivered
      /\ \A f \in AllFiles : slot[f] # "none"
  BY DEF stageMediaServicesPurchases, archiveVars, TreeInv, TreeTypes, Legs, SlotsTold, apple_Claims, walhelm_Claims
<1>1. CASE /\ purchase <= Candidates /\ purchase' = purchase + 1
           /\ delivered' = IF isPurchaseFile(purchase) THEN delivered \cup {Files + purchase} ELSE delivered
           /\ UNCHANGED <<leg, verdict, tmpDirs>>
  <2>1. delivered \subseteq delivered' /\ \A f \in AllFiles : f \in delivered' <=> f \in delivered
    BY <1>0, <1>1
  <2>2. TreeTypes' /\ Hands'
    BY <1>0, <1>1, TreeFacts DEF TreeInv, TreeTypes, Hands
  <2>3. SlotsTold' /\ ImportedWhole' /\ PurchasesLast'
    BY <2>1, <1>0, <1>1 DEF TreeInv, SlotsTold, ImportedWhole, PurchasesLast
  <2>4. ASSUME NEW p \in Purchases, p < purchase' PROVE Files + p \in delivered'
    <3>1. CASE p = purchase
      BY <3>1, <1>1 DEF isPurchaseFile
    <3>2. CASE p < purchase
      BY <3>2, <2>1, <1>0 DEF TreeInv, Legs
    <3> QED BY <3>1, <3>2, <2>4, <1>0, <1>1, TreeFacts
  <2>5. Legs'
    BY <2>1, <2>4, <1>0, <1>1 DEF TreeInv, Legs
  <2> QED BY <2>2, <2>3, <2>5 DEF TreeInv
<1>2. CASE leg' = "over" /\ verdict' = "err" /\ tmpDirs' = FALSE /\ UNCHANGED <<purchase, delivered>>
  BY <1>0, <1>2 DEF TreeInv, TreeTypes, Hands, SlotsTold, Legs, ImportedWhole, PurchasesLast
<1>3. CASE /\ purchase > Candidates /\ leg' = "over" /\ verdict' = "ok" /\ tmpDirs' = FALSE
           /\ UNCHANGED <<purchase, delivered>>
  <2>1. \A p \in Purchases : p < purchase
    BY <1>0, <1>3, TreeFacts
  <2>2. ImportedWhole'
    BY <2>1, <1>0, <1>3 DEF TreeInv, Legs, ImportedWhole
  <2> QED BY <2>2, <1>0, <1>3 DEF TreeInv, TreeTypes, Hands, SlotsTold, Legs, PurchasesLast
<1> QED BY <1>1, <1>2, <1>3 DEF stageMediaServicesPurchases

LEMMA TreeStep == TreeInv /\ [TreeNext]_treeVars => TreeInv'
<1> SUFFICES ASSUME TreeInv, [TreeNext]_treeVars PROVE TreeInv'
  OBVIOUS
<1>1. CASE Again \/ Halt \/ UNCHANGED treeVars
  <2>1. /\ UNCHANGED <<importer, receipt, next, taken, running, slot, purchase, tmpDirs, verdict, delivered>>
        /\ leg' = leg \/ (leg = "over" /\ leg' = "idle")
    BY <1>1 DEF Again, Halt, treeVars, archiveVars
  <2> QED BY <2>1 DEF TreeInv, TreeTypes, Hands, SlotsTold, Legs, ImportedWhole, PurchasesLast,
          apple_Claims, walhelm_Claims
<1>2. CASE TreeWork
  BY <1>2, StageAllStep, TallyStep, CollectStep, PurchasesStep, WorkerStep, StageFileStep DEF TreeWork
<1> QED BY <1>1, <1>2, ImportStep DEF TreeNext

\* An import of an unpacked archive tells the truth about what it staged, for
\* any number of files, tables, workers, runs and faults: the results have no
\* holes, success means the whole tree with its tables of purchases, and no
\* unpacked copy is left behind (Import, stageAll, stageMediaServicesPurchases).
THEOREM TreeIsSafe == TreeSpec => []TreeSafe
<1>1. TreeInv => TreeSafe
  BY DEF TreeInv, TreeTypes, Hands, SlotsTold, Legs, TreeSafe, PoolBounded, ResultsTold
<1>2. TreeSpec => []TreeInv
  BY TreeStart, TreeStep, PTL DEF TreeSpec
<1> QED BY <1>1, <1>2, PTL

-----------------------------------------------------------------------------
(* Pushed events and webhooks. *)

FrameItem == [event : CameraEvents, frames : SUBSET (1..MaxFrames), incomplete : BOOLEAN]

PushTypes ==
    /\ read \in [CameraEvents -> 0..MaxFrames]
    /\ open \in [CameraEvents -> SUBSET (1..MaxFrames)] /\ lost \in [CameraEvents -> SUBSET (1..MaxFrames)]
    /\ ended \subseteq CameraEvents /\ aged \subseteq CameraEvents
    /\ \A e \in stale : e \in CameraEvents /\ open[e] # {}
    /\ \A e \in ended : open[e] = {}
    /\ \A i \in OnTheWay : i \in FrameItem /\ i.frames # {}
    /\ \A i, j \in closing : i = j
    /\ trouble \in 0..MaxPushFaults

\* FramesAccounted frame by frame: every frame read has a place, and no two
\* places share one.
EachPlaced ==
    /\ \A e \in CameraEvents : \A n \in 1..read[e] :
         n \in open[e] \/ n \in lost[e] \/ \E i \in OnTheWay : i.event = e /\ n \in i.frames
    /\ \A e \in CameraEvents : open[e] \subseteq 1..read[e] /\ lost[e] \subseteq 1..read[e]
    /\ \A i \in OnTheWay : i.frames \subseteq 1..read[i.event]
    /\ \A e \in CameraEvents : open[e] \cap lost[e] = {}
    /\ \A i \in OnTheWay : i.frames \cap open[i.event] = {} /\ i.frames \cap lost[i.event] = {}
    /\ \A i, j \in OnTheWay : i.event = j.event /\ i # j => i.frames \cap j.frames = {}
    /\ items \cap sweeping = {} /\ items \cap closing = {} /\ sweeping \cap closing = {}

\* IncompleteIsTold of the items still on their way too.
EndTold == \A i \in OnTheWay : i.incomplete <=> ~(i.event \in ended /\ read[i.event] \in i.frames)

\* An event that was never swept or hit is taken from the table only when it
\* ends, as one item.
OneUnlessAged ==
    \A i \in OnTheWay : i.event \notin aged =>
        i.event \in ended /\ \A j \in OnTheWay : j.event = i.event => j = i

\* While nothing went wrong, a body that is still sent was not staged.
HookInv ==
    /\ post \in {"pending", "delivered", "unmatched"} /\ hits \in [{1, 2} -> 0..2]
    /\ trouble = 0 /\ post = "pending" => hits[1] = 0
    /\ DeliveredIsStaged

CameraInv == PushTypes /\ EachPlaced /\ EndTold /\ OneUnlessAged
PushInv == CameraInv /\ HookInv

LEMMA PushStart == PushInit => PushInv
<1> SUFFICES ASSUME PushInit PROVE PushInv
  OBVIOUS
<1>1. OnTheWay = {}
  BY DEF PushInit, OnTheWay
<1>2. PushTypes
  BY <1>1, PushAssumption DEF PushInit, PushTypes
<1>3. EachPlaced /\ EndTold /\ OneUnlessAged
  BY <1>1 DEF PushInit, EachPlaced, EndTold, OneUnlessAged
<1>4. HookInv
  BY DEF PushInit, HookInv, DeliveredIsStaged
<1> QED BY <1>2, <1>3, <1>4 DEF PushInv, CameraInv

\* What a step changes of the table of open events and of the frames' places.
LEMMA FrameStep ==
  ASSUME CameraInv, NEW e \in CameraEvents, NEW last \in BOOLEAN, handleFrame(e, last)
  PROVE  CameraInv'
<1> DEFINE merged == open[e] \cup {read[e] + 1}
<1>0. /\ closing = {} /\ e \notin ended /\ read[e] \in Nat /\ read[e] + 1 \in 1..MaxFrames
      /\ read' = [read EXCEPT ![e] = @ + 1] /\ stale' = stale \ {e}
      /\ UNCHANGED <<sweeping, items, lost, aged, trouble>>
  <2>1. /\ closing = {} /\ e \notin ended /\ read[e] < MaxFrames
        /\ read' = [read EXCEPT ![e] = @ + 1] /\ stale' = stale \ {e}
        /\ UNCHANGED <<sweeping, items, lost, aged, trouble>>
    BY DEF handleFrame
  <2>2. read[e] \in 0..MaxFrames
    BY DEF CameraInv, PushTypes
  <2> QED BY <2>1, <2>2, PushAssumption
<1>1. /\ read'[e] = read[e] + 1 /\ \A x \in CameraEvents : x # e => read'[x] = read[x]
      /\ read' \in [CameraEvents -> 0..MaxFrames]
      /\ \A x \in CameraEvents : read[x] \in Nat /\ 1..read[x] \subseteq 1..read'[x]
      /\ \A n \in 1..read'[e] : n \in 1..read[e] \/ n = read[e] + 1
  <2>1. read \in [CameraEvents -> 0..MaxFrames]
    BY DEF CameraInv, PushTypes
  <2>2. read' \in [CameraEvents -> 0..MaxFrames] /\ read'[e] = read[e] + 1
    BY <2>1, <1>0, PushAssumption
  <2>3. \A x \in CameraEvents : x # e => read'[x] = read[x]
    BY <2>1, <1>0
  <2>4. \A x \in CameraEvents : read[x] \in Nat
    BY <2>1
  <2> QED BY <2>2, <2>3, <2>4
<1>2. merged \subseteq 1..MaxFrames /\ merged \subseteq 1..read'[e] /\ merged # {}
      /\ read[e] + 1 \notin 1..read[e]
  BY <1>0, <1>1 DEF CameraInv, PushTypes, EachPlaced
<1> HIDE DEF merged
<1>3. CASE ~last
  <2>1. open' = [open EXCEPT ![e] = merged] /\ UNCHANGED <<closing, ended>>
    BY <1>3 DEF handleFrame, merged
  <2>2. OnTheWay' = OnTheWay
    BY <2>1, <1>0 DEF OnTheWay
  <2>3. /\ open'[e] = merged /\ \A x \in CameraEvents : x # e => open'[x] = open[x]
        /\ open' \in [CameraEvents -> SUBSET (1..MaxFrames)]
    BY <2>1, <1>2 DEF CameraInv, PushTypes
  <2>4. PushTypes'
    BY <2>1, <2>2, <2>3, <1>0, <1>1, <1>2 DEF CameraInv, PushTypes
  <2>5. EachPlaced'
    <3>1. \A x \in CameraEvents : \A n \in 1..read'[x] :
            n \in open'[x] \/ n \in lost'[x] \/ \E i \in OnTheWay : i.event = x /\ n \in i.frames
      BY <2>3, <1>0, <1>1 DEF CameraInv, EachPlaced, merged
    <3>2. \A x \in CameraEvents : open'[x] \subseteq 1..read'[x] /\ lost'[x] \subseteq 1..read'[x]
      BY <2>3, <1>0, <1>1, <1>2 DEF CameraInv, EachPlaced
    <3>3. \A i \in OnTheWay : i.frames \subseteq 1..read'[i.event]
      BY <1>1 DEF CameraInv, EachPlaced, PushTypes, FrameItem
    <3>4. \A x \in CameraEvents : open'[x] \cap lost'[x] = {}
      BY <2>3, <1>0, <1>2 DEF CameraInv, EachPlaced, merged
    <3>5. \A i \in OnTheWay : i.frames \cap open'[i.event] = {} /\ i.frames \cap lost'[i.event] = {}
      <4> SUFFICES ASSUME NEW i \in OnTheWay
                   PROVE  i.frames \cap open'[i.event] = {} /\ i.frames \cap lost'[i.event] = {}
        OBVIOUS
      <4>1. i.event \in CameraEvents
        BY DEF CameraInv, PushTypes, FrameItem
      <4> QED BY <4>1, <2>3, <1>0, <1>2 DEF CameraInv, EachPlaced, merged
    <3> QED BY <3>1, <3>2, <3>3, <3>4, <3>5, <2>1, <2>2, <1>0 DEF CameraInv, EachPlaced
  <2>6. EndTold'
    <3> SUFFICES ASSUME NEW i \in OnTheWay
                 PROVE  i.incomplete <=> ~(i.event \in ended /\ read'[i.event] \in i.frames)
      BY <2>1, <2>2 DEF EndTold
    <3>1. i.event \in CameraEvents /\ (i.event \in ended => read'[i.event] = read[i.event])
      BY <1>0, <1>1 DEF CameraInv, PushTypes, FrameItem
    <3> QED BY <3>1 DEF CameraInv, EndTold
  <2>7. OneUnlessAged'
    BY <2>1, <2>2, <1>0 DEF CameraInv, OneUnlessAged
  <2> QED BY <2>4, <2>5, <2>6, <2>7 DEF CameraInv
<1>4. CASE last
  <2> DEFINE it == Item(e, merged, TRUE)
  <2>1. open' = [open EXCEPT ![e] = {}] /\ closing' = {it} /\ ended' = ended \cup {e}
    BY <1>4 DEF handleFrame, merged
  <2>2. /\ it \in FrameItem /\ it.event = e /\ it.frames = merged /\ ~it.incomplete
    BY <1>2 DEF Item, FrameItem
  <2> HIDE DEF it
  <2>3. OnTheWay' = OnTheWay \cup {it}
    BY <2>1, <1>0 DEF OnTheWay
  <2>4. /\ open'[e] = {} /\ \A x \in CameraEvents : x # e => open'[x] = open[x]
        /\ open' \in [CameraEvents -> SUBSET (1..MaxFrames)]
    BY <2>1 DEF CameraInv, PushTypes
  <2>5. \A i \in OnTheWay : i.event \in CameraEvents /\ read[e] + 1 \in merged
                            /\ (i.event = e => read[e] + 1 \notin i.frames /\ i.frames \cap merged = {})
    BY <1>2 DEF CameraInv, PushTypes, FrameItem, EachPlaced, merged
  <2>6. it \notin OnTheWay
    BY <2>2, <2>5
  <2>7. PushTypes'
    BY <2>1, <2>2, <2>3, <2>4, <1>0, <1>1, <1>2 DEF CameraInv, PushTypes
  <2>8. EachPlaced'
    <3>1. \A x \in CameraEvents : \A n \in 1..read'[x] :
            n \in open'[x] \/ n \in lost'[x] \/ \E i \in OnTheWay' : i.event = x /\ n \in i.frames
      <4> SUFFICES ASSUME NEW x \in CameraEvents, NEW n \in 1..read'[x], n \notin lost'[x], n \notin open'[x]
                   PROVE  \E i \in OnTheWay' : i.event = x /\ n \in i.frames
        OBVIOUS
      <4>1. CASE x # e
        BY <4>1, <2>3, <2>4, <1>0, <1>1 DEF CameraInv, EachPlaced
      <4>2. CASE x = e /\ n \in merged
        BY <4>2, <2>2, <2>3
      <4>3. CASE x = e /\ n \notin merged
        <5>1. n \in 1..read[e] /\ n \notin open[e]
          BY <4>3, <1>1 DEF merged
        <5> QED BY <5>1, <4>3, <2>3, <1>0 DEF CameraInv, EachPlaced
      <4> QED BY <4>1, <4>2, <4>3
    <3>2. \A x \in CameraEvents : open'[x] \subseteq 1..read'[x] /\ lost'[x] \subseteq 1..read'[x]
      BY <2>4, <1>0, <1>1, <1>2 DEF CameraInv, EachPlaced
    <3>3. \A i \in OnTheWay' : i.frames \subseteq 1..read'[i.event]
      BY <2>2, <2>3, <2>5, <1>1, <1>2 DEF CameraInv, EachPlaced
    <3>4. \A x \in CameraEvents : open'[x] \cap lost'[x] = {}
      BY <2>4, <1>0 DEF CameraInv, EachPlaced
    <3>5. \A i \in OnTheWay' : i.frames \cap open'[i.event] = {} /\ i.frames \cap lost'[i.event] = {}
      <4>1. merged \cap lost[e] = {}
        BY <1>2 DEF CameraInv, EachPlaced, merged
      <4>2. ASSUME NEW i \in OnTheWay
            PROVE  i.frames \cap open'[i.event] = {} /\ i.frames \cap lost'[i.event] = {}
        BY <2>4, <2>5, <1>0 DEF CameraInv, EachPlaced
      <4>3. it.frames \cap open'[it.event] = {} /\ it.frames \cap lost'[it.event] = {}
        BY <4>1, <2>2, <2>4, <1>0
      <4> QED BY <4>2, <4>3, <2>3
    <3>6. \A i, j \in OnTheWay' : i.event = j.event /\ i # j => i.frames \cap j.frames = {}
      BY <2>2, <2>3, <2>5 DEF CameraInv, EachPlaced
    <3>7. items' \cap sweeping' = {} /\ items' \cap closing' = {} /\ sweeping' \cap closing' = {}
      BY <2>1, <2>6, <1>0 DEF CameraInv, EachPlaced, OnTheWay
    <3> QED BY <3>1, <3>2, <3>3, <3>4, <3>5, <3>6, <3>7 DEF EachPlaced
  <2>9. EndTold'
    <3> SUFFICES ASSUME NEW i \in OnTheWay'
                 PROVE  i.incomplete <=> ~(i.event \in ended' /\ read'[i.event] \in i.frames)
      BY DEF EndTold
    <3>1. CASE i = it
      BY <3>1, <2>1, <2>2, <1>1 DEF merged
    <3>2. CASE i \in OnTheWay /\ i.event = e
      BY <3>2, <2>1, <2>5, <1>0, <1>1 DEF CameraInv, EndTold
    <3>3. CASE i \in OnTheWay /\ i.event # e
      BY <3>3, <2>1, <2>5, <1>1 DEF CameraInv, EndTold
    <3> QED BY <3>1, <3>2, <3>3, <2>3
  <2>10. OneUnlessAged'
    <3>1. e \notin aged => \A i \in OnTheWay : i.event # e
      BY <1>0 DEF CameraInv, OneUnlessAged
    <3> QED BY <3>1, <2>1, <2>2, <2>3, <1>0 DEF CameraInv, OneUnlessAged
  <2> QED BY <2>7, <2>8, <2>9, <2>10 DEF CameraInv
<1> QED BY <1>3, <1>4

LEMMA FlushStep == ASSUME CameraInv, flushStale PROVE CameraInv'
<1> DEFINE swept == {Item(e, open[e], FALSE) : e \in stale}
<1>0. /\ sweeping' = sweeping \cup swept
      /\ open' = [e \in CameraEvents |-> IF e \in stale THEN {} ELSE open[e]]
      /\ aged' = aged \cup stale /\ stale' = {}
      /\ UNCHANGED <<read, ended, closing, items, lost, trouble>>
  BY DEF flushStale
<1>1. \A i \in swept : /\ i \in FrameItem /\ i.event \in stale /\ i.frames = open[i.event] /\ i.incomplete
                       /\ i = Item(i.event, open[i.event], FALSE)
  <2> SUFFICES ASSUME NEW e \in stale, NEW i, i = Item(e, open[e], FALSE)
               PROVE  /\ i \in FrameItem /\ i.event \in stale /\ i.frames = open[i.event] /\ i.incomplete
                      /\ i = Item(i.event, open[i.event], FALSE)
    OBVIOUS
  <2>1. e \in CameraEvents /\ open[e] \in SUBSET (1..MaxFrames)
    BY DEF CameraInv, PushTypes
  <2>2. i.event = e /\ i.frames = open[e] /\ i.incomplete /\ i \in FrameItem
    BY <2>1 DEF Item, FrameItem
  <2> QED BY <2>2
<1>2. \A e \in stale : \E i \in swept : i.event = e /\ i.frames = open[e]
  <2> SUFFICES ASSUME NEW e \in stale PROVE \E i \in swept : i.event = e /\ i.frames = open[e]
    OBVIOUS
  <2>1. Item(e, open[e], FALSE) \in swept
    OBVIOUS
  <2>2. Item(e, open[e], FALSE).event = e /\ Item(e, open[e], FALSE).frames = open[e]
    BY DEF Item
  <2> QED BY <2>1, <2>2
<1> HIDE DEF swept
<1>3. OnTheWay' = OnTheWay \cup swept
  BY <1>0 DEF OnTheWay
<1>4. \A e \in stale : e \in CameraEvents /\ open[e] # {} /\ e \notin ended
  BY DEF CameraInv, PushTypes
<1>5. /\ \A e \in CameraEvents : open'[e] \subseteq open[e] /\ (e \notin stale => open'[e] = open[e])
                                 /\ (e \in stale => open'[e] = {})
      /\ open' \in [CameraEvents -> SUBSET (1..MaxFrames)]
  BY <1>0 DEF CameraInv, PushTypes
<1>6. \A i \in OnTheWay : \A j \in swept : i # j /\ (i.event = j.event => i.frames \cap j.frames = {})
  <2> SUFFICES ASSUME NEW i \in OnTheWay, NEW j \in swept
               PROVE  i # j /\ (i.event = j.event => i.frames \cap j.frames = {})
    OBVIOUS
  <2>1. j.frames = open[j.event] /\ j.frames # {}
    BY <1>1, <1>4
  <2>2. i.frames \cap open[i.event] = {}
    BY DEF CameraInv, EachPlaced
  <2> QED BY <2>1, <2>2
<1>7. PushTypes'
  <2>1. \A i \in OnTheWay' : i \in FrameItem /\ i.frames # {}
    BY <1>1, <1>3, <1>4 DEF CameraInv, PushTypes
  <2>2. aged' \subseteq CameraEvents /\ \A e \in ended' : open'[e] = {}
    BY <1>0, <1>4, <1>5 DEF CameraInv, PushTypes
  <2> QED BY <2>1, <2>2, <1>0, <1>5 DEF CameraInv, PushTypes
<1>8. EachPlaced'
  <2>1. \A x \in CameraEvents : \A n \in 1..read'[x] :
          n \in open'[x] \/ n \in lost'[x] \/ \E i \in OnTheWay' : i.event = x /\ n \in i.frames
    <3> SUFFICES ASSUME NEW x \in CameraEvents, NEW n \in 1..read[x], n \notin lost[x], n \notin open'[x]
                 PROVE  \E i \in OnTheWay \cup swept : i.event = x /\ n \in i.frames
      BY <1>0, <1>3
    <3>1. CASE n \in open[x]
      BY <3>1, <1>2, <1>5
    <3>2. CASE n \notin open[x]
      BY <3>2 DEF CameraInv, EachPlaced
    <3> QED BY <3>1, <3>2
  <2>2. \A x \in CameraEvents : open'[x] \subseteq 1..read'[x] /\ lost'[x] \subseteq 1..read'[x]
    BY <1>0, <1>5 DEF CameraInv, EachPlaced
  <2>3. \A i \in OnTheWay' : i.frames \subseteq 1..read'[i.event]
    BY <1>0, <1>1, <1>3, <1>4 DEF CameraInv, EachPlaced
  <2>4. \A x \in CameraEvents : open'[x] \cap lost'[x] = {}
    BY <1>0, <1>5 DEF CameraInv, EachPlaced
  <2>5. \A i \in OnTheWay' : i.frames \cap open'[i.event] = {} /\ i.frames \cap lost'[i.event] = {}
    <3>1. ASSUME NEW i \in OnTheWay
          PROVE  i.frames \cap open'[i.event] = {} /\ i.frames \cap lost'[i.event] = {}
      <4>1. i.event \in CameraEvents
        BY DEF CameraInv, PushTypes, FrameItem
      <4> QED BY <4>1, <1>0, <1>5 DEF CameraInv, EachPlaced
    <3>2. ASSUME NEW i \in swept
          PROVE  i.frames \cap open'[i.event] = {} /\ i.frames \cap lost'[i.event] = {}
      <4>1. i.event \in stale /\ i.frames = open[i.event]
        BY <1>1
      <4>2. i.event \in CameraEvents /\ open'[i.event] = {}
        BY <4>1, <1>4, <1>5
      <4>3. open[i.event] \cap lost[i.event] = {}
        BY <4>2 DEF CameraInv, EachPlaced
      <4> QED BY <4>1, <4>2, <4>3, <1>0
    <3> QED BY <3>1, <3>2, <1>3
  <2>6. \A i, j \in OnTheWay' : i.event = j.event /\ i # j => i.frames \cap j.frames = {}
    <3>1. \A i, j \in swept : i.event = j.event => i = j
      BY <1>1
    <3>2. \A i, j \in OnTheWay : i.event = j.event /\ i # j => i.frames \cap j.frames = {}
      BY DEF CameraInv, EachPlaced
    <3> QED BY <3>1, <3>2, <1>3, <1>6
  <2>7. items' \cap sweeping' = {} /\ items' \cap closing' = {} /\ sweeping' \cap closing' = {}
    BY <1>0, <1>6 DEF CameraInv, EachPlaced, OnTheWay
  <2> QED BY <2>1, <2>2, <2>3, <2>4, <2>5, <2>6, <2>7 DEF EachPlaced
<1>9. EndTold'
  BY <1>0, <1>1, <1>3, <1>4 DEF CameraInv, EndTold
<1>10. OneUnlessAged'
  <2> SUFFICES ASSUME NEW i \in OnTheWay', i.event \notin aged'
               PROVE  i.event \in ended' /\ \A j \in OnTheWay' : j.event = i.event => j = i
    BY DEF OneUnlessAged
  <2>1. i \in OnTheWay /\ i.event \notin aged /\ i.event \notin stale
    BY <1>0, <1>1, <1>3
  <2> QED BY <2>1, <1>0, <1>1, <1>3 DEF CameraInv, OneUnlessAged
<1> QED BY <1>7, <1>8, <1>9, <1>10 DEF CameraInv

LEMMA StageStep ==
  ASSUME CameraInv, NEW i, i \in closing \cup sweeping, stage(i)
  PROVE  CameraInv'
<1>0. /\ closing' = closing \ {i} /\ sweeping' = sweeping \ {i}
      /\ UNCHANGED <<read, ended, open, stale>>
  BY DEF stage
<1>1. i \in OnTheWay /\ i \notin items /\ i \in FrameItem /\ i.event \in CameraEvents
      /\ i.frames \subseteq 1..MaxFrames
  <2>1. i \in OnTheWay /\ i \notin items
    BY DEF OnTheWay, CameraInv, EachPlaced
  <2> QED BY <2>1 DEF CameraInv, PushTypes, FrameItem
<1>2. CASE items' = items \cup {i} /\ UNCHANGED <<lost, aged, trouble>>
  <2>1. OnTheWay' = OnTheWay
    BY <1>0, <1>2 DEF OnTheWay
  <2>2. items' \cap sweeping' = {} /\ items' \cap closing' = {} /\ sweeping' \cap closing' = {}
    BY <1>0, <1>2 DEF CameraInv, EachPlaced
  <2> QED BY <2>1, <2>2, <1>0, <1>2 DEF CameraInv, PushTypes, EachPlaced, EndTold, OneUnlessAged
<1>3. CASE /\ Trouble /\ items' = items
           /\ lost' = [lost EXCEPT ![i.event] = @ \cup i.frames]
           /\ aged' = aged \cup {i.event}
  <2>1. OnTheWay' = OnTheWay \ {i}
    BY <1>0, <1>1, <1>3 DEF OnTheWay
  <2>2. /\ lost'[i.event] = lost[i.event] \cup i.frames
        /\ \A x \in CameraEvents : lost[x] \subseteq lost'[x] /\ (x # i.event => lost'[x] = lost[x])
        /\ lost' \in [CameraEvents -> SUBSET (1..MaxFrames)]
    BY <1>1, <1>3 DEF CameraInv, PushTypes
  <2>3. trouble' \in 0..MaxPushFaults
    BY <1>3, PushAssumption DEF Trouble, CameraInv, PushTypes
  <2>4. PushTypes'
    BY <2>1, <2>2, <2>3, <1>0, <1>1, <1>3 DEF CameraInv, PushTypes
  <2>5. EachPlaced'
    <3>1. \A x \in CameraEvents : \A n \in 1..read'[x] :
            n \in open'[x] \/ n \in lost'[x] \/ \E k \in OnTheWay' : k.event = x /\ n \in k.frames
      <4> SUFFICES ASSUME NEW x \in CameraEvents, NEW n \in 1..read[x], n \notin lost'[x], n \notin open[x]
                   PROVE  \E k \in OnTheWay \ {i} : k.event = x /\ n \in k.frames
        BY <1>0, <2>1
      <4>1. PICK k \in OnTheWay : k.event = x /\ n \in k.frames
        BY <2>2 DEF CameraInv, EachPlaced
      <4> QED BY <4>1, <2>2
    <3>2. \A x \in CameraEvents : open'[x] \subseteq 1..read'[x] /\ lost'[x] \subseteq 1..read'[x]
      BY <1>0, <1>1, <2>2 DEF CameraInv, EachPlaced
    <3>3. \A x \in CameraEvents : open'[x] \cap lost'[x] = {}
      BY <1>0, <1>1, <2>2 DEF CameraInv, EachPlaced
    <3>4. \A k \in OnTheWay' : k.frames \cap open'[k.event] = {} /\ k.frames \cap lost'[k.event] = {}
      <4> SUFFICES ASSUME NEW k \in OnTheWay, k # i
                   PROVE  k.frames \cap open[k.event] = {} /\ k.frames \cap lost'[k.event] = {}
        BY <1>0, <2>1
      <4>1. k.event \in CameraEvents
        BY DEF CameraInv, PushTypes, FrameItem
      <4> QED BY <4>1, <1>1, <2>2 DEF CameraInv, EachPlaced
    <3>5. /\ \A k \in OnTheWay' : k.frames \subseteq 1..read'[k.event]
          /\ \A k, j \in OnTheWay' : k.event = j.event /\ k # j => k.frames \cap j.frames = {}
      BY <1>0, <2>1 DEF CameraInv, EachPlaced
    <3>6. items' \cap sweeping' = {} /\ items' \cap closing' = {} /\ sweeping' \cap closing' = {}
      BY <1>0, <1>3 DEF CameraInv, EachPlaced
    <3> QED BY <3>1, <3>2, <3>3, <3>4, <3>5, <3>6 DEF EachPlaced
  <2>6. EndTold' /\ OneUnlessAged'
    BY <2>1, <1>0, <1>3 DEF CameraInv, EndTold, OneUnlessAged
  <2> QED BY <2>4, <2>5, <2>6 DEF CameraInv
<1> QED BY <1>2, <1>3 DEF stage

LEMMA CrashStep == ASSUME CameraInv, PushCrash PROVE CameraInv'
<1> DEFINE wiped(e) == lost[e] \cup open[e] \cup UNION {i.frames : i \in {j \in closing \cup sweeping : j.event = e}}
<1>0. /\ Trouble /\ open' = [e \in CameraEvents |-> {}] /\ stale' = {} /\ closing' = {} /\ sweeping' = {}
      /\ lost' = [e \in CameraEvents |-> wiped(e)]
      /\ aged' = aged \cup {e \in CameraEvents : open[e] # {} \/ \E i \in closing \cup sweeping : i.event = e}
      /\ UNCHANGED <<read, ended, items>>
  BY DEF PushCrash
<1>1. OnTheWay' = items /\ items \subseteq OnTheWay /\ \A i \in OnTheWay : i \in items \/ i \in closing \cup sweeping
  BY <1>0 DEF OnTheWay
<1>2. \A e \in CameraEvents : \A n : n \in lost'[e] <=>
        n \in lost[e] \/ n \in open[e] \/ \E i \in closing \cup sweeping : i.event = e /\ n \in i.frames
  BY <1>0
<1> HIDE DEF wiped
<1>3. \A i \in closing \cup sweeping : i \in OnTheWay /\ i \notin items
  BY DEF OnTheWay, CameraInv, EachPlaced
<1>4. \A e \in CameraEvents : lost'[e] \subseteq 1..read[e] /\ read[e] \in 0..MaxFrames
  BY <1>2, <1>3 DEF CameraInv, EachPlaced, PushTypes
<1>5. PushTypes'
  <2>1. lost' \in [CameraEvents -> SUBSET (1..MaxFrames)]
    <3>1. \A e \in CameraEvents : lost'[e] \subseteq 1..MaxFrames
      BY <1>4, PushAssumption
    <3>2. lost' = [e \in CameraEvents |-> lost'[e]]
      BY <1>0
    <3> QED BY <3>1, <3>2
  <2>2. trouble' \in 0..MaxPushFaults
    BY <1>0, PushAssumption DEF Trouble, CameraInv, PushTypes
  <2> QED BY <2>1, <2>2, <1>0, <1>1 DEF CameraInv, PushTypes
<1>6. EachPlaced'
  <2>1. \A x \in CameraEvents : \A n \in 1..read'[x] :
          n \in open'[x] \/ n \in lost'[x] \/ \E k \in OnTheWay' : k.event = x /\ n \in k.frames
    BY <1>0, <1>1, <1>2 DEF CameraInv, EachPlaced
  <2>2. \A x \in CameraEvents : open'[x] \subseteq 1..read'[x] /\ lost'[x] \subseteq 1..read'[x]
    BY <1>0, <1>4
  <2>3. \A x \in CameraEvents : open'[x] \cap lost'[x] = {}
    BY <1>0
  <2>4. \A k \in items : k.event \in CameraEvents
    BY <1>1 DEF CameraInv, PushTypes, FrameItem
  <2>5. \A k \in OnTheWay' : k.frames \cap open'[k.event] = {} /\ k.frames \cap lost'[k.event] = {}
    <3> SUFFICES ASSUME NEW k \in items, NEW n \in k.frames PROVE n \notin open'[k.event] /\ n \notin lost'[k.event]
      BY <1>1
    <3>1. n \notin lost[k.event] /\ n \notin open[k.event]
      BY <1>1 DEF CameraInv, EachPlaced
    <3>2. ~\E i \in closing \cup sweeping : i.event = k.event /\ n \in i.frames
      BY <1>1, <1>3 DEF CameraInv, EachPlaced
    <3> QED BY <3>1, <3>2, <2>4, <1>0, <1>2
  <2>6. /\ \A k \in OnTheWay' : k.frames \subseteq 1..read'[k.event]
        /\ \A k, j \in OnTheWay' : k.event = j.event /\ k # j => k.frames \cap j.frames = {}
    BY <1>0, <1>1 DEF CameraInv, EachPlaced
  <2>7. items' \cap sweeping' = {} /\ items' \cap closing' = {} /\ sweeping' \cap closing' = {}
    BY <1>0
  <2> QED BY <2>1, <2>2, <2>3, <2>5, <2>6, <2>7 DEF EachPlaced
<1>7. EndTold' /\ OneUnlessAged'
  BY <1>0, <1>1 DEF CameraInv, EndTold, OneUnlessAged
<1> QED BY <1>5, <1>6, <1>7 DEF CameraInv

\* The camera's side after any step.
LEMMA CameraStep == ASSUME PushInv, [PushNext]_pushVars PROVE CameraInv'
<1> USE DEF PushInv
<1>1. CASE \E e \in CameraEvents, last \in BOOLEAN : handleFrame(e, last)
  BY <1>1, FrameStep
<1>2. CASE \E e \in CameraEvents : Age(e)
  <2>1. PICK e \in CameraEvents : Age(e)
    BY <1>2
  <2>2. /\ stale' = stale \cup {e} /\ open[e] # {}
        /\ UNCHANGED <<read, ended, open, closing, sweeping, items, lost, aged, trouble>>
    BY <2>1 DEF Age
  <2>3. OnTheWay' = OnTheWay
    BY <2>2 DEF OnTheWay
  <2> QED BY <2>2, <2>3 DEF CameraInv, PushTypes, EachPlaced, EndTold, OneUnlessAged
<1>3. CASE Watch \/ Hook \/ UNCHANGED pushVars
  <2>1. UNCHANGED <<read, ended, open, stale, closing, sweeping, items, lost, aged>>
    BY <1>3 DEF Watch, Hook, github_Handler, meta_handleWebhookEvent, x_handleWebhook, unifi_surfaceHandler,
       Answer, NoRule, pushVars, cameraVars
  <2>2. trouble' \in 0..MaxPushFaults
    BY <1>3, PushAssumption DEF Watch, Hook, github_Handler, meta_handleWebhookEvent, x_handleWebhook,
       unifi_surfaceHandler, Answer, NoRule, pushVars, Trouble, CameraInv, PushTypes
  <2>3. OnTheWay' = OnTheWay
    BY <2>1 DEF OnTheWay
  <2> QED BY <2>1, <2>2, <2>3 DEF CameraInv, PushTypes, EachPlaced, EndTold, OneUnlessAged
<1>4. CASE StageClosed \/ StageSwept
  BY <1>4, StageStep DEF StageClosed, StageSwept
<1> QED BY <1>1, <1>2, <1>3, <1>4, FlushStep, CrashStep DEF PushNext

\* One request to an endpoint.
LEMMA AnswerStep ==
  ASSUME PushInv, NEW parts, NEW status \in {200, 500}, Answer(parts, status),
         status = 200 => 1 \in parts /\ (hook = "unifi" => 2 \in parts)
  PROVE  HookInv'
<1>0. /\ post = "pending" /\ hook' = hook
      /\ hits' = [p \in {1, 2} |-> IF p \in parts /\ hits[p] < 2 THEN hits[p] + 1 ELSE hits[p]]
      /\ \/ status = 200 /\ post' = "delivered" /\ trouble' = trouble
         \/ post' = "pending" /\ trouble' = trouble + 1
  BY DEF Answer, Trouble
<1>1. hits \in [{1, 2} -> 0..2] /\ trouble \in Nat /\ (trouble = 0 => hits[1] = 0)
  BY <1>0 DEF PushInv, HookInv, CameraInv, PushTypes
<1>2. /\ hits' \in [{1, 2} -> 0..2]
      /\ \A p \in {1, 2} : p \in parts => hits'[p] > 0
      /\ hits[1] = 0 => hits'[1] <= 1
  BY <1>0, <1>1
<1>3. CASE status = 200 /\ post' = "delivered" /\ trouble' = trouble
  BY <1>0, <1>1, <1>2, <1>3 DEF HookInv, DeliveredIsStaged
<1>4. CASE post' = "pending" /\ trouble' = trouble + 1
  BY <1>0, <1>1, <1>2, <1>4 DEF HookInv, DeliveredIsStaged
<1> QED BY <1>0, <1>3, <1>4

LEMMA HookStep == ASSUME PushInv, [PushNext]_pushVars PROVE HookInv'
<1>1. CASE NoRule
  <2>1. post' = "unmatched" /\ (hook = "x" \/ hits[1] = 0) /\ UNCHANGED <<hook, hits, trouble>>
    BY <1>1 DEF NoRule
  <2> QED BY <2>1 DEF PushInv, HookInv, DeliveredIsStaged
<1>2. CASE Hook
  <2>1. CASE unifi_surfaceHandler
    <3>1. \A n \in 0..1 : Answer(1..n, 500) => HookInv'
      BY AnswerStep
    <3>2. Answer({1, 2}, 200) => HookInv'
      BY AnswerStep
    <3> QED BY <2>1, <3>1, <3>2, <1>1 DEF unifi_surfaceHandler
  <2>2. CASE github_Handler \/ meta_handleWebhookEvent \/ x_handleWebhook
    <3>1. hook # "unifi"
      BY <2>2 DEF github_Handler, meta_handleWebhookEvent, x_handleWebhook
    <3>2. (Answer({1}, 200) => HookInv') /\ (Answer({}, 500) => HookInv')
      BY <3>1, AnswerStep
    <3> QED BY <2>2, <3>2, <1>1 DEF github_Handler, meta_handleWebhookEvent, x_handleWebhook
  <2> QED BY <1>2, <2>1, <2>2 DEF Hook
<1>3. CASE ~Hook
  <2>1. UNCHANGED hookVars /\ trouble' \in {trouble, trouble + 1}
    BY <1>3 DEF PushNext, pushVars, hookVars, handleFrame, Age, flushStale, StageClosed, StageSwept, stage,
       Watch, PushCrash, Trouble
  <2>2. trouble \in Nat
    BY DEF PushInv, CameraInv, PushTypes
  <2> QED BY <2>1, <2>2 DEF PushInv, HookInv, DeliveredIsStaged, hookVars
<1> QED BY <1>2, <1>3

LEMMA AtMostOne ==
  ASSUME NEW S, S = {} \/ \E i : S = {i}
  PROVE  Cardinality(S) <= 1
<1>1. CASE S = {}
  <2>1. Cardinality(S) = 0
    BY <1>1, FS_EmptySet
  <2> QED BY <2>1
<1>2. CASE \E i : S = {i}
  <2>1. Cardinality(S) = 1
    BY <1>2, FS_Singleton
  <2> QED BY <2>1
<1> QED BY <1>1, <1>2

\* Frame by frame, the invariant says what PushSafe does.
LEMMA PushMeans == PushInv => PushSafe
<1> SUFFICES ASSUME PushInv PROVE PushSafe
  OBVIOUS
<1>1. \A e \in CameraEvents : \A n : n \in FramesOf(e, OnTheWay) <=> \E i \in OnTheWay : i.event = e /\ n \in i.frames
  BY DEF FramesOf
<1>2. FramesAccounted
  <2>1. \A e \in CameraEvents : open[e] \cup lost[e] \cup FramesOf(e, OnTheWay) = 1..read[e]
    <3> SUFFICES ASSUME NEW e \in CameraEvents, NEW n
                 PROVE  n \in open[e] \cup lost[e] \cup FramesOf(e, OnTheWay) <=> n \in 1..read[e]
      OBVIOUS
    <3> QED BY <1>1 DEF PushInv, CameraInv, EachPlaced
  <2>2. \A e \in CameraEvents : open[e] \cap lost[e] = {} /\ (open[e] \cup lost[e]) \cap FramesOf(e, OnTheWay) = {}
    BY <1>1 DEF PushInv, CameraInv, EachPlaced
  <2> QED BY <2>1, <2>2 DEF FramesAccounted, PushInv, CameraInv, EachPlaced
<1>3. PushTypeOK
  <2>1. Cardinality(closing) <= 1
    <3>1. closing = {} \/ \E i : closing = {i}
      BY DEF PushInv, CameraInv, PushTypes
    <3> QED BY <3>1, AtMostOne
  <2> QED BY <2>1 DEF PushInv, CameraInv, PushTypes, EachPlaced, HookInv, PushTypeOK
<1>4. IncompleteIsTold
  BY DEF PushInv, CameraInv, EndTold, IncompleteIsTold, OnTheWay
<1>5. OneItemPerEvent
  <2> SUFFICES ASSUME NEW e \in CameraEvents, e \notin aged
               PROVE  Cardinality({i \in items : i.event = e}) <= 1
    BY DEF OneItemPerEvent
  <2> DEFINE S == {i \in items : i.event = e}
  <2>1. \A i, j \in S : i = j
    BY DEF PushInv, CameraInv, OneUnlessAged, OnTheWay
  <2> HIDE DEF S
  <2>2. S = {} \/ \E i : S = {i}
    BY <2>1
  <2>3. Cardinality(S) <= 1
    BY <2>2, AtMostOne
  <2> QED BY <2>3 DEF S
<1> QED BY <1>2, <1>3, <1>4, <1>5 DEF PushSafe, PushInv, HookInv

\* Whatever the reader, the sweep, the watch loop and the crashes do, for any
\* number of camera events, frames and faults: every frame is in exactly one
\* place, an item says when its event's end is missing, an event that is not
\* swept is one item, and 200 answers only what was staged (handleFrame,
\* flushStale, stage, the webhook handlers).
THEOREM PushIsSafe == PushSpec => []PushSafe
<1>1. PushInv /\ [PushNext]_pushVars => PushInv'
  BY CameraStep, HookStep DEF PushInv
<1>2. PushSpec => []PushInv
  BY <1>1, PushStart, PTL DEF PushSpec
<1> QED BY <1>2, PushMeans, PTL
-----------------------------------------------------------------------------
(* The mbox importer. *)

MsgSet == [m : 1..Messages, kind : {"whole", "tail", "headerless"}, at : 0..3 * Messages]
Manifests == [status : {"none", "in_progress", "interrupted", "failed", "complete"},
              off : 0..3 * Messages, ids : SUBSET Nat, errs : SUBSET (1..Messages)]

MboxTypes ==
    /\ import \in Imports /\ {locked, retired, stopping, startedOver, stoppedLate, killed} \subseteq BOOLEAN
    /\ disk \in Manifests /\ mf \in Manifests /\ mf.status = "in_progress"
    /\ phase \in {"down", "scan", "send", "flush", "write", "drain", "release", "retire"}
    /\ pos \in 0..3 * Messages /\ consumed \in 0..pos /\ unflushed \in Nat
    /\ sending = <<>> \/ \E t \in MsgSet : sending = <<t>>
    /\ jobs \in Seq(MsgSet) /\ busy \subseteq MsgSet
    /\ results \subseteq MsgSet \X {"ok", "failed", "cancelled"} /\ inflight \subseteq MsgSet
    /\ dedup \subseteq Nat /\ outcome \in {"ok", "cancelled", "scanError"}
    /\ copies \in [Readings -> 0..2] /\ {skipped, failed, beheaded} \subseteq SUBSET (1..Messages)
    /\ upsets \in 0..MaxUpsets

\* The messages handed out and not ended yet, and those whose result waits.
Queued == Range(sending) \cup Range(jobs) \cup busy
Reported == {r[1] : r \in results}
Running == {"scan", "send", "flush", "write", "drain"}

\* A message is in one place at a time and in flight while it is in any; only
\* a cancelled one is in flight and nowhere.
InOnePlace ==
    /\ Len(jobs) <= 2 * workers /\ IsFiniteSet(busy) /\ Cardinality(busy) <= workers
    /\ phase = "send" <=> sending # <<>>
    /\ phase \notin Running => inflight = {}
    /\ IsInjective(jobs) /\ Range(jobs) \cap busy = {} 
    /\ Range(sending) \cap (Range(jobs) \cup busy) = {}
    /\ Queued \cap Reported = {} /\ \A r, s \in results : r[1] = s[1] => r = s
    /\ Queued \cup Reported \subseteq inflight
    /\ \A t, u \in inflight : t.at = u.at => t = u
    /\ \A t \in inflight : t.at < pos /\ (t.kind = "whole" => t.at = 3 * (t.m - 1))
    /\ ~stopping => inflight \subseteq Queued \cup Reported /\ \A r \in results : r[2] # "cancelled"

\* What the scanner has passed is accounted for or in flight; what an offset
\* passes is accounted for.
Whole(m) == Msg(m, "whole", 3 * (m - 1))
Passed == \A m \in 1..Messages : 3 * (m - 1) < pos => Accounted(m) \/ Whole(m) \in inflight
LowWater == \A m \in 1..Messages : 3 * (m - 1) < disk.off \/ 3 * (m - 1) < mf.off => Accounted(m)

Finished ==
    /\ (disk.status = "complete" \/ retired \/ phase = "retire") /\ ~stoppedLate =>
           \A m \in 1..Messages : Accounted(m)
    /\ phase = "drain" /\ outcome = "ok" =>
           pos = 3 * Messages /\ (stopping /\ inflight # {} => stoppedLate)

Twin(i) == \E k \in 1..Messages : ids[k] = i /\ copies[<<k, "whole">>] > 0
Twins ==
    /\ \A r \in results : r[2] = "ok" => copies[<<r[1].m, r[1].kind>>] > 0
    /\ \A i \in dedup \cup mf.ids \cup disk.ids : i # 0 => Twin(i)
    /\ SkippedHasTwin

Known(m) == IF phase \in Running THEN ids[m] \in dedup \/ <<Whole(m), "ok">> \in results
                                 ELSE ids[m] \in disk.ids
Once == ~startedOver =>
    /\ phase \in Running => dedup \subseteq mf.ids
    /\ \A m \in 1..Messages : ids[m] # 0 /\ copies[<<m, "whole">>] > 0 => Known(m) /\ copies[<<m, "whole">>] = 1
    /\ \A t \in Queued : t.kind = "whole" /\ ids[t.m] # 0 => copies[<<t.m, "whole">>] = 0

\* The inductive invariant.
MboxInv == MboxTypes /\ InOnePlace /\ Passed /\ LowWater /\ Finished /\ Twins /\ Once

LEMMA MboxFacts ==
    ASSUME import \in Imports
    PROVE  /\ workers \in Nat /\ workers > 0 /\ Messages \in Nat /\ Messages > 0
           /\ ids \in [1..Messages -> Nat] /\ WriteEveryN \in Nat /\ MaxUpsets \in Nat
BY MboxAssumption DEF workers, Messages, ids

\* The import does not change, and neither does what is defined from it.
LEMMA SameImport ==
    ASSUME import' = import
    PROVE  /\ MsgSet' = MsgSet /\ Manifests' = Manifests /\ Messages' = Messages
           /\ Readings' = Readings /\ ids' = ids /\ workers' = workers /\ mode' = mode
BY DEF MsgSet, Manifests, Messages, Readings, ids, workers, mode

\* What is accounted for stays so, and a twin stays staged.
LEMMA StaysAccounted ==
    ASSUME import' = import, failed \subseteq failed', skipped \subseteq skipped', beheaded \subseteq beheaded',
           \A r \in Readings : copies[r] > 0 => copies'[r] > 0
    PROVE  /\ \A m \in 1..Messages : Accounted(m) => Accounted(m)'
           /\ \A i : Twin(i) => Twin(i)'
<1>1. \A m \in 1..Messages : <<m, "whole">> \in Readings
  BY DEF Readings
<1>2. ASSUME NEW m \in 1..Messages, Accounted(m) PROVE Accounted(m)'
  BY <1>1, <1>2 DEF Accounted
<1>3. ASSUME NEW i, Twin(i) PROVE Twin(i)'
  <2>1. PICK k \in 1..Messages : ids[k] = i /\ copies[<<k, "whole">>] > 0
    BY <1>3 DEF Twin
  <2>2. copies'[<<k, "whole">>] > 0
    BY <2>1, <1>1
  <2> QED BY <2>1, <2>2, SameImport DEF Twin
<1> QED BY <1>2, <1>3

\* While nothing is staged or skipped, every skipped message keeps its twin.
LEMMA TwinsKept ==
    ASSUME MboxInv, import' = import, copies' = copies, skipped' = skipped
    PROVE  SkippedHasTwin'
<1>1. SkippedHasTwin
  BY DEF MboxInv, Twins
<1>2. ids' = ids /\ 1..Messages' = 1..Messages
  BY SameImport
<1> QED BY <1>1, <1>2 DEF SkippedHasTwin

\* The queue of jobs, one taken and one put behind.
LEMMA QueueTail ==
    ASSUME NEW S, NEW q \in Seq(S), q # <<>>, IsInjective(q)
    PROVE  /\ Tail(q) \in Seq(S) /\ IsInjective(Tail(q)) /\ Head(q) \in S
           /\ Range(q) = {Head(q)} \cup Range(Tail(q)) /\ Head(q) \notin Range(Tail(q))
           /\ Len(Tail(q)) = Len(q) - 1
<1>1. /\ Len(q) \in Nat /\ Len(q) > 0 /\ DOMAIN q = 1..Len(q) /\ Len(Tail(q)) = Len(q) - 1
      /\ Tail(q) \in Seq(S) /\ Head(q) = q[1] /\ Head(q) \in S
  OBVIOUS
<1>2. DOMAIN Tail(q) = 1..(Len(q) - 1) /\ \A i \in 1..(Len(q) - 1) : Tail(q)[i] = q[i + 1]
  BY <1>1
<1>3. IsInjective(Tail(q))
  <2> SUFFICES ASSUME NEW a \in 1..(Len(q) - 1), NEW b \in 1..(Len(q) - 1), Tail(q)[a] = Tail(q)[b]
               PROVE  a = b
    BY <1>2 DEF IsInjective
  <2>1. q[a + 1] = q[b + 1] /\ a + 1 \in DOMAIN q /\ b + 1 \in DOMAIN q
    BY <1>1, <1>2
  <2>2. a + 1 = b + 1
    BY <2>1 DEF IsInjective
  <2> QED BY <2>2, <1>1
<1>4. Range(q) \subseteq {Head(q)} \cup Range(Tail(q))
  <2> SUFFICES ASSUME NEW i \in 1..Len(q) PROVE q[i] = Head(q) \/ q[i] \in Range(Tail(q))
    BY <1>1 DEF Range
  <2>1. CASE i = 1
    BY <2>1, <1>1
  <2>2. CASE i # 1
    <3>1. i - 1 \in 1..(Len(q) - 1) /\ Tail(q)[i - 1] = q[i]
      BY <2>2, <1>1, <1>2
    <3> QED BY <3>1, <1>2 DEF Range
  <2> QED BY <2>1, <2>2
<1>5. ASSUME NEW i \in 1..(Len(q) - 1) PROVE Tail(q)[i] \in Range(q) /\ Tail(q)[i] # Head(q)
  <2>1. Tail(q)[i] = q[i + 1] /\ i + 1 \in DOMAIN q /\ 1 \in DOMAIN q /\ i + 1 # 1
    BY <1>1, <1>2
  <2>2. q[i + 1] # q[1]
    BY <2>1 DEF IsInjective
  <2> QED BY <2>1, <2>2, <1>1 DEF Range
<1>6. Head(q) \in Range(q)
  BY <1>1 DEF Range
<1> QED BY <1>1, <1>2, <1>3, <1>4, <1>5, <1>6 DEF Range

LEMMA QueueAppend ==
    ASSUME NEW S, NEW q \in Seq(S), NEW t \in S, IsInjective(q), t \notin Range(q)
    PROVE  /\ q \o <<t>> \in Seq(S) /\ IsInjective(q \o <<t>>)
           /\ Range(q \o <<t>>) = Range(q) \cup {t} /\ Len(q \o <<t>>) = Len(q) + 1
<1> DEFINE r == q \o <<t>>
<1>1. /\ Len(q) \in Nat /\ DOMAIN q = 1..Len(q) /\ r \in Seq(S) /\ Len(r) = Len(q) + 1
      /\ DOMAIN r = 1..(Len(q) + 1)
  OBVIOUS
<1>2. r[Len(q) + 1] = t /\ \A i \in 1..Len(q) : r[i] = q[i] /\ q[i] # t /\ i # Len(q) + 1
  BY <1>1 DEF Range
<1>3. \A i \in 1..(Len(q) + 1) : i = Len(q) + 1 \/ i \in 1..Len(q)
  BY <1>1
<1> HIDE DEF r
<1>4. IsInjective(r)
  BY <1>1, <1>2, <1>3 DEF IsInjective
<1>5. Range(r) = Range(q) \cup {t}
  <2>1. \A i \in 1..Len(q) : i \in 1..(Len(q) + 1)
    BY <1>1
  <2>2. Len(q) + 1 \in 1..(Len(q) + 1)
    BY <1>1
  <2> QED BY <2>1, <2>2, <1>1, <1>2, <1>3 DEF Range
<1> QED BY <1>1, <1>4, <1>5 DEF r

\* The least of a set of numbers.
LEMMA LeastOf ==
    ASSUME NEW S \in SUBSET Nat, S # {}
    PROVE  Min(S) \in S /\ \A y \in S : Min(S) <= y
<1> DEFINE R == OpToRel(<, Nat)
<1>1. IsWellFoundedOn(R, Nat)
  BY NatLessThanWellFounded
<1>2. \A a, b \in Nat : a < b => <<a, b>> \in R
  BY DEF R, OpToRel
<1> HIDE DEF R
<1>3. PICK x \in S : \A y \in S : <<y, x>> \notin R
  BY <1>1, WFMin
<1>4. ASSUME NEW y \in S PROVE x <= y
  <2>1. ~(y < x)
    BY <1>2, <1>3, <1>4, Zenon
  <2> QED BY <2>1
<1> QED BY <1>4 DEF Min

LEMMA MboxStart == MboxInit => MboxInv
<1> SUFFICES ASSUME MboxInit PROVE MboxInv
  OBVIOUS
<1>1. import \in Imports /\ phase = "down" /\ pos = 0 /\ Range(sending) = {} /\ Range(jobs) = {} /\ Reported = {}
  BY DEF MboxInit, Range, Reported
<1>2. MboxTypes
  <2>1. disk \in Manifests /\ mf \in Manifests /\ mf.status = "in_progress"
    BY <1>1, MboxFacts DEF MboxInit, Manifests, NoManifest, FreshManifest
  <2>2. copies \in [Readings -> 0..2] /\ jobs \in Seq(MsgSet)
    BY DEF MboxInit
  <2>3. consumed \in 0..pos /\ pos \in 0..3 * Messages /\ upsets \in 0..MaxUpsets /\ unflushed \in Nat
    BY <1>1, MboxFacts DEF MboxInit
  <2>4. {locked, retired, stopping, startedOver, stoppedLate, killed} \subseteq BOOLEAN
    BY DEF MboxInit
  <2>5. {skipped, failed, beheaded} \subseteq SUBSET (1..Messages)
    BY DEF MboxInit
  <2> QED BY <1>1, <2>1, <2>2, <2>3, <2>4, <2>5 DEF MboxInit, MboxTypes
<1>3. InOnePlace
  <2>1. IsFiniteSet(busy) /\ Cardinality(busy) = 0
    BY FS_EmptySet DEF MboxInit
  <2>2. Len(jobs) = 0 /\ IsInjective(jobs)
    BY DEF MboxInit, IsInjective
  <2> QED BY <2>1, <2>2, <1>1, MboxFacts DEF MboxInit, InOnePlace, Running, Queued
<1>4. \A m \in 1..Messages : ~(3 * (m - 1) < 0)
  BY <1>1, MboxFacts
<1>5. Passed /\ LowWater /\ Finished
  BY <1>1, <1>4 DEF MboxInit, Passed, LowWater, Finished, NoManifest, FreshManifest
<1>6. Twins
  BY DEF MboxInit, Twins, NoManifest, FreshManifest, SkippedHasTwin
<1>7. Once
  <2>1. \A m \in 1..Messages : ~(copies[<<m, "whole">>] > 0)
    BY DEF MboxInit, Readings
  <2> QED BY <1>1, <2>1 DEF MboxInit, Once, Running, Queued
<1> QED BY <1>2, <1>3, <1>5, <1>6, <1>7 DEF MboxInv

\* Between runs nothing is in flight.
LEMMA NotRunning ==
    ASSUME InOnePlace, phase \notin Running
    PROVE  /\ inflight = {} /\ Range(jobs) = {} /\ Range(sending) = {} /\ busy = {} /\ results = {}
           /\ Reported = {} /\ Queued = {} /\ sending = <<>>
<1>1. inflight = {} /\ Queued \cup Reported = {} /\ sending = <<>>
  BY DEF InOnePlace, Running
<1>2. results = {}
  BY <1>1 DEF Reported
<1> QED BY <1>1, <1>2 DEF Queued

\* A run begins: nothing is in flight, the scanner stands at the offset.
LEMMA BeginStep ==
    ASSUME MboxInv, phase = "down", ~retired, import' = import, locked' \in BOOLEAN,
           \/ disk.status # "complete" /\ disk' = disk /\ startedOver' = startedOver /\ Begin(disk)
           \/ disk' = NoManifest /\ startedOver' = (startedOver \/ AnyStaged) /\ Begin(FreshManifest),
           UNCHANGED <<copies, skipped, failed, beheaded, stoppedLate, killed, upsets>>
    PROVE  MboxInv'
<1>0. PICK manifest :
      /\ \/ manifest = disk /\ disk' = disk /\ startedOver' = startedOver /\ disk.status # "complete"
         \/ disk' = NoManifest /\ manifest = FreshManifest /\ startedOver' = (startedOver \/ AnyStaged)
      /\ phase' = "scan" /\ stopping' = FALSE /\ mf' = [manifest EXCEPT !.status = "in_progress"]
      /\ pos' = manifest.off /\ consumed' = manifest.off /\ unflushed' = 0
      /\ sending' = <<>> /\ inflight' = {} /\ outcome' = "ok" /\ dedup' = manifest.ids \ {0}
      /\ jobs' = jobs /\ busy' = busy /\ results' = results /\ retired' = retired
  <2>1. ASSUME NEW d, d = disk \/ d = FreshManifest, Begin(d)
        PROVE  /\ phase' = "scan" /\ stopping' = FALSE /\ mf' = [d EXCEPT !.status = "in_progress"]
               /\ pos' = d.off /\ consumed' = d.off /\ unflushed' = 0
               /\ sending' = <<>> /\ inflight' = {} /\ outcome' = "ok" /\ dedup' = d.ids \ {0}
               /\ jobs' = jobs /\ busy' = busy /\ results' = results /\ retired' = retired
    BY <2>1 DEF Begin, poolVars
  <2>2. CASE disk.status # "complete" /\ disk' = disk /\ startedOver' = startedOver /\ Begin(disk)
    <3>1. PICK d : d = disk
      OBVIOUS
    <3>2. Begin(d)
      BY <3>1, <2>2 DEF Begin
    <3> QED BY <2>1, <2>2, <3>1, <3>2
  <2>3. CASE disk' = NoManifest /\ startedOver' = (startedOver \/ AnyStaged) /\ Begin(FreshManifest)
    BY <2>1, <2>3
  <2> QED BY <2>2, <2>3
<1>1. /\ inflight = {} /\ Range(jobs) = {} /\ Range(sending) = {} /\ busy = {} /\ results = {}
      /\ Reported = {} /\ sending = <<>>
  BY NotRunning DEF MboxInv, Running
<1>2. import \in Imports /\ disk \in Manifests /\ manifest \in Manifests /\ FreshManifest \in Manifests
      /\ NoManifest \in Manifests
  <2>1. import \in Imports /\ disk \in Manifests
    BY DEF MboxInv, MboxTypes
  <2>2. FreshManifest \in Manifests /\ NoManifest \in Manifests
    BY <2>1, MboxFacts DEF Manifests, FreshManifest, NoManifest
  <2> QED BY <2>1, <2>2, <1>0
<1>3. /\ mf' \in Manifests /\ mf'.status = "in_progress" /\ mf'.off = manifest.off /\ mf'.ids = manifest.ids
      /\ manifest.off \in 0..3 * Messages /\ manifest.ids \subseteq Nat /\ disk' \in Manifests
      /\ disk'.off \in {disk.off, 0} /\ disk'.ids \subseteq disk.ids /\ manifest.ids \subseteq disk.ids
      /\ manifest.off \in {disk.off, 0} /\ disk'.status # "complete"
  BY <1>0, <1>2 DEF Manifests, FreshManifest, NoManifest
<1>4. MboxTypes'
  <2>1. 0 \in 0..pos' /\ consumed' \in 0..pos' /\ dedup' \subseteq Nat /\ inflight' \subseteq MsgSet
    BY <1>0, <1>2, <1>3, MboxFacts
  <2> QED BY <2>1, <1>0, <1>2, <1>3, SameImport, MboxFacts DEF MboxInv, MboxTypes, AnyStaged
<1>5. InOnePlace'
  <2>1. Range(sending') = {} /\ Reported' = {} /\ Queued' = {}
    BY <1>0, <1>1 DEF Range, Reported, Queued
  <2> QED BY <2>1, <1>0, <1>1, SameImport DEF MboxInv, InOnePlace, Running
<1>6. \A m \in 1..Messages : /\ Accounted(m) => Accounted(m)'
                             /\ ~(3 * (m - 1) < 0) /\ (3 * (m - 1) < disk.off => Accounted(m))
  <2>1. \A m \in 1..Messages : ~(3 * (m - 1) < 0)
    BY <1>2, MboxFacts
  <2> QED BY <2>1, StaysAccounted DEF MboxInv, LowWater
<1>7. Passed' /\ LowWater'
  BY <1>0, <1>3, <1>6, SameImport DEF Passed, LowWater
<1>8. Finished'
  BY <1>0, <1>3 DEF Finished
<1>9. Twins'
  <2>1. \A i \in dedup' \cup mf'.ids \cup disk'.ids : i # 0 => Twin(i)'
    <3>1. \A i \in dedup' \cup mf'.ids \cup disk'.ids : i \in disk.ids
      BY <1>0, <1>3
    <3> QED BY <3>1, StaysAccounted DEF MboxInv, Twins
  <2>2. SkippedHasTwin'
    BY <1>0, TwinsKept
  <2> QED BY <2>1, <2>2, <1>0, <1>1, SameImport DEF MboxInv, Twins
<1>10. Once'
  <2> SUFFICES ASSUME ~startedOver' PROVE Once'
    BY DEF Once
  <2>1. dedup' \subseteq mf'.ids /\ Queued' = {}
    BY <1>0, <1>1, <1>3 DEF Queued, Range
  <2>2. ASSUME NEW m \in 1..Messages, ids[m] # 0, copies[<<m, "whole">>] > 0
        PROVE  ids[m] \in dedup' /\ copies[<<m, "whole">>] = 1
    <3>1. AnyStaged
      BY <2>2 DEF AnyStaged, Readings
    <3>2. startedOver \in BOOLEAN /\ ~startedOver'
      BY DEF MboxInv, MboxTypes
    <3>3. CASE startedOver' = (startedOver \/ AnyStaged)
      BY <3>1, <3>2, <3>3
    <3>4. CASE manifest = disk /\ startedOver' = startedOver
      BY <2>2, <3>2, <3>4, <1>0 DEF MboxInv, Once, Known, Running
    <3> QED BY <3>3, <3>4, <1>0
  <2> QED BY <2>1, <2>2, <1>0, SameImport DEF Once, Known, Running
<1> QED BY <1>4, <1>5, <1>7, <1>8, <1>9, <1>10 DEF MboxInv

LEMMA StartStep == ASSUME MboxInv, NEW o, Start(o) PROVE MboxInv'
<1>0. /\ phase = "down" /\ ~retired /\ locked' = (mode = "watch") /\ RunOneShot(o)
      /\ UNCHANGED <<import, copies, skipped, failed, beheaded, stoppedLate, killed, upsets>>
  BY DEF Start
<1>1. CASE Decide(disk, o) = "Resume" /\ Begin(disk) /\ UNCHANGED <<disk, startedOver>>
  <2>1. disk.status # "complete" /\ locked' \in BOOLEAN
    BY <1>0, <1>1 DEF Decide
  <2> QED BY <2>1, <1>0, <1>1, BeginStep
<1>2. CASE disk' = NoManifest /\ startedOver' = (startedOver \/ AnyStaged) /\ Begin(FreshManifest)
  BY <1>0, <1>2, BeginStep
<1>3. CASE /\ phase' \in {"retire", "release"} /\ stopping' = FALSE
           /\ phase' = "retire" => disk.status = "complete"
           /\ UNCHANGED <<retired, disk, mf, runVars, poolVars, startedOver>>
  <2>0. UNCHANGED <<import, retired, disk, pos, consumed, unflushed, sending, inflight, dedup, outcome, mf,
                    jobs, busy, results, copies, skipped, failed, beheaded, startedOver, stoppedLate, killed, upsets>>
    BY <1>0, <1>3 DEF runVars, poolVars
  <2>1. inflight = {} /\ results = {} /\ Reported' = {} /\ Queued' = {} /\ sending = <<>>
    BY <1>0, <2>0, NotRunning DEF MboxInv, Queued, Reported, Running
  <2>2. \A m \in 1..Messages : Accounted(m) => Accounted(m)'
    BY <2>0, StaysAccounted
  <2>3. MboxTypes'
    BY <1>0, <1>3, <2>0, SameImport DEF MboxInv, MboxTypes
  <2>4. InOnePlace'
    BY <1>3, <2>0, <2>1, SameImport DEF MboxInv, InOnePlace, Running
  <2>5. Passed' /\ LowWater' /\ Finished'
    BY <1>3, <2>0, <2>2, SameImport DEF MboxInv, Passed, LowWater, Finished
  <2>6. Twins'
    BY <2>0, StaysAccounted, SameImport DEF MboxInv, Twins, SkippedHasTwin
  <2>7. Once'
    BY <1>0, <1>3, <2>0, <2>1, SameImport DEF MboxInv, Once, Known, Running
  <2> QED BY <2>3, <2>4, <2>5, <2>6, <2>7 DEF MboxInv
<1> QED BY <1>0, <1>1, <1>2, <1>3 DEF RunOneShot, Decide

\* Reading: where the scanner stands, what it yields, and where it goes on.
LEMMA ScannedFacts ==
    ASSUME MboxTypes, pos < 3 * Messages
    PROVE  /\ Scanned.t \in MsgSet /\ Scanned.t.at = pos
           /\ Scanned.next \in 0..3 * Messages /\ Scanned.next > pos
           /\ EndOf(Scanned.t) \in 0..Scanned.next
           /\ Scanned.t.kind = "whole" => Scanned.t = Whole(Scanned.t.m) /\ pos = 3 * (Scanned.t.m - 1)
           /\ \A m \in 1..Messages : 3 * (m - 1) < Scanned.next =>
                 3 * (m - 1) < pos \/ (m = Scanned.t.m /\ Scanned.t.kind \in {"whole", "headerless"})
<1> DEFINE q == pos \div 3
           r == pos % 3
<1>1. Messages \in Nat /\ pos \in Nat
  BY MboxFacts DEF MboxTypes
<1>2. pos = 3 * q + r /\ q \in Nat /\ r \in 0..2 /\ q < Messages
  BY <1>1
<1> HIDE DEF q, r
<1>3. CASE r = 0
  <2>1. Scanned = [t |-> Msg(q + 1, "whole", pos), next |-> pos + 3]
    BY <1>3 DEF Scanned, q, r
  <2>2. Scanned.t = [m |-> q + 1, kind |-> "whole", at |-> pos] /\ Scanned.next = pos + 3
    BY <2>1 DEF Msg
  <2>3. EndOf(Scanned.t) = 3 * q + 1
    BY <2>2, <1>2 DEF EndOf
  <2> QED BY <2>2, <2>3, <1>1, <1>2, <1>3 DEF MsgSet, Whole, Msg
<1>4. CASE r = 1
  <2>1. Scanned = [t |-> Msg(q + 1, "tail", pos), next |-> pos + 2]
    BY <1>4 DEF Scanned, q, r
  <2>2. Scanned.t = [m |-> q + 1, kind |-> "tail", at |-> pos] /\ Scanned.next = pos + 2
    BY <2>1 DEF Msg
  <2>3. EndOf(Scanned.t) = 3 * q + 2
    BY <2>2, <1>2 DEF EndOf
  <2> QED BY <2>2, <2>3, <1>1, <1>2, <1>4 DEF MsgSet
<1>5. CASE r = 2 /\ q + 1 < Messages
  <2>1. Scanned = [t |-> Msg(q + 2, "headerless", pos), next |-> pos + 4]
    BY <1>5, <1>2 DEF Scanned, q, r
  <2>2. Scanned.t = [m |-> q + 2, kind |-> "headerless", at |-> pos] /\ Scanned.next = pos + 4
    BY <2>1 DEF Msg
  <2>3. EndOf(Scanned.t) = 3 * q + 5
    BY <2>2, <1>2 DEF EndOf
  <2> QED BY <2>2, <2>3, <1>1, <1>2, <1>5 DEF MsgSet
<1>6. CASE r = 2 /\ ~(q + 1 < Messages)
  <2>1. Scanned = [t |-> Msg(q + 1, "tail", pos), next |-> pos + 1]
    BY <1>6 DEF Scanned, q, r
  <2>2. Scanned.t = [m |-> q + 1, kind |-> "tail", at |-> pos] /\ Scanned.next = pos + 1
    BY <2>1 DEF Msg
  <2>3. EndOf(Scanned.t) = 3 * q + 2
    BY <2>2, <1>2 DEF EndOf
  <2> QED BY <2>2, <2>3, <1>1, <1>2, <1>6 DEF MsgSet
<1> QED BY <1>2, <1>3, <1>4, <1>5, <1>6

LEMMA ScanStep == ASSUME MboxInv, Scan PROVE MboxInv'
<1> DEFINE t == Scanned.t
<1>0. /\ phase = "scan" /\ ~stopping /\ pos < 3 * Messages
      /\ pos' = Scanned.next /\ consumed' = EndOf(t) /\ unflushed' = unflushed + 1
      /\ beheaded' = IF t.kind = "headerless" THEN beheaded \cup {t.m} ELSE beheaded
      /\ \/ Excluded(t) /\ UNCHANGED <<phase, sending, inflight, skipped>>
         \/ Seen(t) /\ skipped' = skipped \cup {t.m} /\ UNCHANGED <<phase, sending, inflight>>
         \/ ~Seen(t) /\ inflight' = inflight \cup {t} /\ sending' = <<t>> /\ phase' = "send" /\ skipped' = skipped
      /\ UNCHANGED <<import, locked, retired, disk, jobs, busy, results, dedup, outcome, mf, stopping,
                     copies, failed, startedOver, stoppedLate, killed, upsets>>
  BY DEF Scan, poolVars
<1>1. /\ t \in MsgSet /\ t.at = pos /\ Scanned.next \in 0..3 * Messages /\ Scanned.next > pos
      /\ EndOf(t) \in 0..Scanned.next
      /\ t.kind = "whole" => t = Whole(t.m) /\ pos = 3 * (t.m - 1)
      /\ \A m \in 1..Messages : 3 * (m - 1) < Scanned.next =>
            3 * (m - 1) < pos \/ (m = t.m /\ t.kind \in {"whole", "headerless"})
  BY <1>0, ScannedFacts DEF MboxInv
<1> HIDE DEF t
<1>2. t.m \in 1..Messages /\ pos \in Nat /\ Messages \in Nat
  BY <1>1, MboxFacts DEF MsgSet, MboxInv, MboxTypes
<1>3. \A m \in 1..Messages : Accounted(m) => Accounted(m)'
  BY <1>0, StaysAccounted
<1>4. MboxTypes'
  <2>1. {skipped', failed', beheaded'} \subseteq SUBSET (1..Messages)
    BY <1>0, <1>2 DEF MboxInv, MboxTypes
  <2>2. inflight' \subseteq MsgSet /\ (sending' = <<>> \/ \E u \in MsgSet : sending' = <<u>>)
    BY <1>0, <1>1 DEF MboxInv, MboxTypes
  <2>3. pos' \in 0..3 * Messages /\ consumed' \in 0..pos' /\ unflushed' \in Nat
    BY <1>0, <1>1 DEF MboxInv, MboxTypes
  <2>4. phase' \in {"scan", "send"}
    BY <1>0
  <2> QED BY <2>1, <2>2, <2>3, <2>4, <1>0, SameImport DEF MboxInv, MboxTypes
<1>5. sending = <<>> /\ Range(sending) = {}
  BY <1>0 DEF MboxInv, InOnePlace, Range
<1>6. t \notin inflight /\ \A u \in inflight : u.at < pos /\ u.at # t.at /\ u.at \in Nat
  BY <1>1, <1>2 DEF MboxInv, InOnePlace, MboxTypes, MsgSet
<1>7. t \notin Range(jobs) /\ t \notin busy /\ t \notin Reported
  BY <1>6 DEF MboxInv, InOnePlace, Queued
<1>8. InOnePlace'
  <2>1. CASE UNCHANGED <<phase, sending, inflight>>
    BY <2>1, <1>0, <1>1, <1>2, <1>6, SameImport DEF MboxInv, InOnePlace, Queued, Reported, Running
  <2>2. CASE inflight' = inflight \cup {t} /\ sending' = <<t>> /\ phase' = "send"
    <3>1. Range(sending') = {t} /\ Reported' = Reported /\ Queued' = Queued \cup {t}
      BY <2>2, <1>0, <1>5 DEF Range, Reported, Queued
    <3>2. \A u \in inflight' : u.at < pos' /\ (u.kind = "whole" => u.at = 3 * (u.m - 1))
      BY <2>2, <1>0, <1>1, <1>2, <1>6 DEF MboxInv, InOnePlace
    <3>3. \A u, v \in inflight' : u.at = v.at => u = v
      BY <2>2, <1>6 DEF MboxInv, InOnePlace
    <3>4. /\ Range(sending') \cap (Range(jobs) \cup busy) = {} /\ Queued' \cap Reported' = {}
          /\ Queued' \cup Reported' \subseteq inflight' /\ inflight' \subseteq Queued' \cup Reported'
      BY <2>2, <3>1, <1>0, <1>7 DEF MboxInv, InOnePlace
    <3> QED BY <2>2, <3>1, <3>2, <3>3, <3>4, <1>0, <1>5, SameImport DEF MboxInv, InOnePlace, Running
  <2> QED BY <2>1, <2>2, <1>0
<1>9. Passed'
  <2> SUFFICES ASSUME NEW m \in 1..Messages, 3 * (m - 1) < pos' PROVE Accounted(m)' \/ Whole(m) \in inflight'
    BY <1>0, SameImport DEF Passed, Whole, Msg
  <2>1. CASE 3 * (m - 1) < pos
    BY <2>1, <1>0, <1>3 DEF MboxInv, Passed
  <2>2. CASE m = t.m /\ t.kind = "headerless"
    BY <2>2, <1>0 DEF Accounted
  <2>3. CASE m = t.m /\ t.kind = "whole"
    <3>1. CASE Excluded(t)
      BY <3>1, <2>3, <1>0 DEF Excluded, Accounted
    <3>2. CASE skipped' = skipped \cup {t.m}
      BY <3>2, <2>3 DEF Accounted
    <3>3. CASE inflight' = inflight \cup {t}
      BY <3>3, <2>3, <1>1
    <3> QED BY <3>1, <3>2, <3>3, <1>0
  <2> QED BY <2>1, <2>2, <2>3, <1>0, <1>1
<1>10. LowWater' /\ Finished'
  BY <1>0, <1>3, SameImport DEF MboxInv, LowWater, Finished
<1>11. \A i : Twin(i) => Twin(i)'
  BY <1>0, StaysAccounted
<1>12. Twins'
  <2>1. SkippedHasTwin'
    <3>1. \A m \in skipped : Twin(ids[m])
      BY DEF MboxInv, Twins, SkippedHasTwin, Twin
    <3>2. Seen(t) => Twin(ids[t.m])
      BY DEF MboxInv, Twins, Seen, MessageID
    <3>3. \A m \in skipped' : Twin(ids[m])
      BY <3>1, <3>2, <1>0
    <3> QED BY <3>3, <1>0, <1>11, SameImport DEF SkippedHasTwin, Twin
  <2> QED BY <2>1, <1>0, <1>11 DEF MboxInv, Twins
<1>13. Once'
  <2> SUFFICES ASSUME ~startedOver PROVE Once'
    BY <1>0 DEF Once
  <2>1. \A m \in 1..Messages : Known(m) => Known(m)'
    BY <1>0, SameImport DEF Known, Running, Whole, Msg
  <2>2. ASSUME ~Seen(t), t.kind = "whole", ids[t.m] # 0 PROVE copies[<<t.m, "whole">>] = 0
    <3>1. ids[t.m] \notin dedup
      BY <2>2 DEF Seen, MessageID
    <3>2. <<Whole(t.m), "ok">> \notin results
      <4>1. \A r \in results : r[1] \in Reported
        BY DEF Reported
      <4> QED BY <4>1, <2>2, <1>1, <1>7
    <3>3. ~Known(t.m)
      BY <3>1, <3>2, <1>0 DEF Known, Running
    <3>4. ~(copies[<<t.m, "whole">>] > 0)
      BY <3>3, <2>2, <1>2 DEF MboxInv, Once
    <3>5. <<t.m, "whole">> \in Readings
      BY <1>2 DEF Readings
    <3> QED BY <3>4, <3>5 DEF MboxInv, MboxTypes
  <2>3. \A u \in Queued' : u \in Queued \/ (u = t /\ ~Seen(t))
    <3>1. CASE sending' = sending
      BY <3>1, <1>0 DEF Queued
    <3>2. CASE sending' = <<t>> /\ ~Seen(t)
      BY <3>2, <1>0 DEF Queued, Range
    <3> QED BY <3>1, <3>2, <1>0
  <2>4. phase' \in Running /\ phase \in Running
    BY <1>0 DEF Running
  <2>5. \A u \in Queued' : u.kind = "whole" /\ ids[u.m] # 0 => copies[<<u.m, "whole">>] = 0
    BY <2>2, <2>3 DEF MboxInv, Once
  <2> QED BY <2>1, <2>4, <2>5, <1>0, SameImport DEF MboxInv, Once
<1> QED BY <1>4, <1>8, <1>9, <1>10, <1>12, <1>13 DEF MboxInv

\* The steps of the producer and of the end of a run leave the pool alone.
LEMMA PoolStays ==
    ASSUME MboxInv, UNCHANGED <<import, jobs, busy, results, sending, inflight, pos>>,
           phase = "send" <=> phase' = "send", phase' \in Running \/ inflight = {},
           stopping => stopping' \/ inflight = {}
    PROVE  InOnePlace' /\ Queued' = Queued
<1>1. Queued' = Queued /\ Reported' = Reported
  BY DEF Queued, Reported
<1>2. inflight = {} => results = {}
  <2>1. ASSUME inflight = {}, NEW r \in results PROVE FALSE
    <3>1. r[1] \in Reported
      BY DEF Reported
    <3> QED BY <3>1, <2>1 DEF MboxInv, InOnePlace
  <2> QED BY <2>1
<1> QED BY <1>1, <1>2, SameImport DEF MboxInv, InOnePlace, Running

LEMMA SendStep == ASSUME MboxInv, Send PROVE MboxInv'
<1>0. /\ phase = "send" /\ sending' = <<>>
      /\ \/ /\ Len(jobs) < 2 * workers /\ jobs' = jobs \o sending /\ phase' \in {"flush", "scan"} /\ outcome' = outcome
         \/ stopping /\ phase' = "drain" /\ outcome' = "cancelled" /\ jobs' = jobs
      /\ UNCHANGED <<import, locked, retired, disk, pos, consumed, unflushed, busy, results,
                   inflight, dedup, mf, stopping, copies, skipped, failed, beheaded, startedOver, stoppedLate, killed, upsets>>
  BY DEF Send, histVars
<1>1. PICK t \in MsgSet : sending = <<t>> /\ Range(sending) = {t}
  BY <1>0 DEF MboxInv, MboxTypes, InOnePlace, Range
<1>2. \A m \in 1..Messages : Accounted(m) => Accounted(m)'
  BY <1>0, StaysAccounted
<1>3. t \notin Range(jobs) /\ t \notin busy /\ jobs \in Seq(MsgSet) /\ IsInjective(jobs)
  BY <1>1 DEF MboxInv, InOnePlace, MboxTypes
<1>4. /\ jobs' \in Seq(MsgSet) /\ IsInjective(jobs') /\ Len(jobs') <= 2 * workers
      /\ Range(sending') = {} /\ Range(jobs) \subseteq Range(jobs')
      /\ Range(jobs') \subseteq Range(jobs) \cup {t} /\ (Range(jobs') = Range(jobs) \cup {t} \/ stopping)
  <2>1. Range(sending') = {}
    BY <1>0 DEF Range
  <2>2. CASE Len(jobs) < 2 * workers /\ jobs' = jobs \o sending
    <3>1. Len(jobs) \in Nat /\ workers \in Nat
      BY <1>3, MboxFacts DEF MboxInv, MboxTypes
    <3> QED BY <2>1, <2>2, <3>1, <1>1, <1>3, QueueAppend
  <2>3. CASE stopping /\ jobs' = jobs
    BY <2>1, <2>3, <1>3 DEF MboxInv, InOnePlace
  <2> QED BY <2>2, <2>3, <1>0
<1>5. MboxTypes'
  BY <1>0, <1>4, SameImport DEF MboxInv, MboxTypes
<1>6. Queued' \subseteq Queued /\ (Queued' = Queued \/ stopping) /\ Reported' = Reported
  BY <1>0, <1>1, <1>4 DEF Queued, Reported
<1>7. InOnePlace'
  <2>1. Range(jobs') \cap busy = {}
    BY <1>3, <1>4 DEF MboxInv, InOnePlace
  <2>2. Queued' \cap Reported' = {} /\ Queued' \cup Reported' \subseteq inflight'
    BY <1>0, <1>6 DEF MboxInv, InOnePlace
  <2>3. ~stopping => inflight' \subseteq Queued' \cup Reported'
    BY <1>0, <1>6 DEF MboxInv, InOnePlace
  <2>4. phase' \in Running /\ phase' # "send"
    BY <1>0 DEF Running
  <2> QED BY <2>1, <2>2, <2>3, <2>4, <1>0, <1>4, SameImport DEF MboxInv, InOnePlace
<1>8. Passed' /\ LowWater' /\ Finished'
  BY <1>0, <1>2, SameImport DEF MboxInv, Passed, LowWater, Finished, Whole, Msg
<1>9. Twins'
  BY <1>0, StaysAccounted, SameImport DEF MboxInv, Twins, SkippedHasTwin
<1>10. Once'
  <2>1. \A m \in 1..Messages : Known(m) => Known(m)'
    BY <1>0, SameImport DEF Known, Running, Whole, Msg
  <2>2. phase' \in Running /\ phase \in Running
    BY <1>0 DEF Running
  <2> QED BY <2>1, <2>2, <1>0, <1>6, SameImport DEF MboxInv, Once
<1> QED BY <1>5, <1>7, <1>8, <1>9, <1>10 DEF MboxInv

\* The offset a manifest gets passes nothing that is not accounted for.
LEMMA LowWaterMark ==
    ASSUME MboxInv
    PROVE  /\ resumeOffsetLocked \in 0..3 * Messages
           /\ \A m \in 1..Messages : 3 * (m - 1) < resumeOffsetLocked => Accounted(m)
<1> DEFINE S == {consumed} \cup {t.at : t \in inflight}
<1>0. Messages \in Nat /\ pos \in 0..3 * Messages /\ consumed \in 0..pos
  BY MboxFacts DEF MboxInv, MboxTypes
<1>1. S \in SUBSET Nat /\ consumed \in S
  BY <1>0 DEF MboxInv, MboxTypes, MsgSet
<1>2. resumeOffsetLocked = Min(S)
  BY DEF resumeOffsetLocked
<1>3. \A t \in inflight : t.at \in S
  OBVIOUS
<1> HIDE DEF S
<1>4. Min(S) \in S /\ \A y \in S : Min(S) <= y
  BY <1>1, LeastOf
<1>5. Min(S) \in Nat /\ Min(S) <= consumed
  BY <1>1, <1>4
<1>6. ASSUME NEW m \in 1..Messages, 3 * (m - 1) < Min(S) PROVE Accounted(m)
  <2>1. 3 * (m - 1) < pos
    BY <1>0, <1>5, <1>6
  <2>2. CASE Whole(m) \in inflight
    <3>1. Whole(m).at = 3 * (m - 1) /\ Min(S) <= Whole(m).at
      BY <2>2, <1>3, <1>4 DEF Whole, Msg
    <3> QED BY <3>1, <1>5, <1>6
  <2> QED BY <2>1, <2>2 DEF MboxInv, Passed
<1> QED BY <1>0, <1>2, <1>5, <1>6

LEMMA FlushMarkStep == ASSUME MboxInv, FlushMark PROVE MboxInv'
<1>0. /\ phase = "flush" /\ phase' = "write" /\ mf' = [mf EXCEPT !.off = resumeOffsetLocked] /\ unflushed' = 0
      /\ UNCHANGED <<import, locked, retired, disk, pos, consumed, sending, inflight, dedup, outcome,
                     jobs, busy, results, stopping, copies, skipped, failed, beheaded, startedOver, stoppedLate, killed, upsets>>
  BY DEF FlushMark, poolVars, histVars
<1>1. /\ mf' \in Manifests /\ mf'.off = resumeOffsetLocked /\ mf'.ids = mf.ids /\ mf'.status = mf.status
      /\ \A m \in 1..Messages : 3 * (m - 1) < mf'.off => Accounted(m)
  BY <1>0, LowWaterMark DEF MboxInv, MboxTypes, Manifests
<1>2. \A m \in 1..Messages : Accounted(m) => Accounted(m)'
  BY <1>0, StaysAccounted
<1>3. MboxTypes'
  BY <1>0, <1>1, SameImport DEF MboxInv, MboxTypes
<1>4. InOnePlace' /\ Queued' = Queued
  BY <1>0, PoolStays DEF Running
<1>5. Passed' /\ LowWater' /\ Finished'
  BY <1>0, <1>1, <1>2, SameImport DEF MboxInv, Passed, LowWater, Finished, Whole, Msg
<1>6. Twins'
  BY <1>0, <1>1, StaysAccounted, SameImport DEF MboxInv, Twins, SkippedHasTwin
<1>7. Once'
  BY <1>0, <1>1, <1>4, SameImport DEF MboxInv, Once, Known, Running, Whole, Msg
<1> QED BY <1>3, <1>4, <1>5, <1>6, <1>7 DEF MboxInv

LEMMA FlushWriteStep == ASSUME MboxInv, FlushWrite PROVE MboxInv'
<1>0. /\ phase = "write" /\ phase' = "scan"
      /\ \/ disk' = mf /\ UNCHANGED <<startedOver, upsets>>
         \/ upsets < MaxUpsets /\ upsets' = upsets + 1 /\ startedOver' = TRUE /\ disk' = disk
      /\ UNCHANGED <<import, locked, retired, pos, consumed, unflushed, sending, inflight, dedup, outcome,
                     jobs, busy, results, mf, stopping, copies, skipped, failed, beheaded, stoppedLate, killed>>
  BY DEF FlushWrite, runVars, poolVars, Upset
<1>1. disk' \in {disk, mf} /\ (startedOver => startedOver') /\ startedOver' \in BOOLEAN /\ upsets' \in 0..MaxUpsets
      /\ disk' \in Manifests
  <2>1. upsets \in 0..MaxUpsets /\ MaxUpsets \in Nat
    BY MboxAssumption DEF MboxInv, MboxTypes
  <2>2. disk \in Manifests /\ mf \in Manifests /\ startedOver \in BOOLEAN
    BY DEF MboxInv, MboxTypes
  <2>3. CASE disk' = mf /\ UNCHANGED <<startedOver, upsets>>
    BY <2>1, <2>2, <2>3
  <2>4. CASE upsets < MaxUpsets /\ upsets' = upsets + 1 /\ startedOver' = TRUE /\ disk' = disk
    BY <2>1, <2>2, <2>4
  <2> QED BY <2>3, <2>4, <1>0
<1>2. \A m \in 1..Messages : Accounted(m) => Accounted(m)'
  BY <1>0, StaysAccounted
<1>3. MboxTypes'
  BY <1>0, <1>1, SameImport DEF MboxInv, MboxTypes
<1>4. InOnePlace' /\ Queued' = Queued
  BY <1>0, PoolStays DEF Running
<1>5. Passed' /\ LowWater' /\ Finished'
  <2>1. mf.status # "complete"
    BY DEF MboxInv, MboxTypes
  <2> QED BY <2>1, <1>0, <1>1, <1>2, SameImport DEF MboxInv, Passed, LowWater, Finished, Whole, Msg
<1>6. Twins'
  BY <1>0, <1>1, StaysAccounted, SameImport DEF MboxInv, Twins, SkippedHasTwin
<1>7. Once'
  BY <1>0, <1>1, <1>4, SameImport DEF MboxInv, Once, Known, Running, Whole, Msg
<1> QED BY <1>3, <1>4, <1>5, <1>6, <1>7 DEF MboxInv

LEMMA EndScanStep == ASSUME MboxInv, EndScan PROVE MboxInv'
<1>0. /\ phase = "scan" /\ phase' = "drain"
      /\ \/ stopping /\ outcome' = "cancelled" /\ upsets' = upsets
         \/ ~stopping /\ pos >= 3 * Messages /\ outcome' = "ok" /\ upsets' = upsets
         \/ upsets < MaxUpsets /\ upsets' = upsets + 1 /\ outcome' = "scanError"
      /\ UNCHANGED <<import, locked, retired, disk, pos, consumed, unflushed, sending, inflight, dedup,
                     jobs, busy, results, mf, stopping, copies, skipped, failed, beheaded, startedOver, stoppedLate, killed>>
  BY DEF EndScan, poolVars, histVars, Upset
<1>1. upsets' \in 0..MaxUpsets /\ outcome' \in {"ok", "cancelled", "scanError"}
      /\ (outcome' = "ok" => pos = 3 * Messages /\ ~stopping)
  <2>1. upsets \in 0..MaxUpsets /\ MaxUpsets \in Nat
    BY MboxAssumption DEF MboxInv, MboxTypes
  <2>2. pos \in 0..3 * Messages /\ Messages \in Nat
    BY MboxFacts DEF MboxInv, MboxTypes
  <2> QED BY <2>1, <2>2, <1>0
<1>2. \A m \in 1..Messages : Accounted(m) => Accounted(m)'
  BY <1>0, StaysAccounted
<1>3. MboxTypes'
  BY <1>0, <1>1, SameImport DEF MboxInv, MboxTypes
<1>4. InOnePlace' /\ Queued' = Queued
  BY <1>0, PoolStays DEF Running
<1>5. Passed' /\ LowWater' /\ Finished'
  BY <1>0, <1>1, <1>2, SameImport DEF MboxInv, Passed, LowWater, Finished, Whole, Msg
<1>6. Twins'
  <2>1. SkippedHasTwin'
    BY <1>0, TwinsKept
  <2>2. \A i : Twin(i) => Twin(i)'
    BY <1>0, StaysAccounted
  <2> QED BY <2>1, <2>2, <1>0 DEF MboxInv, Twins
<1>7. Once'
  BY <1>0, <1>4, SameImport DEF MboxInv, Once, Known, Running, Whole, Msg
<1> QED BY <1>3, <1>4, <1>5, <1>6, <1>7 DEF MboxInv

\* A result more is a message reported more.
LEMMA ReportedMore ==
    ASSUME NEW t, NEW e, results' = results \cup {<<t, e>>}
    PROVE  Reported' = Reported \cup {t}
<1>1. \A x : x \in Reported' <=> \E r \in results' : x = r[1]
  BY DEF Reported
<1>2. \A x : x \in Reported <=> \E r \in results : x = r[1]
  BY DEF Reported
<1>3. <<t, e>>[1] = t /\ <<t, e>> \in results' /\ results \subseteq results'
  OBVIOUS
<1>4. Reported \cup {t} \subseteq Reported'
  BY <1>1, <1>2, <1>3
<1>5. ASSUME NEW x \in Reported' PROVE x \in Reported \cup {t}
  <2>1. PICK r \in results' : x = r[1]
    BY <1>1
  <2>2. r = <<t, e>> \/ r \in results
    OBVIOUS
  <2> QED BY <2>1, <2>2, <1>2, <1>3
<1> QED BY <1>4, <1>5

LEMMA WorkerLoopStep == ASSUME MboxInv, workerLoop PROVE MboxInv'
<1> DEFINE t == Head(jobs)
<1>0. /\ jobs # <<>> /\ Cardinality(busy) < workers /\ jobs' = Tail(jobs)
      /\ \/ stopping /\ results' = results \cup {<<t, "cancelled">>} /\ busy' = busy
         \/ ~stopping /\ busy' = busy \cup {t} /\ results' = results
      /\ UNCHANGED <<import, locked, retired, disk, phase, pos, consumed, unflushed, sending, inflight, dedup, outcome,
                     mf, stopping, copies, skipped, failed, beheaded, startedOver, stoppedLate, killed, upsets>>
  BY DEF workerLoop, runVars, histVars
<1>1. jobs \in Seq(MsgSet) /\ IsInjective(jobs)
  BY DEF MboxInv, MboxTypes, InOnePlace
<1>2. /\ t \in MsgSet /\ jobs' \in Seq(MsgSet) /\ IsInjective(jobs') /\ Len(jobs') = Len(jobs) - 1
      /\ Range(jobs) = {t} \cup Range(jobs') /\ t \notin Range(jobs')
  BY <1>0, <1>1, QueueTail
<1> HIDE DEF t
<1>3. t \notin busy /\ t \notin Range(sending) /\ t \notin Reported /\ t \in inflight
  BY <1>2 DEF MboxInv, InOnePlace, Queued
<1>4. \A m \in 1..Messages : Accounted(m) => Accounted(m)'
  BY <1>0, StaysAccounted
<1>5. MboxTypes'
  <2>1. busy' \subseteq MsgSet /\ results' \subseteq MsgSet \X {"ok", "failed", "cancelled"}
    BY <1>0, <1>2 DEF MboxInv, MboxTypes
  <2> QED BY <2>1, <1>0, <1>2, SameImport DEF MboxInv, MboxTypes
<1>6. phase \in Running
  BY <1>2, <1>3 DEF MboxInv, InOnePlace, Running
<1>7. InOnePlace'
  <2>1. CASE stopping /\ results' = results \cup {<<t, "cancelled">>} /\ busy' = busy
    <3>1. Reported' = Reported \cup {t} /\ Queued' = Queued \ {t}
      <4>1. Reported' = Reported \cup {t}
        BY <2>1, ReportedMore
      <4> QED BY <4>1, <2>1, <1>0, <1>2, <1>3 DEF Queued
    <3>2. \A r, s \in results' : r[1] = s[1] => r = s
      <4>1. \A r \in results : r[1] # t
        BY <1>3 DEF Reported
      <4> QED BY <4>1, <2>1 DEF MboxInv, InOnePlace
    <3>3. Len(jobs') <= 2 * workers
      BY <1>1, <1>2, MboxFacts DEF MboxInv, InOnePlace, MboxTypes
    <3> QED BY <3>1, <3>2, <3>3, <2>1, <1>0, <1>2, <1>3, <1>6, SameImport DEF MboxInv, InOnePlace
  <2>2. CASE ~stopping /\ busy' = busy \cup {t} /\ results' = results
    <3>1. Reported' = Reported /\ Queued' = Queued
      BY <2>2, <1>0, <1>2 DEF Reported, Queued
    <3>2. IsFiniteSet(busy') /\ Cardinality(busy') <= workers
      <4>1. IsFiniteSet(busy) /\ Cardinality(busy) \in Nat /\ workers \in Nat
        BY FS_CardinalityType, MboxFacts DEF MboxInv, InOnePlace, MboxTypes
      <4>2. IsFiniteSet(busy') /\ Cardinality(busy') = Cardinality(busy) + 1
        BY <4>1, <2>2, <1>3, FS_AddElement
      <4> QED BY <4>1, <4>2, <1>0
    <3>3. Len(jobs') <= 2 * workers
      BY <1>1, <1>2, MboxFacts DEF MboxInv, InOnePlace, MboxTypes
    <3>4. Range(jobs') \cap busy' = {} /\ Range(sending) \cap (Range(jobs') \cup busy') = {}
      BY <2>2, <1>2, <1>3 DEF MboxInv, InOnePlace
    <3> QED BY <3>1, <3>2, <3>3, <3>4, <2>2, <1>0, <1>2, <1>6, SameImport DEF MboxInv, InOnePlace
  <2> QED BY <2>1, <2>2, <1>0
<1>8. Passed' /\ LowWater' /\ Finished'
  BY <1>0, <1>4, SameImport DEF MboxInv, Passed, LowWater, Finished, Whole, Msg
<1>9. Twins'
  <2>1. \A r \in results' : r[2] = "ok" => r \in results
    BY <1>0
  <2> QED BY <2>1, <1>0, StaysAccounted, SameImport DEF MboxInv, Twins, SkippedHasTwin
<1>10. Once'
  <2>1. \A m \in 1..Messages : Known(m) => Known(m)'
    BY <1>0, SameImport DEF Known, Running, Whole, Msg
  <2>2. Queued' \subseteq Queued
    BY <1>0, <1>2 DEF Queued
  <2> QED BY <2>1, <2>2, <1>0, <1>6, SameImport DEF MboxInv, Once
<1> QED BY <1>5, <1>7, <1>8, <1>9, <1>10 DEF MboxInv

LEMMA IngestStep == ASSUME MboxInv, NEW t \in busy, Ingest(t) PROVE MboxInv'
<1>0. /\ busy' = busy \ {t}
      /\ \/ /\ copies' = [copies EXCEPT ![<<t.m, t.kind>>] = IF copies[<<t.m, t.kind>>] = 2 THEN 2 ELSE copies[<<t.m, t.kind>>] + 1]
            /\ results' = results \cup {<<t, "ok">>} /\ upsets' = upsets
         \/ /\ upsets' = upsets \/ (upsets < MaxUpsets /\ upsets' = upsets + 1)
            /\ copies' = copies /\ results' = results \cup {<<t, IF stopping THEN "cancelled" ELSE "failed">>}
      /\ UNCHANGED <<import, locked, retired, disk, phase, pos, consumed, unflushed, sending, inflight, dedup, outcome,
                     jobs, mf, stopping, skipped, failed, beheaded, startedOver, stoppedLate, killed>>
  BY DEF Ingest, runVars, histVars, Upset
<1>1. PICK e \in {"ok", "failed", "cancelled"} :
        /\ results' = results \cup {<<t, e>>} /\ (e = "cancelled" => stopping)
        /\ e = "ok" => copies' = [copies EXCEPT ![<<t.m, t.kind>>] = IF copies[<<t.m, t.kind>>] = 2 THEN 2 ELSE copies[<<t.m, t.kind>>] + 1]
        /\ e # "ok" => copies' = copies
  BY <1>0
<1>2. t \in MsgSet /\ <<t.m, t.kind>> \in Readings /\ copies \in [Readings -> 0..2]
  BY DEF MboxInv, MboxTypes, MsgSet, Readings
<1>3. /\ copies' \in [Readings -> 0..2] /\ \A r \in Readings : copies[r] > 0 => copies'[r] > 0
      /\ e = "ok" => copies'[<<t.m, t.kind>>] > 0 /\ (copies[<<t.m, t.kind>>] = 0 => copies'[<<t.m, t.kind>>] = 1)
      /\ \A r \in Readings : r # <<t.m, t.kind>> => copies'[r] = copies[r]
  BY <1>1, <1>2
<1>4. t \notin Range(jobs) /\ t \notin Range(sending) /\ t \notin Reported /\ t \in inflight
  BY DEF MboxInv, InOnePlace, Queued
<1>5. \A m \in 1..Messages : Accounted(m) => Accounted(m)'
  BY <1>0, <1>3, StaysAccounted
<1>6. MboxTypes'
  <2>1. busy' \subseteq MsgSet /\ results' \subseteq MsgSet \X {"ok", "failed", "cancelled"}
    BY <1>0, <1>1, <1>2 DEF MboxInv, MboxTypes
  <2>2. upsets' \in 0..MaxUpsets
    <3>1. upsets \in 0..MaxUpsets /\ MaxUpsets \in Nat
      BY MboxAssumption DEF MboxInv, MboxTypes
    <3> QED BY <3>1, <1>0
  <2> QED BY <2>1, <2>2, <1>0, <1>3, SameImport DEF MboxInv, MboxTypes
<1>7. phase \in Running
  BY <1>4 DEF MboxInv, InOnePlace, Running
<1>8. Reported' = Reported \cup {t} /\ Queued' = Queued \ {t}
  <2>1. Reported' = Reported \cup {t}
    BY <1>1, ReportedMore
  <2> QED BY <2>1, <1>0, <1>4 DEF Queued
<1>9. InOnePlace'
  <2>1. \A r, s \in results' : r[1] = s[1] => r = s
    <3>1. \A r \in results : r[1] # t
      BY <1>4 DEF Reported
    <3> QED BY <3>1, <1>1 DEF MboxInv, InOnePlace
  <2>2. IsFiniteSet(busy') /\ Cardinality(busy') <= workers
    <3>1. IsFiniteSet(busy) /\ Cardinality(busy) \in Nat /\ workers \in Nat /\ Cardinality(busy) <= workers
      BY FS_CardinalityType, MboxFacts DEF MboxInv, InOnePlace, MboxTypes
    <3>2. IsFiniteSet(busy') /\ Cardinality(busy') = Cardinality(busy) - 1
      BY <3>1, <1>0, FS_RemoveElement
    <3> QED BY <3>1, <3>2
  <2>3. ~stopping => \A r \in results' : r[2] # "cancelled"
    BY <1>1 DEF MboxInv, InOnePlace
  <2> QED BY <2>1, <2>2, <2>3, <1>0, <1>4, <1>7, <1>8, SameImport DEF MboxInv, InOnePlace
<1>10. Passed' /\ LowWater' /\ Finished'
  BY <1>0, <1>5, SameImport DEF MboxInv, Passed, LowWater, Finished, Whole, Msg
<1>11. Twins'
  <2>1. \A i : Twin(i) => Twin(i)'
    BY <1>0, <1>3, StaysAccounted
  <2>2. ASSUME NEW r \in results', r[2] = "ok" PROVE copies'[<<r[1].m, r[1].kind>>] > 0
    <3>1. CASE r \in results
      <4>1. r[1] \in MsgSet /\ <<r[1].m, r[1].kind>> \in Readings
        BY <3>1 DEF MboxInv, MboxTypes, MsgSet, Readings
      <4> QED BY <4>1, <3>1, <2>2, <1>3 DEF MboxInv, Twins
    <3>2. CASE r = <<t, e>>
      BY <3>2, <2>2, <1>3
    <3> QED BY <3>1, <3>2, <1>1
  <2>3. SkippedHasTwin'
    <3>1. \A m \in skipped : Twin(ids[m])
      BY DEF MboxInv, Twins, SkippedHasTwin, Twin
    <3> QED BY <3>1, <2>1, <1>0, SameImport DEF SkippedHasTwin, Twin
  <2> QED BY <2>1, <2>2, <2>3, <1>0, SameImport DEF MboxInv, Twins
<1>12. Once'
  <2> SUFFICES ASSUME ~startedOver PROVE Once'
    BY <1>0 DEF Once
  <2>1. t.kind = "whole" /\ ids[t.m] # 0 => copies[<<t.m, "whole">>] = 0 /\ t = Whole(t.m)
    BY <1>2, <1>4 DEF MboxInv, Once, Queued, InOnePlace, MsgSet, Whole, Msg
  <2>2. ASSUME NEW m \in 1..Messages, ids[m] # 0, copies'[<<m, "whole">>] > 0
        PROVE  Known(m)' /\ copies'[<<m, "whole">>] = 1
    <3>0. <<m, "whole">> \in Readings
      BY DEF Readings
    <3>1. CASE e = "ok" /\ <<m, "whole">> = <<t.m, t.kind>>
      <4>1. <<Whole(m), "ok">> \in results' /\ copies'[<<m, "whole">>] = 1
        BY <3>1, <2>1, <2>2, <1>1, <1>3
      <4> QED BY <4>1, <1>0, <1>7, SameImport DEF Known, Running, Whole, Msg
    <3>2. CASE ~(e = "ok" /\ <<m, "whole">> = <<t.m, t.kind>>)
      <4>1. copies'[<<m, "whole">>] = copies[<<m, "whole">>]
        BY <3>0, <3>2, <1>1, <1>3
      <4>2. Known(m) /\ copies[<<m, "whole">>] = 1
        BY <4>1, <2>2 DEF MboxInv, Once
      <4> QED BY <4>1, <4>2, <1>0, <1>1, SameImport DEF Known, Running, Whole, Msg
    <3> QED BY <3>1, <3>2
  <2>3. ASSUME NEW u \in Queued', u.kind = "whole", ids[u.m] # 0 PROVE copies'[<<u.m, "whole">>] = 0
    <3>1. u \in Queued /\ u # t /\ u \in inflight
      BY <1>8 DEF MboxInv, InOnePlace
    <3>2. u.m # t.m \/ t.kind # "whole"
      <4>1. u.at # t.at
        BY <3>1, <1>4 DEF MboxInv, InOnePlace
      <4>2. u.at = 3 * (u.m - 1) /\ (t.kind = "whole" => t.at = 3 * (t.m - 1))
        BY <3>1, <2>3, <1>4 DEF MboxInv, InOnePlace
      <4> QED BY <4>1, <4>2
    <3>3. <<u.m, "whole">> \in Readings /\ copies[<<u.m, "whole">>] = 0
      BY <3>1, <2>3 DEF MboxInv, Once, MboxTypes, MsgSet, Readings
    <3> QED BY <3>2, <3>3, <1>3
  <2> QED BY <2>2, <2>3, <1>0, <1>7, SameImport DEF MboxInv, Once
<1> QED BY <1>6, <1>9, <1>10, <1>11, <1>12 DEF MboxInv

LEMMA CollectedStep == ASSUME MboxInv, NEW r \in results, Collect(r) PROVE MboxInv'
<1> DEFINE t == r[1]
<1>0. /\ results' = results \ {r}
      /\ \/ /\ r[2] = "ok" /\ dedup' = dedup \cup ({MessageID(t)} \ {0})
            /\ mf' = [mf EXCEPT !.ids = mf.ids \cup ({MessageID(t)} \ {0})]
            /\ inflight' = inflight \ {t} /\ failed' = failed
         \/ /\ r[2] = "failed" /\ mf' = [mf EXCEPT !.errs = mf.errs \cup {t.m}]
            /\ inflight' = inflight \ {t} /\ failed' = failed \cup {t.m} /\ dedup' = dedup
         \/ r[2] = "cancelled" /\ UNCHANGED <<dedup, mf, inflight, failed>>
      /\ UNCHANGED <<import, locked, retired, disk, phase, pos, consumed, unflushed, sending, outcome,
                     jobs, busy, stopping, copies, skipped, beheaded, startedOver, stoppedLate, killed, upsets>>
  BY DEF Collect
<1>1. /\ r \in MsgSet \X {"ok", "failed", "cancelled"} /\ t \in MsgSet /\ r = <<t, r[2]>>
      /\ t \in Reported /\ t \in inflight /\ t.m \in 1..Messages
  <2>1. r \in MsgSet \X {"ok", "failed", "cancelled"}
    BY DEF MboxInv, MboxTypes
  <2>2. t \in Reported
    BY DEF Reported
  <2> QED BY <2>1, <2>2 DEF MboxInv, InOnePlace, MsgSet
<1>2. t \notin Queued /\ \A s \in results : s # r => s[1] # t
  BY <1>1 DEF MboxInv, InOnePlace
<1>3. /\ MessageID(t) \in Nat /\ (MessageID(t) # 0 => t.kind = "whole" /\ MessageID(t) = ids[t.m])
      /\ (t.kind = "whole" => MessageID(t) = ids[t.m])
  BY <1>1, MboxFacts DEF MessageID, MboxInv, MboxTypes
<1> DEFINE i == {MessageID(t)} \ {0}
<1>4. i \subseteq Nat /\ (r[2] = "ok" => dedup' = dedup \cup i /\ mf'.ids = mf.ids \cup i)
      /\ (r[2] # "ok" => dedup' = dedup /\ mf'.ids = mf.ids)
      /\ mf' \in Manifests /\ mf'.status = mf.status /\ mf'.off = mf.off
  <2>1. i \subseteq Nat
    BY <1>3
  <2>2. mf \in Manifests
    BY DEF MboxInv, MboxTypes
  <2>3. /\ r[2] = "ok" => dedup' = dedup \cup i /\ mf'.ids = mf.ids \cup i
        /\ r[2] # "ok" => dedup' = dedup /\ mf'.ids = mf.ids
    BY <1>0, <1>1, <2>2 DEF Manifests
  <2>4. mf' \in Manifests /\ mf'.status = mf.status /\ mf'.off = mf.off
    BY <1>0, <1>1, <2>1, <2>2 DEF Manifests
  <2> QED BY <2>1, <2>3, <2>4
<1>5. Reported' = Reported \ {t} /\ Queued' = Queued
  <2>1. \A s \in results' : s \in results /\ s # r
    BY <1>0
  <2>2. ASSUME NEW x \in Reported' PROVE x \in Reported \ {t}
    <3>1. PICK s \in results' : x = s[1]
      BY DEF Reported
    <3> QED BY <3>1, <2>1, <1>2 DEF Reported
  <2>3. ASSUME NEW x \in Reported \ {t} PROVE x \in Reported'
    <3>1. PICK s \in results : x = s[1]
      BY DEF Reported
    <3>2. s \in results'
      BY <3>1, <1>0, <2>3
    <3> QED BY <3>1, <3>2 DEF Reported
  <2> QED BY <2>2, <2>3, <1>0 DEF Queued
<1>6. \A m \in 1..Messages : Accounted(m) => Accounted(m)'
  BY <1>0, StaysAccounted
<1>7. inflight' \subseteq inflight /\ inflight \ {t} \subseteq inflight' /\ (inflight' = inflight \ {t} \/ r[2] = "cancelled")
  BY <1>0
<1>8. MboxTypes'
  <2>1. {skipped', failed', beheaded'} \subseteq SUBSET (1..Messages)
    BY <1>0, <1>1 DEF MboxInv, MboxTypes
  <2>2. dedup' \subseteq Nat /\ inflight' \subseteq MsgSet /\ results' \subseteq MsgSet \X {"ok", "failed", "cancelled"}
    BY <1>0, <1>4, <1>7 DEF MboxInv, MboxTypes
  <2> QED BY <2>1, <2>2, <1>0, <1>4, SameImport DEF MboxInv, MboxTypes
<1>9. phase \in Running
  BY <1>1 DEF MboxInv, InOnePlace, Running
<1> HIDE DEF t, i
<1>10. InOnePlace'
  <2>1. Queued' \cap Reported' = {} /\ Queued' \cup Reported' \subseteq inflight'
    BY <1>2, <1>5, <1>7 DEF MboxInv, InOnePlace
  <2>2. ~stopping => inflight' \subseteq Queued' \cup Reported' /\ \A s \in results' : s[2] # "cancelled"
    <3>1. ~stopping => r[2] # "cancelled"
      BY DEF MboxInv, InOnePlace
    <3> QED BY <3>1, <1>0, <1>5, <1>7 DEF MboxInv, InOnePlace
  <2>3. \A s, u \in results' : s[1] = u[1] => s = u
    BY <1>0 DEF MboxInv, InOnePlace
  <2> QED BY <2>1, <2>2, <2>3, <1>0, <1>7, <1>9, SameImport DEF MboxInv, InOnePlace
<1>11. Passed'
  <2> SUFFICES ASSUME NEW m \in 1..Messages, 3 * (m - 1) < pos PROVE Accounted(m)' \/ Whole(m) \in inflight'
    BY <1>0, SameImport DEF Passed, Whole, Msg
  <2>1. CASE Accounted(m) \/ (Whole(m) \in inflight /\ Whole(m) # t)
    BY <2>1, <1>6, <1>7
  <2>2. CASE Whole(m) = t
    <3>1. t.m = m /\ t.kind = "whole"
      BY <2>2 DEF Whole, Msg
    <3>2. CASE r[2] = "ok"
      <4>1. copies[<<m, "whole">>] > 0
        BY <3>1, <3>2 DEF MboxInv, Twins, t
      <4> QED BY <4>1, <1>0 DEF Accounted
    <3>3. CASE r[2] = "failed"
      <4>1. m \in failed'
        BY <1>0, <3>1, <3>3 DEF t
      <4> QED BY <4>1 DEF Accounted
    <3>4. CASE r[2] = "cancelled"
      BY <1>0, <3>4, <1>1, <2>2 
    <3> QED BY <3>2, <3>3, <3>4, <1>1
  <2> QED BY <2>1, <2>2 DEF MboxInv, Passed
<1>12. LowWater' /\ Finished'
  BY <1>0, <1>4, <1>6, <1>7, SameImport DEF MboxInv, LowWater, Finished
<1>13. \A k : Twin(k) => Twin(k)'
  BY <1>0, StaysAccounted
<1>14. Twins'
  <2>1. \A s \in results' : s[2] = "ok" => copies[<<s[1].m, s[1].kind>>] > 0
    BY <1>0 DEF MboxInv, Twins
  <2>2. \A k \in dedup' \cup mf'.ids \cup disk.ids : k # 0 => Twin(k)
    <3>1. r[2] = "ok" => \A k \in i : k # 0 => Twin(k)
      BY <1>1, <1>3 DEF MboxInv, Twins, Twin, t, i
    <3> QED BY <3>1, <1>4 DEF MboxInv, Twins
  <2>3. SkippedHasTwin'
    BY <1>0, TwinsKept
  <2> QED BY <2>1, <2>2, <2>3, <1>0, <1>13 DEF Twins
<1>15. Once'
  <2> SUFFICES ASSUME ~startedOver PROVE Once'
    BY <1>0 DEF Once
  <2>1. ASSUME NEW m \in 1..Messages, ids[m] # 0, Known(m) PROVE Known(m)'
    <3>1. ids[m] \in dedup \/ <<Whole(m), "ok">> \in results
      BY <2>1, <1>9 DEF Known
    <3>2. CASE ids[m] \in dedup \/ <<Whole(m), "ok">> # r
      BY <3>1, <3>2, <1>0, <1>4, <1>9, SameImport DEF Known, Whole, Msg
    <3>3. CASE <<Whole(m), "ok">> = r
      <4>1. t = Whole(m) /\ r[2] = "ok" /\ t.m = m /\ t.kind = "whole"
        BY <3>3 DEF t, Whole, Msg
      <4>2. ids[m] \in dedup'
        BY <4>1, <2>1, <1>3, <1>4 DEF i
      <4> QED BY <4>2, <1>0, <1>9, SameImport DEF Known
    <3> QED BY <3>2, <3>3
  <2>2. dedup' \subseteq mf'.ids
    BY <1>4, <1>9 DEF MboxInv, Once
  <2> QED BY <2>1, <2>2, <1>0, <1>5, <1>9, SameImport DEF MboxInv, Once
<1> QED BY <1>8, <1>10, <1>11, <1>12, <1>14, <1>15 DEF MboxInv

LEMMA FinishStep == ASSUME MboxInv, Finish PROVE MboxInv'
<1>0. PICK final :
      /\ final = [mf EXCEPT !.off = resumeOffsetLocked,
                            !.status = CASE outcome = "cancelled" -> "interrupted"
                                         [] outcome = "scanError" -> "failed"
                                         [] OTHER -> "complete"]
      /\ \/ disk' = final /\ UNCHANGED <<startedOver, upsets>>
         \/ upsets < MaxUpsets /\ upsets' = upsets + 1 /\ startedOver' = TRUE /\ disk' = disk
      /\ phase = "drain" /\ jobs = <<>> /\ busy = {} /\ results = {}
      /\ phase' = IF outcome = "ok" THEN "retire" ELSE "release"
      /\ mf' = FreshManifest /\ inflight' = {} /\ dedup' = {} /\ pos' = 0 /\ consumed' = 0
      /\ unflushed' = 0 /\ outcome' = "ok"
      /\ UNCHANGED <<import, locked, retired, sending, jobs, busy, results, stopping, copies,
                   skipped, failed, beheaded, stoppedLate, killed>>
  BY DEF Finish, poolVars, Upset
<1>1. PICK s \in {"interrupted", "failed", "complete"} :
        final = [mf EXCEPT !.off = resumeOffsetLocked, !.status = s] /\ (s = "complete" => outcome = "ok")
  BY <1>0 DEF MboxInv, MboxTypes
<1>2. /\ final \in Manifests /\ final.off = resumeOffsetLocked /\ final.ids = mf.ids /\ final.status = s
      /\ FreshManifest \in Manifests
  <2>1. FreshManifest \in Manifests
    BY MboxFacts DEF MboxInv, MboxTypes, Manifests, FreshManifest
  <2> QED BY <2>1, <1>1, LowWaterMark DEF MboxInv, MboxTypes, Manifests
<1>3. \A m \in 1..Messages : Accounted(m) => Accounted(m)'
  BY <1>0, StaysAccounted
<1>4. Queued' = {} /\ Reported' = {} /\ Range(sending') = {} /\ Queued = {} /\ Reported = {} /\ sending = <<>>
  BY <1>0 DEF MboxInv, InOnePlace, Queued, Reported, Range
<1>5. MboxTypes'
  <2>1. upsets' \in 0..MaxUpsets /\ startedOver' \in BOOLEAN
    <3>1. upsets \in 0..MaxUpsets /\ MaxUpsets \in Nat /\ startedOver \in BOOLEAN
      BY MboxAssumption DEF MboxInv, MboxTypes
    <3>2. CASE UNCHANGED <<startedOver, upsets>>
      BY <3>1, <3>2
    <3>3. CASE upsets < MaxUpsets /\ upsets' = upsets + 1 /\ startedOver' = TRUE
      BY <3>1, <3>3
    <3> QED BY <3>2, <3>3, <1>0
  <2>2. disk' \in Manifests /\ mf' \in Manifests /\ mf'.status = "in_progress"
    BY <1>0, <1>2 DEF MboxInv, MboxTypes, FreshManifest
  <2>3. pos' \in 0..3 * Messages /\ consumed' \in 0..pos'
    BY <1>0, MboxFacts DEF MboxInv, MboxTypes
  <2>4. phase' \in {"retire", "release"}
    BY <1>0
  <2> QED BY <2>1, <2>2, <2>3, <2>4, <1>0, SameImport DEF MboxInv, MboxTypes
<1>6. InOnePlace'
  <2>1. phase' # "send"
    BY <1>0
  <2> QED BY <2>1, <1>0, <1>4, SameImport DEF MboxInv, InOnePlace
<1>7. \A m \in 1..Messages : ~(3 * (m - 1) < 0)
  BY MboxFacts DEF MboxInv, MboxTypes
<1>8. Passed' /\ LowWater'
  <2>1. \A m \in 1..Messages : 3 * (m - 1) < disk'.off => Accounted(m)
    BY <1>0, <1>2, LowWaterMark DEF MboxInv, LowWater
  <2> QED BY <2>1, <1>0, <1>3, <1>7, SameImport DEF Passed, LowWater, FreshManifest
<1>9. Finished'
  <2>1. outcome = "ok" /\ ~stoppedLate => \A m \in 1..Messages : Accounted(m)
    <3> SUFFICES ASSUME outcome = "ok", ~stoppedLate, NEW m \in 1..Messages PROVE Accounted(m)
      OBVIOUS
    <3>1. pos = 3 * Messages /\ (stopping => inflight = {})
      BY <1>0 DEF MboxInv, Finished
    <3>2. inflight = {}
      BY <3>1, <1>4 DEF MboxInv, InOnePlace
    <3>3. 3 * (m - 1) < pos
      BY <3>1, MboxFacts DEF MboxInv, MboxTypes
    <3> QED BY <3>2, <3>3 DEF MboxInv, Passed
  <2>2. disk'.status = "complete" => disk.status = "complete" \/ outcome = "ok"
    BY <1>0, <1>1, <1>2
  <2>3. phase' = "retire" => outcome = "ok"
    BY <1>0
  <2>4. phase' # "drain"
    BY <1>0
  <2> QED BY <2>1, <2>2, <2>3, <2>4, <1>0, <1>3, SameImport DEF MboxInv, Finished
<1>10. \A k : Twin(k) => Twin(k)'
  BY <1>0, StaysAccounted
<1>11. Twins'
  <2>1. \A k \in dedup' \cup mf'.ids \cup disk'.ids : k \in disk.ids \/ k \in mf.ids
    BY <1>0, <1>2 DEF FreshManifest
  <2>2. SkippedHasTwin'
    BY <1>0, TwinsKept
  <2> QED BY <2>1, <2>2, <1>0, <1>10 DEF MboxInv, Twins
<1>12. Once'
  <2> SUFFICES ASSUME ~startedOver' PROVE Once'
    BY DEF Once
  <2>1. disk' = final /\ ~startedOver /\ phase \in Running /\ phase' \notin Running
    BY <1>0 DEF Running
  <2>2. ASSUME NEW m \in 1..Messages, ids[m] # 0, copies[<<m, "whole">>] > 0
        PROVE  ids[m] \in disk'.ids /\ copies[<<m, "whole">>] = 1
    <3>1. Known(m) /\ copies[<<m, "whole">>] = 1 /\ dedup \subseteq mf.ids
      BY <2>1, <2>2 DEF MboxInv, Once
    <3> QED BY <3>1, <2>1, <1>0, <1>2 DEF Known
  <2> QED BY <2>1, <2>2, <1>0, <1>4, SameImport DEF Once, Known
<1> QED BY <1>5, <1>6, <1>8, <1>9, <1>11, <1>12 DEF MboxInv

\* The steps at the end of a run and those of the process.
LEMMA EndingStep == ASSUME MboxInv, releaseLock \/ moveToDone PROVE MboxInv'
<1>0. /\ phase \in {"release", "retire"} /\ phase' = "down" /\ locked' = FALSE /\ stopping' = FALSE
      /\ retired' = retired \/ (phase = "retire" /\ retired' \in BOOLEAN)
      /\ upsets' = upsets \/ (upsets < MaxUpsets /\ upsets' = upsets + 1)
      /\ UNCHANGED <<import, disk, pos, consumed, unflushed, sending, inflight, dedup, outcome, jobs, busy, results,
                     mf, copies, skipped, failed, beheaded, startedOver, stoppedLate, killed>>
  BY DEF releaseLock, moveToDone, runVars, poolVars, histVars, Upset
<1>1. inflight = {} /\ results = {} /\ Queued = {} /\ Reported = {} /\ sending = <<>> /\ Queued' = {} /\ Reported' = {}
  BY <1>0, NotRunning DEF MboxInv, Running, Queued, Reported
<1>2. \A m \in 1..Messages : Accounted(m) => Accounted(m)'
  BY <1>0, StaysAccounted
<1>3. MboxTypes'
  <2>1. upsets' \in 0..MaxUpsets
    <3>1. upsets \in 0..MaxUpsets /\ MaxUpsets \in Nat
      BY MboxAssumption DEF MboxInv, MboxTypes
    <3> QED BY <3>1, <1>0
  <2>2. retired' \in BOOLEAN
    BY <1>0 DEF MboxInv, MboxTypes
  <2> QED BY <2>1, <2>2, <1>0, SameImport DEF MboxInv, MboxTypes
<1>4. InOnePlace'
  BY <1>0, <1>1, SameImport DEF MboxInv, InOnePlace
<1>5. Passed' /\ LowWater' /\ Finished'
  BY <1>0, <1>2, SameImport DEF MboxInv, Passed, LowWater, Finished, Whole, Msg
<1>6. Twins'
  <2>1. SkippedHasTwin'
    BY <1>0, TwinsKept
  <2>2. \A i : Twin(i) => Twin(i)'
    BY <1>0, StaysAccounted
  <2> QED BY <2>1, <2>2, <1>0 DEF MboxInv, Twins
<1>7. Once'
  BY <1>0, <1>1, SameImport DEF MboxInv, Once, Known, Running
<1> QED BY <1>3, <1>4, <1>5, <1>6, <1>7 DEF MboxInv

LEMMA StopStep == ASSUME MboxInv, Stop PROVE MboxInv'
<1>0. /\ phase # "down" /\ ~stopping /\ upsets < MaxUpsets /\ upsets' = upsets + 1 /\ stopping' = TRUE
      /\ stoppedLate' = (stoppedLate \/ (phase = "drain" /\ outcome = "ok" /\ inflight # {}))
      /\ UNCHANGED <<import, locked, retired, disk, phase, pos, consumed, unflushed, sending, inflight, dedup, outcome,
                     jobs, busy, results, mf, copies, skipped, failed, beheaded, startedOver, killed>>
  BY DEF Stop, runVars, poolVars, Upset
<1>1. \A m \in 1..Messages : Accounted(m) => Accounted(m)'
  BY <1>0, StaysAccounted
<1>2. stoppedLate \in BOOLEAN /\ stoppedLate' \in BOOLEAN /\ (stoppedLate => stoppedLate')
      /\ (phase = "drain" /\ outcome = "ok" /\ inflight # {} => stoppedLate')
  BY <1>0 DEF MboxInv, MboxTypes
<1>3. MboxTypes'
  <2>1. upsets' \in 0..MaxUpsets
    <3>1. upsets \in 0..MaxUpsets /\ MaxUpsets \in Nat
      BY MboxAssumption DEF MboxInv, MboxTypes
    <3> QED BY <3>1, <1>0
  <2> QED BY <2>1, <1>0, <1>2, SameImport DEF MboxInv, MboxTypes
<1>4. InOnePlace' /\ Queued' = Queued
  BY <1>0, PoolStays DEF MboxInv, InOnePlace
<1>5. Passed' /\ LowWater' /\ Finished'
  BY <1>0, <1>1, <1>2, SameImport DEF MboxInv, Passed, LowWater, Finished, Whole, Msg
<1>6. Twins'
  <2>1. SkippedHasTwin'
    BY <1>0, TwinsKept
  <2>2. \A i : Twin(i) => Twin(i)'
    BY <1>0, StaysAccounted
  <2> QED BY <2>1, <2>2, <1>0 DEF MboxInv, Twins
<1>7. Once'
  BY <1>0, <1>4, SameImport DEF MboxInv, Once, Known, Running, Whole, Msg
<1> QED BY <1>3, <1>4, <1>5, <1>6, <1>7 DEF MboxInv

LEMMA KillStep == ASSUME MboxInv, Kill PROVE MboxInv'
<1>0. /\ phase # "down" /\ upsets < MaxUpsets /\ upsets' = upsets + 1 /\ phase' = "down" /\ stopping' = FALSE
      /\ startedOver' = TRUE /\ killed' = TRUE
      /\ jobs' = <<>> /\ busy' = {} /\ results' = {} /\ sending' = <<>> /\ inflight' = {}
      /\ mf' = FreshManifest /\ dedup' = {} /\ pos' = 0 /\ consumed' = 0 /\ unflushed' = 0 /\ outcome' = "ok"
      /\ UNCHANGED <<import, locked, retired, disk, copies, skipped, failed, beheaded, stoppedLate>>
  BY DEF Kill, Upset
<1>1. \A m \in 1..Messages : Accounted(m) => Accounted(m)'
  BY <1>0, StaysAccounted
<1>2. FreshManifest \in Manifests /\ FreshManifest.status = "in_progress"
  BY MboxFacts DEF MboxInv, MboxTypes, Manifests, FreshManifest
<1>3. MboxTypes'
  <2>1. upsets' \in 0..MaxUpsets
    <3>1. upsets \in 0..MaxUpsets /\ MaxUpsets \in Nat
      BY MboxAssumption DEF MboxInv, MboxTypes
    <3> QED BY <3>1, <1>0
  <2>2. pos' \in 0..3 * Messages /\ consumed' \in 0..pos'
    BY <1>0, MboxFacts DEF MboxInv, MboxTypes
  <2>3. jobs' \in Seq(MsgSet)
    BY <1>0
  <2>4. {locked', retired', stopping', startedOver', stoppedLate', killed'} \subseteq BOOLEAN
    BY <1>0 DEF MboxInv, MboxTypes
  <2> QED BY <2>1, <2>2, <2>3, <2>4, <1>0, <1>2, SameImport DEF MboxInv, MboxTypes
<1>4. Queued' = {} /\ Reported' = {} /\ Range(jobs') = {} /\ Range(sending') = {}
  BY <1>0 DEF Queued, Reported, Range
<1>5. InOnePlace'
  <2>1. IsFiniteSet(busy') /\ Cardinality(busy') = 0
    BY <1>0, FS_EmptySet
  <2>2. Len(jobs') = 0 /\ IsInjective(jobs')
    BY <1>0 DEF IsInjective
  <2> QED BY <2>1, <2>2, <1>0, <1>4, SameImport, MboxFacts DEF MboxInv, MboxTypes, InOnePlace, Running
<1>6. \A m \in 1..Messages : ~(3 * (m - 1) < 0)
  BY MboxFacts DEF MboxInv, MboxTypes
<1>7. Passed' /\ LowWater' /\ Finished'
  BY <1>0, <1>1, <1>6, SameImport DEF MboxInv, Passed, LowWater, Finished, FreshManifest
<1>8. Twins'
  <2>1. \A i \in dedup' \cup mf'.ids \cup disk'.ids : i \in disk.ids
    BY <1>0 DEF FreshManifest
  <2>2. SkippedHasTwin'
    BY <1>0, TwinsKept
  <2> QED BY <2>1, <2>2, <1>0, StaysAccounted DEF MboxInv, Twins
<1>9. Once'
  BY <1>0 DEF Once
<1> QED BY <1>3, <1>5, <1>7, <1>8, <1>9 DEF MboxInv

LEMMA MboxStep == MboxInv /\ [MboxNext]_mboxVars => MboxInv'
<1> SUFFICES ASSUME MboxInv, [MboxNext]_mboxVars PROVE MboxInv'
  OBVIOUS
<1>1. CASE UNCHANGED mboxVars
  <2>0. UNCHANGED <<import, locked, retired, disk, phase, pos, consumed, unflushed, sending, inflight, dedup, outcome,
                    jobs, busy, results, mf, stopping, copies, skipped, failed, beheaded, startedOver, stoppedLate, killed,
                    upsets>>
    BY <1>1 DEF mboxVars, runVars, poolVars, histVars
  <2>1. MboxTypes'
    BY <2>0, SameImport DEF MboxInv, MboxTypes
  <2>2. InOnePlace' /\ Queued' = Queued
    BY <2>0, PoolStays DEF MboxInv, InOnePlace
  <2>3. \A m \in 1..Messages : Accounted(m) => Accounted(m)'
    BY <2>0, StaysAccounted
  <2>4. Passed' /\ LowWater' /\ Finished'
    BY <2>0, <2>3, SameImport DEF MboxInv, Passed, LowWater, Finished, Whole, Msg
  <2>5. Twins'
    BY <2>0, StaysAccounted, SameImport DEF MboxInv, Twins, SkippedHasTwin
  <2>6. Once'
    BY <2>0, <2>2, SameImport DEF MboxInv, Once, Known, Running, Whole, Msg
  <2> QED BY <2>1, <2>2, <2>4, <2>5, <2>6 DEF MboxInv
<1>2. CASE \E o \in {"none", "true", "false"} : Start(o)
  BY <1>2, StartStep
<1>3. CASE Producer
  BY <1>3, ScanStep, SendStep, FlushMarkStep, FlushWriteStep, EndScanStep DEF Producer
<1>4. CASE workerLoop \/ Ingested \/ Collected \/ Finish
  BY <1>4, WorkerLoopStep, IngestStep, CollectedStep, FinishStep DEF Ingested, Collected
<1>5. CASE releaseLock \/ moveToDone \/ Stop \/ Kill
  BY <1>5, EndingStep, StopStep, KillStep
<1> QED BY <1>1, <1>2, <1>3, <1>4, <1>5 DEF MboxNext

LEMMA MboxMeans == MboxInv => MboxSafe
<1> SUFFICES ASSUME MboxInv PROVE MboxSafe
  OBVIOUS
<1>1. MboxTypeOK
  <2>1. disk \in Manifests /\ mf \in Manifests
    BY DEF MboxInv, MboxTypes
  <2>2. Range(jobs) \cup busy \cup {r[1] : r \in results} \subseteq inflight
    BY DEF MboxInv, InOnePlace, Queued, Reported
  <2> QED BY <2>1, <2>2 DEF MboxInv, MboxTypes, InOnePlace, MboxTypeOK, Manifests
<1>2. ResumePointSafe
  BY DEF MboxInv, LowWater, ResumePointSafe
<1>3. CompleteUnlessStoppedLate
  BY DEF MboxInv, Finished, CompleteUnlessStoppedLate
<1>4. SkippedHasTwin
  BY DEF MboxInv, Twins
<1>5. StagedAgainOnlyWhenOver
  <2> SUFFICES ASSUME ~startedOver, NEW m \in 1..Messages, ids[m] # 0, copies[<<m, "whole">>] = 2 PROVE FALSE
    BY DEF StagedAgainOnlyWhenOver
  <2> QED BY DEF MboxInv, Once
<1> QED BY <1>1, <1>2, <1>3, <1>4, <1>5 DEF MboxSafe

\* An interrupted import loses nothing and doubles little, for any archive,
\* any number of workers, stops, kills and failed manifest writes (mbox
\* Import, resumeOffsetLocked, DedupSet, RunOneShot).
THEOREM MboxIsSafe == MboxSpec => []MboxSafe
<1>1. MboxSpec => []MboxInv
  BY MboxStart, MboxStep, PTL DEF MboxSpec
<1> QED BY <1>1, MboxMeans, PTL
-----------------------------------------------------------------------------
(* The polling connectors. *)

-----------------------------------------------------------------------------
(* The order of a listing. *)

Ascending(q) == \A i, j \in DOMAIN q : i < j => q[i] < q[j]

\* A part of a finite set is counted by a number, a proper part by a smaller one.
LEMMA PartCount ==
    ASSUME NEW D, IsFiniteSet(D), NEW S \in SUBSET D
    PROVE  /\ IsFiniteSet(S) /\ Cardinality(S) \in Nat /\ Cardinality(D) \in Nat
           /\ Cardinality(S) <= Cardinality(D)
           /\ S # D => Cardinality(S) < Cardinality(D)
<1>1. /\ IsFiniteSet(S) /\ Cardinality(S) <= Cardinality(D)
      /\ Cardinality(D) = Cardinality(S) => D = S
    BY FS_Subset
<1>2. Cardinality(S) \in Nat /\ Cardinality(D) \in Nat
    BY <1>1, FS_CardinalityType
<1> QED BY <1>1, <1>2

\* A later entry has more entries before it.
LEMMA OlderGrows ==
    ASSUME NEW S \in SUBSET Int, IsFiniteSet(S), NEW x \in S, NEW y \in S, x < y
    PROVE  Cardinality({f \in S : f < x}) < Cardinality({f \in S : f < y})
<1> DEFINE A == {f \in S : f < x}
           B == {f \in S : f < y}
<1>1. A \in SUBSET B /\ x \in B /\ x \notin A /\ B \in SUBSET S
    <2>1. \A f \in S : f \in Int /\ (f < x => f < y)
        OBVIOUS
    <2>2. A \in SUBSET B
        BY <2>1
    <2> QED BY <2>2
<1>2. IsFiniteSet(B)
    BY <1>1, PartCount
<1> HIDE DEF A, B
<1>3. Cardinality(A) < Cardinality(B)
    BY <1>1, <1>2, PartCount
<1> QED BY <1>3 DEF A, B

LEMMA OlderLess ==
    ASSUME NEW S \in SUBSET Int, IsFiniteSet(S), NEW x \in S
    PROVE  /\ Cardinality({f \in S : f < x}) \in Nat /\ Cardinality(S) \in Nat
           /\ Cardinality({f \in S : f < x}) < Cardinality(S)
<1> DEFINE A == {f \in S : f < x}
<1>1. A \in SUBSET S /\ x \notin A
    OBVIOUS
<1> HIDE DEF A
<1>2. Cardinality(A) \in Nat /\ Cardinality(S) \in Nat /\ Cardinality(A) < Cardinality(S)
    BY <1>1, PartCount
<1> QED BY <1>2 DEF A

\* Numbers apart below the size of a finite set are all the numbers below it.
LEMMA NumbersReached ==
    ASSUME NEW D, IsFiniteSet(D), NEW f \in [D -> Nat],
           \A x \in D : f[x] < Cardinality(D),
           \A x, y \in D : f[x] = f[y] => x = y,
           NEW i \in Nat, i < Cardinality(D)
    PROVE  \E x \in D : f[x] = i
<1> DEFINE n == Cardinality(D)
           T == 0..(n - 1)
<1>1. n \in Nat
    BY FS_CardinalityType
<1>2. IsFiniteSet(T) /\ Cardinality(T) = n
    <2>1. 0 \in Int /\ n - 1 \in Int
        BY <1>1
    <2>2. IsFiniteSet(T) /\ Cardinality(T) = IF 0 > n - 1 THEN 0 ELSE (n - 1) - 0 + 1
        <3> HIDE DEF n
        <3> QED BY <2>1, FS_Interval
    <2> QED BY <1>1, <2>2
<1>3. f \in Injection(D, T)
    BY <1>1 DEF Injection, IsInjective
<1>4. f \in Surjection(D, T)
    BY <1>2, <1>3, FS_Injection
<1>5. i \in T
    BY <1>1
<1> QED BY <1>4, <1>5 DEF Surjection

\* The i-th entry of S is the one with i - 1 older ones.
Ranked(S) ==
    [i \in 1..Cardinality(S) |-> CHOOSE e \in S : Cardinality({f \in S : f < e}) = i - 1]

\* Ranked(S) goes through S, each entry once, in ascending order.
LEMMA RankedIs ==
    ASSUME NEW S \in SUBSET Int, IsFiniteSet(S)
    PROVE  /\ Ranked(S) \in Seq(S) /\ Len(Ranked(S)) = Cardinality(S)
           /\ Ascending(Ranked(S)) /\ Range(Ranked(S)) = S
<1> DEFINE n == Cardinality(S)
           rank == [e \in S |-> Cardinality({f \in S : f < e})]
           q == Ranked(S)
<1>1. n \in Nat
    BY FS_CardinalityType
<1>2. rank \in [S -> Nat] /\ \A e \in S : rank[e] < n
    BY OlderLess
<1>3. \A x, y \in S : x < y => rank[x] < rank[y]
    BY OlderGrows
<1>4. \A x, y \in S : rank[x] = rank[y] => x = y
    <2>1. SUFFICES ASSUME NEW x \in S, NEW y \in S, rank[x] = rank[y], x # y
                   PROVE  FALSE
        OBVIOUS
    <2>2. x < y \/ y < x
        BY <2>1
    <2>3. rank[x] \in Nat /\ rank[y] \in Nat
        BY <1>2
    <2> HIDE DEF rank
    <2> QED BY <2>1, <2>2, <2>3, <1>3
<1>5. \A i \in 1..n : \E e \in S : rank[e] = i - 1
    <2>1. TAKE i \in 1..n
    <2>2. i - 1 \in Nat /\ i - 1 < n
        BY <1>1
    <2> HIDE DEF rank
    <2>3. \E e \in S : rank[e] = i - 1
        BY <1>1, <1>2, <1>4, <2>2, NumbersReached, Zenon
    <2> QED BY <2>3
<1>6. q = [i \in 1..n |-> CHOOSE e \in S : Cardinality({f \in S : f < e}) = i - 1]
    BY DEF Ranked
<1>7. \A i \in 1..n : q[i] \in S /\ rank[q[i]] = i - 1
    <2>1. TAKE i \in 1..n
    <2>2. PICK e \in S : Cardinality({f \in S : f < e}) = i - 1
        BY <1>5
    <2>3. q[i] = CHOOSE x \in S : Cardinality({f \in S : f < x}) = i - 1
        BY <1>6
    <2>4. q[i] \in S /\ Cardinality({f \in S : f < q[i]}) = i - 1
        BY <2>2, <2>3
    <2> QED BY <2>4
<1>8. q \in Seq(S) /\ Len(q) = n /\ DOMAIN q = 1..n
    <2>1. DOMAIN q = 1..n /\ q = [i \in 1..n |-> q[i]]
        BY <1>6
    <2>2. \A i \in 1..n : q[i] \in S
        BY <1>7
    <2> HIDE DEF q, n
    <2> QED BY <1>1, <2>1, <2>2
<1> HIDE DEF q, rank
<1>9. Ascending(q)
    <2>1. SUFFICES ASSUME NEW i \in 1..n, NEW j \in 1..n, i < j
                   PROVE  q[i] < q[j]
        BY <1>8 DEF Ascending
    <2>2. q[i] \in S /\ q[j] \in S /\ rank[q[i]] = i - 1 /\ rank[q[j]] = j - 1 /\ i \in Int /\ j \in Int
        BY <1>1, <1>7, <2>1
    <2>3. q[i] # q[j]
        BY <2>1, <2>2
    <2>4. ~(q[j] < q[i])
        <3>1. q[j] < q[i] => rank[q[j]] < rank[q[i]]
            BY <2>2, <1>3
        <3> QED BY <3>1, <2>1, <2>2
    <2>5. q[i] \in Int /\ q[j] \in Int
        BY <2>2
    <2> QED BY <2>3, <2>4, <2>5
<1>10. Range(q) = S
    <2>1. Range(q) \subseteq S
        BY <1>7, <1>8 DEF Range
    <2>2. ASSUME NEW e \in S
          PROVE  e \in Range(q)
        <3>1. rank[e] + 1 \in 1..n
            BY <1>1, <1>2
        <3>2. q[rank[e] + 1] \in S /\ rank[q[rank[e] + 1]] = rank[e]
            BY <3>1, <1>7, <1>2
        <3>3. q[rank[e] + 1] = e
            BY <3>2, <1>4
        <3> QED BY <3>1, <3>3, <1>8 DEF Range
    <2> QED BY <2>1, <2>2
<1> QED BY <1>8, <1>9, <1>10 DEF q

\* So does Oldest(S), which is chosen among those that ascend.
LEMMA OldestIs ==
    ASSUME NEW S \in SUBSET Int, IsFiniteSet(S)
    PROVE  /\ Oldest(S) \in Seq(S) /\ Len(Oldest(S)) = Cardinality(S)
           /\ Ascending(Oldest(S)) /\ Range(Oldest(S)) = S
<1> DEFINE n == Cardinality(S)
           D == 1..n
           q == Oldest(S)
<1>1. n \in Nat
    BY FS_CardinalityType
<1>2. Ranked(S) \in [D -> S] /\ Ascending(Ranked(S))
    <2>1. Ranked(S) \in Seq(S) /\ Len(Ranked(S)) = n /\ Ascending(Ranked(S))
        BY RankedIs
    <2> HIDE DEF n
    <2> QED BY <2>1, <1>1
<1>3. \E r \in [D -> S] : \A i, j \in DOMAIN r : i < j => r[i] < r[j]
    BY <1>2, Zenon DEF Ascending
<1>4. q \in [D -> S] /\ Ascending(q)
    <2>1. q = CHOOSE r \in [D -> S] : \A i, j \in DOMAIN r : i < j => r[i] < r[j]
        BY DEF Oldest
    <2> HIDE DEF q
    <2> QED BY <1>3, <2>1, Zenon DEF Ascending
<1> HIDE DEF q
<1>5. IsFiniteSet(D) /\ Cardinality(D) = n
    <2>1. 1 \in Int /\ n \in Int
        BY <1>1
    <2>2. IsFiniteSet(1..n) /\ Cardinality(1..n) = IF 1 > n THEN 0 ELSE n - 1 + 1
        <3> HIDE DEF n
        <3> QED BY <2>1, FS_Interval
    <2> QED BY <1>1, <2>2
<1>6. q \in Injection(D, S)
    <2>1. \A i, j \in D : i < j => q[i] < q[j]
        BY <1>4 DEF Ascending
    <2>2. \A i, j \in D : i # j => q[i] # q[j]
        <3>1. SUFFICES ASSUME NEW i \in D, NEW j \in D, i < j \/ j < i
                       PROVE  q[i] # q[j]
            BY <1>1
        <3>2. q[i] \in Int /\ q[j] \in Int
            BY <1>4
        <3> QED BY <3>1, <3>2, <2>1
    <2> QED BY <1>4, <2>2 DEF Injection, IsInjective
<1>7. q \in Surjection(D, S)
    BY <1>5, <1>6, FS_Injection DEF n
<1>8. q \in Seq(S) /\ Len(q) = n /\ DOMAIN q = D
    <2> HIDE DEF n
    <2> QED BY <1>1, <1>4
<1>9. Range(q) = S
    <2>1. Range(q) = {q[i] : i \in D}
        BY <1>8, Zenon DEF Range
    <2>2. \A e \in S : \E i \in D : q[i] = e
        BY <1>7 DEF Surjection
    <2>3. \A i \in D : q[i] \in S
        BY <1>4
    <2> QED BY <2>1, <2>2, <2>3
<1> QED BY <1>4, <1>8, <1>9 DEF q

LEMMA SeqRange ==
    ASSUME NEW T, NEW q \in Seq(T)
    PROVE  Range(q) \subseteq T
BY DEF Range

\* An ascending sequence has no entry twice.
LEMMA AscendingInjective ==
    ASSUME NEW T \in SUBSET Int, NEW q \in Seq(T), Ascending(q)
    PROVE  IsInjective(q)
<1>1. SUFFICES ASSUME NEW i \in DOMAIN q, NEW j \in DOMAIN q, q[i] = q[j], i # j
               PROVE  FALSE
    BY DEF IsInjective
<1>2. i \in 1..Len(q) /\ j \in 1..Len(q) /\ q[i] \in Int
    <2>1. i \in 1..Len(q) /\ j \in 1..Len(q) /\ q[i] \in T
        OBVIOUS
    <2> QED BY <2>1
<1>3. i < j \/ j < i
    BY <1>1, <1>2
<1> QED BY <1>1, <1>2, <1>3 DEF Ascending

\* Turning a sequence round keeps its entries; twice gives it back.
LEMMA ReverseIs ==
    ASSUME NEW S, NEW q \in Seq(S)
    PROVE  /\ Reverse(q) \in Seq(S) /\ Range(Reverse(q)) = Range(q)
           /\ Reverse(Reverse(q)) = q
           /\ IsInjective(q) => IsInjective(Reverse(q))
           /\ Len(Reverse(q)) = Len(q)
<1> DEFINE r == Reverse(q)
           n == Len(q)
<1>1. n \in Nat /\ DOMAIN q = 1..n /\ \A i \in 1..n : q[i] \in S
    OBVIOUS
<1>2. r = [i \in 1..n |-> q[(n - i) + 1]]
    BY DEF Reverse
<1>3. \A i \in 1..n : (n - i) + 1 \in 1..n
    BY <1>1
<1> HIDE DEF r, n
<1>4. r \in Seq(S) /\ Len(r) = n /\ DOMAIN r = 1..n
    BY <1>1, <1>2, <1>3
<1>5. Range(r) = Range(q)
    <2>1. Range(r) \subseteq Range(q)
        BY <1>1, <1>2, <1>3, <1>4 DEF Range
    <2>2. ASSUME NEW i \in 1..n
          PROVE  r[(n - i) + 1] = q[i] /\ (n - i) + 1 \in DOMAIN r
        BY <1>1, <1>2, <1>3, <1>4
    <2> QED BY <2>1, <2>2, <1>1 DEF Range
<1>6. Reverse(r) = q
    <2>1. Reverse(r) = [i \in 1..n |-> r[(n - i) + 1]]
        BY <1>4 DEF Reverse
    <2>2. \A i \in 1..n : r[(n - i) + 1] = q[i]
        BY <1>1, <1>2, <1>3
    <2>3. q = [i \in 1..n |-> q[i]]
        BY <1>1
    <2> QED BY <2>1, <2>2, <2>3
<1>7. IsInjective(q) => IsInjective(r)
    <2>1. SUFFICES ASSUME IsInjective(q), NEW i \in 1..n, NEW j \in 1..n, r[i] = r[j]
                   PROVE  i = j
        BY <1>4 DEF IsInjective
    <2>2. q[(n - i) + 1] = q[(n - j) + 1]
        BY <1>2, <2>1
    <2>3. (n - i) + 1 = (n - j) + 1
        BY <2>1, <2>2, <1>1, <1>3 DEF IsInjective
    <2> QED BY <2>3, <1>1
<1> QED BY <1>4, <1>5, <1>6, <1>7 DEF r, n

\* Newer(q) keeps the entries behind the bookmark, in their order.
LEMMA NewerIs ==
    ASSUME NEW T \in SUBSET Int, NEW q \in Seq(T)
    PROVE  /\ Newer(q) \in Seq(T) /\ Range(Newer(q)) = {e \in Range(q) : e > cp}
           /\ IsInjective(q) => IsInjective(Newer(q))
           /\ Ascending(q) => Ascending(Newer(q))
<1> DEFINE later == {i \in DOMAIN q : q[i] > cp}
           o == Oldest(later)
           n == Cardinality(later)
           r == Newer(q)
<1>1. Len(q) \in Nat /\ DOMAIN q = 1..Len(q) /\ \A i \in DOMAIN q : q[i] \in T
    OBVIOUS
<1>2. later \in SUBSET Int /\ later \in SUBSET (1..Len(q)) /\ IsFiniteSet(later)
    <2>1. IsFiniteSet(1..Len(q))
        BY <1>1, FS_Interval
    <2>2. later \in SUBSET (1..Len(q))
        BY <1>1
    <2> QED BY <2>1, <2>2, PartCount
<1>a. r = [k \in DOMAIN o |-> q[o[k]]]
    BY DEF Newer
<1> HIDE DEF later, r
<1>4. o \in Seq(later) /\ Len(o) = n /\ Ascending(o) /\ Range(o) = later
    BY <1>2, OldestIs
<1> HIDE DEF o, n
<1>3. r = [k \in 1..n |-> q[o[k]]]
    BY <1>a, <1>4
<1>5. n \in Nat /\ DOMAIN o = 1..n /\ \A k \in 1..n : o[k] \in later
    BY <1>4
<1>6. \A i \in later : i \in DOMAIN q /\ i \in Int /\ q[i] \in T /\ q[i] > cp
    BY <1>1, <1>2 DEF later
<1>7. r \in Seq(T) /\ DOMAIN r = 1..n /\ Len(r) = n
    BY <1>3, <1>5, <1>6
<1>8. Range(r) = {e \in Range(q) : e > cp}
    <2>1. ASSUME NEW k \in 1..n
          PROVE  r[k] \in Range(q) /\ r[k] > cp
        BY <1>3, <1>5, <1>6 DEF Range
    <2>2. ASSUME NEW i \in DOMAIN q, q[i] > cp
          PROVE  \E k \in 1..n : r[k] = q[i]
        <3>1. i \in Range(o)
            BY <1>4, <2>2 DEF later
        <3>2. PICK k \in 1..n : o[k] = i
            BY <3>1, <1>5 DEF Range
        <3> QED BY <3>2, <1>3
    <2>3. Range(r) = {r[k] : k \in 1..n} /\ Range(q) = {q[i] : i \in DOMAIN q}
        BY <1>7, Zenon DEF Range
    <2>4. \A e \in Range(r) : e \in Range(q) /\ e > cp
        BY <2>1, <2>3
    <2>5. \A e \in Range(q) : e > cp => e \in Range(r)
        BY <2>2, <2>3
    <2> QED BY <2>4, <2>5
<1>9. ASSUME IsInjective(q), NEW k \in 1..n, NEW l \in 1..n, r[k] = r[l]
      PROVE  k = l
    <2>1. o[k] = o[l]
        BY <1>3, <1>5, <1>6, <1>9 DEF IsInjective
    <2>2. IsInjective(o)
        BY <1>2, <1>4, AscendingInjective
    <2> QED BY <2>1, <2>2, <1>5 DEF IsInjective
<1>10. ASSUME Ascending(q), NEW k \in 1..n, NEW l \in 1..n, k < l
       PROVE  r[k] < r[l]
    <2>1. o[k] < o[l] /\ o[k] \in DOMAIN q /\ o[l] \in DOMAIN q
        BY <1>4, <1>5, <1>6, <1>10 DEF Ascending
    <2> QED BY <2>1, <1>3, <1>10 DEF Ascending
<1>11. IsInjective(q) => IsInjective(r)
    BY <1>7, <1>9 DEF IsInjective
<1>12. Ascending(q) => Ascending(r)
    BY <1>7, <1>10 DEF Ascending
<1> QED BY <1>7, <1>8, <1>11, <1>12 DEF r

\* After(q) is q from behind the bookmark, or q if the bookmark is not in it.
LEMMA AfterIs ==
    ASSUME NEW T \in SUBSET Int, NEW q \in Seq(T)
    PROVE  /\ After(q) \in Seq(T) /\ Range(After(q)) \subseteq Range(q)
           /\ IsInjective(q) => IsInjective(After(q))
           /\ Ascending(q) =>
                /\ Ascending(After(q))
                /\ Range(After(q)) = IF cp \in Range(q) THEN {e \in Range(q) : e > cp} ELSE Range(q)
<1>1. CASE cp \notin Range(q)
    <2>1. After(q) = q
        BY <1>1 DEF After
    <2> QED BY <1>1, <2>1
<1>2. CASE cp \in Range(q)
    <2> DEFINE n == Len(q)
               a == CHOOSE i \in DOMAIN q : q[i] = cp
               r == After(q)
    <2>1. n \in Nat /\ DOMAIN q = 1..n /\ \A i \in 1..n : q[i] \in T
        OBVIOUS
    <2>2. a \in 1..n /\ q[a] = cp
        <3>1. \E i \in DOMAIN q : q[i] = cp
            BY <1>2 DEF Range
        <3> QED BY <3>1, <2>1
    <2>3. r = SubSeq(q, 1 + a, n)
        BY <1>2 DEF After
    <2> HIDE DEF a, r, n
    <2>4. r = [k \in 1..(n - a) |-> q[k + a]]
        BY <2>1, <2>2, <2>3
    <2>5. r \in Seq(T) /\ DOMAIN r = 1..(n - a) /\ \A k \in 1..(n - a) : k + a \in 1..n
        BY <2>1, <2>2, <2>4
    <2>6. Range(r) \subseteq Range(q)
        BY <2>1, <2>4, <2>5 DEF Range
    <2>7. IsInjective(q) => IsInjective(r)
        <3>1. ASSUME IsInjective(q), NEW k \in 1..(n - a), NEW l \in 1..(n - a), r[k] = r[l]
              PROVE  k = l
            <4>1. k + a = l + a
                BY <3>1, <2>1, <2>4, <2>5 DEF IsInjective
            <4> QED BY <4>1, <2>2
        <3> QED BY <3>1, <2>5 DEF IsInjective
    <2>8. ASSUME Ascending(q)
          PROVE  Ascending(r) /\ Range(r) = {e \in Range(q) : e > cp}
        <3>1. Ascending(r)
            <4>1. \A k, l \in 1..(n - a) : k < l => k + a < l + a
                BY <2>2
            <4> QED BY <4>1, <2>1, <2>4, <2>5, <2>8 DEF Ascending
        <3>2. \A k \in 1..(n - a) : r[k] > cp
            <4>1. \A k \in 1..(n - a) : a < k + a
                BY <2>2
            <4>2. \A k \in 1..(n - a) : q[a] < q[k + a]
                BY <4>1, <2>1, <2>2, <2>5, <2>8 DEF Ascending
            <4>3. \A k \in 1..(n - a) : q[k + a] \in Int /\ cp \in Int
                BY <2>1, <2>2, <2>5
            <4> QED BY <4>2, <4>3, <2>2, <2>4
        <3>3. ASSUME NEW i \in 1..n, q[i] > cp
              PROVE  \E k \in 1..(n - a) : r[k] = q[i]
            <4>1. q[i] \in Int /\ cp \in Int /\ ~(i < a) /\ i # a
                <5>1. q[i] \in Int /\ cp \in Int
                    BY <3>3, <2>1, <2>2
                <5>2. i < a => q[i] < cp
                    BY <2>1, <2>2, <2>8 DEF Ascending
                <5> QED BY <5>1, <5>2, <3>3, <2>2
            <4>2. i - a \in 1..(n - a) /\ (i - a) + a = i
                BY <4>1, <2>1, <2>2
            <4> QED BY <4>2, <2>4
        <3>4. Range(r) = {r[k] : k \in 1..(n - a)} /\ Range(q) = {q[i] : i \in 1..n}
            BY <2>1, <2>5, Zenon DEF Range
        <3>5. \A k \in 1..(n - a) : r[k] \in Range(q)
            BY <2>6, <3>4
        <3>6. \A e \in Range(r) : e \in Range(q) /\ e > cp
            BY <3>2, <3>4, <3>5
        <3>7. \A e \in Range(q) : e > cp => e \in Range(r)
            BY <3>3, <3>4
        <3> QED BY <3>1, <3>6, <3>7
    <2> QED BY <1>2, <2>5, <2>6, <2>7, <2>8 DEF r
<1> QED BY <1>1, <1>2

\* The head of a listing and the rest.
LEMMA HeadIs ==
    ASSUME NEW T \in SUBSET Int, NEW q \in Seq(T), q # <<>>
    PROVE  /\ Head(q) \in T /\ Tail(q) \in Seq(T)
           /\ Range(q) = {Head(q)} \cup Range(Tail(q))
           /\ IsInjective(q) => IsInjective(Tail(q)) /\ Head(q) \notin Range(Tail(q))
           /\ Ascending(q) => Ascending(Tail(q)) /\ \A e \in Range(Tail(q)) : Head(q) < e
<1> DEFINE n == Len(q)
           t == Tail(q)
<1>1. /\ n \in Nat \ {0} /\ DOMAIN q = 1..n /\ \A i \in 1..n : q[i] \in T
      /\ Head(q) = q[1] /\ t \in Seq(T) /\ DOMAIN t = 1..(n - 1)
      /\ \A i \in 1..(n - 1) : t[i] = q[i + 1] /\ i + 1 \in 1..n /\ 1 < i + 1
    OBVIOUS
<1> HIDE DEF n, t
<1>2. 1 \in 1..n /\ \A i \in 1..n : i = 1 \/ (i - 1 \in 1..(n - 1) /\ (i - 1) + 1 = i)
    BY <1>1
<1>3. Range(q) = {Head(q)} \cup Range(t)
    <2>1. ASSUME NEW i \in 1..n
          PROVE  q[i] = Head(q) \/ \E j \in 1..(n - 1) : t[j] = q[i]
        <3>1. CASE i = 1
            BY <3>1, <1>1
        <3>2. CASE i # 1
            <4>1. i - 1 \in 1..(n - 1) /\ (i - 1) + 1 = i
                BY <3>2, <1>2
            <4>2. t[i - 1] = q[(i - 1) + 1]
                BY <4>1, <1>1
            <4> QED BY <4>1, <4>2
        <3> QED BY <3>1, <3>2
    <2>2. \A j \in 1..(n - 1) : \E i \in 1..n : q[i] = t[j]
        BY <1>1
    <2>3. Range(q) = {q[i] : i \in 1..n} /\ Range(t) = {t[j] : j \in 1..(n - 1)}
        BY <1>1 DEF Range
    <2>4. Head(q) \in {q[i] : i \in 1..n}
        BY <1>1, <1>2
    <2> QED BY <2>1, <2>2, <2>3, <2>4
<1>4. ASSUME IsInjective(q)
      PROVE  IsInjective(t) /\ Head(q) \notin Range(t)
    <2>1. ASSUME NEW i \in 1..(n - 1), NEW j \in 1..(n - 1), t[i] = t[j]
          PROVE  i = j
        <3>1. q[i + 1] = q[j + 1] /\ i + 1 \in DOMAIN q /\ j + 1 \in DOMAIN q
            BY <1>1, <2>1
        <3>2. i + 1 = j + 1
            BY <3>1, <1>4 DEF IsInjective
        <3> QED BY <3>2
    <2>2. ASSUME NEW i \in 1..(n - 1)
          PROVE  t[i] # q[1]
        <3>1. t[i] = q[i + 1] /\ i + 1 \in DOMAIN q /\ 1 \in DOMAIN q /\ i + 1 # 1
            BY <1>1, <1>2
        <3> QED BY <3>1, <1>4 DEF IsInjective
    <2> QED BY <2>1, <2>2, <1>1 DEF IsInjective, Range
<1>5. ASSUME Ascending(q)
      PROVE  Ascending(t) /\ \A e \in Range(t) : Head(q) < e
    <2>1. ASSUME NEW i \in 1..(n - 1), NEW j \in 1..(n - 1), i < j
          PROVE  t[i] < t[j]
        <3>1. i + 1 < j + 1
            BY <2>1
        <3> QED BY <3>1, <1>1, <1>5 DEF Ascending
    <2>2. \A i \in 1..(n - 1) : q[1] < t[i]
        BY <1>1, <1>2, <1>5 DEF Ascending
    <2> QED BY <2>1, <2>2, <1>1 DEF Ascending, Range
<1> QED BY <1>1, <1>3, <1>4, <1>5 DEF t

-----------------------------------------------------------------------------
(* The invariant of a feed. *)

FeedTypes ==
    /\ pollCap \in Nat /\ sourceCap \in Nat /\ (pollCap = 0 \/ sourceCap = 0) /\ rejected \in 0..MaxEntries
    /\ posted \in 0..MaxEntries /\ gone \subseteq 1..posted
    /\ cp \in 0..posted /\ high \in 0..posted /\ faults \in 0..MaxFaults
    /\ staged \in [Entries -> 0..2] /\ \A e \in Entries : staged[e] > 0 => e <= posted
    /\ pc \in {"idle", "loop"} /\ (pc = "idle" => todo = <<>>)
    /\ todo \in Seq(1..posted) /\ IsInjective(todo)
    /\ count \in Nat /\ (pollCap > 0 => count <= pollCap) /\ (sourceCap > 0 => count <= sourceCap)
    /\ conn \in SavesEach \/ pc = "idle" => high = 0
    /\ passed \subseteq 1..posted

\* Why an entry behind the bookmark need not be staged any more.
Excused(e) ==
    \/ staged[e] > 0 \/ e \in missed
    \/ conn \in LosesCutOff /\ e \in left
    \/ conn \in PassesUnread /\ e \in unread

\* What no listing shows any more was staged, or is known as missed.
GoneTold ==
    /\ \A e \in gone : Excused(e)
    /\ Slides => \A e \in Published \ Recent(Published) : Excused(e)

\* Connectors that save a bookmark in the order of what they stage.
InOrder == conn \notin LosesCutOff \cup {"semantic-scholar"}

\* How far the bookmark in the file and the one to be saved may reach: what
\* they pass is excused, or is still in the listing under way.
Bookmarks == conn # "semantic-scholar" =>
    /\ \A e \in 1..posted : e <= cp => Excused(e)
    /\ \A e \in 1..posted : e <= high \/ (\E u \in Range(todo) : e <= u) => e \in Range(todo) \/ Excused(e)
    /\ \A e \in passed : Excused(e)

\* Where the order matters, the listing goes up from what was remembered.
Upwards == InOrder => Ascending(todo) /\ \A u \in Range(todo) : high < u

\* The conditions of OnceWhenQuiet.
Quiet ==
    /\ faults = 0 /\ conn \notin {"gmail", "semantic-scholar"}
    /\ conn \notin SavesEach => rejected = 0 /\ (pollCap = 0 \/ conn \notin ForgetsAtPollCap)

\* While all is quiet, what was staged is behind one of the two bookmarks, and
\* what is still to do is ahead of the saved one and was not staged.
Fresh ==
    /\ faults = 0 => gone = {}
    /\ Quiet =>
         /\ \A e \in Entries : staged[e] <= 1 /\ (staged[e] > 0 => e <= cp \/ e <= high)
         /\ \A u \in Range(todo) : cp < u /\ staged[u] = 0
         /\ high = 0 \/ cp <= high

FeedInv == FeedTypes /\ GoneTold /\ Bookmarks /\ Upwards /\ Fresh

LEMMA FeedStart ==
    ASSUME FeedInit
    PROVE  FeedInv
<1>1. /\ MaxEntries \in Nat /\ PollCaps \subseteq Nat /\ SourceCaps \subseteq Nat
      /\ Rejections \subseteq 0..MaxEntries /\ MaxFaults \in Nat
    BY FeedsAssumption
<1>2. Range(todo) = {}
    BY DEF FeedInit, Range
<1>3. FeedTypes
    <2>1. /\ pollCap \in Nat /\ sourceCap \in Nat /\ (pollCap = 0 \/ sourceCap = 0)
          /\ rejected \in 0..MaxEntries
        <3>1. \/ pollCap \in PollCaps /\ sourceCap = 0
              \/ pollCap = 0 /\ sourceCap \in SourceCaps
            BY DEF FeedInit
        <3>2. rejected \in Rejections
            BY DEF FeedInit
        <3>3. rejected \in 0..MaxEntries
            BY <1>1, <3>2
        <3>4. 0 \in Nat
            OBVIOUS
        <3>5. CASE pollCap \in PollCaps /\ sourceCap = 0
            BY <3>3, <3>4, <3>5, <1>1
        <3>6. CASE pollCap = 0 /\ sourceCap \in SourceCaps
            BY <3>3, <3>4, <3>6, <1>1
        <3> QED BY <3>1, <3>5, <3>6
    <2>2. staged \in [Entries -> 0..2] /\ \A e \in Entries : staged[e] = 0
        BY DEF FeedInit
    <2>3. todo \in Seq(1..posted) /\ IsInjective(todo)
        BY DEF FeedInit, IsInjective
    <2>4. /\ posted = 0 /\ gone = {} /\ cp = 0 /\ high = 0 /\ faults = 0 /\ pc = "idle" /\ todo = <<>>
          /\ count = 0 /\ passed = {}
        BY DEF FeedInit
    <2> QED BY <1>1, <2>1, <2>2, <2>3, <2>4 DEF FeedTypes
<1>4. 1..posted = {} /\ Published = {}
    BY DEF FeedInit, Published
<1>5. GoneTold /\ Bookmarks
    BY <1>2, <1>4 DEF FeedInit, GoneTold, Bookmarks
<1>6. Upwards
    BY <1>2 DEF FeedInit, Upwards, Ascending
<1>7. Fresh
    BY <1>2 DEF FeedInit, Fresh, Entries
<1> QED BY <1>3, <1>5, <1>6, <1>7 DEF FeedInv

\* What was excused stays so, and what no listing shows stays told.
LEMMA StaysExcused ==
    ASSUME FeedInv, UNCHANGED <<setup, service>>,
           \A e \in Entries : staged[e] > 0 => staged'[e] > 0,
           missed \subseteq missed', left \subseteq left', unread \subseteq unread'
    PROVE  /\ \A e \in 1..posted : Excused(e) => Excused(e)'
           /\ GoneTold'
<1>1. conn' = conn /\ posted' = posted /\ gone' = gone /\ 1..posted \subseteq Entries
    BY FeedsAssumption DEF setup, service, FeedInv, FeedTypes, Entries
<1>2. \A e \in 1..posted : Excused(e) => Excused(e)'
    BY <1>1 DEF Excused
<1>3. /\ Published' = Published /\ Slides' = Slides
      /\ (Published \ Recent(Published))' = Published \ Recent(Published)
    BY <1>1 DEF Published, Slides, Recent, Width
<1>4. gone \subseteq 1..posted /\ Published \subseteq 1..posted
    BY DEF FeedInv, FeedTypes, Published
<1>5. \A e \in gone : Excused(e)
    BY DEF FeedInv, GoneTold
<1>6. Slides => \A e \in Published \ Recent(Published) : Excused(e)
    BY DEF FeedInv, GoneTold
<1>7. \A e \in gone' : Excused(e)'
    BY <1>1, <1>2, <1>4, <1>5
<1>8. Slides' => \A e \in (Published \ Recent(Published))' : Excused(e)'
    BY <1>2, <1>3, <1>4, <1>6
<1>9. GoneTold'
    BY <1>7, <1>8 DEF GoneTold
<1> QED BY <1>2, <1>9

\* A poll ends with the bookmark where it was.
LEMMA EndKeeps ==
    ASSUME FeedInv, EndPoll, UNCHANGED <<setup, service, cp, passed>>,
           staged' \in [Entries -> 0..2], \A e \in Entries : staged[e] > 0 => staged'[e] > 0,
           \A e \in Entries : staged'[e] > 0 => e <= posted,
           missed \subseteq missed', left \subseteq left', unread \subseteq unread',
           faults' \in 0..MaxFaults, faults <= faults',
           (conn \in SavesEach /\ staged' = staged) \/ ~Quiet'
    PROVE  FeedInv'
<1>1. /\ conn' = conn /\ posted' = posted /\ gone' = gone /\ cp' = cp /\ passed' = passed
      /\ pollCap' = pollCap /\ sourceCap' = sourceCap /\ rejected' = rejected
      /\ pc' = "idle" /\ todo' = <<>> /\ high' = 0 /\ count' = 0
    BY DEF setup, service, EndPoll
<1>2. (\A e \in 1..posted : Excused(e) => Excused(e)') /\ GoneTold'
    BY StaysExcused
<1>3. Range(todo') = {} /\ IsInjective(todo') /\ todo' \in Seq(1..posted')
    BY <1>1 DEF Range, IsInjective
<1>4. FeedTypes'
    BY <1>1, <1>3 DEF FeedInv, FeedTypes
<1>5. Bookmarks'
    <2>1. passed \subseteq 1..posted /\ \A e \in 1..posted : ~(e <= 0)
        BY DEF FeedInv, FeedTypes
    <2> QED BY <1>1, <1>2, <1>3, <2>1 DEF FeedInv, Bookmarks
<1>6. Upwards'
    BY <1>1, <1>3 DEF Upwards, Ascending
<1>7. Fresh'
    <2>1. faults' = 0 => faults = 0
        BY DEF FeedInv, FeedTypes
    <2>2. Quiet' => Quiet /\ conn \in SavesEach /\ staged' = staged
        BY <1>1, <2>1 DEF Quiet
    <2>3. conn \in SavesEach => high = 0
        BY DEF FeedInv, FeedTypes
    <2> QED BY <1>1, <1>3, <2>1, <2>2, <2>3 DEF FeedInv, Fresh
<1> QED BY <1>2, <1>4, <1>5, <1>6, <1>7 DEF FeedInv

\* The caps while a poll may go on.
LEMMA Allowed ==
    ASSUME FeedInv, TryFetch = "allowed"
    PROVE  /\ pollCap > 0 => count + 1 <= pollCap
           /\ sourceCap > 0 => count + 1 <= sourceCap
           /\ count + 1 \in Nat
BY DEF FeedInv, FeedTypes, TryFetch

\* The head of the listing and the rest of it.
LEMMA TodoIs ==
    ASSUME FeedInv, todo # <<>>
    PROVE  /\ Head(todo) \in 1..posted /\ Head(todo) \in Entries /\ Tail(todo) \in Seq(1..posted)
           /\ Range(todo) = {Head(todo)} \cup Range(Tail(todo)) /\ Range(todo) \subseteq 1..posted
           /\ IsInjective(Tail(todo)) /\ Head(todo) \notin Range(Tail(todo))
           /\ Ascending(todo) => Ascending(Tail(todo)) /\ \A e \in Range(Tail(todo)) : Head(todo) < e
<1>1. 1..posted \in SUBSET Int /\ 1..posted \subseteq Entries /\ todo \in Seq(1..posted) /\ IsInjective(todo)
    BY FeedsAssumption DEF FeedInv, FeedTypes, Entries
<1> DEFINE T == 1..posted
<1> HIDE DEF T
<1>2. T \in SUBSET Int /\ todo \in Seq(T) /\ T = 1..posted
    BY <1>1 DEF T
<1>3. Range(todo) \subseteq T
    BY <1>2, SeqRange
<1> QED BY <1>1, <1>2, <1>3, HeadIs

\* The cap cuts the rest of the listing off, and the poll saves what it has.
LEMMA BreakKeeps ==
    ASSUME FeedInv, NEW status, Break(status)
    PROVE  FeedInv'
<1>1. /\ conn' = conn /\ posted' = posted /\ gone' = gone /\ cp' = cp /\ passed' = passed
      /\ pollCap' = pollCap /\ sourceCap' = sourceCap /\ rejected' = rejected
      /\ pc' = pc /\ todo' = <<>> /\ high' = high /\ count' = count /\ faults' = faults
      /\ staged' = staged /\ missed' = missed /\ unread' = unread /\ left' = left \cup Range(todo)
      /\ UNCHANGED <<setup, service>>
    BY DEF Break, Cut, setup, service
<1>2. (\A e \in 1..posted : Excused(e) => Excused(e)') /\ GoneTold'
    BY <1>1, StaysExcused
<1>3. Range(todo') = {} /\ IsInjective(todo') /\ todo' \in Seq(1..posted')
    BY <1>1 DEF Range, IsInjective
<1>4. FeedTypes'
    BY <1>1, <1>3 DEF FeedInv, FeedTypes
<1>5. Bookmarks'
    <2>1. SUFFICES ASSUME conn # "semantic-scholar"
                   PROVE  /\ \A e \in 1..posted : e <= cp => Excused(e)'
                          /\ \A e \in 1..posted : e <= high => Excused(e)'
                          /\ \A e \in passed : Excused(e)'
        BY <1>1, <1>3 DEF Bookmarks
    <2>2. passed \subseteq 1..posted
        BY DEF FeedInv, FeedTypes
    <2>3. ASSUME NEW e \in 1..posted, e <= high
          PROVE  Excused(e)'
        <3>1. e \in Range(todo) \/ Excused(e)
            BY <2>1, <2>3 DEF FeedInv, Bookmarks
        <3>2. CASE Excused(e)
            BY <3>2, <1>2
        <3>3. CASE e \in Range(todo) /\ InOrder
            <4>1. high < e /\ high \in Int /\ e \in Int
                BY <3>3 DEF FeedInv, FeedTypes, Upwards
            <4> QED BY <4>1, <2>3
        <3>4. CASE e \in Range(todo) /\ ~InOrder
            BY <3>4, <1>1, <2>1 DEF Excused, InOrder
        <3> QED BY <3>1, <3>2, <3>3, <3>4
    <2> QED BY <2>1, <2>2, <2>3, <1>2 DEF FeedInv, Bookmarks
<1>6. Upwards'
    BY <1>1, <1>3 DEF Upwards, Ascending
<1>7. Fresh'
    BY <1>1, <1>3 DEF FeedInv, Fresh, Quiet
<1> QED BY <1>2, <1>4, <1>5, <1>6, <1>7 DEF FeedInv

\* The poll goes on behind an entry that could not be read.
LEMMA PassOverKeeps ==
    ASSUME FeedInv, NEW counted, PassOver(counted), conn \in PassesUnread
    PROVE  FeedInv'
<1>0. PICK h, t : h = Head(todo) /\ t = Tail(todo)
    OBVIOUS
<1>1. /\ conn' = conn /\ posted' = posted /\ gone' = gone /\ cp' = cp /\ passed' = passed
      /\ pollCap' = pollCap /\ sourceCap' = sourceCap /\ rejected' = rejected
      /\ pc = "loop" /\ pc' = pc /\ todo' = t /\ high' = high /\ faults < MaxFaults /\ faults' = faults + 1
      /\ staged' = staged /\ missed' = missed /\ unread' = unread \cup {h} /\ left' = left
      /\ UNCHANGED <<setup, service>> /\ todo # <<>>
      /\ count' = count \/ (TryFetch = "allowed" /\ count' = count + 1)
    BY <1>0 DEF PassOver, GoOn, Fault, setup, service
<1>2. (\A e \in 1..posted : Excused(e) => Excused(e)') /\ GoneTold'
    BY <1>1, StaysExcused
<1>3. /\ h \in 1..posted /\ t \in Seq(1..posted) /\ Range(todo) = {h} \cup Range(t)
      /\ IsInjective(t) /\ h \notin Range(t) /\ Range(todo) \subseteq 1..posted
      /\ Ascending(todo) => Ascending(t)
    BY <1>0, <1>1, TodoIs
<1>4. FeedTypes'
    <2>1. /\ count' \in Nat /\ (pollCap > 0 => count' <= pollCap) /\ (sourceCap > 0 => count' <= sourceCap)
        BY <1>1, Allowed DEF FeedInv, FeedTypes
    <2>2. faults' \in 0..MaxFaults
        BY <1>1, FeedsAssumption DEF FeedInv, FeedTypes
    <2> QED BY <1>1, <1>3, <2>1, <2>2 DEF FeedInv, FeedTypes
<1>5. Bookmarks'
    <2>1. SUFFICES ASSUME conn # "semantic-scholar"
                   PROVE  /\ \A e \in 1..posted : e <= cp => Excused(e)'
                          /\ \A e \in 1..posted : e <= high \/ (\E u \in Range(t) : e <= u)
                                                    => e \in Range(t) \/ Excused(e)'
                          /\ \A e \in passed : Excused(e)'
        BY <1>1 DEF Bookmarks
    <2>2. passed \subseteq 1..posted
        BY DEF FeedInv, FeedTypes
    <2>3. Excused(h)'
        BY <1>1 DEF Excused
    <2>4. ASSUME NEW e \in 1..posted, e <= high \/ (\E u \in Range(t) : e <= u)
          PROVE  e \in Range(t) \/ Excused(e)'
        <3>1. e \in Range(todo) \/ Excused(e)
            BY <2>1, <2>4, <1>3 DEF FeedInv, Bookmarks
        <3> QED BY <3>1, <1>2, <1>3, <2>3
    <2> QED BY <2>1, <2>2, <2>4, <1>2 DEF FeedInv, Bookmarks
<1>6. Upwards'
    <2>1. InOrder' = InOrder
        BY <1>1 DEF InOrder
    <2> QED BY <1>1, <1>3, <2>1 DEF FeedInv, Upwards
<1>7. Fresh'
    <2>1. faults' # 0
        BY <1>1 DEF FeedInv, FeedTypes
    <2> QED BY <2>1 DEF Fresh, Quiet
<1> QED BY <1>2, <1>4, <1>5, <1>6, <1>7 DEF FeedInv

\* An entry is staged once more.
LEMMA StagedIs ==
    ASSUME FeedInv, NEW e \in 1..posted, Staged(e)
    PROVE  /\ staged' \in [Entries -> 0..2] /\ staged'[e] > 0 /\ (staged[e] = 0 => staged'[e] = 1)
           /\ \A x \in Entries : x # e => staged'[x] = staged[x]
           /\ \A x \in Entries : staged[x] > 0 => staged'[x] > 0
           /\ \A x \in Entries : staged'[x] > 0 => x <= posted
<1>1. e \in Entries /\ staged \in [Entries -> 0..2] /\ e <= posted /\ \A x \in Entries : staged[x] > 0 => x <= posted
    BY FeedsAssumption DEF FeedInv, FeedTypes, Entries
<1>2. staged[e] \in 0..2 /\ (staged[e] # 2 => staged[e] + 1 \in 1..2)
    BY <1>1
<1>3. staged' = [staged EXCEPT ![e] = IF staged[e] = 2 THEN 2 ELSE staged[e] + 1]
    BY DEF Staged
<1>4. staged'[e] \in 1..2 /\ staged' \in [Entries -> 0..2]
    BY <1>1, <1>2, <1>3
<1>5. \A x \in Entries : x # e => staged'[x] = staged[x]
    BY <1>1, <1>3
<1> QED BY <1>1, <1>2, <1>3, <1>4, <1>5

\* The entry is staged and its bookmark saved: every entry up to it was
\* excused, since the listing goes upwards.
LEMMA SaveKeeps ==
    ASSUME FeedInv, Stageable, Staged(Head(todo)), cp' = Head(todo), GoOn, count' = count + 1,
           UNCHANGED <<high, faults, setup, service, histories>>, conn \in SavesEach
    PROVE  FeedInv'
<1>0. PICK h, t : h = Head(todo) /\ t = Tail(todo)
    OBVIOUS
<1>1. /\ conn' = conn /\ posted' = posted /\ gone' = gone /\ cp' = h /\ passed' = passed
      /\ pollCap' = pollCap /\ sourceCap' = sourceCap /\ rejected' = rejected
      /\ pc = "loop" /\ pc' = pc /\ todo' = t /\ high' = high /\ faults' = faults
      /\ missed' = missed /\ unread' = unread /\ left' = left
      /\ UNCHANGED <<setup, service>> /\ todo # <<>> /\ TryFetch = "allowed" /\ count' = count + 1
    BY <1>0 DEF Stageable, GoOn, setup, service, histories
<1>2. /\ h \in 1..posted /\ h \in Entries /\ t \in Seq(1..posted) /\ Range(todo) = {h} \cup Range(t)
      /\ IsInjective(t) /\ h \notin Range(t) /\ Range(todo) \subseteq 1..posted
      /\ Ascending(todo) => Ascending(t) /\ \A e \in Range(t) : h < e
    BY <1>0, <1>1, TodoIs
<1>3. /\ staged' \in [Entries -> 0..2] /\ staged'[h] > 0 /\ (staged[h] = 0 => staged'[h] = 1)
      /\ \A x \in Entries : x # h => staged'[x] = staged[x]
      /\ \A x \in Entries : staged[x] > 0 => staged'[x] > 0
      /\ \A x \in Entries : staged'[x] > 0 => x <= posted
    BY <1>0, <1>2, StagedIs
<1>4. (\A e \in 1..posted : Excused(e) => Excused(e)') /\ GoneTold'
    BY <1>1, <1>3, StaysExcused
<1>5. Excused(h)'
    BY <1>3 DEF Excused
<1>6. FeedTypes'
    <2>1. /\ count' \in Nat /\ (pollCap > 0 => count' <= pollCap) /\ (sourceCap > 0 => count' <= sourceCap)
        BY <1>1, Allowed
    <2> QED BY <1>1, <1>2, <1>3, <2>1 DEF FeedInv, FeedTypes
<1>7. Bookmarks'
    <2>1. SUFFICES ASSUME conn # "semantic-scholar"
                   PROVE  /\ \A e \in 1..posted : e <= h => Excused(e)'
                          /\ \A e \in 1..posted : e <= high \/ (\E u \in Range(t) : e <= u)
                                                    => e \in Range(t) \/ Excused(e)'
                          /\ \A e \in passed : Excused(e)'
        BY <1>1 DEF Bookmarks
    <2>2. passed \subseteq 1..posted
        BY DEF FeedInv, FeedTypes
    <2>3. ASSUME NEW e \in 1..posted, e <= h
          PROVE  Excused(e)'
        <3>1. Ascending(todo)
            BY <2>1 DEF FeedInv, Upwards, InOrder, SavesEach, LosesCutOff
        <3>2. e \notin Range(t)
            <4>1. e \in Range(t) => h < e /\ h \in Int /\ e \in Int
                BY <3>1, <1>2
            <4> QED BY <4>1, <2>3
        <3>3. e \in Range(todo) \/ Excused(e)
            BY <2>1, <2>3, <1>2 DEF FeedInv, Bookmarks
        <3> QED BY <3>2, <3>3, <1>2, <1>4, <1>5
    <2>4. ASSUME NEW e \in 1..posted, e <= high \/ (\E u \in Range(t) : e <= u)
          PROVE  e \in Range(t) \/ Excused(e)'
        <3>1. e \in Range(todo) \/ Excused(e)
            BY <2>1, <2>4, <1>2 DEF FeedInv, Bookmarks
        <3> QED BY <3>1, <1>2, <1>4, <1>5
    <2> QED BY <2>1, <2>2, <2>3, <2>4, <1>4 DEF FeedInv, Bookmarks
<1>8. Upwards'
    <2>1. InOrder' = InOrder
        BY <1>1 DEF InOrder
    <2> QED BY <1>1, <1>2, <2>1 DEF FeedInv, Upwards
<1>9. Fresh'
    <2>1. faults' = 0 => gone' = {}
        BY <1>1 DEF FeedInv, Fresh
    <2>2. Quiet' = Quiet
        BY <1>1 DEF Quiet
    <2>3. SUFFICES ASSUME Quiet
                   PROVE  /\ \A e \in Entries : staged'[e] <= 1 /\ (staged'[e] > 0 => e <= h \/ e <= high)
                          /\ \A u \in Range(t) : h < u /\ staged'[u] = 0
                          /\ high = 0
        BY <1>1, <2>1, <2>2 DEF Fresh
    <2>4. /\ \A e \in Entries : staged[e] <= 1 /\ (staged[e] > 0 => e <= cp \/ e <= high)
          /\ \A u \in Range(todo) : cp < u /\ staged[u] = 0
        BY <2>3 DEF FeedInv, Fresh
    <2>5. high = 0 /\ cp \in Int /\ posted \in Nat
        BY DEF FeedInv, FeedTypes
    <2>6. Ascending(todo)
        BY <2>3 DEF Quiet, FeedInv, Upwards, InOrder, SavesEach, LosesCutOff
    <2>7. h \in Int /\ cp < h /\ staged[h] = 0
        BY <1>2, <2>4
    <2>8. ASSUME NEW e \in Entries
          PROVE  staged'[e] <= 1 /\ (staged'[e] > 0 => e <= h \/ e <= high)
        <3>1. CASE e = h
            BY <3>1, <2>7, <1>3
        <3>2. CASE e # h
            <4>1. staged'[e] = staged[e] /\ e \in Int
                BY <3>2, <1>3 DEF Entries
            <4>2. e <= cp => e <= h
                BY <4>1, <2>5, <2>7
            <4> QED BY <4>1, <4>2, <2>4
        <3> QED BY <3>1, <3>2
    <2>9. ASSUME NEW u \in Range(t)
          PROVE  h < u /\ staged'[u] = 0
        <3>1. u \in Entries /\ u # h /\ u \in Range(todo)
            BY <1>2, FeedsAssumption DEF FeedInv, FeedTypes, Entries
        <3> QED BY <3>1, <2>4, <2>6, <1>2, <1>3
    <2> QED BY <2>5, <2>8, <2>9
<1> QED BY <1>4, <1>6, <1>7, <1>8, <1>9 DEF FeedInv

\* The entry is staged, and remembered if it is the highest so far.
LEMMA StageOnlyKeeps ==
    ASSUME FeedInv, StageOnly, conn \notin SavesEach
    PROVE  FeedInv'
<1>0. PICK h, t, g : h = Head(todo) /\ t = Tail(todo) /\ g = IF h > high THEN h ELSE high
    OBVIOUS
<1>1. /\ conn' = conn /\ posted' = posted /\ gone' = gone /\ cp' = cp /\ passed' = passed
      /\ pollCap' = pollCap /\ sourceCap' = sourceCap /\ rejected' = rejected
      /\ pc = "loop" /\ pc' = pc /\ todo' = t /\ high' = g /\ faults' = faults
      /\ missed' = missed /\ unread' = unread /\ left' = left
      /\ UNCHANGED <<setup, service>> /\ todo # <<>> /\ TryFetch = "allowed" /\ count' = count + 1
    BY <1>0 DEF StageOnly, Stageable, GoOn, setup, service, histories
<1>2. /\ h \in 1..posted /\ h \in Entries /\ t \in Seq(1..posted) /\ Range(todo) = {h} \cup Range(t)
      /\ IsInjective(t) /\ h \notin Range(t) /\ Range(todo) \subseteq 1..posted
      /\ Ascending(todo) => Ascending(t) /\ \A e \in Range(t) : h < e
    BY <1>0, <1>1, TodoIs
<1>3. /\ staged' \in [Entries -> 0..2] /\ staged'[h] > 0 /\ (staged[h] = 0 => staged'[h] = 1)
      /\ \A x \in Entries : x # h => staged'[x] = staged[x]
      /\ \A x \in Entries : staged[x] > 0 => staged'[x] > 0
      /\ \A x \in Entries : staged'[x] > 0 => x <= posted
    BY <1>0, <1>2, StagedIs DEF StageOnly
<1>4. (\A e \in 1..posted : Excused(e) => Excused(e)') /\ GoneTold'
    BY <1>1, <1>3, StaysExcused
<1>5. Excused(h)'
    BY <1>3 DEF Excused
<1>6. g \in 0..posted /\ h \in Int /\ high \in Int /\ h <= g /\ high <= g /\ (g = h \/ g = high)
    BY <1>0, <1>2 DEF FeedInv, FeedTypes
<1>7. FeedTypes'
    <2>1. /\ count' \in Nat /\ (pollCap > 0 => count' <= pollCap) /\ (sourceCap > 0 => count' <= sourceCap)
        BY <1>1, Allowed
    <2> QED BY <1>1, <1>2, <1>3, <1>6, <2>1 DEF FeedInv, FeedTypes
<1>8. Bookmarks'
    <2>1. SUFFICES ASSUME conn # "semantic-scholar"
                   PROVE  /\ \A e \in 1..posted : e <= cp => Excused(e)'
                          /\ \A e \in 1..posted : e <= g \/ (\E u \in Range(t) : e <= u)
                                                    => e \in Range(t) \/ Excused(e)'
                          /\ \A e \in passed : Excused(e)'
        BY <1>1 DEF Bookmarks
    <2>2. passed \subseteq 1..posted
        BY DEF FeedInv, FeedTypes
    <2>3. ASSUME NEW e \in 1..posted, e <= g \/ (\E u \in Range(t) : e <= u)
          PROVE  e \in Range(t) \/ Excused(e)'
        <3>1. e <= high \/ \E u \in Range(todo) : e <= u
            BY <2>3, <1>2, <1>6
        <3>2. e \in Range(todo) \/ Excused(e)
            BY <2>1, <3>1 DEF FeedInv, Bookmarks
        <3> QED BY <3>2, <1>2, <1>4, <1>5
    <2> QED BY <2>1, <2>2, <2>3, <1>4 DEF FeedInv, Bookmarks
<1>9. Upwards'
    <2>1. InOrder' = InOrder
        BY <1>1 DEF InOrder
    <2>2. SUFFICES ASSUME InOrder
                   PROVE  Ascending(t) /\ \A u \in Range(t) : g < u
        BY <1>1, <2>1 DEF Upwards
    <2>3. Ascending(todo) /\ high < h
        BY <2>2, <1>2 DEF FeedInv, Upwards
    <2>4. g = h
        BY <2>3, <1>6
    <2> QED BY <2>3, <2>4, <1>2
<1>10. Fresh'
    <2>1. faults' = 0 => gone' = {}
        BY <1>1 DEF FeedInv, Fresh
    <2>2. Quiet' = Quiet
        BY <1>1 DEF Quiet
    <2>3. SUFFICES ASSUME Quiet
                   PROVE  /\ \A e \in Entries : staged'[e] <= 1 /\ (staged'[e] > 0 => e <= cp \/ e <= g)
                          /\ \A u \in Range(t) : cp < u /\ staged'[u] = 0
                          /\ cp <= g
        BY <1>1, <2>1, <2>2 DEF Fresh
    <2>4. /\ \A e \in Entries : staged[e] <= 1 /\ (staged[e] > 0 => e <= cp \/ e <= high)
          /\ \A u \in Range(todo) : cp < u /\ staged[u] = 0
        BY <2>3 DEF FeedInv, Fresh
    <2>5. cp \in Int /\ cp < h /\ staged[h] = 0
        BY <1>2, <2>4 DEF FeedInv, FeedTypes
    <2>6. ASSUME NEW e \in Entries
          PROVE  staged'[e] <= 1 /\ (staged'[e] > 0 => e <= cp \/ e <= g)
        <3>1. CASE e = h
            BY <3>1, <2>5, <1>3, <1>6
        <3>2. CASE e # h
            <4>1. staged'[e] = staged[e] /\ e \in Int
                BY <3>2, <1>3 DEF Entries
            <4>2. e <= high => e <= g
                BY <4>1, <1>6
            <4> QED BY <4>1, <4>2, <2>4
        <3> QED BY <3>1, <3>2
    <2>7. ASSUME NEW u \in Range(t)
          PROVE  cp < u /\ staged'[u] = 0
        <3>1. u \in Entries /\ u # h /\ u \in Range(todo)
            BY <1>2, FeedsAssumption DEF FeedInv, FeedTypes, Entries
        <3> QED BY <3>1, <2>4, <1>3
    <2>8. cp <= g
        BY <2>5, <1>6
    <2> QED BY <2>6, <2>7, <2>8
<1> QED BY <1>4, <1>7, <1>8, <1>9, <1>10 DEF FeedInv

\* The poll saves what it remembered.
LEMMA DoneSaveKeeps ==
    ASSUME FeedInv, DoneSave, conn \notin SavesEach
    PROVE  FeedInv'
<1>1. /\ conn' = conn /\ posted' = posted /\ gone' = gone /\ passed' = passed
      /\ pollCap' = pollCap /\ sourceCap' = sourceCap /\ rejected' = rejected
      /\ pc' = "idle" /\ todo = <<>> /\ todo' = <<>> /\ high' = 0 /\ count' = 0 /\ staged' = staged
      /\ missed' = missed /\ unread' = unread /\ left' = left
      /\ UNCHANGED <<setup, service>> /\ EndPoll
    BY DEF DoneSave, EndPoll, setup, service, histories
<1>2. CASE Fault /\ cp' = cp
    <2>1. faults' \in 0..MaxFaults /\ faults <= faults' /\ faults' # 0
        BY <1>2, FeedsAssumption DEF Fault, FeedInv, FeedTypes
    <2>2. ~Quiet'
        BY <2>1 DEF Quiet
    <2>3. staged' \in [Entries -> 0..2] /\ \A e \in Entries : staged'[e] > 0 => e <= posted
        BY <1>1 DEF FeedInv, FeedTypes
    <2> QED BY <1>1, <1>2, <2>1, <2>2, <2>3, EndKeeps
<1>3. CASE cp' = (IF high > 0 THEN high ELSE cp) /\ faults' = faults
    <2>1. (\A e \in 1..posted : Excused(e) => Excused(e)') /\ GoneTold'
        BY <1>1, StaysExcused
    <2>2. Range(todo) = {} /\ Range(todo') = {} /\ IsInjective(todo') /\ todo' \in Seq(1..posted')
        BY <1>1 DEF Range, IsInjective
    <2>3. FeedTypes'
        BY <1>1, <1>3, <2>2 DEF FeedInv, FeedTypes
    <2>4. Bookmarks'
        <3>1. passed \subseteq 1..posted /\ \A e \in 1..posted : ~(e <= 0)
            BY DEF FeedInv, FeedTypes
        <3>2. SUFFICES ASSUME conn # "semantic-scholar"
                       PROVE  /\ \A e \in 1..posted : e <= cp' => Excused(e)'
                              /\ \A e \in passed : Excused(e)'
            BY <1>1, <2>2, <3>1 DEF Bookmarks
        <3>3. \A e \in 1..posted : e <= cp => Excused(e)
            BY <3>2 DEF FeedInv, Bookmarks
        <3>4. \A e \in 1..posted : e <= high => Excused(e)
            BY <3>2, <2>2 DEF FeedInv, Bookmarks
        <3> QED BY <1>3, <3>1, <3>2, <3>3, <3>4, <2>1 DEF FeedInv, Bookmarks
    <2>5. Upwards'
        BY <1>1, <2>2 DEF Upwards, Ascending
    <2>6. Fresh'
        <3>1. faults' = 0 => gone' = {}
            BY <1>1, <1>3 DEF FeedInv, Fresh
        <3>2. Quiet' = Quiet
            BY <1>1, <1>3 DEF Quiet
        <3>3. SUFFICES ASSUME Quiet
                       PROVE  \A e \in Entries : staged[e] <= 1 /\ (staged[e] > 0 => e <= cp')
            BY <1>1, <2>2, <3>1, <3>2 DEF Fresh
        <3>4. /\ \A e \in Entries : staged[e] <= 1 /\ (staged[e] > 0 => e <= cp \/ e <= high)
              /\ high = 0 \/ cp <= high
            BY <3>3 DEF FeedInv, Fresh
        <3>5. high \in Nat /\ cp \in Nat /\ \A e \in Entries : e \in Nat /\ e >= 1
            BY DEF FeedInv, FeedTypes, Entries
        <3> QED BY <1>3, <3>4, <3>5
    <2> QED BY <2>1, <2>3, <2>4, <2>5, <2>6 DEF FeedInv
<1> QED BY <1>2, <1>3 DEF DoneSave

\* The first poll of a connector that follows a token.
LEMMA BaselineKeeps ==
    ASSUME FeedInv, Baseline, cp = 0, conn = "gdrive"
    PROVE  FeedInv'
<1>1. /\ conn' = conn /\ posted' = posted /\ gone' = gone /\ cp' = cp /\ faults' = faults
      /\ pollCap' = pollCap /\ sourceCap' = sourceCap /\ rejected' = rejected
      /\ pc = "idle" /\ pc' = "loop" /\ todo' = <<>> /\ high' = posted /\ count' = 0 /\ staged' = staged
      /\ passed' = passed \cup 1..posted /\ missed' = missed \cup {e \in 1..posted : staged[e] = 0}
      /\ unread' = unread /\ left' = left /\ UNCHANGED <<setup, service>>
    BY DEF Baseline, setup, service
<1>2. (\A e \in 1..posted : Excused(e) => Excused(e)') /\ GoneTold'
    BY <1>1, StaysExcused
<1>3. Range(todo') = {} /\ IsInjective(todo') /\ todo' \in Seq(1..posted')
    BY <1>1 DEF Range, IsInjective
<1>4. posted \in Nat /\ 1..posted \subseteq Entries /\ passed \subseteq 1..posted /\ high = 0
    BY <1>1, FeedsAssumption DEF FeedInv, FeedTypes, Entries
<1>5. FeedTypes'
    <2>1. posted \in 0..posted /\ conn \notin SavesEach
        BY <1>4 DEF SavesEach
    <2> QED BY <1>1, <1>3, <1>4, <2>1 DEF FeedInv, FeedTypes
<1>6. \A e \in 1..posted : Excused(e)'
    <2>1. ASSUME NEW e \in 1..posted
          PROVE  Excused(e)'
        <3>1. staged[e] \in 0..2
            BY <1>4 DEF FeedInv, FeedTypes
        <3> QED BY <1>1, <3>1 DEF Excused
    <2> QED BY <2>1
<1>7. Bookmarks'
    BY <1>1, <1>3, <1>4, <1>6 DEF Bookmarks
<1>8. Upwards'
    BY <1>1, <1>3 DEF Upwards, Ascending
<1>9. Fresh'
    <2>1. faults' = 0 => gone' = {}
        BY <1>1 DEF FeedInv, Fresh
    <2>2. Quiet' = Quiet
        BY <1>1 DEF Quiet
    <2>3. \A e \in Entries : staged[e] > 0 => e <= posted
        BY DEF FeedInv, FeedTypes
    <2> QED BY <1>1, <1>3, <1>4, <2>1, <2>2, <2>3 DEF FeedInv, Fresh
<1> QED BY <1>2, <1>5, <1>7, <1>8, <1>9 DEF FeedInv

-----------------------------------------------------------------------------
(* The listings. *)

\* What makes q a listing to go through, and mark a bookmark to start from.
Fits(q, mark) ==
    /\ q \in Seq(1..posted) /\ IsInjective(q) /\ mark \in 0..posted /\ (conn \in SavesEach => mark = 0)
    /\ Slides /\ conn # "semantic-scholar" => {e \in Recent(Published) : e > cp} \subseteq Range(q)
    /\ ~Slides => \A e \in Since \ Range(q) : mark < e /\ \A u \in Range(q) : u < e
    /\ InOrder => Ascending(q) /\ \A u \in Range(q) : mark < u
    /\ Quiet => (\A u \in Range(q) : cp < u) /\ (mark = 0 \/ cp <= mark)

LEMMA ListKeeps ==
    ASSUME FeedInv, NEW used \in Nat, NEW q, NEW mark, Fits(q, mark), ListAfter(used, q, mark),
           pollCap > 0 => used <= pollCap, sourceCap > 0 => used <= sourceCap
    PROVE  FeedInv'
<1>1. /\ conn' = conn /\ posted' = posted /\ gone' = gone /\ cp' = cp /\ faults' = faults
      /\ pollCap' = pollCap /\ sourceCap' = sourceCap /\ rejected' = rejected
      /\ pc = "idle" /\ pc' = "loop" /\ todo' = q /\ high' = mark /\ count' = used /\ staged' = staged
      /\ passed' = passed \cup ((1..posted) \ (Range(q) \cup Later)) /\ missed' = missed
      /\ unread' = unread /\ left' = left /\ UNCHANGED <<setup, service>>
    BY DEF ListAfter, setup, service
<1>2. (\A e \in 1..posted : Excused(e) => Excused(e)') /\ GoneTold'
    BY <1>1, StaysExcused
<1>3. /\ q \in Seq(1..posted) /\ IsInjective(q) /\ mark \in 0..posted /\ (conn \in SavesEach => mark = 0)
      /\ high = 0 /\ posted \in Nat /\ cp \in 0..posted /\ passed \subseteq 1..posted
    BY <1>1 DEF Fits, FeedInv, FeedTypes
<1>4. Range(q) \subseteq 1..posted
    <2> DEFINE T == 1..posted
    <2>1. q \in Seq(T)
        BY <1>3
    <2> HIDE DEF T
    <2>2. Range(q) \subseteq T
        BY <2>1, SeqRange
    <2> QED BY <2>2 DEF T
<1>5. FeedTypes'
    BY <1>1, <1>3, <1>4 DEF FeedInv, FeedTypes
\* An entry that is not in the listing is excused, or will be listed later.
<1>6. ASSUME conn # "semantic-scholar", NEW e \in (1..posted) \ Range(q)
      PROVE  Excused(e) \/ (~Slides /\ e \in Since)
    <2>1. CASE e \in gone
        BY <2>1 DEF FeedInv, GoneTold
    <2>2. CASE e <= cp
        BY <2>2, <1>6 DEF FeedInv, Bookmarks
    <2>3. CASE e \notin gone /\ ~(e <= cp)
        <3>1. e \in Published /\ e \in Since /\ e > cp
            BY <2>3, <1>3 DEF Published, Since
        <3>2. CASE Slides
            <4>1. e \notin Recent(Published)
                BY <3>1, <3>2, <1>6 DEF Fits
            <4> QED BY <3>1, <3>2, <4>1 DEF FeedInv, GoneTold
        <3> QED BY <3>1, <3>2
    <2> QED BY <2>1, <2>2, <2>3
<1>7. Bookmarks'
    <2>1. SUFFICES ASSUME conn # "semantic-scholar"
                   PROVE  /\ \A e \in 1..posted : e <= cp => Excused(e)'
                          /\ \A e \in 1..posted : e <= mark \/ (\E u \in Range(q) : e <= u)
                                                    => e \in Range(q) \/ Excused(e)'
                          /\ \A e \in passed' : Excused(e)'
        BY <1>1 DEF Bookmarks
    <2>2. \A e \in 1..posted : e <= cp => Excused(e)'
        BY <2>1, <1>2 DEF FeedInv, Bookmarks
    <2>3. ASSUME NEW e \in 1..posted, e <= mark \/ (\E u \in Range(q) : e <= u), e \notin Range(q)
          PROVE  Excused(e)'
        <3>1. ~(~Slides /\ e \in Since)
            <4>1. SUFFICES ASSUME ~Slides, e \in Since
                           PROVE  FALSE
                OBVIOUS
            <4>2. mark < e /\ \A u \in Range(q) : u < e
                BY <2>3, <4>1 DEF Fits
            <4>3. mark \in Int /\ e \in Int /\ \A u \in Range(q) : u \in Int
                BY <1>3, <1>4
            <4> QED BY <4>2, <4>3, <2>3
        <3> QED BY <3>1, <2>1, <2>3, <1>2, <1>6
    <2>4. ASSUME NEW e \in passed'
          PROVE  Excused(e)'
        <3>1. CASE e \in passed
            BY <3>1, <2>1, <1>2, <1>3 DEF FeedInv, Bookmarks
        <3>2. CASE e \in (1..posted) \ (Range(q) \cup Later)
            <4>1. e \in (1..posted) \ Range(q) /\ (~Slides => e \notin Since)
                BY <3>2 DEF Later
            <4> QED BY <4>1, <2>1, <1>2, <1>6
        <3> QED BY <3>1, <3>2, <1>1
    <2> QED BY <2>2, <2>3, <2>4
<1>8. Upwards'
    <2>1. InOrder' = InOrder
        BY <1>1 DEF InOrder
    <2> QED BY <1>1, <2>1 DEF Fits, Upwards
<1>9. Fresh'
    <2>1. faults' = 0 => gone' = {}
        BY <1>1 DEF FeedInv, Fresh
    <2>2. Quiet' = Quiet
        BY <1>1 DEF Quiet
    <2>3. SUFFICES ASSUME Quiet
                   PROVE  /\ \A e \in Entries : staged[e] <= 1 /\ (staged[e] > 0 => e <= cp \/ e <= mark)
                          /\ \A u \in Range(q) : cp < u /\ staged[u] = 0
                          /\ mark = 0 \/ cp <= mark
        BY <1>1, <2>1, <2>2 DEF Fresh
    <2>4. \A e \in Entries : staged[e] <= 1 /\ (staged[e] > 0 => e <= cp)
        <3>1. \A e \in Entries : ~(e <= high)
            BY <1>3 DEF Entries
        <3> QED BY <2>3, <3>1 DEF FeedInv, Fresh
    <2>5. ASSUME NEW u \in Range(q)
          PROVE  cp < u /\ staged[u] = 0
        <3>1. u \in Entries /\ u \in Int /\ cp \in Int /\ staged[u] \in 0..2
            BY <1>3, <1>4, FeedsAssumption DEF FeedInv, FeedTypes, Entries
        <3>2. cp < u
            BY <2>3 DEF Fits
        <3> QED BY <3>1, <3>2, <2>4
    <2> QED BY <2>3, <2>4, <2>5 DEF Fits
<1> QED BY <1>2, <1>5, <1>7, <1>8, <1>9 DEF FeedInv

-----------------------------------------------------------------------------
(* The service and the process. *)

LEMMA ServiceFinite ==
    ASSUME FeedInv
    PROVE  /\ posted \in Nat /\ cp \in 0..posted /\ IsFiniteSet(1..posted) /\ Published \subseteq 1..posted
           /\ IsFiniteSet(Published) /\ Width \in Nat \ {0}
           /\ \A S \in SUBSET (1..posted) : IsFiniteSet(S) /\ S \in SUBSET Int
<1>1. posted \in Nat /\ cp \in 0..posted
    BY DEF FeedInv, FeedTypes
<1>2. IsFiniteSet(1..posted)
    BY <1>1, FS_Interval
<1>3. Published \subseteq 1..posted
    BY DEF Published
<1>4. \A S \in SUBSET (1..posted) : IsFiniteSet(S)
    BY <1>2, PartCount
<1>5. Width \in Nat \ {0}
    BY FeedsAssumption DEF Width
<1>6. IsFiniteSet(Published)
    BY <1>3, <1>4
<1>7. \A S \in SUBSET (1..posted) : S \in SUBSET Int
    BY <1>1
<1>8. \A S \in SUBSET (1..posted) : IsFiniteSet(S) /\ S \in SUBSET Int
    BY <1>4, <1>7, Zenon
<1> QED BY <1>1, <1>2, <1>3, <1>5, <1>6, <1>8, Zenon

LEMMA PublishKeeps ==
    ASSUME FeedInv, Publish
    PROVE  FeedInv'
<1>1. /\ conn' = conn /\ posted' = posted + 1 /\ gone' = gone /\ cp' = cp /\ passed' = passed
      /\ pollCap' = pollCap /\ sourceCap' = sourceCap /\ rejected' = rejected
      /\ pc' = pc /\ todo' = todo /\ high' = high /\ count' = count /\ faults' = faults
      /\ staged' = staged /\ unread' = unread /\ left' = left
      /\ missed' = missed \cup (IF Slides THEN {e \in Published \ Recent(Published \cup {posted + 1}) : staged[e] = 0}
                                ELSE {})
      /\ posted < MaxEntries
    BY DEF Publish, setup
<1>2. /\ posted \in Nat /\ cp \in 0..posted /\ high \in 0..posted /\ posted + 1 \in 0..MaxEntries
      /\ 1..posted' = (1..posted) \cup {posted + 1} /\ gone \subseteq 1..posted /\ passed \subseteq 1..posted
    <2>1. /\ posted \in Nat /\ cp \in 0..posted /\ high \in 0..posted
          /\ gone \subseteq 1..posted /\ passed \subseteq 1..posted
        BY DEF FeedInv, FeedTypes
    <2>2. posted' = posted + 1 /\ posted < MaxEntries /\ MaxEntries \in Nat
        BY <1>1, FeedsAssumption
    <2>3. posted + 1 \in 0..MaxEntries /\ 1..posted' = (1..posted) \cup {posted + 1}
        BY <2>1, <2>2
    <2> QED BY <2>1, <2>3
<1>3. \A e \in 1..posted : Excused(e) => Excused(e)'
    BY <1>1 DEF Excused
<1>4. todo \in Seq(1..posted') /\ Range(todo) \subseteq 1..posted
    <2> DEFINE T == 1..posted
               U == 1..posted'
    <2>1. todo \in Seq(T) /\ T \subseteq U
        BY <1>2 DEF FeedInv, FeedTypes
    <2> HIDE DEF T, U
    <2>2. todo \in Seq(U) /\ Range(todo) \subseteq T
        BY <2>1, SeqRange
    <2> QED BY <2>2 DEF T, U
<1>5. FeedTypes'
    <2>1. staged \in [Entries -> 0..2] /\ \A e \in Entries : staged[e] > 0 => e <= posted + 1
        BY <1>2 DEF FeedInv, FeedTypes, Entries
    <2>2. /\ posted' \in 0..MaxEntries /\ gone \subseteq 1..posted' /\ cp \in 0..posted' /\ high \in 0..posted'
          /\ passed \subseteq 1..posted'
        BY <1>1, <1>2
    <2> QED BY <1>1, <1>4, <2>1, <2>2 DEF FeedInv, FeedTypes
<1>6. GoneTold'
    <2>1. \A e \in gone' : Excused(e)'
        BY <1>1, <1>2, <1>3 DEF FeedInv, GoneTold
    <2>2. /\ Published' = Published \cup {posted + 1} /\ Slides' = Slides
          /\ Recent(Published)' = Recent(Published \cup {posted + 1})
        <3>1. Published' = Published \cup {posted + 1}
            BY <1>1, <1>2 DEF Published
        <3>2. Slides' = Slides /\ Width' = Width
            BY <1>1 DEF Slides, Width
        <3> QED BY <3>1, <3>2 DEF Recent
    <2>3. posted + 1 \in Recent(Published \cup {posted + 1})
        <3>1. {f \in Published \cup {posted + 1} : f > posted + 1} = {}
            BY <1>2, ServiceFinite
        <3>2. Cardinality({f \in Published \cup {posted + 1} : f > posted + 1}) = 0
            BY <3>1, FS_EmptySet
        <3> QED BY <3>2, ServiceFinite DEF Recent
    <2>4. ASSUME Slides, NEW e \in Published' \ Recent(Published)'
          PROVE  Excused(e)'
        <3>1. e \in Published \ Recent(Published \cup {posted + 1})
            BY <2>2, <2>3, <2>4
        <3>2. staged[e] \in 0..2
            BY <3>1, <1>2, FeedsAssumption, ServiceFinite DEF FeedInv, FeedTypes, Entries
        <3> QED BY <3>1, <3>2, <2>4, <1>1 DEF Excused
    <2>5. Slides' => \A e \in (Published \ Recent(Published))' : Excused(e)'
        BY <2>2, <2>4
    <2> QED BY <2>1, <2>5 DEF GoneTold
<1>7. Bookmarks'
    <2>1. SUFFICES ASSUME conn # "semantic-scholar"
                   PROVE  /\ \A e \in 1..posted' : e <= cp => Excused(e)'
                          /\ \A e \in 1..posted' : e <= high \/ (\E u \in Range(todo) : e <= u)
                                                    => e \in Range(todo) \/ Excused(e)'
                          /\ \A e \in passed : Excused(e)'
        BY <1>1 DEF Bookmarks
    <2>2. \A e \in 1..posted' : e <= cp => e \in 1..posted
        BY <1>2
    <2>3. \A e \in 1..posted' : e <= high \/ (\E u \in Range(todo) : e <= u) => e \in 1..posted
        BY <1>2, <1>4
    <2> QED BY <2>1, <2>2, <2>3, <1>2, <1>3 DEF FeedInv, Bookmarks
<1>8. Upwards'
    BY <1>1 DEF FeedInv, Upwards, InOrder
<1>9. Fresh'
    BY <1>1 DEF FeedInv, Fresh, Quiet
<1> QED BY <1>5, <1>6, <1>7, <1>8, <1>9 DEF FeedInv

LEMMA DeleteKeeps ==
    ASSUME FeedInv, NEW d \in Published, Delete(d)
    PROVE  FeedInv'
<1>1. /\ conn' = conn /\ posted' = posted /\ gone' = gone \cup {d} /\ cp' = cp /\ passed' = passed
      /\ pollCap' = pollCap /\ sourceCap' = sourceCap /\ rejected' = rejected
      /\ pc' = pc /\ todo' = todo /\ high' = high /\ count' = count /\ faults < MaxFaults /\ faults' = faults + 1
      /\ staged' = staged /\ unread' = unread /\ left' = left
      /\ missed' = (IF staged[d] = 0 THEN missed \cup {d} ELSE missed)
    BY DEF Delete, setup
<1>2. /\ posted \in Nat /\ gone \subseteq 1..posted /\ passed \subseteq 1..posted /\ d \in 1..posted
      /\ staged[d] \in 0..2
    BY FeedsAssumption, ServiceFinite DEF FeedInv, FeedTypes, Entries
<1>3. \A e \in 1..posted : Excused(e) => Excused(e)'
    BY <1>1 DEF Excused
<1>4. Excused(d)'
    BY <1>1, <1>2 DEF Excused
<1>5. FeedTypes'
    <2>1. faults' \in 0..MaxFaults
        BY <1>1, FeedsAssumption DEF FeedInv, FeedTypes
    <2> QED BY <1>1, <1>2, <2>1 DEF FeedInv, FeedTypes
<1>6. GoneTold'
    <2>1. \A e \in gone' : Excused(e)'
        BY <1>1, <1>2, <1>3, <1>4 DEF FeedInv, GoneTold
    <2>2. Published' = Published \ {d} /\ Slides' = Slides /\ Width' = Width
        BY <1>1 DEF Published, Slides, Width
    <2>3. Recent(Published)' = Recent(Published \ {d})
        BY <2>2 DEF Recent
    <2>4. ASSUME NEW e \in Recent(Published), e # d
          PROVE  e \in Recent(Published \ {d})
        <3> DEFINE A == {f \in Published \ {d} : f > e}
                   B == {f \in Published : f > e}
        <3>1. A \in SUBSET B /\ B \in SUBSET Published
            OBVIOUS
        <3>2. Cardinality(A) \in Nat /\ Cardinality(B) \in Nat /\ Cardinality(A) <= Cardinality(B)
            <4>1. IsFiniteSet(B)
                BY <3>1, ServiceFinite, PartCount
            <4> HIDE DEF A, B
            <4> QED BY <3>1, <4>1, PartCount
        <3>3. Cardinality(B) < Width /\ e \in Published /\ Width \in Nat
            BY <2>4, ServiceFinite DEF Recent
        <3>4. Cardinality(A) < Width
            <4> HIDE DEF A, B
            <4> QED BY <3>2, <3>3
        <3> QED BY <3>3, <3>4, <2>4 DEF Recent
    <2>5. ASSUME Slides, NEW e \in Published' \ Recent(Published)'
          PROVE  Excused(e)'
        <3>1. e \in Published \ Recent(Published)
            BY <2>2, <2>3, <2>4, <2>5
        <3>2. Excused(e) /\ e \in 1..posted
            BY <2>5, <3>1, ServiceFinite DEF FeedInv, GoneTold
        <3> QED BY <3>2, <1>3
    <2>6. Slides' => \A e \in (Published \ Recent(Published))' : Excused(e)'
        BY <2>2, <2>5
    <2> QED BY <2>1, <2>6 DEF GoneTold
<1>7. Bookmarks'
    BY <1>1, <1>2, <1>3 DEF FeedInv, Bookmarks
<1>8. Upwards'
    BY <1>1 DEF FeedInv, Upwards, InOrder
<1>9. Fresh'
    <2>1. faults' # 0
        BY <1>1 DEF FeedInv, FeedTypes
    <2> QED BY <2>1 DEF Fresh, Quiet
<1> QED BY <1>5, <1>6, <1>7, <1>8, <1>9 DEF FeedInv

LEMMA CrashKeeps ==
    ASSUME FeedInv, Crash
    PROVE  FeedInv'
<1>1. /\ EndPoll /\ UNCHANGED <<setup, service, cp, passed>> /\ staged' = staged
      /\ missed' = missed /\ left' = left /\ unread' = unread /\ faults < MaxFaults /\ faults' = faults + 1
    BY DEF Crash, Fault, histories
<1>2. faults' \in 0..MaxFaults /\ faults <= faults' /\ faults' # 0
    BY <1>1, FeedsAssumption DEF FeedInv, FeedTypes
<1>3. ~Quiet' /\ staged' \in [Entries -> 0..2] /\ \A e \in Entries : staged'[e] > 0 => e <= posted
    BY <1>1, <1>2 DEF Quiet, FeedInv, FeedTypes
<1> QED BY <1>1, <1>2, <1>3, EndKeeps

-----------------------------------------------------------------------------
(* The steps of a poll, as the connectors take them. *)

LEMMA ReturnKeeps ==
    ASSUME FeedInv, Return("poll"), conn \in SavesEach \cup ForgetsAtPollCap
    PROVE  FeedInv'
<1>1. /\ EndPoll /\ UNCHANGED <<setup, service, cp, passed>> /\ staged' = staged /\ faults' = faults
      /\ missed' = missed /\ left' = left \cup Range(todo) /\ unread' = unread /\ TryFetch = "poll"
    BY DEF Return, Cut
<1>2. faults \in 0..MaxFaults /\ staged \in [Entries -> 0..2] /\ \A e \in Entries : staged[e] > 0 => e <= posted
    BY DEF FeedInv, FeedTypes
<1>3. faults' \in 0..MaxFaults /\ faults <= faults'
    BY <1>1, <1>2, FeedsAssumption
<1>4. conn \in SavesEach \/ ~Quiet'
    <2>1. pollCap # 0 /\ pollCap' = pollCap /\ conn' = conn
        BY <1>1 DEF TryFetch, setup
    <2> QED BY <2>1 DEF Quiet
<1> QED BY <1>1, <1>2, <1>3, <1>4, EndKeeps

LEMMA RefusedKeeps ==
    ASSUME FeedInv, Refused
    PROVE  FeedInv'
<1>1. /\ EndPoll /\ UNCHANGED <<setup, service, cp, passed>> /\ staged' = staged
      /\ missed' = missed /\ left' = left /\ unread' = unread /\ todo # <<>>
      /\ IF Head(todo) = rejected THEN faults' = faults ELSE faults < MaxFaults /\ faults' = faults + 1
    BY DEF Refused, Fault, histories
<1>2. faults \in 0..MaxFaults /\ staged \in [Entries -> 0..2] /\ \A e \in Entries : staged[e] > 0 => e <= posted
    BY DEF FeedInv, FeedTypes
<1>3. faults' \in 0..MaxFaults /\ faults <= faults'
    BY <1>1, <1>2, FeedsAssumption
<1>4. conn \in SavesEach \/ ~Quiet'
    <2>1. rejected' = rejected /\ conn' = conn
        BY <1>1 DEF setup
    <2>2. CASE Head(todo) = rejected
        <3>1. rejected # 0
            BY <1>1, <2>2, TodoIs
        <3> QED BY <2>1, <3>1 DEF Quiet
    <2>3. CASE Head(todo) # rejected
        <3>1. faults' # 0
            BY <1>1, <1>2, <2>3
        <3> QED BY <3>1 DEF Quiet
    <2> QED BY <2>2, <2>3
<1> QED BY <1>1, <1>2, <1>3, <1>4, EndKeeps

LEMMA DoneKeeps ==
    ASSUME FeedInv, Done, conn \in SavesEach
    PROVE  FeedInv'
<1>1. /\ EndPoll /\ UNCHANGED <<setup, service, cp, passed>> /\ staged' = staged /\ faults' = faults
      /\ missed' = missed /\ left' = left /\ unread' = unread
    BY DEF Done, histories
<1>2. faults \in 0..MaxFaults /\ staged \in [Entries -> 0..2] /\ \A e \in Entries : staged[e] > 0 => e <= posted
    BY DEF FeedInv, FeedTypes
<1>3. faults' \in 0..MaxFaults /\ faults <= faults'
    BY <1>1, <1>2, FeedsAssumption
<1> QED BY <1>1, <1>2, <1>3, EndKeeps

LEMMA StageAndSaveKeeps ==
    ASSUME FeedInv, StageAndSave, conn \in SavesEach
    PROVE  FeedInv'
<1>1. CASE cp' = Head(todo) /\ GoOn /\ count' = count + 1 /\ UNCHANGED <<high, faults>>
    BY <1>1, SaveKeeps DEF StageAndSave
<1>2. CASE Fault /\ EndPoll /\ cp' = cp
    <2>1. /\ UNCHANGED <<setup, service, cp, passed>> /\ faults < MaxFaults /\ faults' = faults + 1
          /\ missed' = missed /\ left' = left /\ unread' = unread /\ todo # <<>> /\ Staged(Head(todo))
        BY <1>2 DEF StageAndSave, Stageable, Fault, histories
    <2>2. faults' \in 0..MaxFaults /\ faults <= faults' /\ faults' # 0
        BY <2>1, FeedsAssumption DEF FeedInv, FeedTypes
    <2>3. Head(todo) \in 1..posted
        BY <2>1, TodoIs
    <2>4. /\ staged' \in [Entries -> 0..2] /\ \A x \in Entries : staged[x] > 0 => staged'[x] > 0
          /\ \A x \in Entries : staged'[x] > 0 => x <= posted
        BY <2>1, <2>3, StagedIs
    <2>5. ~Quiet'
        BY <2>2 DEF Quiet
    <2> QED BY <1>2, <2>1, <2>2, <2>4, <2>5, EndKeeps
<1> QED BY <1>1, <1>2 DEF StageAndSave

\* Without what other sources took of the cap.
LEMMA ListFits ==
    ASSUME FeedInv, NEW q, NEW mark, Fits(q, mark), List(q, mark)
    PROVE  FeedInv'
<1>1. pollCap \in Nat /\ sourceCap \in Nat /\ 0 \in Nat
    BY DEF FeedInv, FeedTypes
<1>2. ListAfter(0, q, mark)
    BY DEF List
<1> QED BY <1>1, <1>2, ListKeeps

-----------------------------------------------------------------------------
(* What the services answer fits. *)

\* q goes through S, each entry once.
Through(q, S) == q \in Seq(S) /\ IsInjective(q) /\ Range(q) = S

LEMMA SeqGrows ==
    ASSUME NEW S, NEW T, S \subseteq T, NEW q \in Seq(S)
    PROVE  q \in Seq(T)
OBVIOUS

LEMMA OldestThrough ==
    ASSUME FeedInv, NEW S \in SUBSET (1..posted)
    PROVE  /\ Through(Oldest(S), S) /\ Ascending(Oldest(S)) /\ Through(Newest(S), S)
           /\ Reverse(Newest(S)) = Oldest(S)
<1>1. S \in SUBSET Int /\ IsFiniteSet(S)
    BY ServiceFinite
<1>2. Oldest(S) \in Seq(S) /\ Ascending(Oldest(S)) /\ Range(Oldest(S)) = S
    BY <1>1, OldestIs
<1>3. IsInjective(Oldest(S))
    BY <1>1, <1>2, AscendingInjective
<1>4. /\ Reverse(Oldest(S)) \in Seq(S) /\ Range(Reverse(Oldest(S))) = S /\ IsInjective(Reverse(Oldest(S)))
      /\ Reverse(Reverse(Oldest(S))) = Oldest(S)
    BY <1>2, <1>3, ReverseIs
<1> QED BY <1>2, <1>3, <1>4 DEF Through, Newest

LEMMA AnyOrderThrough ==
    ASSUME FeedInv, NEW S \in SUBSET (1..posted), NEW q \in SetToSeqs(S)
    PROVE  Through(q, S)
<1> DEFINE n == Cardinality(S)
           D == 1..n
<1>1. IsFiniteSet(S) /\ n \in Nat
    BY ServiceFinite, FS_CardinalityType
<1>2. q \in [D -> S] /\ \A i, j \in D : i # j => q[i] # q[j]
    BY DEF SetToSeqs
<1>3. IsFiniteSet(D) /\ Cardinality(D) = n
    <2>1. 1 \in Int /\ n \in Int
        BY <1>1
    <2>2. IsFiniteSet(1..n) /\ Cardinality(1..n) = IF 1 > n THEN 0 ELSE n - 1 + 1
        <3> HIDE DEF n
        <3> QED BY <2>1, FS_Interval
    <2> QED BY <1>1, <2>2
<1> HIDE DEF n
<1>4. q \in Seq(S) /\ DOMAIN q = D
    BY <1>1, <1>2
<1>5. IsInjective(q)
    BY <1>2, <1>4 DEF IsInjective
<1>6. q \in Injection(D, S)
    BY <1>2 DEF Injection, IsInjective
<1>7. q \in Surjection(D, S)
    BY <1>1, <1>3, <1>6, FS_Injection DEF n
<1>8. Range(q) = S
    <2>1. Range(q) = {q[i] : i \in D}
        BY <1>4, Zenon DEF Range
    <2>2. \A e \in S : \E i \in D : q[i] = e
        BY <1>7 DEF Surjection
    <2>3. \A i \in D : q[i] \in S
        BY <1>2
    <2> QED BY <2>1, <2>2, <2>3
<1> QED BY <1>4, <1>5, <1>8 DEF Through

LEMMA NewerThrough ==
    ASSUME FeedInv, NEW S \in SUBSET (1..posted), NEW q, Through(q, S)
    PROVE  /\ Through(Newer(q), {e \in S : e > cp})
           /\ Ascending(q) => Ascending(Newer(q))
<1>1. S \in SUBSET Int
    BY ServiceFinite
<1>2. /\ Newer(q) \in Seq(S) /\ Range(Newer(q)) = {e \in S : e > cp} /\ IsInjective(Newer(q))
      /\ Ascending(q) => Ascending(Newer(q))
    BY <1>1, NewerIs DEF Through
<1>3. Newer(q) \in Seq(Range(Newer(q)))
    BY <1>2 DEF Range
<1> QED BY <1>2, <1>3 DEF Through

\* Of what a listing of the newest shows, the part behind the bookmark is in
\* a listing that begins at the bookmark.
LEMMA RecentBehind ==
    ASSUME FeedInv, NEW S \in SUBSET Published, Since \subseteq S, NEW e \in Recent(Published), e > cp
    PROVE  e \in Recent(S)
<1> DEFINE A == {f \in S : f > e}
           B == {f \in Published : f > e}
<1>1. A \in SUBSET B /\ B \in SUBSET Published /\ e \in Since
    BY DEF Recent, Since
<1>2. IsFiniteSet(B)
    BY <1>1, ServiceFinite, PartCount
<1>3. Cardinality(B) < Width /\ Width \in Nat
    BY ServiceFinite DEF Recent
<1> HIDE DEF A, B
<1>4. Cardinality(A) \in Nat /\ Cardinality(B) \in Nat /\ Cardinality(A) <= Cardinality(B)
    BY <1>1, <1>2, PartCount
<1>5. Cardinality(A) < Width
    BY <1>3, <1>4
<1> QED BY <1>1, <1>5 DEF A, Recent

\* A bookmark that the newest entries have pushed off the page is before them.
LEMMA RecentAhead ==
    ASSUME FeedInv, cp \in Published \ Recent(Published), NEW u \in Recent(Published)
    PROVE  cp < u
<1> DEFINE A == {f \in Published : f > cp}
           B == {f \in Published : f > u}
<1>1. u \in Int /\ cp \in Int /\ Published \subseteq Int
    BY ServiceFinite DEF Recent
<1>2. SUFFICES ASSUME u <= cp
               PROVE  FALSE
    BY <1>1
<1>3. A \in SUBSET B /\ B \in SUBSET Published
    <2>1. \A f \in Published : f > cp => f > u
        BY <1>1, <1>2
    <2> QED BY <2>1
<1>4. IsFiniteSet(B)
    BY <1>3, ServiceFinite, PartCount
<1>5. Cardinality(B) < Width /\ ~(Cardinality(A) < Width) /\ Width \in Nat
    BY ServiceFinite DEF Recent
<1> HIDE DEF A, B
<1>6. Cardinality(A) \in Nat /\ Cardinality(B) \in Nat /\ Cardinality(A) <= Cardinality(B)
    BY <1>3, <1>4, PartCount
<1> QED BY <1>5, <1>6

\* What the page of the earliest entries does not show is later than all it shows.
LEMMA EarliestFirst ==
    ASSUME FeedInv, NEW S \in SUBSET Published, NEW e \in S \ Earliest(S), NEW u \in Earliest(S)
    PROVE  u < e
<1> DEFINE A == {f \in S : f < e}
           B == {f \in S : f < u}
<1>1. u \in S /\ u \in Int /\ e \in Int /\ S \subseteq Int /\ IsFiniteSet(S)
    BY ServiceFinite DEF Earliest
<1>2. SUFFICES ASSUME e <= u
               PROVE  FALSE
    BY <1>1
<1>3. A \in SUBSET B /\ B \in SUBSET S
    <2>1. \A f \in S : f < e => f < u
        BY <1>1, <1>2
    <2> QED BY <2>1
<1>4. IsFiniteSet(B)
    BY <1>1, <1>3, PartCount
<1>5. Cardinality(B) < Width /\ ~(Cardinality(A) < Width) /\ Width \in Nat
    BY ServiceFinite DEF Earliest
<1> HIDE DEF A, B
<1>6. Cardinality(A) \in Nat /\ Cardinality(B) \in Nat /\ Cardinality(A) <= Cardinality(B)
    BY <1>3, <1>4, PartCount
<1> QED BY <1>5, <1>6

LEMMA PartsListed ==
    ASSUME FeedInv
    PROVE  /\ Recent(Published) \in SUBSET (1..posted) /\ Since \in SUBSET (1..posted)
           /\ Since \in SUBSET Published
           /\ \A S \in SUBSET (1..posted) : Recent(S) \in SUBSET (1..posted) /\ Earliest(S) \in SUBSET (1..posted)
           /\ \A e \in 1..posted : e \in Int
BY ServiceFinite DEF Recent, Since, Earliest

\* A listing through a set S in ascending order, for the bookmark of each entry.
LEMMA FitsAll ==
    ASSUME FeedInv, NEW S \in SUBSET (1..posted), NEW q, Through(q, S), NEW mark \in 0..posted,
           conn \in SavesEach => mark = 0,
           Slides /\ conn # "semantic-scholar" => {e \in Recent(Published) : e > cp} \subseteq S,
           ~Slides => \A e \in Since \ S : mark < e /\ \A u \in S : u < e,
           InOrder => Ascending(q) /\ \A u \in S : mark < u,
           Quiet => (\A u \in S : cp < u) /\ (mark = 0 \/ cp <= mark)
    PROVE  Fits(q, mark)
<1>1. q \in Seq(S) /\ IsInjective(q) /\ Range(q) = S
    BY DEF Through
<1>2. q \in Seq(1..posted)
    <2> DEFINE T == 1..posted
    <2>1. S \subseteq T
        OBVIOUS
    <2> HIDE DEF T
    <2>2. q \in Seq(T)
        BY <1>1, <2>1, SeqGrows
    <2> QED BY <2>2 DEF T
<1> QED BY <1>1, <1>2 DEF Fits

\* From behind the bookmark, oldest first: rss, arxiv, trello, linkedin, meta,
\* github, bluesky.
BookmarkIds == {"rss", "arxiv", "trello", "linkedin", "meta", "github", "bluesky"}
LEMMA AfterFits ==
    ASSUME FeedInv, conn \in BookmarkIds
    PROVE  Fits(After(Oldest(Recent(Published))), 0)
<1> DEFINE R == Recent(Published)
           q == Oldest(R)
           S == IF cp \in R THEN {e \in R : e > cp} ELSE R
<1>1. R \in SUBSET (1..posted) /\ R \in SUBSET Int /\ posted \in Nat /\ cp \in 0..posted
    BY PartsListed, ServiceFinite
<1>2. Through(q, R) /\ Ascending(q)
    BY <1>1, OldestThrough
<1> HIDE DEF R, q
<1>3. /\ After(q) \in Seq(R) /\ IsInjective(After(q)) /\ Ascending(After(q)) /\ Range(After(q)) = S
    BY <1>1, <1>2, AfterIs DEF Through
<1>4. Through(After(q), S)
    <2>1. After(q) \in Seq(Range(After(q)))
        BY <1>3 DEF Range
    <2> QED BY <1>3, <2>1 DEF Through
<1>5. S \in SUBSET (1..posted) /\ {e \in R : e > cp} \subseteq S
    BY <1>1
<1>6. /\ conn \in SavesEach /\ Slides /\ 0 \in 0..posted /\ conn # "semantic-scholar"
    BY <1>1 DEF BookmarkIds, SavesEach, Slides
<1>7. \A u \in S : 0 < u
    BY <1>1
<1>8. ASSUME Quiet, NEW u \in S
      PROVE  cp < u
    <2>1. CASE cp \in R
        BY <2>1, <1>1, <1>8
    <2>2. CASE cp \notin R /\ cp = 0
        BY <2>2, <1>7, <1>8
    <2>3. CASE cp \notin R /\ cp # 0
        <3>1. gone = {}
            BY <1>8 DEF Quiet, FeedInv, Fresh
        <3>2. cp \in Published \ R
            BY <2>3, <3>1, <1>1 DEF Published
        <3>3. u \in R
            BY <2>3, <1>8
        <3> QED BY <3>2, <3>3, RecentAhead DEF R
    <2> QED BY <2>1, <2>2, <2>3
<1> HIDE DEF S
<1>9. Fits(After(q), 0)
    BY <1>3, <1>4, <1>5, <1>6, <1>7, <1>8, FitsAll DEF R
<1> QED BY <1>9 DEF q, R

LEMMA PapersFit ==
    ASSUME FeedInv, conn = "semantic-scholar"
    PROVE  Fits(After(Newest(Recent(Published))), 0)
<1> DEFINE R == Recent(Published)
           q == Newest(R)
<1>1. R \in SUBSET (1..posted) /\ R \in SUBSET Int /\ posted \in Nat
    BY PartsListed, ServiceFinite
<1>2. Through(q, R)
    BY <1>1, OldestThrough
<1> HIDE DEF R, q
<1>3. /\ After(q) \in Seq(R) /\ IsInjective(After(q)) /\ Range(After(q)) \subseteq R
    BY <1>1, <1>2, AfterIs DEF Through
<1>4. Through(After(q), Range(After(q)))
    <2>1. After(q) \in Seq(Range(After(q)))
        BY <1>3 DEF Range
    <2> QED BY <1>3, <2>1 DEF Through
<1>5. Slides /\ ~InOrder /\ ~Quiet /\ 0 \in 0..posted
    BY <1>1 DEF Slides, InOrder, Quiet
<1>6. Range(After(q)) \in SUBSET (1..posted)
    BY <1>1, <1>3
<1>7. Fits(After(q), 0)
    BY <1>4, <1>5, <1>6, FitsAll
<1> QED BY <1>7 DEF q, R

\* The newer entries of the newest: steam, gitlab, youtube, hackernews, teams,
\* a Notion database.
LEMMA NewerFits ==
    ASSUME FeedInv, NEW R \in SUBSET (1..posted), NEW q, Through(q, R), NEW mark \in {0, cp},
           Slides, conn \notin SavesEach, {e \in Recent(Published) : e > cp} \subseteq R,
           InOrder => Ascending(q)
    PROVE  Fits(Newer(q), mark)
<1> DEFINE S == {e \in R : e > cp}
<1>1. posted \in Nat /\ cp \in 0..posted /\ mark \in 0..posted
    BY ServiceFinite
<1>2. S \in SUBSET (1..posted) /\ \A e \in S : e \in Int
    BY PartsListed
<1>3. Through(Newer(q), S) /\ (InOrder => Ascending(Newer(q)))
    BY NewerThrough
<1>4. {e \in Recent(Published) : e > cp} \subseteq S
    OBVIOUS
<1>5. \A u \in S : mark < u /\ cp < u
    BY <1>1, <1>2
<1>6. mark = 0 \/ cp <= mark
    BY <1>1
<1> HIDE DEF S
<1> QED BY <1>1, <1>2, <1>3, <1>4, <1>5, <1>6, FitsAll

\* The connectors that ask for what comes after their bookmark.
LEMMA SinceFits ==
    ASSUME FeedInv, conn \in {"imap", "gdrive", "onedrive"}, NEW mark \in {0, posted},
           conn = "imap" => mark = 0
    PROVE  Fits(Oldest(Since), mark)
<1>1. posted \in Nat /\ cp \in 0..posted /\ mark \in 0..posted /\ Since \in SUBSET (1..posted)
    BY ServiceFinite, PartsListed
<1>2. Through(Oldest(Since), Since) /\ Ascending(Oldest(Since))
    BY <1>1, OldestThrough
<1>3. ~Slides /\ (conn \in SavesEach => conn = "imap") /\ (InOrder => conn = "imap")
    BY DEF Slides, SavesEach, InOrder, LosesCutOff
<1>4. \A u \in Since : cp < u /\ 0 < u
    BY <1>1, PartsListed DEF Since
<1>5. mark = 0 \/ cp <= mark
    BY <1>1
<1> QED BY <1>1, <1>2, <1>3, <1>4, <1>5, FitsAll

LEMMA EarliestFits ==
    ASSUME FeedInv, conn \in {"jira", "outlook"}
    PROVE  Fits(Oldest(Earliest(Since)), 0)
<1> DEFINE S == Earliest(Since)
<1>1. posted \in Nat /\ cp \in 0..posted /\ 0 \in 0..posted /\ S \in SUBSET (1..posted)
    BY ServiceFinite, PartsListed
<1>2. Through(Oldest(S), S) /\ Ascending(Oldest(S))
    BY <1>1, OldestThrough
<1>3. ~Slides /\ conn \notin SavesEach
    BY DEF Slides, SavesEach
<1>4. \A u \in Since : cp < u /\ 0 < u
    BY <1>1, PartsListed DEF Since
<1>5. S \subseteq Since
    BY DEF Earliest
<1>6. \A e \in Since \ S : \A u \in S : u < e
    BY PartsListed, EarliestFirst
<1> HIDE DEF S
<1>7. Fits(Oldest(S), 0)
    BY <1>1, <1>2, <1>3, <1>4, <1>5, <1>6, FitsAll
<1> QED BY <1>7 DEF S

LEMMA CalendarFits ==
    ASSUME FeedInv, conn = "gcalendar"
    PROVE  Fits(Newer(gcalendar_fetchAPI), cp)
<1> DEFINE P == {e \in Published : e >= cp}
           R == Earliest(P)
           S == {e \in R : e > cp}
           q == Oldest(R)
<1>1. posted \in Nat /\ cp \in 0..posted /\ P \in SUBSET (1..posted) /\ P \in SUBSET Published
    BY ServiceFinite
<1>2. R \in SUBSET (1..posted) /\ R \subseteq P
    BY <1>1, PartsListed DEF Earliest
<1>3. Through(q, R) /\ Ascending(q)
    BY <1>2, OldestThrough
<1>4. ASSUME NEW e \in Since \ S, NEW u \in S
      PROVE  u < e
    <2>1. e \in P \ R /\ u \in R
        <3>1. e \in Published /\ e > cp /\ e \in Int
            BY PartsListed DEF Since
        <3> HIDE DEF R
        <3> QED BY <3>1, <1>1, <1>4
    <2> HIDE DEF P
    <2> QED BY <1>1, <2>1, EarliestFirst
<1> HIDE DEF R, q
<1>5. Through(Newer(q), S) /\ Ascending(Newer(q))
    BY <1>2, <1>3, NewerThrough
<1>6. ~Slides /\ conn \notin SavesEach /\ S \in SUBSET (1..posted)
    BY <1>2 DEF Slides, SavesEach
<1>7. (\A u \in S : cp < u) /\ (\A e \in Since : cp < e)
    BY <1>1, <1>2, PartsListed DEF Since
<1> HIDE DEF S
<1>8. Fits(Newer(q), cp)
    BY <1>1, <1>4, <1>5, <1>6, <1>7, FitsAll
<1> QED BY <1>8 DEF q, R, gcalendar_fetchAPI

\* The newest of what comes after the bookmark, in an order of its own.
LEMMA RecentFits ==
    ASSUME FeedInv, NEW S \in SUBSET Published, Since \subseteq S, NEW q, Through(q, Recent(S)),
           NEW mark \in 0..posted, Slides, conn \notin SavesEach, ~InOrder,
           Quiet => S = Since /\ (mark = 0 \/ cp <= mark)
    PROVE  Fits(q, mark)
<1> DEFINE R == Recent(S)
<1>1. R \in SUBSET (1..posted) /\ R \subseteq S
    BY ServiceFinite, PartsListed DEF Recent
<1>2. {e \in Recent(Published) : e > cp} \subseteq R
    BY RecentBehind
<1>3. Quiet => \A u \in R : cp < u
    <2>1. \A u \in Since : cp < u
        BY ServiceFinite, PartsListed DEF Since
    <2> QED BY <2>1, <1>1
<1> HIDE DEF R
<1>4. Through(q, R)
    BY DEF R
<1> QED BY <1>1, <1>2, <1>3, <1>4, FitsAll

LEMMA PageFits ==
    ASSUME FeedInv, conn = "notion.page"
    PROVE  Fits(Oldest(Recent(Published) \ {cp}), 0)
<1> DEFINE S == Recent(Published) \ {cp}
<1>1. posted \in Nat /\ cp \in 0..posted /\ S \in SUBSET (1..posted) /\ 0 \in 0..posted
    BY ServiceFinite, PartsListed
<1>2. Through(Oldest(S), S) /\ Ascending(Oldest(S))
    BY <1>1, OldestThrough
<1>3. Slides /\ conn \in SavesEach /\ Width = 1
    BY DEF Slides, SavesEach, Width
<1>4. \A u \in S : 0 < u
    BY <1>1, PartsListed
<1>5. {e \in Recent(Published) : e > cp} \subseteq S
    BY <1>1, PartsListed
<1>6. ASSUME Quiet, NEW u \in S
      PROVE  cp < u
    <2>1. gone = {}
        BY <1>6 DEF Quiet, FeedInv, Fresh
    <2>2. u \in Int /\ cp \in Int /\ u # cp /\ u \in Recent(Published) /\ 0 < u
        BY <1>1, <1>4, <1>6, PartsListed
    <2>3. CASE cp = 0
        BY <2>2, <2>3
    <2>4. CASE cp # 0
        <3> DEFINE B == {f \in Published : f > u}
        <3>1. cp \in Published
            BY <2>1, <2>4, <1>1 DEF Published
        <3>2. Cardinality(B) < 1
            BY <2>2, <1>3 DEF Recent
        <3>3. B = {}
            <4>1. B \in SUBSET Published
                OBVIOUS
            <4>2. IsFiniteSet(B)
                BY <4>1, ServiceFinite, PartCount
            <4> HIDE DEF B
            <4>3. Cardinality(B) \in Nat
                BY <4>2, FS_CardinalityType
            <4>4. Cardinality(B) = 0
                BY <4>3, <3>2
            <4> QED BY <4>2, <4>4, FS_EmptySet
        <3> QED BY <2>2, <3>1, <3>3
    <2> QED BY <2>3, <2>4
<1> HIDE DEF S
<1>7. Fits(Oldest(S), 0)
    BY <1>1, <1>2, <1>3, <1>4, <1>5, <1>6, FitsAll
<1> QED BY <1>7 DEF S

-----------------------------------------------------------------------------
(* The polls. *)

\* The steps after the listing of the connectors that save entry by entry.
LEMMA SaverSteps ==
    ASSUME FeedInv, conn \in SavesEach,
           \/ Return("poll") \/ Break("poll") \/ Break("source") \/ Refused \/ StageAndSave \/ Done
           \/ conn \in PassesUnread /\ PassOver(TRUE)
    PROVE  FeedInv'
BY ReturnKeeps, BreakKeeps, RefusedKeeps, StageAndSaveKeeps, DoneKeeps, PassOverKeeps

\* The steps after the listing of the connectors that save at the end.
LEMMA EnderSteps ==
    ASSUME FeedInv, conn \notin SavesEach,
           \/ conn \in ForgetsAtPollCap /\ Return("poll")
           \/ Break("poll") \/ Break("source") \/ Refused \/ StageOnly \/ DoneSave
           \/ conn \in PassesUnread /\ (PassOver(TRUE) \/ PassOver(FALSE))
    PROVE  FeedInv'
BY ReturnKeeps, BreakKeeps, RefusedKeeps, StageOnlyKeeps, DoneSaveKeeps, PassOverKeeps

\* The newest entries, turned round, are the oldest first.
LEMMA TurnedRound ==
    ASSUME FeedInv
    PROVE  Reverse(Newest(Recent(Published))) = Oldest(Recent(Published))
BY PartsListed, OldestThrough

LEMMA SaverPolls ==
    ASSUME FeedInv,
           \/ rss_pollFeed \/ arxiv_pollQuery \/ trello_pollBoard \/ linkedin_pollFeed \/ meta_pollFeed
           \/ github_pollRepo \/ bluesky_Poll \/ semanticscholar_pollQuery \/ imap_Poll \/ notion_pollPage
    PROVE  FeedInv'
<1> DEFINE Steps == \/ Return("poll") \/ Break("poll") \/ Break("source") \/ Refused \/ StageAndSave \/ Done
                    \/ conn \in PassesUnread /\ PassOver(TRUE)
<1>1. CASE rss_pollFeed
    <2>1. conn \in BookmarkIds /\ conn \in SavesEach
        BY <1>1 DEF rss_pollFeed, BookmarkIds, SavesEach
    <2>2. List(After(Oldest(Recent(Published))), 0) \/ Steps
        BY <1>1 DEF rss_pollFeed, rss_parseFeed
    <2> QED BY <2>1, <2>2, AfterFits, ListFits, SaverSteps
<1>2. CASE arxiv_pollQuery
    <2>1. conn \in BookmarkIds /\ conn \in SavesEach
        BY <1>2 DEF arxiv_pollQuery, BookmarkIds, SavesEach
    <2>2. List(After(Oldest(Recent(Published))), 0) \/ Steps
        BY <1>2 DEF arxiv_pollQuery, arxiv_parseArxivFeed
    <2> QED BY <2>1, <2>2, AfterFits, ListFits, SaverSteps
<1>3. CASE trello_pollBoard
    <2>1. conn \in BookmarkIds /\ conn \in SavesEach
        BY <1>3 DEF trello_pollBoard, BookmarkIds, SavesEach
    <2>2. List(After(Oldest(Recent(Published))), 0) \/ Steps
        BY <1>3, TurnedRound DEF trello_pollBoard, trello_fetchActions
    <2> QED BY <2>1, <2>2, AfterFits, ListFits, SaverSteps
<1>4. CASE linkedin_pollFeed
    <2>1. conn \in BookmarkIds /\ conn \in SavesEach
        BY <1>4 DEF linkedin_pollFeed, BookmarkIds, SavesEach
    <2>2. List(After(Oldest(Recent(Published))), 0) \/ Steps
        BY <1>4, TurnedRound DEF linkedin_pollFeed, linkedin_fetchAPI
    <2> QED BY <2>1, <2>2, AfterFits, ListFits, SaverSteps
<1>5. CASE meta_pollFeed
    <2>1. conn \in BookmarkIds /\ conn \in SavesEach
        BY <1>5 DEF meta_pollFeed, BookmarkIds, SavesEach
    <2>2. List(After(Oldest(Recent(Published))), 0) \/ Steps
        BY <1>5, TurnedRound DEF meta_pollFeed, meta_fetchAPI
    <2> QED BY <2>1, <2>2, AfterFits, ListFits, SaverSteps
<1>6. CASE github_pollRepo
    <2>1. conn \in BookmarkIds /\ conn \in SavesEach
        BY <1>6 DEF github_pollRepo, BookmarkIds, SavesEach
    <2>2. List(After(Oldest(Recent(Published))), 0) \/ Steps
        BY <1>6, TurnedRound DEF github_pollRepo, github_fetchAPI
    <2> QED BY <2>1, <2>2, AfterFits, ListFits, SaverSteps
<1>7. CASE bluesky_Poll
    <2>1. conn \in BookmarkIds /\ conn \in SavesEach /\ conn \in PassesUnread
        BY <1>7 DEF bluesky_Poll, BookmarkIds, SavesEach, PassesUnread
    <2>2. List(After(Oldest(Recent(Published))), 0) \/ Steps
        BY <1>7, <2>1, TurnedRound DEF bluesky_Poll, bluesky_fetchAuthorFeed
    <2> QED BY <2>1, <2>2, AfterFits, ListFits, SaverSteps
<1>8. CASE semanticscholar_pollQuery
    <2>1. conn = "semantic-scholar" /\ conn \in SavesEach
        BY <1>8 DEF semanticscholar_pollQuery, SavesEach
    <2>2. List(After(Newest(Recent(Published))), 0) \/ Steps
        BY <1>8 DEF semanticscholar_pollQuery, semanticscholar_fetchPapers
    <2> QED BY <2>1, <2>2, PapersFit, ListFits, SaverSteps
<1>9. CASE imap_Poll
    <2>1. conn = "imap" /\ conn \in SavesEach /\ conn \in PassesUnread
        BY <1>9 DEF imap_Poll, SavesEach, PassesUnread
    <2>2. List(Oldest(Since), 0) \/ Steps
        BY <1>9, <2>1 DEF imap_Poll, imap_SearchSinceUID
    <2>3. Fits(Oldest(Since), 0)
        BY <2>1, SinceFits
    <2> QED BY <2>1, <2>2, <2>3, ListFits, SaverSteps
<1>10. CASE notion_pollPage
    <2>1. conn = "notion.page" /\ conn \in SavesEach
        BY <1>10 DEF notion_pollPage, SavesEach
    <2>2. CASE Steps
        BY <2>1, <2>2, SaverSteps
    <2>3. ASSUME NEW used \in 0..pollCap, ListAfter(used, Oldest(Recent(Published) \ {cp}), 0)
          PROVE  FeedInv'
        <3>1. pollCap \in Nat /\ sourceCap \in Nat /\ (pollCap = 0 \/ sourceCap = 0)
            BY DEF FeedInv, FeedTypes
        <3>2. used \in Nat /\ (pollCap > 0 => used <= pollCap) /\ (sourceCap > 0 => used <= sourceCap)
            BY <3>1
        <3> QED BY <2>1, <2>3, <3>2, PageFits, ListKeeps
    <2>4. Steps \/ \E used \in 0..pollCap : ListAfter(used, Oldest(Recent(Published) \ {cp}), 0)
        BY <1>10 DEF notion_pollPage
    <2> QED BY <2>2, <2>3, <2>4
<1> QED BY <1>1, <1>2, <1>3, <1>4, <1>5, <1>6, <1>7, <1>8, <1>9, <1>10

LEMMA EnderPolls ==
    ASSUME FeedInv,
           \/ steam_pollReviews \/ steam_pollNews \/ gitlab_pollProject \/ jira_pollProject
           \/ gcalendar_pollCalendar \/ outlook_Poll \/ youtube_pollChannel
    PROVE  FeedInv'
<1> DEFINE R == Recent(Published)
           Steps == \/ conn \in ForgetsAtPollCap /\ Return("poll")
                    \/ Break("poll") \/ Break("source") \/ Refused \/ StageOnly \/ DoneSave
                    \/ conn \in PassesUnread /\ (PassOver(TRUE) \/ PassOver(FALSE))
<1>1. /\ R \in SUBSET (1..posted) /\ Through(Oldest(R), R) /\ Ascending(Oldest(R)) /\ Through(Newest(R), R)
      /\ Reverse(Newest(R)) = Oldest(R) /\ {e \in R : e > cp} \subseteq R /\ 0 \in {0, cp}
    BY PartsListed, OldestThrough
<1>2. CASE steam_pollReviews \/ steam_pollNews
    <2>1. conn \in {"steam.reviews", "steam.news"}
        BY <1>2 DEF steam_pollReviews, steam_pollNews
    <2>2. conn \notin SavesEach /\ Slides /\ conn \in ForgetsAtPollCap
        BY <2>1 DEF SavesEach, Slides, ForgetsAtPollCap
    <2>3. List(Newer(Oldest(R)), 0) \/ Steps
        BY <1>1, <1>2, <2>2 DEF steam_pollReviews, steam_pollNews, steam_fetchURL
    <2>4. Fits(Newer(Oldest(R)), 0)
        BY <1>1, <2>2, NewerFits
    <2> QED BY <2>2, <2>3, <2>4, ListFits, EnderSteps
<1>3. CASE gitlab_pollProject
    <2>1. conn \notin SavesEach /\ Slides /\ conn \in PassesUnread
        BY <1>3 DEF gitlab_pollProject, SavesEach, Slides, PassesUnread
    <2>2. List(Newer(Oldest(R)), 0) \/ Steps
        BY <1>1, <1>3, <2>1 DEF gitlab_pollProject, gitlab_fetchAllEvents
    <2>3. Fits(Newer(Oldest(R)), 0)
        BY <1>1, <2>1, NewerFits
    <2> QED BY <2>1, <2>2, <2>3, ListFits, EnderSteps
<1>4. CASE jira_pollProject
    <2>1. conn \notin SavesEach /\ conn \in {"jira", "outlook"}
        BY <1>4 DEF jira_pollProject, SavesEach
    <2>2. List(Oldest(Earliest(Since)), 0) \/ Steps
        BY <1>4 DEF jira_pollProject, jira_searchIssues
    <2> QED BY <2>1, <2>2, EarliestFits, ListFits, EnderSteps
<1>5. CASE gcalendar_pollCalendar
    <2>1. conn \notin SavesEach /\ conn = "gcalendar"
        BY <1>5 DEF gcalendar_pollCalendar, SavesEach
    <2>2. List(Newer(gcalendar_fetchAPI), cp) \/ Steps
        BY <1>5 DEF gcalendar_pollCalendar
    <2> QED BY <2>1, <2>2, CalendarFits, ListFits, EnderSteps
<1>6. CASE outlook_Poll
    <2>1. conn \notin SavesEach /\ conn \in {"jira", "outlook"} /\ conn \in ForgetsAtPollCap
        BY <1>6 DEF outlook_Poll, SavesEach, ForgetsAtPollCap
    <2>2. List(Oldest(Earliest(Since)), 0) \/ Steps
        BY <1>6, <2>1 DEF outlook_Poll, outlook_ListMessages
    <2> QED BY <2>1, <2>2, EarliestFits, ListFits, EnderSteps
<1>7. CASE youtube_pollChannel
    <2>1. conn \notin SavesEach /\ Slides /\ conn \in PassesUnread /\ ~InOrder
        BY <1>7 DEF youtube_pollChannel, SavesEach, Slides, PassesUnread, InOrder, LosesCutOff
    <2>2. List(Newer(Newest(R)), 0) \/ Steps
        BY <1>7, <2>1 DEF youtube_pollChannel, youtube_fetchAPI
    <2>3. Fits(Newer(Newest(R)), 0)
        BY <1>1, <2>1, NewerFits
    <2> QED BY <2>1, <2>2, <2>3, ListFits, EnderSteps
<1> QED BY <1>2, <1>3, <1>4, <1>5, <1>6, <1>7

LEMMA LoserPolls ==
    ASSUME FeedInv,
           \/ teams_pollChannel \/ gmail_Poll \/ hackernews_pollFeed \/ notion_pollDatabase
           \/ x_pollMentions \/ gdrive_Poll \/ onedrive_Poll
    PROVE  FeedInv'
<1> DEFINE Steps == \/ conn \in ForgetsAtPollCap /\ Return("poll")
                    \/ Break("poll") \/ Break("source") \/ Refused \/ StageOnly \/ DoneSave
                    \/ conn \in PassesUnread /\ (PassOver(TRUE) \/ PassOver(FALSE))
           RS == Recent(Since)
<1>1. /\ Since \in SUBSET Published /\ RS \in SUBSET (1..posted) /\ Recent(Published) \in SUBSET (1..posted)
      /\ posted \in Nat /\ cp \in 0..posted /\ 0 \in 0..posted
    BY PartsListed, ServiceFinite
<1>2. {e \in Recent(Published) : e > cp} \subseteq RS
    BY <1>1, RecentBehind
<1>3. CASE teams_pollChannel
    <2>1. conn \notin SavesEach /\ Slides /\ ~InOrder
        BY <1>3 DEF teams_pollChannel, SavesEach, Slides, InOrder, LosesCutOff
    <2>2. List(Newer(Newest(RS)), cp) \/ Steps
        BY <1>3 DEF teams_pollChannel, teams_fetchAPI
    <2>3. Through(Newest(RS), RS)
        BY <1>1, OldestThrough
    <2>4. Fits(Newer(Newest(RS)), cp)
        BY <1>1, <1>2, <2>1, <2>3, NewerFits
    <2> QED BY <2>1, <2>2, <2>4, ListFits, EnderSteps
<1>4. CASE gmail_Poll
    <2>1. conn \notin SavesEach /\ Slides /\ ~InOrder /\ conn \in ForgetsAtPollCap /\ conn \in PassesUnread /\ ~Quiet
        BY <1>4 DEF gmail_Poll, SavesEach, Slides, InOrder, LosesCutOff, ForgetsAtPollCap, PassesUnread, Quiet
    <2>2. CASE Steps
        BY <2>1, <2>2, EnderSteps
    <2>3. ASSUME NEW S \in {Since, Since \cup ({cp} \cap Published)}, List(gmail_ListMessages(S), 0)
          PROVE  FeedInv'
        <3>1. S \in SUBSET Published /\ Since \subseteq S
            BY <1>1
        <3>2. Through(Newest(Recent(S)), Recent(S))
            BY <3>1, ServiceFinite, PartsListed, OldestThrough
        <3>3. Fits(Newest(Recent(S)), 0)
            BY <1>1, <2>1, <3>1, <3>2, RecentFits
        <3> QED BY <2>3, <3>3, ListFits DEF gmail_ListMessages
    <2>4. Steps \/ \E S \in {Since, Since \cup ({cp} \cap Published)} : List(gmail_ListMessages(S), 0)
        BY <1>4, <2>1 DEF gmail_Poll
    <2> QED BY <2>2, <2>3, <2>4
<1>5. CASE hackernews_pollFeed
    <2>1. conn \notin SavesEach /\ Slides /\ ~InOrder /\ conn \in ForgetsAtPollCap /\ conn \in PassesUnread
        BY <1>5 DEF hackernews_pollFeed, SavesEach, Slides, InOrder, LosesCutOff, ForgetsAtPollCap, PassesUnread
    <2>2. CASE Steps
        BY <2>1, <2>2, EnderSteps
    <2>3. ASSUME NEW q \in SetToSeqs(Recent(Published)), List(Newer(q), cp)
          PROVE  FeedInv'
        <3>1. Through(q, Recent(Published))
            BY <1>1, AnyOrderThrough
        <3>2. Fits(Newer(q), cp)
            BY <1>1, <2>1, <3>1, NewerFits
        <3> QED BY <2>3, <3>2, ListFits
    <2>4. Steps \/ \E q \in SetToSeqs(Recent(Published)) : List(Newer(q), cp)
        BY <1>5, <2>1 DEF hackernews_pollFeed, hackernews_fetchStoryIDs
    <2> QED BY <2>2, <2>3, <2>4
<1>6. CASE notion_pollDatabase
    <2>1. conn \notin SavesEach /\ Slides /\ ~InOrder
        BY <1>6 DEF notion_pollDatabase, SavesEach, Slides, InOrder, LosesCutOff
    <2>2. CASE Steps
        BY <2>1, <2>2, EnderSteps
    <2>3. ASSUME NEW q \in SetToSeqs(RS), List(Newer(q), 0)
          PROVE  FeedInv'
        <3>1. Through(q, RS)
            BY <1>1, AnyOrderThrough
        <3>2. Fits(Newer(q), 0)
            BY <1>1, <1>2, <2>1, <3>1, NewerFits
        <3> QED BY <2>3, <3>2, ListFits
    <2>4. Steps \/ \E q \in SetToSeqs(RS) : List(Newer(q), 0)
        BY <1>6, <2>1 DEF notion_pollDatabase
    <2> QED BY <2>2, <2>3, <2>4
<1>7. CASE x_pollMentions
    <2>1. conn \notin SavesEach /\ Slides /\ ~InOrder
        BY <1>7 DEF x_pollMentions, SavesEach, Slides, InOrder, LosesCutOff
    <2>2. Steps \/ (Newest(RS) # <<>> /\ List(Oldest(RS), Head(Newest(RS))))
        BY <1>1, <1>7, OldestThrough DEF x_pollMentions, x_fetchAPI
    <2>3. Through(Oldest(RS), RS) /\ Through(Newest(RS), RS)
        BY <1>1, OldestThrough
    <2>4. ASSUME Newest(RS) # <<>>
          PROVE  Fits(Oldest(RS), Head(Newest(RS)))
        <3>1. Head(Newest(RS)) \in RS
            <4> HIDE DEF RS
            <4> QED BY <2>3, <2>4 DEF Through
        <3>2. Head(Newest(RS)) \in 0..posted /\ cp <= Head(Newest(RS))
            <4>1. RS \subseteq Since
                BY DEF Recent
            <4>2. \A e \in Since : e \in 0..posted /\ cp <= e
                BY <1>1, PartsListed DEF Since
            <4> QED BY <3>1, <4>1, <4>2
        <3> QED BY <1>1, <2>1, <2>3, <3>2, RecentFits
    <2> QED BY <2>1, <2>2, <2>4, ListFits, EnderSteps
<1>8. CASE gdrive_Poll
    <2>1. conn = "gdrive" /\ conn \notin SavesEach
        BY <1>8 DEF gdrive_Poll, SavesEach
    <2>2. List(Oldest(Since), posted) \/ (cp = 0 /\ Baseline) \/ Steps
        BY <1>8 DEF gdrive_Poll, gdrive_fetchChanges
    <2>3. Fits(Oldest(Since), posted)
        BY <2>1, SinceFits
    <2> QED BY <2>1, <2>2, <2>3, BaselineKeeps, ListFits, EnderSteps
<1>9. CASE onedrive_Poll
    <2>1. conn = "onedrive" /\ conn \notin SavesEach
        BY <1>9 DEF onedrive_Poll, SavesEach
    <2>2. List(Oldest(Since), posted) \/ Steps
        BY <1>9 DEF onedrive_Poll, onedrive_fetchDelta
    <2>3. Fits(Oldest(Since), posted)
        BY <2>1, SinceFits
    <2> QED BY <2>1, <2>2, <2>3, ListFits, EnderSteps
<1> QED BY <1>3, <1>4, <1>5, <1>6, <1>7, <1>8, <1>9

LEMMA FeedStays ==
    ASSUME FeedInv, UNCHANGED feedVars
    PROVE  FeedInv'
<1>1. UNCHANGED <<conn, pollCap, sourceCap, rejected, posted, gone, cp, staged, pc, todo, high, count,
                  faults, passed, left, unread, missed>>
    BY DEF feedVars
<1>2. FeedTypes'
    BY <1>1 DEF FeedInv, FeedTypes
<1>3. GoneTold'
    BY <1>1, StaysExcused DEF setup, service
<1>4. Bookmarks'
    BY <1>1 DEF FeedInv, Bookmarks, Excused
<1>5. Upwards' /\ Fresh'
    BY <1>1 DEF FeedInv, Upwards, InOrder, Fresh, Quiet
<1> QED BY <1>2, <1>3, <1>4, <1>5 DEF FeedInv

LEMMA FeedMeans ==
    ASSUME FeedInv
    PROVE  FeedSafe
<1>1. FeedTypeOK
    <2>1. Range(todo) \subseteq 1..posted
        <3> DEFINE T == 1..posted
        <3>1. todo \in Seq(T)
            BY DEF FeedInv, FeedTypes
        <3> HIDE DEF T
        <3>2. Range(todo) \subseteq T
            BY <3>1, SeqRange
        <3> QED BY <3>2 DEF T
    <2> QED BY <2>1 DEF FeedTypeOK, FeedInv, FeedTypes
<1>2. NothingPassedOver
    BY DEF FeedInv, Bookmarks, Excused, NothingPassedOver
<1>3. OnceWhenQuiet
    BY DEF FeedInv, Fresh, Quiet, OnceWhenQuiet
<1> QED BY <1>1, <1>2, <1>3 DEF FeedSafe

\* Whatever the caps, the failures, the deletions and the crashes, no
\* connector's bookmark passes an entry that it is not known to lose, nothing
\* is staged twice while nothing goes wrong, and no poll exceeds its caps
\* (pollFeed of each connector, FetchCounter).
THEOREM FeedIsSafe == FeedSpec => []FeedSafe
<1>1. FeedInv /\ [FeedNext]_feedVars => FeedInv'
    BY SaverPolls, EnderPolls, LoserPolls, PublishKeeps, DeleteKeeps, CrashKeeps, FeedStays DEF FeedNext, Poll
<1>2. FeedInit => FeedInv
    BY FeedStart
<1>3. FeedInv => FeedSafe
    BY FeedMeans
<1> QED BY <1>1, <1>2, <1>3, PTL DEF FeedSpec

=============================================================================
