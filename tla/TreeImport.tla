----------------------------- MODULE TreeImport -----------------------------
(***************************************************************************)
(* The importers of unpacked archives, importers/apple and walhelm: Import *)
(* checks the archive's receipt, stages one item per file of its tree over *)
(* a small pool (stageAll) and, for Apple's media-services bucket, then    *)
(* unpacks the zip files among them and stages one more item per table of  *)
(* purchases.  Neither keeps a manifest: the next run starts over.         *)
(***************************************************************************)
EXTENDS Integers, FiniteSets

CONSTANTS
    Files,          \* the number of files in the tree
    Candidates,     \* the number of CSV files among them and in their zip files
    Purchases,      \* the candidates that are tables of purchases
    Pool,           \* --concurrency
    MaxTreeFaults,  \* refused receipts, failures and stops
    MaxRuns         \* runs of one archive

ASSUME TreeAssumption ==
    Files \in Nat \ {0} /\ Candidates \in Nat /\ Purchases \subseteq 1..Candidates /\ Pool \in Nat \ {0} /\ MaxTreeFaults \in Nat /\ MaxRuns \in Nat

VARIABLES
    importer,       \* "walhelm" or "apple"
    receipt,        \* whose delivery the archive's receipt names
    unrouted,       \* the files no destination rule matches
    leg,            \* "idle", "pool", "collect", "purchases" or "over"
    next,           \* the producer's index
    taken, running, \* jobs a worker has received; jobs in the stage function
    slot,           \* results: [file -> "none", "ok" or "err"]
    purchase,       \* the candidate stageMediaServicesPurchases has reached
    tmpDirs,        \* the directory the zip files are unpacked into exists
    halted,         \* the context is cancelled
    verdict,        \* what Import returned
    delivered,      \* what this run has staged: files, and candidate p as Files + p
    treeRuns, treeFaults

archiveVars == <<importer, receipt, unrouted>>
treeVars == <<archiveVars, leg, next, taken, running, slot, purchase, tmpDirs, halted, verdict, delivered, treeRuns, treeFaults>>
TreeFault == treeFaults < MaxTreeFaults /\ treeFaults' = treeFaults + 1
AllFiles == 1..Files

\* The receipt is checked before anything is read: the media type and, for
\* Apple, the matcher's namespace, for walhelm a subject.
apple_Claims == importer = "apple" /\ receipt \in {"apple", "media-services"}
walhelm_Claims == importer = "walhelm" /\ receipt = "walhelm"

\* Import: an archive of another kind, without a receipt or without a tree is
\* refused; otherwise the tree is enumerated and the pool started.
Import ==
    /\ leg = "idle" /\ treeRuns < MaxRuns /\ treeRuns' = treeRuns + 1
    /\ next' = 1 /\ taken' = {} /\ running' = {} /\ delivered' = {}
    /\ slot' = [f \in AllFiles |-> "none"] /\ purchase' = 1
    /\ \/ /\ apple_Claims \/ walhelm_Claims
          /\ leg' = "pool" /\ verdict' = "none" /\ treeFaults' = treeFaults
       \/ /\ IF apple_Claims \/ walhelm_Claims THEN TreeFault ELSE treeFaults' = treeFaults
          /\ leg' = "over" /\ verdict' = "err"
    /\ UNCHANGED <<archiveVars, tmpDirs, halted>>

\* stageAll's producer hands a job to a waiting worker, or meets the cancelled
\* context and fills the remaining slots itself.
stageAll ==
    /\ leg = "pool" /\ next <= Files
    /\ \/ /\ Cardinality(taken \cup running) < Pool
          /\ taken' = taken \cup {next} /\ next' = next + 1 /\ slot' = slot
       \/ /\ halted /\ taken' = taken /\ next' = Files + 1
          /\ slot' = [f \in AllFiles |-> IF f >= next THEN "err" ELSE slot[f]]
    /\ UNCHANGED <<archiveVars, leg, running, purchase, tmpDirs, halted, verdict, delivered, treeRuns, treeFaults>>

\* A worker looks at the context before it calls the stage function.
Worker(f) ==
    /\ f \in taken /\ taken' = taken \ {f}
    /\ IF halted THEN slot' = [slot EXCEPT ![f] = "err"] /\ running' = running
                 ELSE running' = running \cup {f} /\ slot' = slot
    /\ UNCHANGED <<archiveVars, leg, next, purchase, tmpDirs, halted, verdict, delivered, treeRuns, treeFaults>>

\* BuildItemOptions: a file without a destination rule is an error.
apple_BuildItemOptions(f) == f \notin unrouted
walhelm_BuildItemOptions(f) == f \notin unrouted
Routed(f) == IF importer = "apple" THEN apple_BuildItemOptions(f) ELSE walhelm_BuildItemOptions(f)

\* The stage function: options, the read, NewItem, WriteContent and Commit.
StageFile(f) ==
    /\ f \in running /\ running' = running \ {f}
    /\ \/ /\ Routed(f)
          /\ slot' = [slot EXCEPT ![f] = "ok"] /\ delivered' = delivered \cup {f} /\ treeFaults' = treeFaults
       \/ /\ IF Routed(f) THEN TreeFault ELSE treeFaults' = treeFaults
          /\ slot' = [slot EXCEPT ![f] = "err"] /\ delivered' = delivered
    /\ UNCHANGED <<archiveVars, leg, next, taken, purchase, tmpDirs, halted, verdict, treeRuns>>

\* Mutant: the purchase files follow after an error too.
Tally_anyhow ==
    /\ leg = "pool" /\ next > Files /\ taken = {} /\ running = {}
    /\ leg' = IF receipt = "media-services" THEN "collect" ELSE "over"
    /\ verdict' = IF \E f \in AllFiles : slot[f] = "err" THEN "err"
                  ELSE IF leg' = "over" THEN "ok" ELSE verdict
    /\ UNCHANGED <<archiveVars, next, taken, running, slot, purchase, tmpDirs, halted, delivered, treeRuns, treeFaults>>

\* wg.Wait returns: the first error is Import's, otherwise the purchase files
\* of a media-services archive follow.
Tally ==
    /\ leg = "pool" /\ next > Files /\ taken = {} /\ running = {}
    /\ \E bad \in {\E f \in AllFiles : slot[f] = "err"} :
       /\ leg' = IF ~bad /\ receipt = "media-services" THEN "collect" ELSE "over"
       /\ verdict' = IF bad THEN "err" ELSE IF leg' = "over" THEN "ok" ELSE verdict
    /\ UNCHANGED <<archiveVars, next, taken, running, slot, purchase, tmpDirs, halted, delivered, treeRuns, treeFaults>>

\* collectMediaServicesCSVs: every zip file is unpacked into a directory of its
\* own, which goes when the pass ends; a zip file that cannot be unpacked ends it.
UnpackZip ==
    /\ leg = "collect" /\ tmpDirs' = TRUE
    /\ leg' = "purchases" /\ UNCHANGED <<verdict, treeFaults>>
collectMediaServicesCSVs ==
    /\ \/ UnpackZip
       \/ /\ leg = "collect" /\ TreeFault /\ leg' = "over" /\ verdict' = "err" /\ tmpDirs' = FALSE
    /\ UNCHANGED <<archiveVars, next, taken, running, slot, purchase, halted, delivered, treeRuns>>

\* isPurchaseFile, and the rows that readPurchases gives a title.
isPurchaseFile(p) == p \in Purchases

\* One candidate after the other, in the order of their names; the first
\* failure ends the pass.  The context is not looked at.
stageMediaServicesPurchases ==
    /\ leg = "purchases"
    /\ \/ /\ purchase <= Candidates /\ purchase' = purchase + 1
          /\ delivered' = IF isPurchaseFile(purchase) THEN delivered \cup {Files + purchase} ELSE delivered
          /\ UNCHANGED <<leg, verdict, tmpDirs, treeFaults>>
       \/ /\ purchase <= Candidates /\ isPurchaseFile(purchase) /\ TreeFault
          /\ leg' = "over" /\ verdict' = "err" /\ tmpDirs' = FALSE
          /\ UNCHANGED <<purchase, delivered>>
       \/ /\ purchase > Candidates /\ leg' = "over" /\ verdict' = "ok" /\ tmpDirs' = FALSE
          /\ UNCHANGED <<purchase, delivered, treeFaults>>
    /\ UNCHANGED <<archiveVars, next, taken, running, slot, halted, treeRuns>>

\* The archive is imported again: without a manifest Decide says StartFresh.
Again ==
    /\ leg = "over" /\ verdict # "ok" /\ leg' = "idle" /\ halted' = FALSE
    /\ UNCHANGED <<archiveVars, next, taken, running, slot, purchase, tmpDirs, verdict, delivered, treeRuns, treeFaults>>

Halt ==
    /\ leg \in {"pool", "collect", "purchases"} /\ ~halted /\ TreeFault /\ halted' = TRUE
    /\ UNCHANGED <<archiveVars, leg, next, taken, running, slot, purchase, tmpDirs, verdict, delivered, treeRuns>>

TreeInit ==
    /\ importer \in {"walhelm", "apple"}
    /\ receipt \in {"walhelm", "apple", "media-services", "mail"} /\ unrouted \in {{}, {2}}
    /\ leg = "idle" /\ next = 1 /\ taken = {} /\ running = {}
    /\ slot = [f \in AllFiles |-> "none"] /\ purchase = 1 /\ tmpDirs = FALSE /\ halted = FALSE
    /\ verdict = "none" /\ delivered = {} /\ treeRuns = 0 /\ treeFaults = 0

TreeWork ==
    \/ stageAll \/ Tally \/ collectMediaServicesCSVs \/ stageMediaServicesPurchases
    \/ \E f \in AllFiles : Worker(f) \/ StageFile(f)
TreeNext == Import \/ TreeWork \/ Again \/ Halt
TreeSpec == TreeInit /\ [][TreeNext]_treeVars /\ WF_treeVars(TreeWork)

-----------------------------------------------------------------------------
\* At most Pool files are in the workers' hands, and none twice.
PoolBounded ==
    /\ taken \cap running = {} /\ Cardinality(taken \cup running) <= Pool
    /\ slot \in [AllFiles -> {"none", "ok", "err"}] /\ next \in 1..(Files + 1)

\* The results Import reads have no holes, and a file is told as staged exactly
\* when it was (the comment in stageAll on the producer's early end).
ResultsTold ==
    leg \in {"collect", "purchases", "over"} /\ delivered # {} =>
        \A f \in AllFiles : slot[f] # "none" /\ (slot[f] = "ok" <=> f \in delivered)

\* Import succeeds only when every file, and every table of purchases of a
\* media-services archive, was staged, and only for an archive it claims.
ImportedWhole ==
    leg = "over" /\ verdict = "ok" =>
        /\ apple_Claims \/ walhelm_Claims
        /\ AllFiles \subseteq delivered
        /\ receipt = "media-services" => \A p \in Purchases : Files + p \in delivered

\* The purchase items never hide a partial failure: they follow a tree that was
\* staged whole (the comment in Import before the normalisation).
PurchasesLast == (\E p \in Purchases : Files + p \in delivered) => AllFiles \subseteq delivered

\* An import tells the truth about what it staged and leaves no unpacked copy
\* behind, whichever file, worker or stop ends it: the results have no holes,
\* success means the whole tree and all its tables of purchases, and the
\* purchases only follow a tree that was staged whole (Import, stageAll,
\* stageMediaServicesPurchases).
TreeSafe ==
    /\ PoolBounded /\ ResultsTold /\ ImportedWhole /\ PurchasesLast
    /\ leg = "over" => ~tmpDirs
=============================================================================
