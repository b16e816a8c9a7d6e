----------------------------- MODULE MCSources -----------------------------
(* The ways into the system besides the portals, on small instances: the     *)
(* polled feeds, the pushed events and webhooks, the mbox importer and the   *)
(* importers of unpacked archives.  They share no state; a behaviour is of   *)
(* the one that part names, and the others keep their initial state.         *)
EXTENDS Feeds, Push, Mbox, TreeImport

MCImport(mo, id, ex, he, un, wo) ==
    [mode |-> mo, ids |-> id, excluded |-> ex, headerless |-> he, unrouted |-> un, workers |-> wo]
MCImports == {MCImport("watch", <<1, 1, 2>>, {}, TRUE, {}, 1),
              MCImport("oneshot", <<0, 1>>, {}, FALSE, {}, 2),
              MCImport("watch", <<1, 2, 3, 4>>, {}, TRUE, {2}, 1),
              MCImport("oneshot", <<1, 2, 1>>, {2}, TRUE, {}, 1)}

VARIABLE part
sourceVars == <<feedVars, pushVars, mboxVars, treeVars, part>>

\* The parts that are not followed have one initial state each.
MCInit ==
    /\ FeedInit /\ PushInit /\ MboxInit /\ TreeInit
    /\ part \in {"feeds", "push", "mbox", "tree"}
    /\ part # "feeds" => conn = "rss" /\ pollCap = 0 /\ sourceCap = 0 /\ rejected = 0
    /\ rejected # 0 => pollCap = 0 /\ sourceCap = 0
    /\ part # "push" => hook = "x"
    /\ part # "mbox" => import = MCImport("oneshot", <<0, 1>>, {}, FALSE, {}, 2)
    /\ part # "tree" => importer = "apple" /\ receipt = "apple" /\ unrouted = {}

OfFeeds(A) == part = "feeds" /\ A /\ UNCHANGED <<pushVars, mboxVars, treeVars, part>>
OfPush(A)  == part = "push" /\ A /\ UNCHANGED <<feedVars, mboxVars, treeVars, part>>
OfMbox(A)  == part = "mbox" /\ A /\ UNCHANGED <<feedVars, pushVars, treeVars, part>>
OfTree(A)  == part = "tree" /\ A /\ UNCHANGED <<feedVars, pushVars, mboxVars, part>>

MCNext == OfFeeds(FeedNext) \/ OfPush(PushNext) \/ OfMbox(MboxNext) \/ OfTree(TreeNext)

\* The fairness of FeedSpec, PushSpec, MboxSpec and TreeSpec.  part never
\* changes, so that the actions of different parts can share a conjunct.
MCSpec ==
    /\ MCInit /\ [][MCNext]_sourceVars
    /\ WF_sourceVars(OfFeeds(Poll) \/ OfTree(TreeWork) \/ OfPush(StageClosed) \/ OfMbox(Start("none")))
    /\ WF_sourceVars(OfPush(StageSwept) \/ OfMbox(Producer))
    /\ WF_sourceVars(OfPush(Watch /\ ~watching) \/ OfMbox(workerLoop))
    /\ WF_sourceVars(OfPush(Hook) \/ OfMbox(Ingested))
    /\ WF_sourceVars(OfPush(flushStale) \/ OfMbox(Collected))
    /\ WF_sourceVars(OfPush(Age(1)) \/ OfMbox(Finish \/ releaseLock \/ moveToDone))
    /\ WF_sourceVars(OfPush(Age(2)))

\* What a part has taken up, by number: a published entry of the feed; an
\* event the Protect table holds open; a run of the mbox importer, and its
\* archive; an import of a tree.
TakenUp(k) ==
    \/ part = "feeds" /\ k <= posted
    \/ part = "push" /\ k \in CameraEvents /\ open[k] # {}
    \/ part = "mbox" /\ ((k = 1 /\ phase # "down") \/ k = 2)
    \/ part = "tree" /\ k = 1 /\ leg = "pool"
DoneWith(k) ==
    \/ part = "feeds" /\ EntryDone(k)
    \/ part = "push" /\ k \in CameraEvents /\ open[k] = {}
    \/ part = "mbox" /\ (IF k = 1 THEN phase = "down" ELSE ArchiveDone)
    \/ part = "tree" /\ leg = "over"

\* Nothing that a connector or an importer has taken up waits for ever: every
\* entry of a feed is staged, no pushed event is held, every import ends,
\* stopped or not, and every archive is finished through any interruptions
\* (the poll loops, flushStale, the channels of producer, workers and
\* collector).  EntryDone and ArchiveDone name what may prevent it.
NothingWaitsForever == \A k \in Entries : (TakenUp(k) ~> DoneWith(k))
=============================================================================
