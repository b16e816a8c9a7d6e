------------------------------- MODULE MCLive -------------------------------
(* The liveness of the way in, on small instances: the ingest endpoint and   *)
(* the uploads (MCIngest), and the pipeline that takes up what is staged     *)
(* (ScanPipeline), in two scenarios: in "run" every step succeeds, in "stop" *)
(* SIGTERM comes and deliveries may fail; each has items of its own.  They   *)
(* share no state; a behaviour is of the one that part names, and the others *)
(* keep their initial state.                                                 *)
EXTENDS MCIngest, ScanPipeline

\* One agent for item 1, another one for the others.
TwoAgents == [i \in PipelineItems |-> IF i <= 1 THEN 1 ELSE 2]

\* The items that arrive in each scenario.
Arriving == [run |-> {1, 2, 3}, stop |-> {1, 4}]
Scenarios == DOMAIN Arriving

liveVars == <<ingestVars, pipelineVars>>

OfPipeline(A) ==
  /\ part \in Scenarios /\ A
  /\ part = "run" => phase' = "run" /\ deliveryFaults' = 0
  /\ \A i \in PipelineItems \ Arriving[part] : place'[i] = "new"
  /\ UNCHANGED ingestVars

\* A step of whichever part the behaviour is of.
Either(ofIntake, ofArchives, ofPipeline) ==
  \/ OfIntake(ofIntake) /\ UNCHANGED pipelineVars
  \/ OfArchives(ofArchives) /\ UNCHANGED pipelineVars
  \/ OfPipeline(ofPipeline)

LiveInit ==
  /\ IntakeInit /\ Init /\ PipelineInit
  /\ part \in {"intake", "archives"} \cup Scenarios

\* The fairness of IntakeFairSpec, of FairSpec and of PipelineFairness; part
\* never changes, so that one conjunct is fair to one action of each part.
LiveSpec ==
  /\ LiveInit
  /\ [][Either(IntakeNext, Next, PipelineNext)]_liveVars
  /\ \A c \in Conns, h \in Handlers, u \in Ids, w \in Workers :
       /\ WF_liveVars(Either(Poll(c), HandlerStep(h), Take(w)))
       /\ WF_liveVars(Either(NoAnswer(c), TmpAges(u), Scan(w)))
       /\ WF_liveVars(Either(Save(c), FinAges(u), Send(w)))
       /\ WF_liveVars(Either(FALSE, ReapPick("tmp", u), Feed))
       /\ WF_liveVars(Either(FALSE, ReapPick("fin", u), RescanTick))
       /\ SF_liveVars(Either(Post(c), FALSE, FeedSend))
       /\ SF_liveVars(Either(FALSE, FALSE, WorkerExit(w)))
  /\ WF_liveVars(Either(\E x \in staged : Dispatch(x), Reap, \E n \in DOMAIN pending : FlushOne(n)))
  /\ \A s \in Slots : WF_liveVars(Either(Handling(s), FALSE, Clean))
  /\ \A i \in PipelineItems : WF_liveVars(Either(FALSE, FALSE, DispatchIfNew(i)))
  /\ WF_liveVars(Either(FALSE, FALSE, Exit))
  /\ SF_liveVars(Either(FALSE, FALSE, RescanSend)) /\ SF_liveVars(Either(FALSE, FALSE, Consume))
  /\ SF_liveVars(Either(FALSE, FALSE, FlushTick)) /\ SF_liveVars(Either(FALSE, FALSE, FinalFlush))

\* Every entry the endpoint does not reject becomes an item (AllAccepted), in
\* the behaviours of the ingest endpoint: retries, polls cut short and up to
\* MaxIntakeFaults failures only delay it.
EntriesGetIn == part = "intake" => AllAccepted

\* The pipeline goes on while it runs, and comes to its end when it is told
\* to: an item that arrives leaves staging and failed/ (Settled), and after
\* SIGTERM the process stops, whatever is queued, blocked or pending
\* (ShutdownEnds).
PipelineMoves ==
  /\ part = "run"  => Settled
  /\ part = "stop" => ShutdownEnds
=============================================================================
