---------------------------- MODULE ScanPipeline ----------------------------
(***************************************************************************)
(* How items get to deliverResult: the staging watcher, its feeder, the    *)
(* worker pool, the result consumer with its router, the rescan of failed/ *)
(* and the shutdown of main.go, as the goroutines and channels they are.   *)
(*                                                                         *)
(* A delivery is one step here (module Delivery has its file operations):  *)
(* it succeeds and the item leaves its directory, or it returns an error   *)
(* and the item stays, or it outlasts delivery_timeout and goes on in an   *)
(* orphaned goroutine.  An item is the name of a directory, and names are  *)
(* timestamps, so items are ordered as numbers.                            *)
(***************************************************************************)
EXTENDS Naturals, Sequences, FiniteSets

CONSTANTS PipelineItems, \* item names, positive numbers
          Ordered,     \* items whose metadata says ordered
          Dest,        \* Dest[i]: destination agent
          Invalid,     \* items whose metadata does not validate
          Flaky,       \* items whose scan may return an error
          Slow,        \* items whose scan may exceed the scan timeout
          Workers,     \* scan workers
          QueueCap,    \* capacity of the dispatch queue (dispatchBuffer)
          ChanCap,     \* capacity of the pool's input and output (2 * workers)
          MaxDeliveryFaults, \* bound: deliveries that fail or time out
          MaxCrashes,  \* bound: crashes
          MaxCopies,   \* bound: requests for one item of failed/ under way
          MayStop      \* whether SIGTERM may arrive

EmptyHand == 0

ASSUME PipelineAssumption ==
  /\ PipelineItems \subseteq Nat \ {EmptyHand}
  /\ Ordered \subseteq PipelineItems /\ Invalid \subseteq PipelineItems
  /\ Flaky \subseteq PipelineItems /\ Slow \subseteq PipelineItems
  /\ DOMAIN Dest = PipelineItems
  /\ QueueCap \in Nat \ {0} /\ ChanCap \in Nat \ {0}
  /\ MaxDeliveryFaults \in Nat /\ MaxCrashes \in Nat /\ MaxCopies \in Nat
  /\ MayStop \in BOOLEAN

\* The pool starts scan_workers goroutines.
ASSUME PipelineFinite == IsFiniteSet(Workers)

VARIABLES place,       \* place[i]: where the directory of i is
          delivered,   \* history: the responses whose delivery succeeded
          announced,   \* items with a .pending.json
          seen,        \* Watcher.seen
          dispatch,    \* Watcher.dispatch
          feeder,      \* the item whose send to the pool blocks the feeder
          rescan,      \* entries of failed/ the rescan has still to send
          input,       \* WorkerPool.input
          wpc, job,    \* wpc[w], job[w]: a worker's step and its item
          output,      \* WorkerPool.output
          consumer,    \* "select", "flush" or "done"
          pending,     \* Router.pending, in order of arrival
          todo, cur,   \* what Flush has still to deliver, and to whom now
          orphans,     \* deliveries that outlasted their timeout
          alive,       \* goroutines that have not seen the cancelled context
          phase,       \* of main: running, then the steps of the shutdown
          deliveryFaults, \* deliveries that failed or timed out so far
          erred,       \* items whose delivery did, since the last start
          crashes

places    == <<place, delivered, announced>>
watching  == <<seen, dispatch, feeder>>
pool      == <<input, wpc, job, output>>
routing   == <<consumer, pending, todo, cur>>
mishaps   == <<deliveryFaults, erred>>
accidents == <<mishaps, crashes>>
pipelineVars ==
  <<places, watching, rescan, pool, routing, orphans, alive, phase, accidents>>

Origins == {"staging", "failed"}
Reqs    == [item : PipelineItems, from : Origins]
Resps   == [item : PipelineItems, from : Origins,
            kind : {"ok", "err", "timeout"}]
Loops   == {"watcher", "feeder", "rescan"}
NoJob   == <<>>
NoDest  == 0

PipelineTypeOK ==
  /\ place \in [PipelineItems -> {"new", "staging", "failed", "gone"}]
  /\ delivered \subseteq Resps
  /\ announced \subseteq Ordered /\ seen \subseteq PipelineItems
  /\ dispatch \in Seq(PipelineItems) /\ Len(dispatch) <= QueueCap
  /\ feeder \in PipelineItems \cup {EmptyHand}
  /\ rescan \subseteq PipelineItems
  /\ input \in Seq(Reqs) /\ Len(input) <= ChanCap
  /\ wpc \in [Workers -> {"idle", "scan", "send", "exit"}]
  /\ job \in [Workers -> Reqs \cup Resps \cup {NoJob}]
  /\ \A w \in Workers : /\ wpc[w] = "scan" => job[w] \in Reqs
                        /\ wpc[w] = "send" => job[w] \in Resps
                        /\ wpc[w] \in {"idle", "exit"} => job[w] = NoJob
  /\ output \in Seq(Resps) /\ Len(output) <= ChanCap
  /\ consumer \in {"select", "flush", "done"}
  /\ pending \in Seq(Resps)
  /\ todo \subseteq DOMAIN pending
  /\ orphans \subseteq Resps
  /\ alive \subseteq Loops
  /\ phase \in {"run", "cancel", "final", "exit", "stopped"}
  /\ deliveryFaults \in 0..MaxDeliveryFaults /\ erred \subseteq PipelineItems
  /\ crashes \in 0..MaxCrashes

\* What a fresh process holds in memory.
NewProcess ==
  /\ seen = {} /\ dispatch = <<>> /\ feeder = EmptyHand /\ rescan = {}
  /\ input = <<>> /\ output = <<>>
  /\ wpc = [w \in Workers |-> "idle"] /\ job = [w \in Workers |-> NoJob]
  /\ consumer = "select" /\ pending = <<>> /\ todo = {} /\ cur = NoDest
  /\ orphans = {} /\ alive = Loops /\ phase = "run"

PipelineInit ==
  /\ place = [i \in PipelineItems |-> "new"]
  /\ delivered = {} /\ announced = {}
  /\ NewProcess
  /\ deliveryFaults = 0 /\ erred = {} /\ crashes = 0

-----------------------------------------------------------------------------
(* Copies of an item in the pipeline.                                       *)

Count(seq, i) == Cardinality({n \in DOMAIN seq : seq[n].item = i})
Queued(i)     == Cardinality({n \in DOMAIN dispatch : dispatch[n] = i})
OnWorkers(i)  == Cardinality({w \in Workers : job[w] # NoJob /\ job[w].item = i})
InPool(i)     == Count(input, i) + OnWorkers(i) + Count(output, i)
Copies(i)     == Queued(i) + (IF feeder = i THEN 1 ELSE 0) + InPool(i)
                   + Count(pending, i)

\* An I/O failure in the delivery or the rejection of i.
DeliveryFault(i) ==
  /\ deliveryFaults < MaxDeliveryFaults
  /\ deliveryFaults' = deliveryFaults + 1
  /\ erred' = erred \cup {i}

-----------------------------------------------------------------------------
(* Discovery: Watcher.Run, runPolling, pollOnce, dispatchIfNew.             *)

Arrives(i) ==
  /\ place[i] = "new"
  /\ place' = [place EXCEPT ![i] = "staging"]
  /\ UNCHANGED <<delivered, announced, watching, rescan, pool, routing, orphans,
                 alive, phase, accidents>>

\* Mutant: the item is marked seen although the queue is full.
MarkAnyway(i) ==
  /\ dispatch' = IF Len(dispatch) < QueueCap THEN Append(dispatch, i) ELSE dispatch
  /\ seen' = seen \cup {i}

\* The non-blocking enqueue: an item that does not fit stays unseen.
Mark(i) ==
  /\ Len(dispatch) < QueueCap
  /\ dispatch' = Append(dispatch, i)
  /\ seen' = seen \cup {i}

New(i) == i \notin seen

\* dispatchIfNew, from an fsnotify event or from a poll.
DispatchIfNew(i) ==
  /\ "watcher" \in alive
  /\ place[i] = "staging" /\ New(i)
  /\ Mark(i)
  /\ UNCHANGED <<places, feeder, rescan, pool, routing, orphans, alive, phase,
                 accidents>>

\* pruneSeen, at the start of every poll.
PruneSeen ==
  /\ "watcher" \in alive
  /\ \E i \in seen : place[i] # "staging"
  /\ seen' = {i \in seen : place[i] = "staging"}
  /\ UNCHANGED <<places, dispatch, feeder, rescan, pool, routing, orphans, alive,
                 phase, accidents>>

\* The feeder takes a path and runs the handler up to its send: read the
\* item, reject it when it does not validate, write the placeholder.  An item
\* that is gone is "rejected" without effect.
Feed ==
  /\ "feeder" \in alive /\ feeder = EmptyHand /\ dispatch # <<>>
  /\ dispatch' = Tail(dispatch)
  /\ LET i == Head(dispatch) IN
       \/ /\ place[i] # "staging"
          /\ UNCHANGED <<places, feeder, mishaps>>
       \/ /\ place[i] = "staging" /\ i \in Invalid
          /\ \/ place' = [place EXCEPT ![i] = "gone"] /\ UNCHANGED mishaps
             \/ DeliveryFault(i) /\ UNCHANGED place
          /\ UNCHANGED <<delivered, announced, feeder>>
       \/ /\ place[i] = "staging" /\ i \notin Invalid
          /\ feeder' = i
          /\ announced' = announced \cup ({i} \cap Ordered)
          /\ UNCHANGED <<place, delivered, mishaps>>
  /\ UNCHANGED <<seen, rescan, pool, routing, orphans, alive, phase, crashes>>

\* The handler's send to the pool.  It does not look at the context.
FeedSend ==
  /\ feeder # EmptyHand /\ Len(input) < ChanCap
  /\ input' = Append(input, [item |-> feeder, from |-> "staging"])
  /\ feeder' = EmptyHand
  /\ UNCHANGED <<places, seen, dispatch, rescan, wpc, job, output, routing,
                 orphans, alive, phase, accidents>>

-----------------------------------------------------------------------------
(* The rescan of failed/.                                                   *)

\* A tick lists failed/, whatever of it is still under way.  Bounded by
\* MaxCopies.
RescanTick ==
  /\ "rescan" \in alive /\ rescan = {}
  /\ \E i \in PipelineItems : place[i] = "failed"
  /\ rescan' = {i \in PipelineItems : place[i] = "failed"}
  /\ \A i \in rescan' : Copies(i) < MaxCopies
  /\ UNCHANGED <<places, watching, pool, routing, orphans, alive, phase, accidents>>

\* Entries are read and sent in order of their names; a send may give up when
\* the context is cancelled.  One that is gone by now is skipped (RouteReject
\* of a missing directory).
RescanSend ==
  /\ "rescan" \in alive
  /\ \E i \in rescan :
       /\ \A j \in rescan : i <= j
       /\ rescan' = rescan \ {i}
       /\ \/ /\ place[i] = "failed" /\ Len(input) < ChanCap
             /\ input' = Append(input, [item |-> i, from |-> "failed"])
          \/ place[i] # "failed" /\ UNCHANGED input
  /\ UNCHANGED <<places, watching, wpc, job, output, routing, orphans, alive,
                 phase, accidents>>

-----------------------------------------------------------------------------
(* The worker pool.                                                         *)

Take(w) ==
  /\ wpc[w] = "idle" /\ input # <<>>
  /\ wpc' = [wpc EXCEPT ![w] = "scan"]
  /\ job' = [job EXCEPT ![w] = Head(input)]
  /\ input' = Tail(input)
  /\ UNCHANGED <<places, watching, rescan, output, routing, orphans, alive, phase,
                 accidents>>

\* What scan may answer: the scanner's result, an error when the content is
\* not there or cannot be read, a timeout when the scan takes too long or the
\* context of the pool is cancelled.
Answers(req) ==
  (IF place[req.item] = req.from THEN {"ok"} ELSE {"err"})
    \cup (IF req.item \in Flaky THEN {"err"} ELSE {})
    \cup (IF req.item \in Slow \/ phase # "run" THEN {"timeout"} ELSE {})

Scan(w) ==
  /\ wpc[w] = "scan"
  /\ \E k \in Answers(job[w]) :
       job' = [job EXCEPT ![w] = [item |-> job[w].item, from |-> job[w].from,
                                  kind |-> k]]
  /\ wpc' = [wpc EXCEPT ![w] = "send"]
  /\ UNCHANGED <<places, watching, rescan, input, output, routing, orphans, alive,
                 phase, accidents>>

Send(w) ==
  /\ wpc[w] = "send" /\ Len(output) < ChanCap
  /\ output' = Append(output, job[w])
  /\ wpc' = [wpc EXCEPT ![w] = "idle"]
  /\ job' = [job EXCEPT ![w] = NoJob]
  /\ UNCHANGED <<places, watching, rescan, input, routing, orphans, alive, phase,
                 accidents>>

\* The cancelled context ends a worker at either of its selects; a response
\* it holds is dropped.
WorkerExit(w) ==
  /\ phase # "run" /\ wpc[w] \in {"idle", "send"}
  /\ wpc' = [wpc EXCEPT ![w] = "exit"]
  /\ job' = [job EXCEPT ![w] = NoJob]
  /\ UNCHANGED <<places, watching, rescan, input, output, routing, orphans, alive,
                 phase, accidents>>

-----------------------------------------------------------------------------
(* Delivery of a response: deliverResult under WithTimeout.                 *)

\* Every route reads or moves the directory the item was read from, except
\* that copyDir recreates a failed/<item> that is gone and then removes it.
Succeeds(r) == place[r.item] = r.from \/ (r.kind = "err" /\ r.from = "failed")

\* A scan error moves an item of staging to failed/; for an item that is
\* already there the copy onto itself ends with its removal.
After(r) == IF r.kind = "err" /\ r.from = "staging" THEN "failed" ELSE "gone"

Finish(r) ==
  /\ Succeeds(r)
  /\ place' = [place EXCEPT ![r.item] = After(r)]
  /\ delivered' = IF place[r.item] = r.from THEN delivered \cup {r} ELSE delivered
  /\ announced' = announced \ {r.item}

\* Only a pass that fails keeps the placeholder.
Abandon(r) ==
  /\ \/ announced' = announced \ {r.item}
     \/ r.kind = "ok" /\ UNCHANGED announced
  /\ UNCHANGED <<place, delivered>>

DeliverOk(r) == Finish(r) /\ UNCHANGED <<mishaps, orphans>>

\* The delivery returns an error: the item is not where it was read, an
\* operation fails, or the timeout expires and the goroutine goes on.
DeliverErr(r) ==
  \/ ~Succeeds(r) /\ Abandon(r) /\ UNCHANGED <<mishaps, orphans>>
  \/ Succeeds(r) /\ DeliveryFault(r.item) /\ Abandon(r) /\ UNCHANGED orphans
  \/ DeliveryFault(r.item) /\ orphans' = orphans \cup {r} /\ UNCHANGED places

\* The orphaned goroutine of a delivery that timed out comes to its end.
OrphanEnds(r) ==
  /\ r \in orphans
  /\ orphans' = orphans \ {r}
  /\ Finish(r) \/ Abandon(r)
  /\ UNCHANGED <<watching, rescan, pool, routing, alive, phase, accidents>>

-----------------------------------------------------------------------------
(* ConsumeResults and the router, on one goroutine.                         *)

\* Route: an error of an unordered item is logged and forgotten.
Consume ==
  /\ consumer = "select" /\ output # <<>>
  /\ output' = Tail(output)
  /\ LET r == Head(output) IN
       \/ /\ r.item \in Ordered
          /\ pending' = Append(pending, r)
          /\ UNCHANGED <<places, mishaps, orphans>>
       \/ /\ r.item \notin Ordered
          /\ DeliverOk(r) \/ DeliverErr(r)
          /\ UNCHANGED pending
  /\ UNCHANGED <<watching, rescan, input, wpc, job, consumer, todo, cur, alive,
                 phase, crashes>>

BeginFlush ==
  /\ consumer' = "flush"
  /\ todo' = DOMAIN pending
  /\ cur' = NoDest

\* Mutant: ordered items are flushed at the shutdown only.
NoTick ==
  /\ consumer = "select" /\ phase # "run" /\ pending # <<>>
  /\ BeginFlush
  /\ UNCHANGED <<places, watching, rescan, pool, pending, orphans, alive, phase,
                 accidents>>

FlushTick ==
  /\ consumer = "select" /\ pending # <<>>
  /\ BeginFlush
  /\ UNCHANGED <<places, watching, rescan, pool, pending, orphans, alive, phase,
                 accidents>>

\* Mutant: a batch is delivered in the order in which its scans ended.
FirstInFlush(n) ==
  /\ n \in todo
  /\ \A m \in todo : n <= m

\* One destination after the other, in the arbitrary order of a Go map, and
\* for each the responses sorted by name.
NextInFlush(n) ==
  LET d(m) == Dest[pending[m].item] IN
  /\ n \in todo
  /\ d(n) = cur \/ \A m \in todo : d(m) # cur
  /\ \A m \in todo : d(m) = d(n) => pending[n].item <= pending[m].item

\* Where the goroutine is after a flush: in its select, or done when main
\* flushed for the last time.
AfterFlush == IF phase = "final" THEN "done" ELSE "select"

\* The first error ends the flush and leaves the whole batch pending.
KeepBatch(r) ==
  /\ DeliverErr(r)
  /\ consumer' = AfterFlush /\ todo' = {} /\ cur' = NoDest
  /\ UNCHANGED pending

FlushOne(n) ==
  /\ consumer = "flush" /\ NextInFlush(n)
  /\ \/ /\ DeliverOk(pending[n])
        /\ todo' = todo \ {n}
        /\ \/ /\ todo' # {}
              /\ cur' = Dest[pending[n].item]
              /\ UNCHANGED <<consumer, pending>>
           \/ /\ todo' = {}
              /\ consumer' = AfterFlush /\ cur' = NoDest /\ pending' = <<>>
     \/ KeepBatch(pending[n])
  /\ UNCHANGED <<watching, rescan, pool, alive, phase, crashes>>

-----------------------------------------------------------------------------
(* Shutdown and restart.                                                    *)

Cancel ==
  /\ MayStop /\ phase = "run"
  /\ phase' = "cancel"
  /\ UNCHANGED <<places, watching, rescan, pool, routing, orphans, alive, accidents>>

\* A loop notices the cancelled context in a select: the rescan also while it
\* waits to send, the feeder not while its handler runs.
LoopExit(g) ==
  /\ phase # "run" /\ g \in alive
  /\ g = "feeder" => feeder = EmptyHand
  /\ alive' = alive \ {g}
  /\ rescan' = IF g = "rescan" THEN {} ELSE rescan
  /\ UNCHANGED <<places, watching, pool, routing, orphans, phase, accidents>>

\* The workers are gone, the output is closed and drained: ConsumeResults
\* returns and main flushes once more.
FinalFlush ==
  /\ phase = "cancel" /\ consumer = "select" /\ output = <<>>
  /\ \A w \in Workers : wpc[w] = "exit"
  /\ phase' = "final"
  /\ \/ pending # <<>> /\ BeginFlush
     \/ pending = <<>> /\ consumer' = "done" /\ UNCHANGED <<todo, cur>>
  /\ UNCHANGED <<places, watching, rescan, pool, pending, orphans, alive, accidents>>

\* CleanStalePending; the listeners are then given their time to shut down.
Clean ==
  /\ phase = "final" /\ consumer = "done"
  /\ phase' = "exit"
  /\ announced' = {}
  /\ UNCHANGED <<place, delivered, watching, rescan, pool, routing, orphans,
                 alive, accidents>>

\* main returns, whatever its goroutines were doing.
Exit ==
  /\ phase = "exit"
  /\ phase' = "stopped"
  /\ alive' = {} /\ feeder' = EmptyHand /\ rescan' = {} /\ orphans' = {}
  /\ UNCHANGED <<places, seen, dispatch, pool, routing, accidents>>

\* The process dies, or has stopped, and is started again.
Restart ==
  /\ crashes < MaxCrashes
  /\ crashes' = crashes + 1
  /\ seen' = {} /\ dispatch' = <<>> /\ feeder' = EmptyHand /\ rescan' = {}
  /\ input' = <<>> /\ output' = <<>>
  /\ wpc' = [w \in Workers |-> "idle"] /\ job' = [w \in Workers |-> NoJob]
  /\ consumer' = "select" /\ pending' = <<>> /\ todo' = {} /\ cur' = NoDest
  /\ orphans' = {} /\ alive' = Loops /\ phase' = "run"
  /\ announced' = {} /\ erred' = {}
  /\ UNCHANGED <<place, delivered, deliveryFaults>>

PipelineNext ==
  \/ \E i \in PipelineItems : Arrives(i) \/ DispatchIfNew(i)
  \/ PruneSeen \/ Feed \/ FeedSend
  \/ RescanTick \/ RescanSend
  \/ \E w \in Workers : Take(w) \/ Scan(w) \/ Send(w) \/ WorkerExit(w)
  \/ Consume \/ FlushTick
  \/ \E n \in DOMAIN pending : FlushOne(n)
  \/ \E r \in orphans : OrphanEnds(r)
  \/ \E g \in alive : LoopExit(g)
  \/ Cancel \/ FinalFlush \/ Clean \/ Exit \/ Restart

\* Every goroutine runs on, and every ticker ticks.  A goroutine that waits to
\* send or to receive is served in turn (the wait queues of a Go channel are
\* FIFO), and a select with several ready cases picks one at random: steps
\* that others can disable again and again are strongly fair.  Arrivals, the
\* signal and restarts need not happen.
PipelineFairness ==
  /\ \A i \in PipelineItems : WF_pipelineVars(DispatchIfNew(i))
  /\ WF_pipelineVars(Feed) /\ SF_pipelineVars(FeedSend)
  /\ WF_pipelineVars(RescanTick) /\ SF_pipelineVars(RescanSend)
  /\ \A w \in Workers : /\ WF_pipelineVars(Take(w)) /\ WF_pipelineVars(Scan(w))
                        /\ WF_pipelineVars(Send(w)) /\ SF_pipelineVars(WorkerExit(w))
  /\ SF_pipelineVars(Consume) /\ SF_pipelineVars(FlushTick)
  /\ WF_pipelineVars(\E n \in DOMAIN pending : FlushOne(n))
  /\ SF_pipelineVars(FinalFlush) /\ WF_pipelineVars(Clean) /\ WF_pipelineVars(Exit)

PipelineSpec     == PipelineInit /\ [][PipelineNext]_pipelineVars
PipelineFairSpec == PipelineSpec /\ PipelineFairness

-----------------------------------------------------------------------------
(* Properties.                                                              *)

\* An item the watcher has marked seen, and will therefore never dispatch
\* again, is somewhere in the pipeline until it leaves staging: a full queue
\* drops nothing (dispatchIfNew).  Only a failed delivery strands it.
Tracked ==
  phase = "run" =>
    \A i \in seen : place[i] = "staging" => Copies(i) > 0 \/ i \in erred

\* An item in staging is never in the pipeline twice: fsnotify events and
\* polls that find it again, a full queue and a restart included.
SoleCopy == \A i \in PipelineItems : place[i] = "staging" => Copies(i) <= 1

\* While the process runs, a .pending.json announces an item that is in the
\* pipeline, also when its delivery failed (Flush keeps the batch).
PlaceholderTracked ==
  phase = "run" => \A i \in announced : Copies(i) > 0

\* What the goroutines agree on: nothing is forgotten, nothing is under way
\* twice and no placeholder is left, with full queues, failed deliveries and
\* restarts.
PipelineSafe == PipelineTypeOK /\ Tracked /\ SoleCopy /\ PlaceholderTracked

\* When Flush delivers an ordered item, every item with a smaller name that
\* the router holds for the same agent has been delivered before it, in this
\* flush or an earlier one: also when a delivery failed or timed out.
HeldOrder ==
  [][\A r \in delivered' \ delivered :
       r.item \in Ordered /\ orphans' = orphans =>
         \A m \in DOMAIN pending :
           (pending[m].item < r.item /\ Dest[pending[m].item] = Dest[r.item])
             => place[pending[m].item] # pending[m].from]_pipelineVars

\* Items that arrive leave staging and failed/, both of which are empty in the
\* end: the pipeline neither blocks nor forgets, whatever the queues' sizes and
\* the workers (no item arrives twice, so that "again and again" is "each").
Settled == []<>(\A i \in PipelineItems : place[i] \in {"new", "gone"})

\* After SIGTERM the process stops, whatever is queued, blocked or pending.
ShutdownEnds == phase = "cancel" ~> phase = "stopped"

\* Spec 04 section 13: an item whose scan failed is moved to failed/ and the
\* queue goes on being processed.
QueueContinues ==
  \A i \in Ordered \ Flaky : place[i] = "staging" ~> place[i] = "gone"
=============================================================================
