----------------------------- MODULE MCRouting -----------------------------
(* How an item gets from staging/ to its agent, on small instances: the file *)
(* operations of its deliveries (Delivery) and the goroutines that start     *)
(* them (ScanPipeline).  The two describe the same code at two grains and    *)
(* are checked beside each other: a behaviour is of the one that part names, *)
(* and the other keeps its initial state.                                    *)
EXTENDS Delivery, ScanPipeline, TLC

\* One item of every kind deliverResult distinguishes.  The item of a known
\* subject takes every step of a plain one.
Plain == [valid |-> TRUE, ordered |-> TRUE, tagged |-> FALSE, subject |-> "none",
          verdict |-> "pass", escapes |-> FALSE, hash |-> "h1"]

EachAttr == {[Plain EXCEPT !.valid = FALSE],
             [Plain EXCEPT !.tagged = TRUE],
             [Plain EXCEPT !.subject = "known"],
             [Plain EXCEPT !.subject = "unknown"],
             [Plain EXCEPT !.verdict = "quarantine"],
             [Plain EXCEPT !.escapes = TRUE]}

OneAgent == [i \in PipelineItems |-> 1]

\* The same goroutines deliver in one part and scan in the other.
MCSymmetry == Permutations(Threads)

VARIABLE part

\* Two failures or crashes where the deliveries of an item follow one another,
\* one where two of them overlap.
FaultBound == (\E i \in Items : "overlap" \in mishap'[i]) => faults' < MaxFaults

OfDelivery(A) == part = "delivery" /\ A /\ FaultBound /\ UNCHANGED <<pipelineVars, part>>
OfPipeline(A) == part = "pipeline" /\ A /\ UNCHANGED <<vars, part>>

\* The attributes of an item are of no interest to the pipeline.
MCInit ==
  /\ Init /\ PipelineInit /\ part \in {"delivery", "pipeline"}
  /\ part = "pipeline" => \A i \in Items : ~attr[i].valid

MCSpec ==
  MCInit /\ [][OfDelivery(Next) \/ OfPipeline(PipelineNext)]_<<vars, pipelineVars, part>>
=============================================================================
