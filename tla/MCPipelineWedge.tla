-------------------------- MODULE MCPipelineWedge --------------------------
(* ScanPipeline with two ordered items for one agent.                       *)
EXTENDS ScanPipeline

OneAgent == [i \in PipelineItems |-> 1]
=============================================================================
