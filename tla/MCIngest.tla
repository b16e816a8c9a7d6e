------------------------------ MODULE MCIngest ------------------------------
(* What comes in over HTTP, on small instances: the ingest endpoint with its *)
(* connectors (Intake) and the resumable uploads of archives (Archives).     *)
(* They share no state; a behaviour is of the one that part names, and the   *)
(* other keeps its initial state.                                            *)
EXTENDS Intake, Archives, TLC

CONSTANTS plain, s1, s2, a1

\* All connectors on one listener.
SameVia == [c \in Conns |-> plain]

Offer(s, c, m) == [src |-> s, aid |-> a1, claim |-> c, media |-> m]

\* One upload of every kind finalize tells apart: a raw file, a tar with a
\* block Untar refuses, the registered scanner's own tar, and the scanner's
\* media type used by another source.
EachOffer == {Offer(s1, <<1>>, "raw"), Offer(s1, <<1, 2>>, "tar"),
              Offer(s2, <<1, 1>>, "scan"), Offer(s1, <<1>>, "scan")}

\* Handlers and upload ids are interchangeable.
MCSymmetry == Permutations(Handlers) \cup Permutations(Ids)

VARIABLE part
ingestVars == <<intakeVars, vars, part>>

OfIntake(A)   == part = "intake" /\ A /\ UNCHANGED <<vars, part>>
OfArchives(A) == part = "archives" /\ A /\ UNCHANGED <<intakeVars, part>>

MCInit == IntakeInit /\ Init /\ part \in {"intake", "archives"}

MCSpec ==
  /\ MCInit
  /\ [][OfIntake(IntakeNext) \/ OfArchives(Next)]_ingestVars
=============================================================================
