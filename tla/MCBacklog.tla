----------------------------- MODULE MCBacklog -----------------------------
(* Two queues a connector works off, on small instances: the spool of        *)
(* records on its way to the journal, and Schoology's queue of detail pages. *)
(* They share no state; a behaviour is of the one that part names, and the   *)
(* other keeps its initial state.                                            *)
EXTENDS RecordSpool, DetailQueue

\* Four snapshots: scope A of a known subject, scope B of one the roster does
\* not name; the third is refused for good.
MCScopeOf == [i \in 1..N |-> IF i = 2 THEN "B" ELSE "A"]
MCSubjectOf == [s \in Scopes |-> IF s = "A" THEN "ann" ELSE "bob"]

\* Two kids with four and two assignments.
MCKidSeq == <<"a", "b">>
MCRow == [a |-> <<1, 2, 3, 5>>, b |-> <<4, 6>>]

VARIABLE part
backlogVars == <<vars, detailVars, part>>

MCInit ==
  /\ Init /\ DetailInit /\ part \in {"spool", "detail"}
  /\ part = "spool" => maxPerPoll = 1

OfSpool(A)  == part = "spool" /\ A /\ UNCHANGED <<detailVars, part>>
OfDetail(A) == part = "detail" /\ A /\ UNCHANGED <<vars, part>>

\* The fairness of FairSpec and DetailFairness; part never changes, so that
\* actions of the two parts can share a conjunct.
MCSpec ==
  /\ MCInit /\ [][OfSpool(Next) \/ OfDetail(DetailNext)]_backlogVars
  /\ WF_backlogVars(OfSpool(StartPass) \/ OfDetail(DetailWork))
  /\ WF_backlogVars(OfSpool(NextEntry)) /\ WF_backlogVars(OfSpool(Answered))
  /\ WF_backlogVars(OfSpool(BackoffEnds)) /\ WF_backlogVars(OfSpool(Restart))
  /\ \A i \in Ids : WF_backlogVars(OfSpool(Handle(i)))

\* Both queues move: every snapshot whose subject is known leaves the spool,
\* and every listed assignment's page is read again and again, whatever the
\* cap, the other rows and the other kids (sender.go Drain; the ordering of
\* plan in assignment_detail.go).
BacklogMoves ==
  /\ part = "spool" => Drains
  /\ part = "detail" => Refreshed
=============================================================================
