------------------------------ MODULE MCLogin ------------------------------
(* Login on a clock of a few ticks and a day of five. *)
EXTENDS Login

MCBlackout == {4}

Deployed(horizon, budget, refreshes, runs, asks, lossy, faults, events) ==
  [horizon |-> horizon, budget |-> budget, asks |-> asks, lossy |-> lossy, rash |-> FALSE,
   runs |-> [p \in Workloads |-> IF p = "broker" THEN refreshes ELSE runs],
   faults |-> faults, events |-> events]

\* The broker alone with answers lost; with an owner who signs in; beside the
\* scheduled job; the job alone, scheduled and on request.
MCDeployments == {Deployed(4, 1, 2, 0, FALSE, TRUE, 2, 0),
                  Deployed(4, 2, 2, 0, FALSE, FALSE, 1, 1),
                  Deployed(3, 1, 1, 1, FALSE, FALSE, 1, 0),
                  Deployed(2, 1, 0, 2, TRUE, FALSE, 0, 1)}

\* The broker beside the scheduled job, with one answer of Vault lost.
MCLossyBeside == {Deployed(2, 1, 2, 1, FALSE, TRUE, 1, 0)}
=============================================================================
