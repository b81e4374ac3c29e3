---------------------------- MODULE MCJobWorkers ----------------------------
(***************************************************************************)
(* Small instances of JobWorkers for TLC.                                  *)
(***************************************************************************)
EXTENDS JobWorkers, TLC

CONSTANTS w1, w2

MCWorkers == {w1, w2}

\* Two processes of one worker each, or one process of two workers, or
\* one worker alone.
TwoHosts == [w \in MCWorkers |-> w]
OneHost  == [w \in MCWorkers |-> "agent"]
Alone    == [w \in {w1} |-> "agent"]
MCHosts  == {HostOf[w] : w \in Workers}

\* Bound: a process dies or somebody intervenes, not both.
OneMishap == budget'.crashes + budget'.admin + 1 >= MaxCrashes + MaxAdmin

MCSpec == WorkerInit /\ [][WorkerNext /\ OneMishap]_vars

\* Bound of the liveness run: a process dies, or it is told to stop during a last attempt.
OneEnd ==
  /\ budget'.crashes + budget'.stops + 1 >= MaxCrashes + MaxStops
  /\ budget'.stops < budget.stops => \A j \in JobIds : jobs[j].attempts = MaxAttempts

MCFairSpec == WorkerInit /\ [][WorkerNext /\ OneEnd]_vars /\ Fairness
=============================================================================
