---------------------------- MODULE MCCronTasks ----------------------------
(* CronTasks for TLC: interchangeable instances and jobs.                   *)
EXTENDS CronTasks, TLC

\* Sound for the runs without liveness: nothing tells two of them apart.
Symmetry == Permutations(Instances) \cup Permutations(Jobs)
=============================================================================
