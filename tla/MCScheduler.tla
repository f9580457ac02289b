---------------------------- MODULE MCScheduler ----------------------------
(* Scheduler with two jobs of one name: j1 is unlimited, j2 runs once. *)
EXTENDS Scheduler

CONSTANTS j1, j2, a

MCNameOf  == [j \in Jobs |-> a]
MCMaxRuns == [j \in Jobs |-> IF j = j2 THEN 1 ELSE 0]
=============================================================================
