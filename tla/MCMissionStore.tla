-------------------------- MODULE MCMissionStore ---------------------------
(* MissionStore with two writers, two tasks and two gates; the planner     *)
(* counts the tasks right or one too few.  The creator and the writers     *)
(* stop when there is nothing left to do.                                  *)
EXTENDS MissionStore, TLC

MCBudgets == {[maxCostUsd |-> c, maxDurationHours |-> 1] : c \in {0, 2}}
MCDAGs == {[nodes |-> Task, totalTasks |-> n] : n \in {1, 2}}
MCSymmetry == Permutations(Writer)
=============================================================================
