----------------------------- MODULE MCMission ------------------------------
(***************************************************************************)
(* Mission on two tasks and three gates.  The DAGs: none to do, both tasks *)
(* counted right, and both with a total that is too low or too high.       *)
(***************************************************************************)
EXTENDS Mission

MCBudgets == {[maxCostUsd |-> c, maxDurationHours |-> 1] : c \in {0, 1, 2}}
MCDAGs == {[nodes |-> {}, totalTasks |-> 0]}
          \cup {[nodes |-> Task, totalTasks |-> n] : n \in 1..3}
=============================================================================
