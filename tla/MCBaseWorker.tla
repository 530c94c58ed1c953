---------------------------- MODULE MCBaseWorker ----------------------------
(* One worker, two goals of different urgency, the first of which the       *)
(* department may hand over again.                                          *)
EXTENDS BaseWorker

CONSTANTS urgent, routine

MCPriority == [g \in GoalId |-> IF g = urgent THEN 0 ELSE 2]
=============================================================================
