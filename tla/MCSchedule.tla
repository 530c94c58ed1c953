----------------------------- MODULE MCSchedule -----------------------------
(* Graphs of up to four tasks and four different edges, or three of which  *)
(* one is listed twice; loops, cycles and edges that leave the nodes       *)
(* included.  Nodes are taken in one order, which loses nothing up to      *)
(* renaming.                                                               *)
EXTENDS Schedule, FiniteSetsExt

CONSTANT MaxEdges

MCTask == 1 .. 4
MCEdge == [from : MCTask, to : MCTask, copy : {1, 2}]

Simple(n) == UNION {kSubset(k, {e \in MCEdge : e.copy = 1}) : k \in 0 .. n}
Doubled == UNION {{E \cup {[e EXCEPT !.copy = 2]} : e \in E} : E \in Simple(MaxEdges - 1)}

MCDag == {[nodes |-> 1 .. n, edges |-> E, listed |-> n] :
              n \in 0 .. 4, E \in Simple(MaxEdges) \cup Doubled}
         \cup {[nodes |-> 1 .. n, edges |-> E, listed |-> n + 1] :
              n \in 1 .. 4, E \in Simple(2)}
=============================================================================
