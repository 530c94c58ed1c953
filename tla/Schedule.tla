------------------------------- MODULE Schedule -------------------------------
(***************************************************************************)
(* DAGTopologicalSorter.computeSchedule: Kahn's algorithm, one step per    *)
(* layer, and then the critical path, again one step per layer.            *)
(*                                                                         *)
(* The graph comes from outside and nothing validates it before: edges may *)
(* be listed twice or name tasks that are no nodes, and a node may be      *)
(* listed twice.  An edge is a record with its two ends and a number that  *)
(* tells duplicates apart.  The order of the arrays is left out; where it  *)
(* decides between equally long paths the choice is left open.             *)
(***************************************************************************)
EXTENDS Integers, Sequences, FiniteSets

CONSTANTS Task,
          Edge,   \* the edges graphs are made of
          Dag     \* the graphs: nodes, edges and nodes.length

ASSUME DagAssumption ==
    /\ Edge \subseteq [from : Task, to : Task, copy : Nat]
    /\ Dag \subseteq [nodes : SUBSET Task, edges : SUBSET Edge, listed : Nat]
    /\ \A d \in Dag : IsFiniteSet(d.nodes) /\ IsFiniteSet(d.edges)

VARIABLES dag,
          pc,           \* where computeSchedule is, or how it ended
          inDegree,     \* the Map: task -> edges into it not yet worked off
          layers,       \* the layers so far, each a set of tasks
          currentLayer,
          longestPath,  \* task -> length of the longest chain that ends in it
          pathTo,       \* task -> such a chain
          criticalPath

vars == <<dag, pc, inDegree, layers, currentLayer, longestPath, pathTo, criticalPath>>

To(t) == {e \in dag.edges : e.to = t}
From(S) == {e \in dag.edges : e.from \in S}

Init == /\ dag \in Dag /\ pc = "build"
        /\ inDegree = << >> /\ layers = << >> /\ currentLayer = {}
        /\ longestPath = << >> /\ pathTo = << >> /\ criticalPath = << >>

\* The keys of the Map: the nodes, and what only an edge names.
Keys == dag.nodes \cup {e.to : e \in dag.edges}

\* An edge from an unknown task has no list of dependents to be added to:
\* a TypeError.
Build ==
    /\ pc = "build"
    /\ IF \E e \in dag.edges : e.from \notin dag.nodes
       THEN /\ pc' = "TypeError"
            /\ UNCHANGED <<inDegree, currentLayer>>
       ELSE /\ inDegree' = [t \in Keys |-> Cardinality(To(t))]
            /\ currentLayer' = {t \in Keys : To(t) = {}}
            /\ pc' = IF currentLayer' = {} /\ dag.listed > 0 THEN "cycle" ELSE "layers"
    /\ UNCHANGED <<dag, layers, longestPath, pathTo, criticalPath>>

\* Takes what has an edge from this layer, without waiting for the others.
NextLayer_Eager(degree) == {t \in Keys : inDegree[t] > degree[t]}

\* The tasks whose count reaches 0 while the layer is worked off.
NextLayer(degree) == {t \in Keys : inDegree[t] > 0 /\ degree[t] = 0}

ScheduleLayer ==
    /\ pc = "layers" /\ currentLayer # {}
    /\ layers' = Append(layers, currentLayer)
    /\ inDegree' = [t \in Keys |->
            inDegree[t] - Cardinality(To(t) \cap From(currentLayer))]
    /\ currentLayer' = NextLayer(inDegree')
    /\ UNCHANGED <<dag, pc, longestPath, pathTo, criticalPath>>

processed == UNION {layers[k] : k \in DOMAIN layers}

\* No comparison of what was processed with what there is.
AllProcessed_Trusting == TRUE

AllProcessed == Cardinality(processed) = dag.listed

LayersDone ==
    /\ pc = "layers" /\ currentLayer = {}
    /\ pc' = IF AllProcessed THEN "path" ELSE "cycle"
    /\ longestPath' = [t \in dag.nodes |-> 0]
    /\ pathTo' = [t \in dag.nodes |-> <<t>>]
    /\ UNCHANGED <<dag, inDegree, layers, currentLayer, criticalPath>>

-----------------------------------------------------------------------------
(* computeCriticalPath: "currentLayer" is reused for what it has visited   *)

Length(t) == IF t \in DOMAIN longestPath THEN longestPath[t] ELSE 0

\* Any predecessor, without comparing the lengths.
Best_Any(t) == To(t)

\* The predecessors that give t its longest chain.
Best(t) == {e \in To(t) : \A f \in To(t) : Length(e.from) >= Length(f.from)}

\* The next layer, all of whose predecessors are in earlier ones.
VisitLayer ==
    /\ pc = "path"
    /\ \E k \in DOMAIN layers :
         /\ layers[k] \cap currentLayer = {}
         /\ \A j \in 1 .. k - 1 : layers[j] \subseteq currentLayer
         /\ \E best \in [{t \in layers[k] : To(t) # {}} -> dag.edges] :
              LET Longer == DOMAIN best
              IN  /\ \A t \in Longer : best[t] \in Best(t)
                  /\ longestPath' = [t \in DOMAIN longestPath \cup Longer |->
                        IF t \in Longer THEN Length(best[t].from) + 1 ELSE longestPath[t]]
                  /\ pathTo' = [t \in DOMAIN pathTo \cup Longer |->
                        IF t \in Longer THEN Append(pathTo[best[t].from], t) ELSE pathTo[t]]
         /\ currentLayer' = currentLayer \cup layers[k]
    /\ UNCHANGED <<dag, pc, inDegree, layers, criticalPath>>

PathDone ==
    /\ pc = "path" /\ currentLayer = processed
    /\ \/ DOMAIN longestPath = {} /\ UNCHANGED criticalPath
       \/ \E t \in DOMAIN longestPath :
            /\ \A u \in DOMAIN longestPath : longestPath[t] >= longestPath[u]
            /\ criticalPath' = pathTo[t]
    /\ pc' = "ok"
    /\ UNCHANGED <<dag, inDegree, layers, currentLayer, longestPath, pathTo>>

Next == Build \/ ScheduleLayer \/ LayersDone \/ VisitLayer \/ PathDone

Spec == Init /\ [][Next]_vars

FairSpec == Spec /\ WF_vars(Next)

-----------------------------------------------------------------------------
\* What a planner should produce: the edges connect nodes, and every node is
\* listed once.
WellFormed == /\ \A e \in dag.edges : {e.from, e.to} \subseteq dag.nodes
              /\ dag.listed = Cardinality(dag.nodes)

\* A cycle is a set of tasks each of which waits for one of the set.
Acyclic == \A S \in (SUBSET dag.nodes) \ {{}} :
              \E t \in S : \A e \in To(t) : e.from \notin S

\* For any graph, however malformed, no task is scheduled twice, and all a
\* scheduled task waits for is in an earlier layer (the layers may run while
\* the rest of the graph is still being worked off).
DependenciesFirst ==
    \A k \in DOMAIN layers : \A t \in layers[k] :
        /\ \A j \in DOMAIN layers : t \in layers[j] => j = k
        /\ \A e \in To(t) : \E j \in 1 .. k - 1 : e.from \in layers[j]

\* A well-formed graph is scheduled, all of it, exactly if it has no cycle
\* (the two throws of computeSchedule).
ScheduledUnlessCyclic ==
    WellFormed =>
        /\ pc # "TypeError"
        /\ pc = "cycle" => ~Acyclic
        /\ pc = "ok" => Acyclic /\ processed = dag.nodes

\* The critical path takes one task of every layer, each waiting for the one
\* before: no schedule of the graph can have fewer layers (computeCriticalPath
\* and computeSchedule agree).
PathSpansTheLayers ==
    WellFormed /\ pc = "ok" =>
        /\ Len(criticalPath) = Len(layers)
        /\ \A k \in DOMAIN layers : criticalPath[k] \in layers[k]
        /\ \A k \in DOMAIN layers \ {1} :
             \E e \in To(criticalPath[k]) : e.from = criticalPath[k - 1]
=============================================================================
