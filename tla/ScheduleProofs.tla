---------------------------- MODULE ScheduleProofs ----------------------------
(***************************************************************************)
(* Proofs about Schedule, for graphs of any size and shape: the layers     *)
(* respect the dependencies, and a well-formed graph is refused exactly if *)
(* it has a cycle.  The invariant says what Kahn's algorithm knows while   *)
(* it runs: the counts are those of the edges that are not yet worked off, *)
(* the current layer is all that is ready, and what has been processed     *)
(* contains no cycle.  Of the critical path: a task's longest chain has as *)
(* many tasks as there are layers up to its own.                           *)
(***************************************************************************)
EXTENDS Schedule, SequenceTheorems, FiniteSetTheorems, TLAPS

\* Every task of S waits for one of S.
IsCycle(S) == S # {} /\ \A t \in S : \E e \in To(t) : e.from \in S

Known == \A e \in dag.edges : e.from \in dag.nodes

Open(t) == To(t) \ From(processed)

Ready == {t \in Keys \ processed : Open(t) = {}}

Typed == /\ dag \in Dag
         /\ pc \in {"build", "layers", "path", "ok", "cycle", "TypeError"}
         /\ layers \in Seq(SUBSET Keys)

Started == /\ pc \in {"build", "TypeError"} => layers = << >>
           /\ pc = "TypeError" => ~Known
           /\ pc \in {"layers", "path", "ok"} => Known

Working == pc = "layers" => /\ inDegree = [t \in Keys |-> Cardinality(Open(t))]
                            /\ currentLayer = Ready

NoCycleSoFar == \A S \in SUBSET processed : ~IsCycle(S)

Ended == /\ pc \in {"path", "ok"} => AllProcessed
         /\ pc = "cycle" /\ WellFormed => \E S \in SUBSET dag.nodes : IsCycle(S)

IInv == Typed /\ Started /\ Working /\ NoCycleSoFar /\ Ended /\ DependenciesFirst

-----------------------------------------------------------------------------
\* The graph is finite.
LEMMA GraphFinite ==
    ASSUME Typed
    PROVE  /\ IsFiniteSet(dag.nodes) /\ dag.nodes \subseteq Task
           /\ \A t : IsFiniteSet(To(t)) /\ To(t) \subseteq dag.edges
           /\ \A e \in dag.edges : e \in Edge
<1>1. /\ IsFiniteSet(dag.nodes) /\ IsFiniteSet(dag.edges)
      /\ dag.nodes \subseteq Task /\ dag.edges \subseteq Edge
  BY DagAssumption DEF Typed
<1>2. \A t : To(t) \in SUBSET dag.edges
  BY DEF To
<1>3. \A t : IsFiniteSet(To(t))
  BY <1>1, <1>2, FS_Subset
<1> QED BY <1>1, <1>2, <1>3

\* Tasks in processed are keys, and are in a layer.
LEMMA ProcessedKnown ==
    ASSUME Typed
    PROVE  /\ processed \subseteq Keys
           /\ \A t : t \in processed <=> \E k \in DOMAIN layers : t \in layers[k]
<1>1. \A k \in DOMAIN layers : layers[k] \subseteq Keys
  BY DEF Typed
<1> QED BY <1>1 DEF processed

\* What a processed task waits for has been processed.
LEMMA NothingOpenBehind ==
    ASSUME Typed, DependenciesFirst, NEW t \in processed
    PROVE  Open(t) = {}
<1>1. PICK k \in DOMAIN layers : t \in layers[k]
  BY ProcessedKnown
<1>2. ASSUME NEW e \in To(t) PROVE e.from \in processed
  <2>1. PICK j \in 1 .. k - 1 : e.from \in layers[j]
    BY <1>1, <1>2 DEF DependenciesFirst
  <2>2. j \in DOMAIN layers
    BY <1>1, <2>1 DEF Typed
  <2> QED BY <2>1, <2>2, ProcessedKnown
<1> QED BY <1>2 DEF Open, From, To

-----------------------------------------------------------------------------
\* Counting the edges into t: working off a layer that is disjoint from what
\* was processed takes away those that come from it.
LEMMA CountGoesDown ==
    ASSUME Typed, currentLayer \cap processed = {}, NEW t
    PROVE  Cardinality(To(t) \ From(processed \cup currentLayer))
             = Cardinality(Open(t)) - Cardinality(To(t) \cap From(currentLayer))
<1>1. IsFiniteSet(Open(t))
  BY GraphFinite, FS_Subset DEF Open
<1>2. Open(t) \ From(currentLayer) = To(t) \ From(processed \cup currentLayer)
  BY DEF Open, From, To
<1>3. Open(t) \cap From(currentLayer) = To(t) \cap From(currentLayer)
  BY DEF Open, From, To
<1> QED BY <1>1, <1>2, <1>3, FS_Difference

\* A layer is added.
LEMMA LayerAdded ==
    ASSUME Typed, currentLayer \subseteq Keys, dag' = dag,
           layers' = Append(layers, currentLayer)
    PROVE  /\ layers' \in Seq(SUBSET Keys) /\ Keys' = Keys
           /\ Len(layers) \in Nat /\ DOMAIN layers = 1 .. Len(layers)
           /\ DOMAIN layers' = 1 .. Len(layers) + 1
           /\ \A k \in 1 .. Len(layers) : layers'[k] = layers[k]
           /\ layers'[Len(layers) + 1] = currentLayer
           /\ processed' = processed \cup currentLayer
<1>1. layers \in Seq(SUBSET Keys) /\ currentLayer \in SUBSET Keys
  BY DEF Typed
<1>2. /\ layers' \in Seq(SUBSET Keys)
      /\ Len(layers) \in Nat /\ DOMAIN layers = 1 .. Len(layers)
      /\ DOMAIN layers' = 1 .. Len(layers) + 1
      /\ \A k \in 1 .. Len(layers) : layers'[k] = layers[k]
      /\ layers'[Len(layers) + 1] = currentLayer
  BY <1>1
<1>3. Keys' = Keys
  BY DEF Keys
<1>4. processed' = processed \cup currentLayer
  BY <1>2 DEF processed
<1> QED BY <1>2, <1>3, <1>4

\* One step of the layer loop keeps all that the invariant says.
LEMMA LayerStep ==
    ASSUME IInv, ScheduleLayer
    PROVE  IInv'
<1>1. /\ pc = "layers" /\ pc' = "layers" /\ dag' = dag
      /\ layers' = Append(layers, currentLayer)
      /\ inDegree' = [t \in Keys |->
            inDegree[t] - Cardinality(To(t) \cap From(currentLayer))]
      /\ currentLayer' = NextLayer(inDegree')
  BY DEF ScheduleLayer
<1>2. /\ currentLayer = Ready /\ inDegree = [t \in Keys |-> Cardinality(Open(t))]
      /\ Typed /\ DependenciesFirst
  BY <1>1 DEF IInv, Working
<1>3. currentLayer \subseteq Keys /\ currentLayer \cap processed = {}
  BY <1>2 DEF Ready
<1>4. /\ layers' \in Seq(SUBSET Keys) /\ Keys' = Keys
      /\ Len(layers) \in Nat /\ DOMAIN layers = 1 .. Len(layers)
      /\ DOMAIN layers' = 1 .. Len(layers) + 1
      /\ \A k \in 1 .. Len(layers) : layers'[k] = layers[k]
      /\ layers'[Len(layers) + 1] = currentLayer
      /\ processed' = processed \cup currentLayer
  BY <1>1, <1>2, <1>3, LayerAdded
<1>5. \A t : To(t)' = To(t) /\ Open(t)' = To(t) \ From(processed \cup currentLayer)
  BY <1>1, <1>4 DEF To, From, Open
<1>6. inDegree' = [t \in Keys' |-> Cardinality(Open(t)')]
  <2>1. ASSUME NEW t \in Keys
        PROVE  inDegree[t] - Cardinality(To(t) \cap From(currentLayer))
                 = Cardinality(Open(t)')
    <3>1. inDegree[t] = Cardinality(Open(t))
      BY <1>2
    <3>2. Cardinality(To(t) \ From(processed \cup currentLayer))
             = Cardinality(Open(t)) - Cardinality(To(t) \cap From(currentLayer))
      BY <1>2, <1>3, CountGoesDown
    <3> QED BY <1>5, <3>1, <3>2
  <2> QED BY <1>1, <1>4, <2>1
<1>7. \A t \in Keys : /\ IsFiniteSet(Open(t)) /\ IsFiniteSet(Open(t)')
                      /\ (inDegree[t] = 0) <=> (Open(t) = {})
                      /\ (inDegree'[t] = 0) <=> (Open(t)' = {})
                      /\ inDegree[t] \in Nat
  <2> TAKE t \in Keys
  <2>1. Open(t) \in SUBSET To(t) /\ Open(t)' \in SUBSET To(t)
    BY <1>5 DEF Open
  <2>2. IsFiniteSet(Open(t)) /\ IsFiniteSet(Open(t)')
    BY <1>2, <2>1, GraphFinite, FS_Subset
  <2>3. inDegree[t] = Cardinality(Open(t)) /\ inDegree'[t] = Cardinality(Open(t)')
    BY <1>2, <1>4, <1>6
  <2> QED BY <2>2, <2>3, FS_EmptySet, FS_CardinalityType
<1>8. currentLayer' = Ready'
  <2>1. currentLayer' = {t \in Keys : inDegree[t] > 0 /\ inDegree'[t] = 0}
    BY <1>1 DEF NextLayer
  <2>2. ASSUME NEW t \in Keys, inDegree[t] > 0 PROVE t \notin processed \cup currentLayer
    <3>1. Open(t) # {}
      BY <1>7, <2>2
    <3> QED BY <1>2, <3>1, NothingOpenBehind DEF Ready
  <2>3. ASSUME NEW t \in Keys, t \notin processed \cup currentLayer PROVE inDegree[t] > 0
    <3>1. Open(t) # {}
      BY <1>2, <2>3 DEF Ready
    <3> QED BY <1>7, <3>1
  <2>4. Ready' = {t \in Keys : t \notin processed \cup currentLayer /\ Open(t)' = {}}
    BY <1>4 DEF Ready
  <2> QED BY <1>7, <2>1, <2>2, <2>3, <2>4
<1>9. DependenciesFirst'
  <2>1. ASSUME NEW k \in 1 .. Len(layers) + 1, NEW t \in layers'[k],
               NEW j \in 1 .. Len(layers) + 1, t \in layers'[j]
        PROVE  j = k
    <3>1. CASE k \in 1 .. Len(layers) /\ j \in 1 .. Len(layers)
      BY <1>2, <1>4, <2>1, <3>1 DEF DependenciesFirst
    <3>2. CASE k = Len(layers) + 1 /\ j \in 1 .. Len(layers)
      <4>1. t \in currentLayer /\ t \in processed
        BY <1>2, <1>4, <2>1, <3>2, ProcessedKnown
      <4> QED BY <1>3, <4>1
    <3>3. CASE j = Len(layers) + 1 /\ k \in 1 .. Len(layers)
      <4>1. t \in currentLayer /\ t \in processed
        BY <1>2, <1>4, <2>1, <3>3, ProcessedKnown
      <4> QED BY <1>3, <4>1
    <3> QED BY <1>4, <3>1, <3>2, <3>3
  <2>2. ASSUME NEW k \in 1 .. Len(layers) + 1, NEW t \in layers'[k], NEW e \in To(t)
        PROVE  \E j \in 1 .. k - 1 : e.from \in layers'[j]
    <3>1. CASE k \in 1 .. Len(layers)
      <4>1. PICK j \in 1 .. k - 1 : e.from \in layers[j]
        BY <1>2, <1>4, <2>2, <3>1 DEF DependenciesFirst
      <4>2. layers'[j] = layers[j]
        BY <1>4, <3>1, <4>1
      <4> QED BY <4>1, <4>2
    <3>2. CASE k = Len(layers) + 1
      <4>1. t \in Ready
        BY <1>2, <1>4, <2>2, <3>2
      <4>2. e.from \in processed
        BY <2>2, <4>1 DEF Ready, Open, From, To
      <4>3. PICK j \in DOMAIN layers : e.from \in layers[j]
        BY <1>2, <4>2, ProcessedKnown
      <4>4. j \in 1 .. k - 1 /\ layers'[j] = layers[j]
        BY <1>4, <3>2, <4>3
      <4> QED BY <4>3, <4>4
    <3> QED BY <1>4, <3>1, <3>2
  <2> QED BY <1>4, <1>5, <2>1, <2>2 DEF DependenciesFirst
<1>10. NoCycleSoFar'
  <2> SUFFICES ASSUME NEW S \in SUBSET (processed \cup currentLayer), IsCycle(S)
               PROVE  FALSE
    BY <1>4, <1>5 DEF NoCycleSoFar, IsCycle
  <2>1. CASE S \cap processed = {}
    <3>1. PICK t \in S : t \in Ready
      BY <1>2, <2>1 DEF IsCycle
    <3>2. PICK e \in To(t) : e.from \in S
      BY DEF IsCycle
    <3>3. e.from \in processed
      BY <3>1, <3>2 DEF Ready, Open, From, To
    <3> QED BY <2>1, <3>2, <3>3
  <2>2. CASE S \cap processed # {}
    <3>1. ASSUME NEW t \in S \cap processed
          PROVE  \E e \in To(t) : e.from \in S \cap processed
      <4>1. PICK e \in To(t) : e.from \in S
        BY DEF IsCycle
      <4>2. e.from \in processed
        BY <1>2, <3>1, <4>1, NothingOpenBehind DEF Open, From, To
      <4> QED BY <4>1, <4>2
    <3>2. IsCycle(S \cap processed)
      BY <2>2, <3>1 DEF IsCycle
    <3> QED BY <3>2 DEF IInv, NoCycleSoFar
  <2> QED BY <2>1, <2>2
<1>11. Typed' /\ Started' /\ Ended'
  <2>1. Known' <=> Known
    BY <1>1 DEF Known
  <2> QED BY <1>1, <1>4, <2>1 DEF IInv, Typed, Started, Ended
<1>12. Working'
  BY <1>6, <1>8 DEF Working
<1> QED BY <1>8, <1>9, <1>10, <1>11, <1>12 DEF IInv

\* The first layer is what no edge leads to.
LEMMA BuildStep ==
    ASSUME IInv, Build
    PROVE  IInv'
<1>1. pc = "build" /\ layers = << >> /\ dag' = dag /\ layers' = layers /\ Typed
  BY DEF Build, IInv, Started
<1>2. processed = {} /\ processed' = {}
  BY <1>1 DEF processed
<1>3. Keys' = Keys /\ \A t : To(t)' = To(t) /\ Open(t)' = To(t)
  BY <1>1, <1>2 DEF Keys, To, From, Open
<1>4. DependenciesFirst' /\ NoCycleSoFar'
  BY <1>1, <1>2 DEF DependenciesFirst, NoCycleSoFar, IsCycle
<1>5. Known' <=> Known
  BY <1>1 DEF Known
<1>6. CASE ~Known
  <2>1. pc' = "TypeError"
    BY <1>6 DEF Build, Known
  <2> QED BY <1>1, <1>3, <1>4, <1>5, <1>6, <2>1
          DEF IInv, Typed, Started, Working, Ended
<1>7. CASE Known
  <2>1. /\ inDegree' = [t \in Keys |-> Cardinality(To(t))]
        /\ currentLayer' = {t \in Keys : To(t) = {}}
        /\ pc' = IF currentLayer' = {} /\ dag.listed > 0 THEN "cycle" ELSE "layers"
    BY <1>7 DEF Build, Known
  <2>2. Typed' /\ Started'
    BY <1>1, <1>3, <1>5, <1>7, <2>1 DEF Typed, Started
  <2>3. Working'
    BY <1>2, <1>3, <2>1 DEF Working, Ready
  <2>4. Ended'
    <3> SUFFICES ASSUME pc' = "cycle", WellFormed'
                 PROVE  IsCycle(dag.nodes)' /\ dag'.nodes = dag.nodes
      BY <2>1 DEF Ended
    <3>1. WellFormed /\ currentLayer' = {} /\ dag.listed > 0
      BY <1>1, <2>1 DEF WellFormed
    <3>2. dag.nodes # {}
      BY <3>1, FS_EmptySet DEF WellFormed
    <3>3. \A t \in dag.nodes : \E e \in To(t) : e.from \in dag.nodes
      <4> TAKE t \in dag.nodes
      <4>1. PICK e : e \in To(t)
        BY <2>1, <3>1 DEF Keys
      <4> QED BY <1>7, <4>1 DEF Known, To
    <3> QED BY <1>1, <1>3, <3>2, <3>3 DEF IsCycle
  <2> QED BY <1>4, <2>2, <2>3, <2>4 DEF IInv
<1> QED BY <1>6, <1>7

\* When no task is ready any more, either all have been processed or those
\* that have not wait for one another.
LEMMA LayersDoneStep ==
    ASSUME IInv, LayersDone
    PROVE  IInv'
<1>1. /\ pc = "layers" /\ currentLayer = {} /\ dag' = dag /\ layers' = layers
      /\ pc' = IF AllProcessed THEN "path" ELSE "cycle"
      /\ Typed /\ Known /\ Ready = {}
  BY DEF LayersDone, IInv, Started, Working
<1>2. /\ processed' = processed /\ Keys' = Keys /\ (Known' <=> Known)
      /\ (WellFormed' <=> WellFormed) /\ (AllProcessed' <=> AllProcessed)
      /\ \A t : To(t)' = To(t)
  BY <1>1 DEF processed, Keys, Known, WellFormed, AllProcessed, To
<1>3. DependenciesFirst' /\ NoCycleSoFar'
  BY <1>1, <1>2 DEF IInv, DependenciesFirst, NoCycleSoFar, IsCycle
<1>4. Typed' /\ Started' /\ Working'
  BY <1>1, <1>2 DEF Typed, Started, Working
<1>5. Ended'
  <2>1. pc' = "path" => AllProcessed'
    BY <1>1, <1>2
  <2>2. ASSUME ~AllProcessed, WellFormed
        PROVE  IsCycle(dag.nodes \ processed)
    <3>1. Keys = dag.nodes
      BY <2>2 DEF WellFormed, Keys
    <3>2. dag.nodes # processed
      BY <2>2 DEF AllProcessed, WellFormed
    <3>3. dag.nodes \ processed # {}
      BY <1>1, <3>1, <3>2, ProcessedKnown
    <3>4. ASSUME NEW t \in dag.nodes \ processed
          PROVE  \E e \in To(t) : e.from \in dag.nodes \ processed
      <4>1. PICK e : e \in Open(t)
        BY <1>1, <3>1, <3>4 DEF Ready
      <4> QED BY <1>1, <4>1 DEF Open, From, To, Known
    <3> QED BY <3>3, <3>4 DEF IsCycle
  <2>3. ASSUME pc' = "cycle", WellFormed'
        PROVE  \E S \in SUBSET dag'.nodes : IsCycle(S)'
    <3>1. IsCycle(dag.nodes \ processed)
      BY <1>1, <1>2, <2>2, <2>3
    <3>2. IsCycle(dag.nodes \ processed)'
      BY <1>1, <1>2, <3>1 DEF IsCycle
    <3> QED BY <1>1, <1>2, <3>2
  <2> QED BY <1>1, <2>1, <2>3 DEF Ended
<1> QED BY <1>3, <1>4, <1>5 DEF IInv

\* The critical path changes nothing of all this.
LEMMA PathStep ==
    ASSUME IInv, \/ VisitLayer \/ PathDone \/ UNCHANGED vars
    PROVE  IInv'
<1>1. /\ dag' = dag /\ layers' = layers
      /\ \/ UNCHANGED vars
         \/ pc = "path" /\ pc' \in {"path", "ok"}
  BY DEF VisitLayer, PathDone, vars
<1>2. /\ processed' = processed /\ Keys' = Keys /\ (Known' <=> Known)
      /\ (WellFormed' <=> WellFormed) /\ (AllProcessed' <=> AllProcessed)
      /\ \A t : To(t)' = To(t) /\ Open(t)' = Open(t)
  BY <1>1 DEF processed, Keys, Known, WellFormed, AllProcessed, To, Open, From
<1>3. DependenciesFirst' /\ NoCycleSoFar'
  BY <1>1, <1>2 DEF IInv, DependenciesFirst, NoCycleSoFar, IsCycle
<1>4. Typed' /\ Started'
  BY <1>1, <1>2 DEF IInv, Typed, Started, vars
<1>5. Working' /\ Ready' = Ready
  BY <1>1, <1>2 DEF IInv, Working, Ready, vars
<1>6. Ended'
  BY <1>1, <1>2 DEF IInv, Ended, IsCycle, vars
<1> QED BY <1>3, <1>4, <1>5, <1>6 DEF IInv

LEMMA Inductive == Spec => []IInv
<1>1. Init => IInv
  <2> SUFFICES ASSUME Init PROVE IInv
    OBVIOUS
  <2>1. processed = {}
    BY DEF Init, processed
  <2> QED BY <2>1 DEF Init, IInv, Typed, Started, Working, NoCycleSoFar, IsCycle,
                     Ended, DependenciesFirst
<1>2. IInv /\ [Next]_vars => IInv'
  BY BuildStep, LayerStep, LayersDoneStep, PathStep DEF Next
<1> QED BY <1>1, <1>2, PTL DEF Spec

\* The search for a path does not start before everything is scheduled.
LEMMA AllScheduled ==
    ASSUME IInv, WellFormed, pc \in {"path", "ok"}
    PROVE  processed = dag.nodes
<1>1. Typed /\ Cardinality(processed) = Cardinality(dag.nodes)
  BY DEF IInv, Ended, AllProcessed, WellFormed
<1>2. Keys = dag.nodes
  BY DEF WellFormed, Keys
<1> QED BY <1>1, <1>2, ProcessedKnown, GraphFinite, FS_Subset

-----------------------------------------------------------------------------
\* For any graph, however malformed: no task is scheduled twice, and what a
\* task waits for is in an earlier layer.
THEOREM LayersRespectDependencies == Spec => []DependenciesFirst
<1>1. IInv => DependenciesFirst
  BY DEF IInv
<1> QED BY <1>1, Inductive, PTL

\* computeSchedule throws on a well-formed graph exactly if it has a cycle,
\* and otherwise schedules all of it.
THEOREM RefusedExactlyIfCyclic == Spec => []ScheduledUnlessCyclic
<1>1. ASSUME IInv, WellFormed
      PROVE  /\ pc # "TypeError"
             /\ pc = "cycle" => ~Acyclic
             /\ pc = "ok" => Acyclic /\ processed = dag.nodes
  <2>1. Known /\ Keys = dag.nodes /\ Typed
    BY <1>1 DEF WellFormed, Known, Keys, IInv
  <2>2. pc # "TypeError"
    BY <1>1, <2>1 DEF IInv, Started
  <2>3. ASSUME pc = "cycle" PROVE ~Acyclic
    <3>1. PICK S \in SUBSET dag.nodes : IsCycle(S)
      BY <1>1, <2>3 DEF IInv, Ended
    <3> QED BY <3>1 DEF Acyclic, IsCycle
  <2>4. ASSUME pc = "ok" PROVE Acyclic /\ processed = dag.nodes
    <3>1. processed = dag.nodes
      BY <1>1, <2>4, AllScheduled
    <3>2. \A S \in SUBSET dag.nodes : ~IsCycle(S)
      BY <1>1, <3>1 DEF IInv, NoCycleSoFar
    <3> QED BY <3>1, <3>2 DEF Acyclic, IsCycle
  <2> QED BY <2>2, <2>3, <2>4
<1>2. IInv => ScheduledUnlessCyclic
  BY <1>1 DEF ScheduledUnlessCyclic
<1> QED BY <1>2, Inductive, PTL

-----------------------------------------------------------------------------
(* The critical path                                                       *)

\* Every task of a layer but the first waits for one of the layer before.
Layered ==
    /\ \A k \in DOMAIN layers : layers[k] # {}
    /\ \A k \in DOMAIN layers \ {1} : \A t \in layers[k] :
            \E e \in To(t) : e.from \in layers[k - 1]
    /\ pc = "layers" /\ layers # << >> =>
            \A t \in currentLayer : \E e \in To(t) : e.from \in layers[Len(layers)]

\* p takes one task of each of the first k layers, each waiting for the one
\* before, and ends in t.
Chain(p, k, t) ==
    /\ p \in Seq(Task) /\ Len(p) = k /\ p[k] = t
    /\ \A j \in 1 .. k : p[j] \in layers[j]
    /\ \A j \in 2 .. k : \E e \in To(p[j]) : e.from = p[j - 1]

\* What has been visited has the length and the chain of its layer, and the
\* rest is as it was.
Visited ==
    /\ DOMAIN longestPath = dag.nodes /\ DOMAIN pathTo = dag.nodes
    /\ \A k \in DOMAIN layers : \A t \in layers[k] \cap currentLayer :
            longestPath[t] = k - 1 /\ Chain(pathTo[t], k, t)
    /\ \A t \in dag.nodes \ currentLayer : longestPath[t] = 0 /\ pathTo[t] = <<t>>

PathInv == /\ Layered
           /\ pc # "ok" => criticalPath = << >>
           /\ pc = "path" /\ WellFormed => Visited
           /\ PathSpansTheLayers

\* A layer is what the layer before it was the last to hold up.
LEMMA LayeredStep ==
    ASSUME IInv, IInv', Layered, [Next]_vars
    PROVE  Layered'
<1>1. CASE ScheduleLayer
  <2>1. /\ pc = "layers" /\ pc' = "layers" /\ dag' = dag /\ currentLayer # {}
        /\ layers' = Append(layers, currentLayer) /\ Typed
        /\ currentLayer = Ready /\ currentLayer' = Ready'
    BY <1>1 DEF ScheduleLayer, IInv, Working
  <2>2. /\ Keys' = Keys /\ Len(layers) \in Nat
        /\ DOMAIN layers = 1 .. Len(layers) /\ DOMAIN layers' = 1 .. Len(layers) + 1
        /\ \A k \in 1 .. Len(layers) : layers'[k] = layers[k]
        /\ layers'[Len(layers) + 1] = currentLayer
        /\ processed' = processed \cup currentLayer
        /\ layers' \in Seq(SUBSET Keys)
    BY <2>1, LayerAdded DEF Ready
  <2>3. Len(layers') = Len(layers) + 1
    BY <2>2, LenProperties
  <2>4. \A t : To(t)' = To(t) /\ Open(t)' = To(t) \ From(processed \cup currentLayer)
    BY <2>1, <2>2 DEF To, From, Open
  <2>5. ASSUME NEW t \in Ready' PROVE \E e \in To(t) : e.from \in layers'[Len(layers')]
    <3>1. t \in Keys /\ t \notin processed /\ t \notin Ready /\ Open(t)' = {}
      BY <2>1, <2>2, <2>5 DEF Ready
    <3>2. PICK e \in To(t) : e.from \notin processed
      BY <3>1 DEF Ready, Open, From, To
    <3>3. e.from \in processed \cup currentLayer
      BY <2>4, <3>1, <3>2 DEF From, To
    <3> QED BY <2>2, <2>3, <3>2, <3>3
  <2>6. ASSUME NEW k \in 2 .. Len(layers) + 1, NEW t \in layers'[k]
        PROVE  \E e \in To(t) : e.from \in layers'[k - 1]
    <3>1. CASE k = Len(layers) + 1
      <4>1. layers # << >> /\ t \in currentLayer /\ layers'[k - 1] = layers[Len(layers)]
        BY <2>2, <2>6, <3>1
      <4> QED BY <2>1, <3>1, <4>1 DEF Layered
    <3>2. CASE k \in 2 .. Len(layers)
      <4>1. k \in DOMAIN layers \ {1} /\ layers'[k - 1] = layers[k - 1] /\ t \in layers[k]
        BY <2>2, <2>6, <3>2
      <4> QED BY <4>1 DEF Layered
    <3> QED BY <2>2, <3>1, <3>2
  <2>7. \A k \in DOMAIN layers' : layers'[k] # {}
    BY <2>1, <2>2 DEF Layered
  <2> QED BY <2>1, <2>2, <2>4, <2>5, <2>6, <2>7 DEF Layered
<1>2. CASE ~ScheduleLayer
  <2>1. /\ dag' = dag /\ layers' = layers
        /\ pc' = "layers" => layers = << >> \/ UNCHANGED vars
    BY <1>2 DEF Next, Build, LayersDone, VisitLayer, PathDone, vars, IInv, Started
  <2>2. \A t : To(t)' = To(t)
    BY <2>1 DEF To
  <2>3. /\ \A k \in DOMAIN layers' : layers'[k] # {}
        /\ \A k \in DOMAIN layers' \ {1} : \A t \in layers'[k] :
              \E e \in To(t)' : e.from \in layers'[k - 1]
    BY <2>1, <2>2 DEF Layered
  <2>4. ASSUME pc' = "layers", layers' # << >>
        PROVE  \A t \in currentLayer' : \E e \in To(t)' : e.from \in layers'[Len(layers')]
    BY <2>1, <2>2, <2>4 DEF Layered, vars
  <2> QED BY <2>3, <2>4 DEF Layered
<1> QED BY <1>1, <1>2

\* A chain is prolonged by a task that waits for its last one.
LEMMA LongerChain ==
    ASSUME Typed, NEW k \in DOMAIN layers, NEW p, NEW u, Chain(p, k, u),
           k + 1 \in DOMAIN layers, NEW t \in layers[k + 1], t \in Task,
           NEW e \in To(t), e.from = u
    PROVE  Chain(Append(p, t), k + 1, t)
<1> DEFINE q == Append(p, t)
<1>1. k \in Nat /\ k >= 1
  BY LenProperties DEF Typed
<1>2. /\ q \in Seq(Task) /\ Len(q) = k + 1 /\ q[k + 1] = t
      /\ \A j \in 1 .. k : q[j] = p[j]
  BY AppendProperties DEF Chain
<1> HIDE DEF q
<1>3. \A j \in 1 .. k + 1 : q[j] \in layers[j]
  BY <1>1, <1>2 DEF Chain
<1>4. ASSUME NEW j \in 2 .. k + 1 PROVE \E f \in To(q[j]) : f.from = q[j - 1]
  <2>1. CASE j = k + 1
    BY <1>1, <1>2, <2>1 DEF Chain
  <2>2. CASE j \in 2 .. k
    BY <1>1, <1>2, <2>2 DEF Chain
  <2> QED BY <1>1, <2>1, <2>2
<1> QED BY <1>2, <1>3, <1>4 DEF Chain, q

\* A layer is visited after those before it: the best predecessor of one of
\* its tasks is in the layer just before.
LEMMA VisitStep ==
    ASSUME IInv, Layered, WellFormed, Visited, VisitLayer
    PROVE  Visited'
<1>1. PICK k \in DOMAIN layers :
        /\ layers[k] \cap currentLayer = {}
        /\ \A j \in 1 .. k - 1 : layers[j] \subseteq currentLayer
        /\ \E best \in [{t \in layers[k] : To(t) # {}} -> dag.edges] :
              LET Longer == DOMAIN best
              IN  /\ \A t \in Longer : best[t] \in Best(t)
                  /\ longestPath' = [t \in DOMAIN longestPath \cup Longer |->
                        IF t \in Longer THEN Length(best[t].from) + 1 ELSE longestPath[t]]
                  /\ pathTo' = [t \in DOMAIN pathTo \cup Longer |->
                        IF t \in Longer THEN Append(pathTo[best[t].from], t) ELSE pathTo[t]]
        /\ currentLayer' = currentLayer \cup layers[k]
  BY DEF VisitLayer
<1> DEFINE Longer == {t \in layers[k] : To(t) # {}}
<1>2. PICK best \in [Longer -> dag.edges] :
        /\ \A t \in Longer : best[t] \in Best(t)
        /\ longestPath' = [t \in DOMAIN longestPath \cup Longer |->
              IF t \in Longer THEN Length(best[t].from) + 1 ELSE longestPath[t]]
        /\ pathTo' = [t \in DOMAIN pathTo \cup Longer |->
              IF t \in Longer THEN Append(pathTo[best[t].from], t) ELSE pathTo[t]]
  <2>1. PICK best \in [Longer -> dag.edges] :
        /\ \A t \in DOMAIN best : best[t] \in Best(t)
        /\ longestPath' = [t \in DOMAIN longestPath \cup DOMAIN best |->
              IF t \in DOMAIN best THEN Length(best[t].from) + 1 ELSE longestPath[t]]
        /\ pathTo' = [t \in DOMAIN pathTo \cup DOMAIN best |->
              IF t \in DOMAIN best THEN Append(pathTo[best[t].from], t) ELSE pathTo[t]]
    BY <1>1, Zenon
  <2>2. DOMAIN best = Longer
    OBVIOUS
  <2> HIDE DEF Longer
  <2> QED BY <2>1, <2>2, Zenon
<1>3. /\ dag' = dag /\ layers' = layers /\ Typed /\ DependenciesFirst
      /\ DOMAIN layers = 1 .. Len(layers) /\ Len(layers) \in Nat
  BY LenProperties DEF VisitLayer, IInv, Typed
<1>4. \A j \in DOMAIN layers : layers[j] \subseteq dag.nodes
  <2>1. Keys = dag.nodes
    BY DEF WellFormed, Keys
  <2> QED BY <1>3, <2>1, ProcessedKnown
<1>5. DOMAIN longestPath' = dag.nodes /\ DOMAIN pathTo' = dag.nodes
  BY <1>1, <1>2, <1>4 DEF Visited
<1>6. \A t : To(t)' = To(t)
  BY <1>3 DEF To
<1>7. \A p, j, t : Chain(p, j, t)' <=> Chain(p, j, t)
  BY <1>3, <1>6 DEF Chain
<1>8. ASSUME NEW t \in dag.nodes, t \notin Longer
      PROVE  longestPath'[t] = longestPath[t] /\ pathTo'[t] = pathTo[t]
  BY <1>2, <1>8 DEF Visited
<1>9. ASSUME NEW t \in layers[k], To(t) # {}
      PROVE  longestPath'[t] = k - 1 /\ Chain(pathTo'[t], k, t)
  <2> DEFINE e == best[t]
  <2>1. /\ longestPath'[t] = Length(e.from) + 1
        /\ pathTo'[t] = Append(pathTo[e.from], t) /\ e \in Best(t)
    BY <1>2, <1>9
  <2>2. e \in To(t) /\ \A f \in To(t) : Length(e.from) >= Length(f.from)
    BY <2>1 DEF Best
  <2> HIDE DEF e
  <2>3. \A f \in To(t) : \E j \in 1 .. k - 1 :
            f.from \in layers[j] /\ Length(f.from) = j - 1 /\ Chain(pathTo[f.from], j, f.from)
    <3> TAKE f \in To(t)
    <3>1. PICK j \in 1 .. k - 1 : f.from \in layers[j]
      BY <1>1, <1>3, <1>9 DEF DependenciesFirst
    <3>2. j \in DOMAIN layers /\ f.from \in layers[j] \cap currentLayer
      BY <1>1, <1>3, <3>1
    <3>3. longestPath[f.from] = j - 1 /\ Chain(pathTo[f.from], j, f.from)
      BY <3>2 DEF Visited
    <3>4. Length(f.from) = j - 1
      BY <1>4, <3>2, <3>3 DEF Length, Visited
    <3> QED BY <3>1, <3>3, <3>4
  <2>4. PICK j \in 1 .. k - 1 : /\ e.from \in layers[j] /\ Length(e.from) = j - 1
                              /\ Chain(pathTo[e.from], j, e.from)
    BY <2>2, <2>3
  <2>5. j = k - 1
    <3>1. k \in DOMAIN layers \ {1} /\ k \in Nat
      BY <1>3, <2>4
    <3>2. PICK f \in To(t) : f.from \in layers[k - 1]
      BY <1>9, <3>1 DEF Layered
    <3>3. PICK i \in 1 .. k - 1 : f.from \in layers[i] /\ Length(f.from) = i - 1
      BY <2>3
    <3>4. i = k - 1
      <4>1. i \in DOMAIN layers /\ k - 1 \in DOMAIN layers
        BY <1>3, <3>1, <3>3
      <4> QED BY <1>3, <3>2, <3>3, <4>1 DEF DependenciesFirst
    <3>5. Length(e.from) >= Length(f.from)
      BY <2>2
    <3> QED BY <2>4, <3>1, <3>3, <3>4, <3>5
  <2>6. Chain(Append(pathTo[e.from], t), k, t)
    <3>1. t \in Task /\ k \in Nat /\ k - 1 \in DOMAIN layers /\ (k - 1) + 1 = k
      BY <1>3, <1>4, <1>9, <2>4, <2>5, GraphFinite
    <3> QED BY <1>3, <1>9, <2>2, <2>4, <2>5, <3>1, LongerChain
  <2> QED BY <1>3, <2>1, <2>4, <2>5, <2>6
<1>10. ASSUME NEW t \in layers[k], To(t) = {}
       PROVE  longestPath'[t] = k - 1 /\ Chain(pathTo'[t], k, t)
  <2>1. k = 1
    BY <1>3, <1>10 DEF Layered
  <2>2. t \in dag.nodes \ currentLayer /\ t \in Task
    BY <1>1, <1>3, <1>4, <1>10, GraphFinite
  <2>3. longestPath'[t] = 0 /\ pathTo'[t] = <<t>>
    BY <1>8, <1>10, <2>2 DEF Visited
  <2>4. Chain(<<t>>, 1, t)
    BY <1>10, <2>1, <2>2 DEF Chain
  <2> QED BY <2>1, <2>3, <2>4
<1>11. ASSUME NEW j \in DOMAIN layers, NEW t \in layers[j] \cap currentLayer'
       PROVE  longestPath'[t] = j - 1 /\ Chain(pathTo'[t], j, t)
  <2>1. CASE t \in layers[k]
    <3>1. j = k
      BY <1>3, <1>11, <2>1 DEF DependenciesFirst
    <3> QED BY <1>9, <1>10, <2>1, <3>1
  <2>2. CASE t \notin layers[k]
    <3>1. t \in layers[j] \cap currentLayer
      BY <1>1, <1>11, <2>2
    <3> QED BY <1>4, <1>8, <2>2, <3>1 DEF Visited
  <2> QED BY <2>1, <2>2
<1>12. \A t \in dag.nodes \ currentLayer' : longestPath'[t] = 0 /\ pathTo'[t] = <<t>>
  BY <1>1, <1>8 DEF Visited
<1> QED BY <1>3, <1>5, <1>7, <1>11, <1>12 DEF Visited

\* A longest chain ends in the last layer.
LEMMA LongestStep ==
    ASSUME IInv, PathInv, WellFormed, PathDone
    PROVE  /\ Len(criticalPath') = Len(layers)
           /\ \A k \in DOMAIN layers : criticalPath'[k] \in layers[k]
           /\ \A k \in DOMAIN layers \ {1} :
                \E e \in To(criticalPath'[k]) : e.from = criticalPath'[k - 1]
<1>1. /\ Visited /\ Layered /\ Typed /\ criticalPath = << >>
      /\ DOMAIN layers = 1 .. Len(layers) /\ Len(layers) \in Nat
      /\ currentLayer = processed /\ pc = "path"
  BY LenProperties DEF PathDone, PathInv, IInv, Typed
<1>2. processed = dag.nodes
  BY <1>1, AllScheduled
<1>3. ASSUME NEW k \in DOMAIN layers, NEW t \in layers[k]
      PROVE  t \in dag.nodes /\ longestPath[t] = k - 1 /\ Chain(pathTo[t], k, t)
  <2>1. t \in processed
    BY <1>1, <1>3, ProcessedKnown
  <2> QED BY <1>1, <1>2, <1>3, <2>1 DEF Visited
<1>4. CASE DOMAIN longestPath = {} /\ UNCHANGED criticalPath
  <2>1. \A k \in DOMAIN layers : layers[k] = {}
    BY <1>1, <1>3, <1>4 DEF Visited
  <2>2. Len(layers) = 0
    BY <1>1, <2>1 DEF Layered
  <2> QED BY <1>1, <1>4, <2>2
<1>5. ASSUME NEW t \in DOMAIN longestPath, criticalPath' = pathTo[t],
             \A u \in DOMAIN longestPath : longestPath[t] >= longestPath[u]
      PROVE  Chain(criticalPath', Len(layers), t)
  <2>1. PICK k \in DOMAIN layers : t \in layers[k]
    BY <1>1, <1>2, <1>5, ProcessedKnown DEF Visited
  <2>2. Len(layers) \in DOMAIN layers
    BY <1>1, <2>1
  <2>3. PICK u : u \in layers[Len(layers)]
    BY <1>1, <2>2 DEF Layered
  <2>4. longestPath[u] = Len(layers) - 1 /\ u \in DOMAIN longestPath
    BY <1>1, <1>3, <2>2, <2>3 DEF Visited
  <2>5. longestPath[t] = k - 1 /\ Chain(pathTo[t], k, t)
    BY <1>3, <2>1
  <2>6. longestPath[t] >= longestPath[u]
    BY <1>5, <2>4
  <2>7. k = Len(layers)
    BY <1>1, <2>1, <2>4, <2>5, <2>6
  <2> QED BY <1>5, <2>5, <2>7
<1>6. ASSUME NEW t, Chain(criticalPath', Len(layers), t)
      PROVE  /\ Len(criticalPath') = Len(layers)
             /\ \A k \in DOMAIN layers : criticalPath'[k] \in layers[k]
             /\ \A k \in DOMAIN layers \ {1} :
                  \E e \in To(criticalPath'[k]) : e.from = criticalPath'[k - 1]
  BY <1>1, <1>6 DEF Chain
<1> QED BY <1>4, <1>5, <1>6 DEF PathDone

LEMMA PathInductive == Spec => []PathInv
<1>1. Init => PathInv
  BY DEF Init, PathInv, Layered, PathSpansTheLayers
<1>2. IInv /\ IInv' /\ PathInv /\ [Next]_vars => PathInv'
  <2> SUFFICES ASSUME IInv, IInv', PathInv, [Next]_vars PROVE PathInv'
    OBVIOUS
  <2>1. Layered'
    BY LayeredStep DEF PathInv
  <2>2. dag' = dag /\ (WellFormed' <=> WellFormed) /\ \A t : To(t)' = To(t)
    <3>1. dag' = dag
      BY DEF Next, Build, ScheduleLayer, LayersDone, VisitLayer, PathDone, vars
    <3> QED BY <3>1 DEF WellFormed, To
  <2>3. CASE Build \/ ScheduleLayer
    BY <2>1, <2>3 DEF Build, ScheduleLayer, PathInv, PathSpansTheLayers
  <2>4. CASE LayersDone
    <3>1. currentLayer' = {} /\ layers' = layers /\ pc' # "ok"
      BY <2>4 DEF LayersDone
    <3>2. Visited'
      BY <2>2, <2>4, <3>1 DEF LayersDone, Visited
    <3>3. criticalPath' = << >>
      BY <2>4 DEF LayersDone, PathInv
    <3> QED BY <2>1, <3>1, <3>2, <3>3 DEF PathInv, PathSpansTheLayers
  <2>5. CASE VisitLayer
    <3>1. pc = "path" /\ pc' = "path" /\ criticalPath' = << >>
      BY <2>5 DEF VisitLayer, PathInv
    <3>2. WellFormed' => Visited'
      BY <2>2, <2>5, <3>1, VisitStep DEF PathInv
    <3> QED BY <2>1, <3>1, <3>2 DEF PathInv, PathSpansTheLayers
  <2>6. CASE PathDone
    <3>1. pc' = "ok" /\ layers' = layers
      BY <2>6 DEF PathDone
    <3>2. PathSpansTheLayers'
      BY <2>2, <2>6, <3>1, LongestStep DEF PathSpansTheLayers
    <3> QED BY <2>1, <3>1, <3>2 DEF PathInv
  <2>7. CASE UNCHANGED vars
    <3>1. (Visited <=> Visited') /\ (PathSpansTheLayers <=> PathSpansTheLayers')
      BY <2>2, <2>7 DEF vars, Visited, Chain, PathSpansTheLayers
    <3> QED BY <2>1, <2>2, <2>7, <3>1 DEF vars, PathInv
  <2> QED BY <2>3, <2>4, <2>5, <2>6, <2>7 DEF Next
<1> QED BY <1>1, <1>2, Inductive, PTL DEF Spec

\* Of a well-formed graph the critical path takes one task of every layer, each
\* waiting for the one before: computeCriticalPath finds that the schedule
\* cannot be shorter.
THEOREM CriticalPathSpans == Spec => []PathSpansTheLayers
<1>1. PathInv => PathSpansTheLayers
  BY DEF PathInv
<1> QED BY <1>1, PathInductive, PTL
=============================================================================
