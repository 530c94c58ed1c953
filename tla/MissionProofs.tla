--------------------------- MODULE MissionProofs ----------------------------
(***************************************************************************)
(* Proofs about the mission aggregate and those who hold it.               *)
(*                                                                         *)
(* The record: an invariant that every command keeps, and what a command   *)
(* does to its status, its version and a record that is final.             *)
(*                                                                         *)
(* Mission: everything an invariant says is about the one record, so that  *)
(* the inductive invariant is the one of the record.                       *)
(*                                                                         *)
(* MissionStore: what is stored keeps the invariant of the record however  *)
(* many writers there are, the creator's reply can be relied on, no writer *)
(* undoes what another has decided, and the store implements               *)
(* VersionedStatus.  The heart of it is what a session knows of the store: *)
(* its version is not ahead, and while the two agree, what it is about to  *)
(* save is one step away, and undoes nothing.                              *)
(***************************************************************************)
EXTENDS Mission, MissionStore, TLAPS

-----------------------------------------------------------------------------
(* The record                                                              *)

\* The work done is work of the DAG, and none is done, and no DAG is there,
\* before one is attached.
WorkInv(m) ==
    /\ m.completed \subseteq m.dag.nodes
    /\ m.status \in {"PENDING", "PLANNING"} =>
            m.completed = {} /\ m.spent = 0 /\ m.dag = NoDAG
    /\ m.status \in {"VERIFYING", "COMPLETED"} =>
            /\ Cardinality(m.completed) = m.dag.totalTasks
            /\ m.spent <= m.budget.maxCostUsd

\* Only gates that were announced get resolved, the events name gates that
\* exist, and what is announced and unresolved is what blocks the mission.
GateInv(m) ==
    /\ Resolved(m) \subseteq m.announced
    /\ m.announced \subseteq DOMAIN m.gates
    /\ m.status \notin {"HUMAN_GATE", "FAILED"} => m.announced = Resolved(m)
    /\ m.status = "HUMAN_GATE" =>
            \E i \in m.announced : m.announced \ Resolved(m) = {i}

MissionInv(m) == m \in Mission /\ WorkInv(m) /\ GateInv(m)

-----------------------------------------------------------------------------
(* Types.  The record type is closed under the helpers, hence under every  *)
(* command.                                                                *)

\* What the fields of a well-formed record are.
LEMMA Fields ==
    ASSUME NEW m \in Mission
    PROVE  /\ m.status \in Status /\ m.version \in Nat /\ m.budget \in Budget
           /\ m.dag \in DAG /\ m.completed \subseteq Task /\ m.spent \in Nat
           /\ m.gates \in Seq(HumanGate) /\ m.started \in BOOLEAN
           /\ m.events \subseteq Event /\ m.announced \subseteq Nat
BY DEF Mission

\* Replacing fields by values of their types keeps the record well formed.
LEMMA Update ==
    ASSUME NEW m \in Mission
    PROVE  /\ \A s \in Status, n \in Nat :
                  [m EXCEPT !.status = s, !.version = n] \in Mission
           /\ \A e \in SUBSET Event : [m EXCEPT !.events = e] \in Mission
           /\ \A b \in BOOLEAN : [m EXCEPT !.started = b] \in Mission
           /\ \A d \in DAG : [m EXCEPT !.dag = d] \in Mission
           /\ \A g \in Seq(HumanGate) : [m EXCEPT !.gates = g] \in Mission
           /\ \A n \in SUBSET Nat : [m EXCEPT !.announced = n] \in Mission
           /\ \A d \in SUBSET Task, n \in Nat :
                  [m EXCEPT !.completed = d, !.spent = n] \in Mission
BY DEF Mission

\* A status change keeps the record well formed if the callback's writes do.
LEMMA TransitionType ==
    ASSUME NEW m \in Mission, NEW to \in Status, NEW done \in Mission
    PROVE  transition(m, to, done) \in Mission
<1>1. m.version + 1 \in Nat
  BY Fields
<1> QED BY <1>1, Update DEF transition

\* Raising an event of a known type keeps the record well formed.
LEMMA EventType ==
    ASSUME NEW m \in Mission, NEW e \in Event
    PROVE  addDomainEvent(m, e) \in Mission
<1>1. m.events \cup {e} \in SUBSET Event
  BY Fields
<1> QED BY <1>1, Update DEF addDomainEvent

\* openHumanGate returns a well-formed record, whether it succeeds or not.
LEMMA OpenHumanGateType ==
    ASSUME NEW m \in Mission, NEW reason \in Reason
    PROVE  openHumanGate(m, reason) \in Mission
<1> DEFINE gates == Append(m.gates, [reason |-> reason, resolved |-> FALSE])
           g == [m EXCEPT !.gates = gates]
           ann == g.announced \cup {Len(g.gates)}
           a == [g EXCEPT !.announced = ann]
<1>1. gates \in Seq(HumanGate)
  <2>1. [reason |-> reason, resolved |-> FALSE] \in HumanGate
    BY DEF HumanGate
  <2> QED BY <2>1, Fields
<1>2. g \in Mission
  <2> HIDE DEF gates
  <2> QED BY <1>1, Update
<1>3. ann \in SUBSET Nat
  <2> HIDE DEF g
  <2> QED BY <1>2, Fields
<1>4. a \in Mission
  <2> HIDE DEF g, ann
  <2> QED BY <1>2, <1>3, Update
<1>5. addDomainEvent(a, "MissionHumanGateOpened") \in Mission
  <2> HIDE DEF a
  <2> QED BY <1>4, EventType DEF Event
<1> QED BY <1>2, <1>5, TransitionType DEF openHumanGate, Status

\* resolveHumanGate returns a well-formed record.
LEMMA ResolveHumanGateType ==
    ASSUME NEW m \in Mission, NEW i
    PROVE  resolveHumanGate(m, i) \in Mission
<1> DEFINE gate == [m.gates[i] EXCEPT !.resolved = TRUE]
           gates == [m.gates EXCEPT ![i] = gate]
           r == [m EXCEPT !.gates = gates]
<1>1. ASSUME i \in DOMAIN m.gates
      PROVE  r \in Mission
  <2>1. m.gates \in Seq(HumanGate) /\ m.gates[i] \in HumanGate
    BY <1>1, Fields
  <2>2. gate \in HumanGate
    BY <2>1 DEF HumanGate
  <2>3. gates \in Seq(HumanGate)
    <3> HIDE DEF gate
    <3> QED BY <1>1, <2>1, <2>2
  <2> HIDE DEF gates
  <2> QED BY <2>3, Update
<1> QED BY <1>1, TransitionType DEF resolveHumanGate, Status

\* completeTask returns a well-formed record.
LEMMA CompleteTaskType ==
    ASSUME NEW m \in Mission, NEW t \in Task, NEW usd \in Nat, NEW h \in Nat
    PROVE  completeTask(m, t, usd, h) \in Mission
<1> DEFINE tasks == m.completed \cup {t}
           usd2 == m.spent + usd
           d == [m EXCEPT !.completed = tasks, !.spent = usd2]
           c == addDomainEvent(d, "MissionTaskCompleted")
<1>1. tasks \in SUBSET Task /\ usd2 \in Nat
  BY Fields
<1>2. d \in Mission
  <2> HIDE DEF tasks, usd2
  <2> QED BY <1>1, Update
<1>3. c \in Mission
  <2> HIDE DEF d
  <2> QED BY <1>2, EventType DEF Event
<1>4. openHumanGate(c, "BUDGET_EXCEEDED") \in Mission
  <2> HIDE DEF c
  <2> QED BY <1>3, OpenHumanGateType DEF Reason
<1>5. transition(c, "VERIFYING", c) \in Mission
  <2> HIDE DEF c
  <2> QED BY <1>3, TransitionType DEF Status
<1> QED BY <1>3, <1>4, <1>5 DEF completeTask

-----------------------------------------------------------------------------
(* The invariant.  A status change that succeeds keeps it if the record    *)
(* the callback wrote satisfies what the new status asks for.              *)

LEMMA CreateInv ==
    ASSUME NEW b \in Budget
    PROVE  MissionInv(create(b))
<1>1. NoDAG \in DAG
  BY DEF NoDAG, DAG
<1> QED BY <1>1 DEF create, MissionInv, Mission, WorkInv, GateInv, Resolved,
        Status, Event, NoDAG

\* The commands that only move the status and raise an event.
LEMMA PlainCommandInv ==
    ASSUME NEW m, MissionInv(m)
    PROVE  /\ MissionInv(startPlanning(m))
           /\ MissionInv(pause(m))
           /\ MissionInv(fail(m))
           /\ MissionInv(complete(m))
<1> USE DEF MissionInv
<1>0. m \in Mission /\ WorkInv(m) /\ GateInv(m) /\ m.status \in Status
  BY Fields
<1>1. MissionInv(startPlanning(m))
  <2> DEFINE s == [m EXCEPT !.started = TRUE]
  <2>1. s \in Mission
    BY Update
  <2>2. startPlanning(m) \in Mission
    <3> HIDE DEF s
    <3>1. addDomainEvent(s, "MissionStarted") \in Mission
      BY <2>1, EventType DEF Event
    <3> QED BY <3>1, TransitionType DEF startPlanning, Status, s
  <2>3. WorkInv(startPlanning(m)) /\ GateInv(startPlanning(m))
    BY <1>0 DEF startPlanning, transition, addDomainEvent, canTransition,
       MISSION_TRANSITIONS, WorkInv, GateInv, Resolved, Status, Mission
  <2> QED BY <2>2, <2>3
<1>2. MissionInv(pause(m))
  <2>1. pause(m) \in Mission
    BY EventType, TransitionType DEF pause, Status, Event
  <2>2. WorkInv(pause(m)) /\ GateInv(pause(m))
    BY <1>0 DEF pause, transition, addDomainEvent, canTransition,
       MISSION_TRANSITIONS, WorkInv, GateInv, Resolved, Status, Mission
  <2> QED BY <2>1, <2>2
<1>3. MissionInv(fail(m))
  <2>1. fail(m) \in Mission
    BY EventType, TransitionType DEF fail, Status, Event
  <2>2. WorkInv(fail(m)) /\ GateInv(fail(m))
    BY <1>0 DEF fail, transition, addDomainEvent, canTransition,
       MISSION_TRANSITIONS, WorkInv, GateInv, Resolved, Status, Mission
  <2> QED BY <2>1, <2>2
<1>4. MissionInv(complete(m))
  <2>1. complete(m) \in Mission
    BY EventType, TransitionType DEF complete, Status, Event
  <2>2. WorkInv(complete(m)) /\ GateInv(complete(m))
    BY <1>0 DEF complete, transition, addDomainEvent, canTransition,
       MISSION_TRANSITIONS, WorkInv, GateInv, Resolved, Status, Mission
  <2> QED BY <2>1, <2>2
<1> QED BY <1>1, <1>2, <1>3, <1>4

\* Attaching a DAG: nothing has been done yet, so the work done is work of it.
LEMMA AttachDAGInv ==
    ASSUME NEW m, MissionInv(m), NEW dag \in DAG
    PROVE  MissionInv(attachDAG(m, dag))
<1> USE DEF MissionInv
<1> DEFINE d == [m EXCEPT !.dag = dag]
<1>1. m \in Mission /\ WorkInv(m) /\ GateInv(m)
  OBVIOUS
<1>2. attachDAG(m, dag) \in Mission
  <2>1. d \in Mission
    BY <1>1, Update
  <2>2. transition(d, "EXECUTING", d) \in Mission
    <3> HIDE DEF d
    <3> QED BY <2>1, TransitionType DEF Status
  <2> QED BY <1>1, <2>2 DEF attachDAG
<1>3. WorkInv(attachDAG(m, dag)) /\ GateInv(attachDAG(m, dag))
  BY <1>1 DEF attachDAG, transition, canTransition, MISSION_TRANSITIONS,
     WorkInv, GateInv, Resolved, Status, Mission
<1> QED BY <1>2, <1>3

\* What openHumanGate does to the gates: a new one at the end, unresolved; it
\* is announced exactly when the status change succeeds.
LEMMA OpenHumanGateEffect ==
    ASSUME NEW m \in Mission, NEW reason, NEW o, o = openHumanGate(m, reason),
           NEW n, n = Len(m.gates) + 1
    PROVE  /\ DOMAIN o.gates = (DOMAIN m.gates) \cup {n}
           /\ n \notin DOMAIN m.gates
           /\ \A i \in DOMAIN m.gates : o.gates[i] = m.gates[i]
           /\ Resolved(o) = Resolved(m)
           /\ n \notin Resolved(o)
           /\ o.dag = m.dag
           /\ IF m.status \in {"EXECUTING", "VERIFYING"}
              THEN /\ o.status = "HUMAN_GATE" /\ o.version = m.version + 1
                   /\ o.announced = m.announced \cup {n}
              ELSE /\ o.status = m.status /\ o.version = m.version
                   /\ o.announced = m.announced
<1>1. m.gates \in Seq(HumanGate)
  BY Fields
<1>2. /\ DOMAIN o.gates = (DOMAIN m.gates) \cup {n}
      /\ n \notin DOMAIN m.gates
      /\ \A i \in DOMAIN m.gates : o.gates[i] = m.gates[i]
      /\ ~o.gates[n].resolved
      /\ Len(Append(m.gates, [reason |-> reason, resolved |-> FALSE])) = n
  BY <1>1 DEF openHumanGate, transition, addDomainEvent, Mission
<1>3. Resolved(o) = Resolved(m) /\ n \notin Resolved(o)
  BY <1>2 DEF Resolved
<1>4. o.dag = m.dag
  BY DEF openHumanGate, transition, addDomainEvent, Mission
<1>5. IF m.status \in {"EXECUTING", "VERIFYING"}
      THEN /\ o.status = "HUMAN_GATE" /\ o.version = m.version + 1
           /\ o.announced = m.announced \cup {n}
      ELSE /\ o.status = m.status /\ o.version = m.version
           /\ o.announced = m.announced
  BY <1>1, <1>2 DEF openHumanGate, transition, addDomainEvent, canTransition,
     MISSION_TRANSITIONS, Status, Mission
<1> QED BY <1>2, <1>3, <1>4, <1>5

\* Opening a gate keeps the invariant: before it nothing announced was open.
LEMMA OpenHumanGateInv ==
    ASSUME NEW m, MissionInv(m), NEW reason \in Reason
    PROVE  MissionInv(openHumanGate(m, reason))
<1> USE DEF MissionInv
<1> DEFINE o == openHumanGate(m, reason)
           n == Len(m.gates) + 1
<1>1. m \in Mission /\ WorkInv(m) /\ GateInv(m)
  OBVIOUS
<1>2. o \in Mission
  BY OpenHumanGateType
<1>3. WorkInv(o)
  BY <1>1 DEF openHumanGate, transition, addDomainEvent, canTransition,
     MISSION_TRANSITIONS, WorkInv, Status, Mission
<1>4. GateInv(o)
  <2>1. /\ n \notin DOMAIN m.gates /\ n \in DOMAIN o.gates
        /\ DOMAIN m.gates \subseteq DOMAIN o.gates
        /\ Resolved(o) = Resolved(m) /\ n \notin Resolved(m)
        /\ IF m.status \in {"EXECUTING", "VERIFYING"}
           THEN o.status = "HUMAN_GATE" /\ o.announced = m.announced \cup {n}
           ELSE o.status = m.status /\ o.announced = m.announced
    <3> HIDE DEF o, n
    <3> QED BY <1>1, OpenHumanGateEffect DEF o, n
  <2> HIDE DEF o, n
  <2>2. CASE m.status \in {"EXECUTING", "VERIFYING"}
    <3>1. m.announced = Resolved(m)
      BY <1>1, <2>2 DEF GateInv
    <3>2. o.announced \ Resolved(o) = {n}
      BY <2>1, <2>2, <3>1
    <3> QED BY <1>1, <2>1, <2>2, <3>2 DEF GateInv
  <2>3. CASE m.status \notin {"EXECUTING", "VERIFYING"}
    BY <1>1, <2>1, <2>3 DEF GateInv
  <2> QED BY <2>2, <2>3
<1> QED BY <1>2, <1>3, <1>4

\* What resolveHumanGate does to the gates: the gate it is asked for is
\* resolved and nothing else of the list changes.
LEMMA ResolveHumanGateEffect ==
    ASSUME NEW m \in Mission, NEW i \in DOMAIN m.gates, i \notin Resolved(m),
           NEW o, o = resolveHumanGate(m, i)
    PROVE  /\ DOMAIN o.gates = DOMAIN m.gates
           /\ \A j \in DOMAIN m.gates : o.gates[j].reason = m.gates[j].reason
           /\ Resolved(o) = Resolved(m) \cup {i}
           /\ o.announced = m.announced /\ o.dag = m.dag
           /\ m.status = "HUMAN_GATE" =>
                    o.status = "EXECUTING" /\ o.version = m.version + 1
           /\ m.status = "FAILED" => o.status = "FAILED"
<1>1. m.gates \in Seq(HumanGate) /\ m.gates[i] \in HumanGate /\ ~m.gates[i].resolved
  BY Fields DEF Resolved
<1>2. /\ o.gates = [m.gates EXCEPT ![i] = [m.gates[i] EXCEPT !.resolved = TRUE]]
      /\ o.announced = m.announced /\ o.dag = m.dag
  BY <1>1 DEF resolveHumanGate, transition, Mission
<1>3. /\ DOMAIN o.gates = DOMAIN m.gates
      /\ o.gates[i].resolved /\ o.gates[i].reason = m.gates[i].reason
      /\ \A j \in DOMAIN m.gates : j # i => o.gates[j] = m.gates[j]
  BY <1>1, <1>2 DEF HumanGate
<1>4. Resolved(o) = Resolved(m) \cup {i}
  BY <1>3 DEF Resolved
<1>5. /\ m.status = "HUMAN_GATE" =>
            o.status = "EXECUTING" /\ o.version = m.version + 1
      /\ m.status = "FAILED" => o.status = "FAILED"
  BY <1>1 DEF resolveHumanGate, transition, canTransition,
     MISSION_TRANSITIONS, Status, Mission
<1> QED BY <1>2, <1>3, <1>4, <1>5

\* Resolving an announced gate.  It was open only if it is the one the
\* mission is blocked by, so after it nothing announced is open.
LEMMA ResolveHumanGateInv ==
    ASSUME NEW m, MissionInv(m), NEW i \in m.announced
    PROVE  MissionInv(resolveHumanGate(m, i))
<1> USE DEF MissionInv
<1> DEFINE o == resolveHumanGate(m, i)
<1>1. m \in Mission /\ WorkInv(m) /\ GateInv(m) /\ i \in DOMAIN m.gates
  BY DEF GateInv
<1>2. o \in Mission
  BY ResolveHumanGateType
<1>3. WorkInv(o)
  BY <1>1 DEF resolveHumanGate, transition, canTransition,
     MISSION_TRANSITIONS, WorkInv, Status, Mission
<1>4. CASE i \in Resolved(m)
  BY <1>1, <1>4 DEF resolveHumanGate, Resolved
<1>5. CASE i \notin Resolved(m)
  <2>1. m.status \in {"HUMAN_GATE", "FAILED"}
    BY <1>1, <1>5 DEF GateInv
  <2>2. /\ DOMAIN o.gates = DOMAIN m.gates /\ o.announced = m.announced
        /\ Resolved(o) = Resolved(m) \cup {i}
        /\ m.status = "HUMAN_GATE" => o.status = "EXECUTING"
        /\ m.status = "FAILED" => o.status = "FAILED"
    <3> HIDE DEF o
    <3> QED BY <1>1, <1>5, ResolveHumanGateEffect DEF o
  <2> HIDE DEF o
  <2>3. m.status = "HUMAN_GATE" => m.announced = Resolved(o)
    BY <1>1, <1>5, <2>2 DEF GateInv
  <2>4. GateInv(o)
    BY <1>1, <2>1, <2>2, <2>3 DEF GateInv
  <2> QED BY <1>2, <1>3, <2>4 DEF o
<1> QED BY <1>4, <1>5

\* Writing the task and its cost into a mission that is executing.
LEMMA CompletedTaskInv ==
    ASSUME NEW m, MissionInv(m), NEW t \in m.dag.nodes, NEW usd \in Nat,
           m.status = "EXECUTING"
    PROVE  MissionInv(addDomainEvent([m EXCEPT !.completed = @ \cup {t},
                                               !.spent = @ + usd],
                                     "MissionTaskCompleted"))
<1> DEFINE tasks == m.completed \cup {t}
           usd2 == m.spent + usd
           d == [m EXCEPT !.completed = tasks, !.spent = usd2]
           c == addDomainEvent(d, "MissionTaskCompleted")
<1>1. m \in Mission /\ WorkInv(m) /\ GateInv(m)
  BY DEF MissionInv
<1>2. tasks \in SUBSET Task /\ usd2 \in Nat
  BY <1>1, Fields DEF DAG
<1>3. d \in Mission
  <2> HIDE DEF tasks, usd2
  <2> QED BY <1>1, <1>2, Update
<1>4. c \in Mission
  <2> HIDE DEF d
  <2> QED BY <1>3, EventType DEF Event
<1>5. WorkInv(c) /\ GateInv(c)
  BY <1>1 DEF addDomainEvent, WorkInv, GateInv, Resolved, Mission
<1> QED BY <1>4, <1>5 DEF MissionInv

\* Completing a task.  Verification is reached only when as many tasks of the
\* DAG are done as it says there are, and within the budget.
LEMMA CompleteTaskInv ==
    ASSUME NEW m, MissionInv(m), NEW t \in Task, NEW usd \in Nat, NEW h \in Nat
    PROVE  MissionInv(completeTask(m, t, usd, h))
<1> USE DEF MissionInv
<1> DEFINE d == [m EXCEPT !.completed = @ \cup {t}, !.spent = @ + usd]
           c == addDomainEvent(d, "MissionTaskCompleted")
<1>1. m \in Mission /\ WorkInv(m) /\ GateInv(m)
  OBVIOUS
<1>2. CASE m.status # "EXECUTING" \/ t \notin m.dag.nodes
  BY <1>2 DEF completeTask
<1>3. CASE m.status = "EXECUTING" /\ t \in m.dag.nodes
  <2>1. MissionInv(c)
    BY <1>3, CompletedTaskInv
  <2>2. MissionInv(openHumanGate(c, "BUDGET_EXCEEDED"))
    <3> HIDE DEF c
    <3> QED BY <2>1, OpenHumanGateInv DEF Reason
  <2>3. ASSUME ~isExceeded(c.budget, c.spent, h),
               Cardinality(c.completed) = c.dag.totalTasks
        PROVE  MissionInv(transition(c, "VERIFYING", c))
    <3> HIDE DEF c
    <3>1. c \in Mission /\ WorkInv(c) /\ GateInv(c)
      BY <2>1
    <3>2. Cardinality(c.completed) = c.dag.totalTasks
      BY <2>3
    <3>3. c.spent <= c.budget.maxCostUsd
      BY <2>3, <3>1, Fields DEF isExceeded, Budget
    <3>4. transition(c, "VERIFYING", c) \in Mission
      BY <3>1, TransitionType DEF Status
    <3>5. WorkInv(transition(c, "VERIFYING", c))
      BY <3>1, <3>2, <3>3 DEF transition, WorkInv, Mission
    <3>6. c.status = "EXECUTING"
      BY <1>3, <1>1 DEF c, addDomainEvent, Mission
    <3>7. GateInv(transition(c, "VERIFYING", c))
      BY <3>1, <3>6 DEF transition, GateInv, Resolved, Mission, canTransition,
         MISSION_TRANSITIONS
    <3> QED BY <3>4, <3>5, <3>7
  <2> QED BY <1>3, <2>1, <2>2, <2>3 DEF completeTask
<1> QED BY <1>2, <1>3

-----------------------------------------------------------------------------
(* Steps.  What any command may make of a record m, apart from its work.   *)

Kept(m, o) == \A f \in {"status", "version", "dag", "completed", "spent",
                        "events", "announced"} : o[f] = m[f]

Moves(m, o) == IF o.status = m.status
               THEN o.version = m.version
               ELSE o.version = m.version + 1 /\ canTransition(m.status, o.status)

Step(m, o) == (m.status \in Terminal => Kept(m, o)) /\ Moves(m, o)

\* Each command moves the status along the table and the version with it,
\* and leaves a final record as it was, its list of gates apart.
LEMMA CommandSteps ==
    ASSUME NEW m \in Mission
    PROVE  /\ Step(m, m)
           /\ Step(m, startPlanning(m)) /\ Step(m, pause(m))
           /\ Step(m, fail(m)) /\ Step(m, complete(m))
           /\ \A dag : Step(m, attachDAG(m, dag))
           /\ \A reason : Step(m, openHumanGate(m, reason))
           /\ \A i : Step(m, resolveHumanGate(m, i))
           /\ \A t, usd, h : Step(m, completeTask(m, t, usd, h))
<1> USE DEF transition, addDomainEvent, canTransition, MISSION_TRANSITIONS,
            Terminal, Step, Kept, Moves, Mission, Status
<1>1. Step(m, m)
  OBVIOUS
<1>2. Step(m, startPlanning(m))
  BY DEF startPlanning
<1>3. Step(m, pause(m))
  BY DEF pause
<1>4. Step(m, fail(m))
  BY DEF fail
<1>5. Step(m, complete(m))
  BY DEF complete
<1>6. ASSUME NEW dag PROVE Step(m, attachDAG(m, dag))
  BY DEF attachDAG
<1>7. ASSUME NEW reason PROVE Step(m, openHumanGate(m, reason))
  BY DEF openHumanGate
<1>8. ASSUME NEW i PROVE Step(m, resolveHumanGate(m, i))
  BY DEF resolveHumanGate
<1>9. ASSUME NEW t, NEW usd, NEW h PROVE Step(m, completeTask(m, t, usd, h))
  BY DEF completeTask, openHumanGate
<1> HIDE DEF Step
<1> QED BY <1>1, <1>2, <1>3, <1>4, <1>5, <1>6, <1>7, <1>8, <1>9

-----------------------------------------------------------------------------
(* Mission: one aggregate, any caller                                      *)

IInv == MissionInv(mission) /\ elapsed \in Nat

\* The inductive invariant holds initially and no command breaks it.
LEMMA Inductive == Spec => []IInv
<1>1. Init => IInv
  <2> SUFFICES ASSUME NEW b \in Budgets, mission = create(b), elapsed = 0
               PROVE  IInv
    BY DEF Init
  <2> QED BY CreateInv, CallerAssumption DEF IInv
<1>2. IInv /\ [Next]_vars => IInv'
  <2> SUFFICES ASSUME MissionInv(mission), elapsed \in Nat, [Next]_vars
               PROVE  MissionInv(mission') /\ elapsed' \in Nat
    BY DEF IInv, MissionInv, WorkInv, GateInv, Resolved
  <2>1. CASE StartPlanning \/ Pause \/ Fail \/ Complete
    BY <2>1, PlainCommandInv DEF StartPlanning, Pause, Fail, Complete
  <2>2. ASSUME NEW dag \in DAGs, AttachDAG(dag)
        PROVE  MissionInv(mission') /\ elapsed' \in Nat
    <3>1. dag \in DAG
      BY CallerAssumption
    <3> QED BY <2>2, <3>1, AttachDAGInv DEF AttachDAG
  <2>3. ASSUME NEW task \in Task, NEW usd \in Cost, CompleteTask(task, usd)
        PROVE  MissionInv(mission') /\ elapsed' \in Nat
    <3>1. usd \in Nat
      BY CallerAssumption
    <3> QED BY <2>3, <3>1, CompleteTaskInv DEF CompleteTask
  <2>4. CASE OpenHumanGate
    BY <2>4, OpenHumanGateInv DEF OpenHumanGate, Reason
  <2>5. ASSUME NEW i \in mission.announced, ResolveHumanGate(i)
        PROVE  MissionInv(mission') /\ elapsed' \in Nat
    BY <2>5, ResolveHumanGateInv DEF ResolveHumanGate
  <2>6. CASE Tick
    BY <2>6 DEF Tick
  <2>7. CASE UNCHANGED vars
    BY <2>7 DEF vars
  <2> QED BY <2>1, <2>2, <2>3, <2>4, <2>5, <2>6, <2>7 DEF Next
<1> QED BY <1>1, <1>2, PTL DEF Spec

\* The aggregate's record is always well formed.
THEOREM TypeCorrect == Spec => []TypeOK
<1>1. IInv => TypeOK
  BY DEF IInv, MissionInv, TypeOK
<1> QED BY <1>1, Inductive, PTL

\* Nothing reaches verification over budget, or before as many different
\* tasks of its DAG are done as the DAG says there are.
THEOREM VerificationIsEarned == Spec => []VerifiedWithinBudget
<1>1. IInv => VerifiedWithinBudget
  BY DEF IInv, MissionInv, WorkInv, VerifiedWithinBudget
<1> QED BY <1>1, Inductive, PTL

\* Nothing proceeds past a gate that stopped it and was not resolved.
THEOREM GatesHold == Spec => []NoProceedingPastAnOpenGate
<1>1. IInv => NoProceedingPastAnOpenGate
  BY DEF IInv, MissionInv, GateInv, NoProceedingPastAnOpenGate
<1> QED BY <1>1, Inductive, PTL

\* A blocked mission is blocked by exactly one open, announced gate.
THEOREM OneDecisionIsEnough == Spec => []BlockedByOneOpenGate
<1>1. IInv => BlockedByOneOpenGate
  BY DEF IInv, MissionInv, GateInv, BlockedByOneOpenGate
<1> QED BY <1>1, Inductive, PTL

\* A step of the specification does to the record what a command does.
LEMMA MissionSteps ==
    ASSUME IInv, [Next]_vars
    PROVE  Step(mission, mission')
<1>1. mission \in Mission
  BY DEF IInv, MissionInv
<1>2. CASE StartPlanning \/ Pause \/ Fail \/ Complete \/ OpenHumanGate
  BY <1>1, <1>2, CommandSteps DEF StartPlanning, Pause, Fail, Complete, OpenHumanGate
<1>3. ASSUME NEW dag \in DAGs, AttachDAG(dag)
      PROVE  Step(mission, mission')
  BY <1>1, <1>3, CommandSteps DEF AttachDAG
<1>4. ASSUME NEW task \in Task, NEW usd \in Cost, CompleteTask(task, usd)
      PROVE  Step(mission, mission')
  BY <1>1, <1>4, CommandSteps DEF CompleteTask
<1>5. ASSUME NEW i \in mission.announced, ResolveHumanGate(i)
      PROVE  Step(mission, mission')
  BY <1>1, <1>5, CommandSteps DEF ResolveHumanGate
<1>6. CASE Tick \/ UNCHANGED vars
  BY <1>1, <1>6, CommandSteps DEF Tick, vars
<1> QED BY <1>2, <1>3, <1>4, <1>5, <1>6 DEF Next

\* COMPLETED and FAILED are final.
THEOREM TerminalStaysFinal == Spec => TerminalIsFinal
<1>1. IInv /\ [Next]_vars =>
        [mission.status \in Terminal =>
           \A f \in {"status", "version", "dag", "completed", "spent", "events",
                     "announced"} : mission'[f] = mission[f]]_vars
  BY MissionSteps DEF Step, Kept, Moves
<1> QED BY <1>1, Inductive, PTL DEF Spec, TerminalIsFinal

\* The version counts status changes, each of them one of the table's.
THEOREM VersionTracksStatus == Spec => VersionCountsTransitions
<1>1. IInv /\ [Next]_vars =>
        [IF mission'.status = mission.status
         THEN mission'.version = mission.version
         ELSE /\ mission'.version = mission.version + 1
              /\ canTransition(mission.status, mission'.status)]_vars
  BY MissionSteps DEF Step, Kept, Moves
<1> QED BY <1>1, Inductive, PTL DEF Spec, VersionCountsTransitions

\* Going over budget stops the mission at a new, unresolved gate.
THEOREM OverspendStops == Spec => BudgetStopsMission
<1> DEFINE Over == /\ \E task \in Task : \E usd \in Cost : CompleteTask(task, usd)
                   /\ mission'.spent > mission.spent
                   /\ \/ mission'.spent > mission.budget.maxCostUsd
                      \/ elapsed > mission.budget.maxDurationHours
           Stopped == /\ mission'.status = "HUMAN_GATE"
                      /\ mission'.gates = Append(mission.gates,
                            [reason |-> "BUDGET_EXCEEDED", resolved |-> FALSE])
<1>1. IInv /\ [Next]_vars => [Over => Stopped]_vars
  <2> SUFFICES ASSUME IInv, Over PROVE Stopped
    OBVIOUS
  <2>1. PICK task \in Task, usd \in Cost : CompleteTask(task, usd)
    OBVIOUS
  <2>2. mission \in Mission /\ mission.spent \in Nat
    BY Fields DEF IInv, MissionInv
  <2>3. ~(mission.status # "EXECUTING" \/ task \notin mission.dag.nodes)
    BY <2>1, <2>2 DEF CompleteTask, completeTask
  <2> DEFINE c == addDomainEvent([mission EXCEPT !.completed = @ \cup {task},
                                                 !.spent = @ + usd],
                                 "MissionTaskCompleted")
  <2>4. /\ c.budget = mission.budget /\ c.spent = mission.spent + usd
        /\ c.gates = mission.gates /\ c.status = "EXECUTING"
    BY <2>2, <2>3 DEF addDomainEvent, Mission
  <2>5. mission'.spent = c.spent
    <3>1. \/ mission' = c
          \/ mission' = openHumanGate(c, "BUDGET_EXCEEDED")
          \/ mission' = transition(c, "VERIFYING", c)
      <4> HIDE DEF c
      <4> QED BY <2>1, <2>3 DEF CompleteTask, completeTask, c
    <3>2. transition(c, "VERIFYING", c).spent = c.spent
      BY <2>2 DEF transition, addDomainEvent, Mission
    <3>3. openHumanGate(c, "BUDGET_EXCEEDED").spent = c.spent
      BY <2>2 DEF openHumanGate, transition, addDomainEvent, Mission
    <3> QED BY <3>1, <3>2, <3>3
  <2>6. isExceeded(c.budget, c.spent, elapsed)
    <3> HIDE DEF c
    <3> QED BY <2>4, <2>5 DEF isExceeded
  <2>7. mission' = openHumanGate(c, "BUDGET_EXCEEDED")
    <3> HIDE DEF c
    <3> QED BY <2>1, <2>3, <2>4, <2>6 DEF CompleteTask, completeTask, c
  <2> QED BY <2>2, <2>4, <2>7 DEF openHumanGate, transition, addDomainEvent,
          canTransition, MISSION_TRANSITIONS, Mission
<1> QED BY <1>1, Inductive, PTL DEF Spec, BudgetStopsMission

-----------------------------------------------------------------------------
(* MissionStore: the creation handler and concurrent writers               *)

\* What was decided in m still stands in o.
Stands(m, o) ==
    /\ m.dag # NoDAG => o.dag = m.dag
    /\ \A i \in m.announced :
        /\ i \in o.announced
        /\ o.gates[i].reason = m.gates[i].reason
        /\ i \in Resolved(m) /\ m.status # "FAILED" => i \in Resolved(o)

\* What cannot change from m to o unless the version does.
Frozen(m, o) ==
    o.version = m.version =>
        /\ o.dag = m.dag /\ o.announced = m.announced
        /\ \A i \in m.announced : o.gates[i].reason = m.gates[i].reason
        /\ m.status # "FAILED" => Resolved(o) = Resolved(m)

\* What a command may make of a mission, for those who hold another copy.
Follows(m, o) == Moves(m, o) /\ Stands(m, o) /\ Frozen(m, o)

\* A session s, while m is stored.
Pending(s, m) == /\ s \in Session /\ MissionInv(s.m)
                 /\ s.expected <= m.version
                 /\ s.expected = m.version => Follows(m, s.m)

Stored == store # NoMission => MissionInv(store)

Created == /\ creator.pc \in {"idle", "saving", "publishing",
                              "ok", "failed", "threw", "crashed"}
           /\ creator.m \in Mission \cup {NoMission}
           /\ creator.pc \in {"saving", "publishing"} =>
                    \E b \in Budget : creator.m = create(b)

\* What has been stored and published at each point of the handler.
Reply == /\ creator.pc \in {"idle", "saving"} => store = NoMission
         /\ creator.pc \in {"publishing", "ok"} => store # NoMission
         /\ creator.pc \in {"idle", "saving", "publishing", "failed"} => published = {}
         /\ creator.pc = "ok" => "MissionCreated" \in published
         /\ published # {} => store # NoMission
         /\ published \subseteq Event

Sessions == /\ session \in [Writer -> Session \cup {NoSession}]
            /\ \A w \in Writer : session[w] # NoSession =>
                    store # NoMission /\ Pending(session[w], store)

StoreInv == Stored /\ Created /\ Reply /\ Sessions /\ acked \subseteq Task

-----------------------------------------------------------------------------
\* A mission is not the absence of one, nor a session.
LEMMA Distinct == /\ NoMission \notin Mission /\ NoSession \notin Session
<1>1. ASSUME NoMission \in Mission PROVE FALSE
  <2>1. NoMission.status \in Status
    BY <1>1, Fields
  <2> QED BY <2>1 DEF NoMission, Status
<1>2. ASSUME NoSession \in Session PROVE FALSE
  <2>1. NoSession.expected \in Nat
    BY <1>2 DEF Session
  <2> QED BY <2>1 DEF NoSession
<1> QED BY <1>1, <1>2

\* A command that leaves gates, announcements and DAG alone undoes nothing.
LEMMA SameGatesFollow ==
    ASSUME NEW m, NEW o,
           o.dag = m.dag, o.announced = m.announced, o.gates = m.gates
    PROVE  Stands(m, o) /\ Frozen(m, o)
BY DEF Stands, Frozen, Resolved

\* Opening a gate adds one and undoes nothing, and if it is announced the
\* version shows it.
LEMMA OpenHumanGateFollows ==
    ASSUME NEW m, MissionInv(m), NEW reason
    PROVE  Stands(m, openHumanGate(m, reason)) /\ Frozen(m, openHumanGate(m, reason))
<1> DEFINE o == openHumanGate(m, reason)
           n == Len(m.gates) + 1
<1>1. /\ \A i \in DOMAIN m.gates : o.gates[i] = m.gates[i]
      /\ Resolved(o) = Resolved(m) /\ o.dag = m.dag
      /\ \/ o.version = m.version + 1 /\ o.announced = m.announced \cup {n}
         \/ o.version = m.version /\ o.announced = m.announced
  <2> HIDE DEF o, n
  <2> QED BY OpenHumanGateEffect DEF MissionInv, o, n
<1>2. m.announced \subseteq DOMAIN m.gates /\ m.version \in Nat
  BY Fields DEF MissionInv, GateInv
<1> HIDE DEF o, n
<1>3. Stands(m, o)
  BY <1>1, <1>2 DEF Stands
<1>4. Frozen(m, o)
  BY <1>1, <1>2 DEF Frozen
<1> QED BY <1>3, <1>4 DEF o

\* Resolving an announced gate undoes nothing; unless the mission has failed,
\* a gate that was open is the one the mission waits at, and the version
\* shows that it is resolved.
LEMMA ResolveHumanGateFollows ==
    ASSUME NEW m, MissionInv(m), NEW i \in m.announced
    PROVE  Stands(m, resolveHumanGate(m, i)) /\ Frozen(m, resolveHumanGate(m, i))
<1> DEFINE o == resolveHumanGate(m, i)
<1>1. /\ m \in Mission /\ m.version \in Nat /\ i \in DOMAIN m.gates
      /\ m.announced \subseteq DOMAIN m.gates
  BY Fields DEF MissionInv, GateInv
<1>2. CASE i \in Resolved(m)
  BY <1>1, <1>2, SameGatesFollow DEF resolveHumanGate, Resolved
<1>3. CASE i \notin Resolved(m)
  <2>1. m.status \in {"HUMAN_GATE", "FAILED"}
    BY <1>3 DEF MissionInv, GateInv
  <2>2. /\ \A j \in DOMAIN m.gates : o.gates[j].reason = m.gates[j].reason
        /\ Resolved(o) = Resolved(m) \cup {i}
        /\ o.announced = m.announced /\ o.dag = m.dag
        /\ m.status = "HUMAN_GATE" => o.version = m.version + 1
    <3> HIDE DEF o
    <3> QED BY <1>1, <1>3, ResolveHumanGateEffect DEF o
  <2> HIDE DEF o
  <2>3. Stands(m, o)
    BY <1>1, <2>2 DEF Stands
  <2>4. Frozen(m, o)
    BY <1>1, <2>1, <2>2 DEF Frozen
  <2> QED BY <2>3, <2>4 DEF o
<1> QED BY <1>2, <1>3

\* Completing a task undoes nothing: it is a gate opened or none.
LEMMA CompleteTaskFollows ==
    ASSUME NEW m, MissionInv(m), NEW t \in Task, NEW usd \in Nat, NEW h
    PROVE  /\ Stands(m, completeTask(m, t, usd, h))
           /\ Frozen(m, completeTask(m, t, usd, h))
<1> DEFINE c == addDomainEvent([m EXCEPT !.completed = @ \cup {t}, !.spent = @ + usd],
                               "MissionTaskCompleted")
           g == openHumanGate(c, "BUDGET_EXCEEDED")
           v == transition(c, "VERIFYING", c)
<1>1. /\ c.dag = m.dag /\ c.announced = m.announced /\ c.gates = m.gates
      /\ c.status = m.status /\ c.version = m.version
  BY DEF addDomainEvent, MissionInv, Mission
<1>2. CASE m.status # "EXECUTING" \/ t \notin m.dag.nodes
  BY <1>2, SameGatesFollow DEF completeTask
<1>3. CASE m.status = "EXECUTING" /\ t \in m.dag.nodes
  <2>1. Stands(m, c) /\ Frozen(m, c)
    <3> HIDE DEF c
    <3> QED BY <1>1, SameGatesFollow
  <2>2. Stands(m, v) /\ Frozen(m, v)
    <3>1. v.dag = m.dag /\ v.announced = m.announced /\ v.gates = m.gates
      BY <1>1 DEF transition, addDomainEvent, MissionInv, Mission
    <3> HIDE DEF v
    <3> QED BY <3>1, SameGatesFollow
  <2>3. Stands(m, g) /\ Frozen(m, g)
    <3>1. MissionInv(c)
      BY <1>3, CompletedTaskInv
    <3> HIDE DEF c
    <3>2. Stands(c, g) /\ Frozen(c, g)
      BY <3>1, OpenHumanGateFollows
    <3> HIDE DEF g
    <3>3. Resolved(c) = Resolved(m)
      BY <1>1 DEF Resolved
    <3> QED BY <1>1, <3>2, <3>3 DEF Stands, Frozen
  <2> QED BY <1>3, <2>1, <2>2, <2>3 DEF completeTask
<1> QED BY <1>2, <1>3

\* Whatever command a writer runs on a sound copy, the copy stays sound and
\* is one step away from what was loaded.
LEMMA OutcomesSound ==
    ASSUME NEW m, MissionInv(m), NEW o \in Outcomes(m)
    PROVE  MissionInv(o) /\ Follows(m, o)
<1> DEFINE Ok == MissionInv(o) /\ Follows(m, o)
<1>1. m \in Mission /\ m.version \in Nat
  BY Fields DEF MissionInv
<1>2. CASE o \in {startPlanning(m), pause(m), fail(m), complete(m)}
  <2>1. MissionInv(o) /\ Moves(m, o)
    BY <1>1, <1>2, PlainCommandInv, CommandSteps DEF Step
  <2>2. o.dag = m.dag /\ o.announced = m.announced /\ o.gates = m.gates
    BY <1>1, <1>2 DEF startPlanning, pause, fail, complete, transition,
       addDomainEvent, Mission
  <2> QED BY <2>1, <2>2, SameGatesFollow DEF Follows
<1>3. ASSUME NEW dag \in DAGs, o = attachDAG(m, dag)
      PROVE  Ok
  <2>1. dag \in DAG
    BY CallerAssumption
  <2>2. MissionInv(o) /\ Moves(m, o)
    BY <1>1, <1>3, <2>1, AttachDAGInv, CommandSteps DEF Step
  <2>3. CASE m.status # "PLANNING"
    BY <1>3, <2>2, <2>3, SameGatesFollow DEF attachDAG, Follows
  <2>4. CASE m.status = "PLANNING"
    <3>1. /\ o.version = m.version + 1 /\ o.gates = m.gates
          /\ o.announced = m.announced
      BY <1>1, <1>3, <2>4 DEF attachDAG, transition, canTransition,
         MISSION_TRANSITIONS, Mission
    <3>2. m.dag = NoDAG
      BY <2>4 DEF MissionInv, WorkInv
    <3> QED BY <1>1, <2>2, <3>1, <3>2 DEF Follows, Stands, Frozen, Resolved
  <2> QED BY <2>3, <2>4
<1>4. ASSUME NEW i \in m.announced, o = resolveHumanGate(m, i)
      PROVE  Ok
  BY <1>1, <1>4, ResolveHumanGateInv, ResolveHumanGateFollows, CommandSteps
     DEF Step, Follows
<1>5. CASE o = openHumanGate(m, "OTHER")
  BY <1>1, <1>5, OpenHumanGateInv, OpenHumanGateFollows, CommandSteps
     DEF Step, Follows, Reason
<1>6. ASSUME NEW t \in Task, NEW usd \in Cost, NEW h \in Hours,
             o = completeTask(m, t, usd, h)
      PROVE  Ok
  <2>1. usd \in Nat /\ h \in Nat
    BY CallerAssumption, MissionStoreAssumption
  <2> QED BY <1>1, <1>6, <2>1, CompleteTaskInv, CompleteTaskFollows, CommandSteps
          DEF Step, Follows
<1> QED BY <1>2, <1>3, <1>4, <1>5, <1>6 DEF Outcomes

\* When the stored mission moves by one step, what the other sessions know of
\* it stays true: either their version is behind now, or nothing they rely on
\* has changed.
LEMMA PendingKept ==
    ASSUME NEW m, NEW o, MissionInv(m), MissionInv(o), Follows(m, o),
           NEW s, Pending(s, m)
    PROVE  Pending(s, o)
<1>1. m.version \in Nat /\ o.version \in Nat /\ s.expected \in Nat
  BY Fields DEF MissionInv, Pending, Session
<1>2. m.version <= o.version
  BY <1>1 DEF Follows, Moves
<1>3. ASSUME s.expected = o.version PROVE Follows(o, s.m)
  <2>1. o.version = m.version /\ o.status = m.status /\ Follows(m, s.m)
    BY <1>1, <1>2, <1>3 DEF Pending, Follows, Moves
  <2>2. Moves(o, s.m)
    BY <2>1 DEF Follows, Moves
  <2>3. Stands(o, s.m)
    BY <2>1 DEF Follows, Stands, Frozen
  <2>4. Frozen(o, s.m)
    BY <2>1 DEF Follows, Frozen
  <2> QED BY <2>2, <2>3, <2>4 DEF Follows
<1> QED BY <1>1, <1>2, <1>3 DEF Pending

-----------------------------------------------------------------------------
\* Initially nothing is stored, and every action keeps the invariant.
LEMMA StoreInductive == StoreSpec => []StoreInv
<1>1. StoreInit => StoreInv
  BY DEF StoreInit, StoreInv, Stored, Created, Reply, Sessions, NoMission, NoSession
<1>2. StoreInv /\ [StoreNext]_storeVars => StoreInv'
  <2> SUFFICES ASSUME StoreInv, [StoreNext]_storeVars PROVE StoreInv'
    OBVIOUS
  <2> USE DEF StoreInv
  <2>1. ASSUME NEW b \in Budgets, Create(b) PROVE StoreInv'
    <3>1. b \in Budget
      BY CallerAssumption
    <3>2. create(b) \in Mission
      BY <3>1, CreateInv DEF MissionInv
    <3>3. Created'
      BY <2>1, <3>1, <3>2 DEF Create, Created
    <3>4. Reply'
      BY <2>1 DEF Create, Reply
    <3>5. Stored' /\ Sessions' /\ (acked \subseteq Task)'
      BY <2>1 DEF Create, Stored, Sessions
    <3> QED BY <3>3, <3>4, <3>5
  <2>2. CASE SaveNew
    <3>1. PICK b \in Budget : creator.m = create(b)
      BY <2>2 DEF SaveNew, Created
    <3>2. MissionInv(create(b)) /\ create(b) # NoMission
      BY CreateInv, Distinct DEF MissionInv
    <3>3. Stored'
      BY <2>2, <3>1, <3>2 DEF SaveNew, Stored
    <3>4. Created'
      BY <2>2 DEF SaveNew, Created
    <3>5. Reply'
      BY <2>2, <3>1, <3>2 DEF SaveNew, Reply
    <3>6. Sessions' /\ (acked \subseteq Task)'
      BY <2>2 DEF SaveNew, Sessions, Reply
    <3> QED BY <3>3, <3>4, <3>5, <3>6
  <2>3. CASE Publish
    <3>1. PICK b \in Budget : creator.m = create(b)
      BY <2>3 DEF Publish, Created
    <3>2. creator.m.events = {"MissionCreated"}
      BY <3>1 DEF create
    <3>3. Created'
      BY <2>3 DEF Publish, Created
    <3>4. Reply'
      <4>1. store # NoMission /\ UNCHANGED store /\ published = {}
        BY <2>3 DEF Publish, Reply
      <4>2. CASE /\ published' = published \cup creator.m.events
                 /\ creator' \in {[pc |-> pc, m |-> NoMission] : pc \in {"ok", "threw"}}
        <5>1. published' = {"MissionCreated"} /\ creator'.pc \in {"ok", "threw"}
          BY <3>2, <4>1, <4>2
        <5> QED BY <4>1, <5>1 DEF Reply, Event
      <4>3. CASE UNCHANGED published /\ creator' = [pc |-> "threw", m |-> NoMission]
        BY <4>1, <4>3 DEF Reply
      <4> QED BY <2>3, <4>2, <4>3 DEF Publish
    <3>5. Stored' /\ Sessions' /\ (acked \subseteq Task)'
      BY <2>3 DEF Publish, Stored, Sessions
    <3> QED BY <3>3, <3>4, <3>5
  <2>4. CASE CrashCreator
    <3>1. Created' /\ Reply'
      BY <2>4 DEF CrashCreator, Created, Reply
    <3>2. Stored' /\ Sessions' /\ (acked \subseteq Task)'
      BY <2>4 DEF CrashCreator, Stored, Sessions
    <3> QED BY <3>1, <3>2
  <2>5. ASSUME NEW w \in Writer, LoadAndExecute(w) PROVE StoreInv'
    <3>1. PICK m \in Outcomes(store) :
            session' = [session EXCEPT ![w] = [expected |-> store.version, m |-> m]]
      BY <2>5 DEF LoadAndExecute
    <3> DEFINE s == [expected |-> store.version, m |-> m]
    <3>2. store # NoMission /\ MissionInv(store) /\ store.version \in Nat
      BY <2>5, Fields DEF LoadAndExecute, Stored, MissionInv
    <3>3. MissionInv(m) /\ Follows(store, m) /\ m \in Mission
      BY <3>2, OutcomesSound DEF MissionInv
    <3>4. s \in Session /\ Pending(s, store)
      BY <3>2, <3>3 DEF Session, Pending
    <3> HIDE DEF s
    <3>5. Sessions'
      BY <2>5, <3>1, <3>2, <3>4 DEF LoadAndExecute, Sessions, s
    <3>6. Stored' /\ Created' /\ Reply' /\ (acked \subseteq Task)'
      BY <2>5 DEF LoadAndExecute, Stored, Created, Reply
    <3> QED BY <3>5, <3>6
  <2>6. ASSUME NEW w \in Writer, Save(w) PROVE StoreInv'
    <3>1. /\ store # NoMission /\ MissionInv(store) /\ Pending(session[w], store)
          /\ session[w] \in Session /\ MissionInv(session[w].m)
      BY <2>6 DEF Save, Sessions, Stored, Pending
    <3>2. session[w].m \in Mission /\ session[w].m # NoMission
      BY <3>1, Distinct DEF MissionInv
    <3>3. /\ \/ store' = store
             \/ store' = session[w].m /\ Follows(store, session[w].m)
          /\ acked' \in {acked, acked \cup session[w].m.completed}
      BY <2>6, <3>1 DEF Save, Pending
    <3>4. store' # NoMission /\ MissionInv(store')
      BY <3>1, <3>2, <3>3
    <3>5. (acked \subseteq Task)'
      BY <3>2, <3>3, Fields
    <3>6. Created' /\ Reply'
      BY <2>6, <3>1, <3>4 DEF Save, Created, Reply
    <3>7. Sessions'
      <4>1. session' = [session EXCEPT ![w] = NoSession]
        BY <2>6 DEF Save
      <4>2. session' \in [Writer -> Session \cup {NoSession}]
        BY <4>1 DEF Sessions
      <4>3. ASSUME NEW v \in Writer, session'[v] # NoSession
            PROVE  store' # NoMission /\ Pending(session'[v], store')
        <5>1. session'[v] = session[v] /\ session[v] # NoSession
          BY <4>1, <4>3 DEF Sessions
        <5>2. Pending(session[v], store)
          BY <5>1 DEF Sessions
        <5>3. Pending(session[v], store')
          BY <3>1, <3>3, <5>2, PendingKept
        <5> QED BY <3>4, <5>1, <5>3
      <4> QED BY <4>2, <4>3 DEF Sessions
    <3>8. Stored'
      BY <3>4 DEF Stored, MissionInv, WorkInv, GateInv, Resolved
    <3> QED BY <3>5, <3>6, <3>7, <3>8
  <2>7. ASSUME NEW w \in Writer, Abandon(w) PROVE StoreInv'
    <3>1. Sessions'
      BY <2>7 DEF Abandon, Sessions
    <3>2. Stored' /\ Created' /\ Reply' /\ (acked \subseteq Task)'
      BY <2>7 DEF Abandon, Stored, Created, Reply
    <3> QED BY <3>1, <3>2
  <2>8. CASE UNCHANGED storeVars
    BY <2>8 DEF storeVars, Stored, Created, Reply, Sessions
  <2> QED BY <2>1, <2>2, <2>3, <2>4, <2>5, <2>6, <2>7, <2>8 DEF StoreNext
<1> QED BY <1>1, <1>2, PTL DEF StoreSpec

-----------------------------------------------------------------------------
\* Store, handler and sessions are always well formed.
THEOREM StoreTypeCorrect == StoreSpec => []StoreTypeOK
<1>1. StoreInv => StoreTypeOK
  BY DEF StoreInv, Stored, Created, Reply, Sessions, MissionInv, StoreTypeOK
<1> QED BY <1>1, StoreInductive, PTL

\* What CreateMissionHandler answers can be relied on.
THEOREM RepliesHold == StoreSpec => []ReplyIsTruthful
<1>1. StoreInv => ReplyIsTruthful
  BY DEF StoreInv, Reply, ReplyIsTruthful
<1> QED BY <1>1, StoreInductive, PTL

\* However many writers there are, none undoes what another's saved transition
\* decided.
THEOREM DecisionsAreKept == StoreSpec => DecisionsStand
<1>1. StoreInv /\ [StoreNext]_storeVars =>
        [store # NoMission =>
          /\ store.dag # NoDAG => store'.dag = store.dag
          /\ \A i \in store.announced :
              /\ i \in store'.announced
              /\ store'.gates[i].reason = store.gates[i].reason
              /\ i \in Resolved(store) /\ store.status # "FAILED" =>
                      i \in Resolved(store')]_storeVars
  <2> SUFFICES ASSUME StoreInv, [StoreNext]_storeVars, store # NoMission
               PROVE  Stands(store, store')
    BY DEF Stands
  <2>1. ASSUME NEW w \in Writer, Save(w) PROVE Stands(store, store')
    <3>1. Pending(session[w], store)
      BY <2>1 DEF Save, StoreInv, Sessions
    <3>2. store' = store \/ (store' = session[w].m /\ Follows(store, session[w].m))
      BY <2>1, <3>1 DEF Save, Pending
    <3> QED BY <3>2 DEF Follows, Stands
  <2>2. CASE store' = store
    BY <2>2 DEF Stands
  <2>3. ~SaveNew
    BY DEF SaveNew, StoreInv, Reply
  <2> QED BY <2>1, <2>2, <2>3 DEF StoreNext, Create, Publish, CrashCreator,
          LoadAndExecute, Abandon, storeVars
<1> QED BY <1>1, StoreInductive, PTL DEF StoreSpec, DecisionsStand

\* The store under its optimistic lock implements a mission whose status is
\* changed in place, one command after the other.
THEOREM StoreImplementsLock == StoreSpec => StatusMovesAsIfInTurn
<1>1. StoreInit => Lock!Init
  BY DEF StoreInit, NoMission, Lock!Init
<1>2. StoreInv /\ [StoreNext]_storeVars => [Lock!Next]_(Lock!vars)
  <2> SUFFICES ASSUME StoreInv, [StoreNext]_storeVars
               PROVE  Lock!Next \/ UNCHANGED Lock!vars
    OBVIOUS
  <2>1. CASE SaveNew
    <3>1. PICK b \in Budget : creator.m = create(b)
      BY <2>1 DEF SaveNew, Created, StoreInv
    <3>2. create(b) # NoMission
      BY CreateInv, Distinct DEF MissionInv
    <3>3. store = NoMission
      BY <2>1 DEF SaveNew, Reply, StoreInv
    <3>4. create(b).status = "PENDING" /\ create(b).version = 0
      BY DEF create
    <3> QED BY <2>1, <3>1, <3>2, <3>3, <3>4
            DEF SaveNew, NoMission, Lock!Next, Lock!Create, Lock!vars
  <2>2. ASSUME NEW w \in Writer, Save(w)
        PROVE  Lock!Next \/ UNCHANGED Lock!vars
    <3>1. /\ store # NoMission /\ MissionInv(store) /\ Pending(session[w], store)
          /\ MissionInv(session[w].m)
      BY <2>2 DEF Save, StoreInv, Sessions, Stored, Pending
    <3>2. session[w].m \in Mission /\ session[w].m # NoMission
      BY <3>1, Distinct DEF MissionInv
    <3>3. store' = store \/ (store' = session[w].m /\ Moves(store, session[w].m))
      BY <2>2, <3>1 DEF Save, Pending, Follows
    <3>4. store.status \in Status /\ session[w].m.status \in Status
      BY <3>1, <3>2, Fields DEF MissionInv
    <3> QED BY <3>1, <3>2, <3>3, <3>4
            DEF Moves, canTransition, Lock!Next, Lock!Transition, Lock!vars,
                Lock!canTransition, Lock!MISSION_TRANSITIONS, MISSION_TRANSITIONS,
                Lock!Status, Status
  <2>3. CASE store' = store
    BY <2>3 DEF Lock!vars
  <2>4. \/ store' = store \/ SaveNew \/ \E w \in Writer : Save(w)
    BY DEF StoreNext, Create, Publish, CrashCreator, LoadAndExecute, Abandon, storeVars
  <2> QED BY <2>1, <2>2, <2>3, <2>4
<1> QED BY <1>1, <1>2, StoreInductive, PTL DEF StoreSpec, StatusMovesAsIfInTurn, Lock!Spec
=============================================================================
