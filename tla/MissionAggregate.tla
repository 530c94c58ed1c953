-------------------------- MODULE MissionAggregate --------------------------
(***************************************************************************)
(* The mission aggregate of packages/core/mission as a data type: the      *)
(* record an instance of MissionAggregate holds and, for each command, the *)
(* record it holds when the command has returned.  A command that fails    *)
(* usually returns the record it was given; openHumanGate and              *)
(* resolveHumanGate write to the gate list BEFORE they ask for the status  *)
(* change, so they leave a trace even when they fail, and so do their      *)
(* translations below.                                                     *)
(*                                                                         *)
(* Abstracted: ids, texts and dates.  A gate is known by its place in the  *)
(* list, a task by a member of Task, money and hours are naturals in the   *)
(* smallest unit the code distinguishes.  Of the events the aggregate has  *)
(* raised, the record keeps the set of their types and, in "announced",    *)
(* the gates that MissionHumanGateOpened events carried to the outside.    *)
(***************************************************************************)
EXTENDS Integers, Sequences, FiniteSets

CONSTANTS Task,             \* task ids a mission DAG may name
          MinBudgetUsd, MaxBudgetUsd,          \* MIN_/MAX_BUDGET_USD
          MinDurationHours, MaxDurationHours,  \* MIN_/MAX_DURATION_HOURS
          Budgets,          \* budgets a caller asks for
          DAGs,             \* DAGs a planner attaches
          Cost,             \* what one task may cost
          MaxGates          \* bound: gates ever pushed

ASSUME TaskAssumption == IsFiniteSet(Task)
ASSUME BudgetAssumption ==
    /\ MinBudgetUsd \in Nat /\ MaxBudgetUsd \in Nat
    /\ MinDurationHours \in Nat /\ MaxDurationHours \in Nat

Status == {"PENDING", "PLANNING", "EXECUTING", "PAUSED", "VERIFYING",
           "HUMAN_GATE", "COMPLETED", "FAILED"}

Terminal == {"COMPLETED", "FAILED"}

\* A table in which a mission at a gate can be sent to another one.
MISSION_TRANSITIONS_Regate ==
    [PENDING    |-> {"PLANNING", "FAILED"},
     PLANNING   |-> {"EXECUTING", "FAILED"},
     EXECUTING  |-> {"PAUSED", "VERIFYING", "HUMAN_GATE", "FAILED"},
     PAUSED     |-> {"EXECUTING", "FAILED"},
     VERIFYING  |-> {"COMPLETED", "EXECUTING", "HUMAN_GATE", "FAILED"},
     HUMAN_GATE |-> {"EXECUTING", "FAILED", "HUMAN_GATE"},
     COMPLETED  |-> {},
     FAILED     |-> {}]

MISSION_TRANSITIONS ==
    [PENDING    |-> {"PLANNING", "FAILED"},
     PLANNING   |-> {"EXECUTING", "FAILED"},
     EXECUTING  |-> {"PAUSED", "VERIFYING", "HUMAN_GATE", "FAILED"},
     PAUSED     |-> {"EXECUTING", "FAILED"},
     VERIFYING  |-> {"COMPLETED", "EXECUTING", "HUMAN_GATE", "FAILED"},
     HUMAN_GATE |-> {"EXECUTING", "FAILED"},
     COMPLETED  |-> {},
     FAILED     |-> {}]

\* A lookup that only asks whether the target exists.
canTransition_Known(from, to) == to \in Status

canTransition(from, to) == to \in MISSION_TRANSITIONS[from]

Budget == [maxCostUsd : Nat, maxDurationHours : Nat]

\* MissionBudget.create accepts exactly these.
ValidBudget(b) ==
    /\ b.maxCostUsd \in MinBudgetUsd .. MaxBudgetUsd
    /\ b.maxDurationHours \in MinDurationHours .. MaxDurationHours

\* Enforcement of the money and not of the hours.
isExceeded_MoneyOnly(b, spentUsd, elapsedHours) == spentUsd > b.maxCostUsd

isExceeded(b, spentUsd, elapsedHours) ==
    spentUsd > b.maxCostUsd \/ elapsedHours > b.maxDurationHours

\* A DAG as a caller may attach it.  totalTasks is a field of its own: nothing
\* in the code ties it to the nodes, and completeTask counts up to it.
DAG == [nodes : SUBSET Task, totalTasks : Nat]

ASSUME CallerAssumption ==
    /\ Budgets \subseteq Budget /\ DAGs \subseteq DAG
    /\ Cost \subseteq Nat /\ MaxGates \in Nat

\* No DAG attached yet; completeTask's "dag?.nodes.find" finds nothing in it.
NoDAG == [nodes |-> {}, totalTasks |-> 0]

\* A gate's reason only matters as far as budget enforcement is concerned.
Reason == {"BUDGET_EXCEEDED", "OTHER"}
HumanGate == [reason : Reason, resolved : BOOLEAN]

Event == {"MissionCreated", "MissionStarted", "MissionTaskCompleted",
          "MissionPaused", "MissionFailed", "MissionCompleted",
          "MissionHumanGateOpened"}

Mission == [status : Status, version : Nat, budget : Budget,
            dag : DAG, completed : SUBSET Task, spent : Nat,
            gates : Seq(HumanGate), started : BOOLEAN,
            events : SUBSET Event, announced : SUBSET Nat]

Resolved(m) == {i \in DOMAIN m.gates : m.gates[i].resolved}

\* A version that starts one too low, for a store that counts from one.
create_LowVersion(b) ==
    [status |-> "PENDING", version |-> -1, budget |-> b, dag |-> NoDAG,
     completed |-> {}, spent |-> 0, gates |-> << >>, started |-> FALSE,
     events |-> {"MissionCreated"}, announced |-> {}]

\* MissionAggregate.create with a goal and a budget that pass validation.
create(b) ==
    [status |-> "PENDING", version |-> 0, budget |-> b, dag |-> NoDAG,
     completed |-> {}, spent |-> 0, gates |-> << >>, started |-> FALSE,
     events |-> {"MissionCreated"}, announced |-> {}]

addDomainEvent(m, e) == [m EXCEPT !.events = @ \cup {e}]

\* A status change that forgets the version.
transition_NoVersion(m, to, done) ==
    IF canTransition(m.status, to) THEN [done EXCEPT !.status = to] ELSE m

\* "done" is m with what the command's callback writes; when the table has
\* no such transition the callback never runs and m stays as it was.
transition(m, to, done) ==
    IF canTransition(m.status, to)
    THEN [done EXCEPT !.status = to, !.version = m.version + 1]
    ELSE m

startPlanning(m) ==
    transition(m, "PLANNING",
               addDomainEvent([m EXCEPT !.started = TRUE], "MissionStarted"))

attachDAG(m, dag) ==
    IF m.status = "PLANNING"
    THEN LET d == [m EXCEPT !.dag = dag] IN transition(d, "EXECUTING", d)
    ELSE m

\* Announcing the gate next to pushing it, before the status is asked for.
openHumanGate_AnnounceFirst(m, reason) ==
    LET g == [m EXCEPT !.gates = Append(@, [reason |-> reason,
                                            resolved |-> FALSE]),
                       !.announced = @ \cup {Len(m.gates) + 1}]
    IN  transition(g, "HUMAN_GATE", addDomainEvent(g, "MissionHumanGateOpened"))

openHumanGate(m, reason) ==
    LET g == [m EXCEPT !.gates = Append(@, [reason |-> reason,
                                            resolved |-> FALSE])]
    IN  transition(g, "HUMAN_GATE",
                   addDomainEvent([g EXCEPT !.announced = @ \cup {Len(g.gates)}],
                                  "MissionHumanGateOpened"))

resolveHumanGate(m, i) ==
    IF i \in DOMAIN m.gates /\ ~m.gates[i].resolved
    THEN LET r == [m EXCEPT !.gates[i].resolved = TRUE]
         IN  transition(r, "EXECUTING", r)
    ELSE m

\* Looking for the last task before looking at the budget.
completeTask_VerifyFirst(m, task, usd, elapsedHours) ==
    LET c == addDomainEvent([m EXCEPT !.completed = @ \cup {task},
                                      !.spent = @ + usd],
                            "MissionTaskCompleted")
    IN  IF m.status # "EXECUTING" \/ task \notin m.dag.nodes THEN m
        ELSE IF Cardinality(c.completed) = c.dag.totalTasks
             THEN transition(c, "VERIFYING", c)
             ELSE IF isExceeded(c.budget, c.spent, elapsedHours)
                  THEN openHumanGate(c, "BUDGET_EXCEEDED")
                  ELSE c

\* The budget is looked at before the last task is: a mission whose last
\* task overruns goes to the gate and not to verification.
completeTask(m, task, usd, elapsedHours) ==
    LET c == addDomainEvent([m EXCEPT !.completed = @ \cup {task},
                                      !.spent = @ + usd],
                            "MissionTaskCompleted")
    IN  IF m.status # "EXECUTING" \/ task \notin m.dag.nodes THEN m
        ELSE IF isExceeded(c.budget, c.spent, elapsedHours)
             THEN openHumanGate(c, "BUDGET_EXCEEDED")
             ELSE IF Cardinality(c.completed) = c.dag.totalTasks
                  THEN transition(c, "VERIFYING", c)
                  ELSE c

pause(m)    == transition(m, "PAUSED", addDomainEvent(m, "MissionPaused"))
fail(m)     == transition(m, "FAILED", addDomainEvent(m, "MissionFailed"))
complete(m) == transition(m, "COMPLETED",
                          addDomainEvent(m, "MissionCompleted"))
=============================================================================
