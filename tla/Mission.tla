------------------------------ MODULE Mission -------------------------------
(***************************************************************************)
(* One mission aggregate in memory, with callers that issue any command in *)
(* any order.  Nothing in the code restricts which command is issued when: *)
(* the aggregate is the only guard ("all state changes go through this     *)
(* aggregate"), so every command is an action that is always enabled.      *)
(***************************************************************************)
EXTENDS MissionAggregate

CONSTANT MaxElapsed     \* bound: hours the clock runs

ASSUME MissionAssumption == MaxElapsed \in Nat

VARIABLES mission,      \* the aggregate's props and pending events
          elapsed       \* elapsedHours: wall-clock hours since startedAt

vars == <<mission, elapsed>>

Init == /\ \E b \in Budgets : ValidBudget(b) /\ mission = create(b)
        /\ elapsed = 0

-----------------------------------------------------------------------------
MayPushGate == Len(mission.gates) < MaxGates

StartPlanning == mission' = startPlanning(mission) /\ UNCHANGED elapsed

AttachDAG(dag) == mission' = attachDAG(mission, dag) /\ UNCHANGED elapsed

CompleteTask(task, usd) ==
    /\ MayPushGate
    /\ mission' = completeTask(mission, task, usd, elapsed)
    /\ UNCHANGED elapsed

Pause == mission' = pause(mission) /\ UNCHANGED elapsed

Fail == mission' = fail(mission) /\ UNCHANGED elapsed

Complete == mission' = complete(mission) /\ UNCHANGED elapsed

OpenHumanGate ==
    /\ MayPushGate
    /\ mission' = openHumanGate(mission, "OTHER")
    /\ UNCHANGED elapsed

\* A gate's id is a random UUID that only MissionHumanGateOpened carries, so
\* a caller can name the announced gates and no other.
ResolveHumanGate(i) ==
    /\ mission' = resolveHumanGate(mission, i)
    /\ UNCHANGED elapsed

\* elapsedHours is 0 until startedAt is set and follows the clock after that.
Tick == /\ mission.started
        /\ elapsed < MaxElapsed
        /\ elapsed' = elapsed + 1
        /\ UNCHANGED mission

Next == \/ StartPlanning
        \/ \E dag \in DAGs : AttachDAG(dag)
        \/ \E task \in Task, usd \in Cost : CompleteTask(task, usd)
        \/ Pause
        \/ Fail
        \/ Complete
        \/ OpenHumanGate
        \/ \E i \in mission.announced : ResolveHumanGate(i)
        \/ Tick

Spec == Init /\ [][Next]_vars

-----------------------------------------------------------------------------
\* The aggregate always holds a well-formed record.
TypeOK == mission \in Mission /\ elapsed \in Nat

\* A mission under verification, or completed, has done exactly as many
\* different tasks of its DAG as totalTasks says, and has not spent more than
\* its budget, whatever gates were opened, resolved or failed on the way
\* (completeTask is the only road there).  These are all its tasks when
\* totalTasks counts the nodes, which the code leaves to the caller.
VerifiedWithinBudget ==
    mission.status \in {"VERIFYING", "COMPLETED"} =>
        /\ mission.completed \subseteq mission.dag.nodes
        /\ Cardinality(mission.completed) = mission.dag.totalTasks
        /\ mission.spent <= mission.budget.maxCostUsd

\* A human gate is "a decision point requiring human judgment to proceed"
\* (README.md): a mission that proceeds has every gate that ever stopped it
\* resolved, however gates, failed openings and resolutions were interleaved.
NoProceedingPastAnOpenGate ==
    mission.status \notin {"HUMAN_GATE", "FAILED"} => mission.announced = Resolved(mission)

\* A mission waiting at a gate waits for exactly one decision, one that was
\* announced and is still to be taken, so it can always be resumed.
BlockedByOneOpenGate ==
    mission.status = "HUMAN_GATE" =>
        \E i \in mission.announced : mission.announced \ Resolved(mission) = {i}

\* COMPLETED and FAILED are final: no later command moves the status, counts
\* a task, spends, or announces anything.  (The gate list is not included:
\* openHumanGate still appends to it.)
TerminalIsFinal ==
    [][mission.status \in Terminal =>
        \A f \in {"status", "version", "dag", "completed", "spent", "events",
                 "announced"} :
            mission'[f] = mission[f]]_vars

\* The version moves by one exactly when the status moves, and the status
\* only along the table: a reader that saw the same version saw the same
\* status, which is what optimistic locking on the version can rely on.
VersionCountsTransitions ==
    [][IF mission'.status = mission.status
       THEN mission'.version = mission.version
       ELSE /\ mission'.version = mission.version + 1
            /\ canTransition(mission.status, mission'.status)]_vars

\* A task that leaves the mission over budget, in money or in hours, stops
\* it at a new, unresolved budget gate, even when it was the last task.
BudgetStopsMission ==
    [][(/\ \E task \in Task : \E usd \in Cost : CompleteTask(task, usd)
        /\ mission'.spent > mission.spent
        /\ \/ mission'.spent > mission.budget.maxCostUsd
           \/ elapsed > mission.budget.maxDurationHours) =>
            /\ mission'.status = "HUMAN_GATE"
            /\ mission'.gates = Append(mission.gates,
                    [reason |-> "BUDGET_EXCEEDED", resolved |-> FALSE])]_vars

=============================================================================
