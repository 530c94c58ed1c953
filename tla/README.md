# Hilux in TLA+

Models, model checks and proofs for the state-carrying TypeScript of this
repository: the mission aggregate and its persistence (`core/mission`), the
scheduling of its tasks (`core/workflow`), the AI workforce (`workforce`) and what a
single agent runs on: its state machine, its context, its tools and the Python SDK's
proxies (`orchestration`, `memory`, `tools`, `src/sdk`). Paths below are relative to
`src/packages` unless they start otherwise. `PROJECT.json` maps every definition
to the lines it stands for and lists runs, mutants, hazards, findings and
theorems.

To check a run, `tlc -config X.cfg MCX.tla`; to check proofs, `tlapm XProofs.tla`.

## 1. The system

Hilux is one Node process. There are no threads: concurrency comes from
asynchronous calls that share objects. A call keeps the processor up to its next
`await`, and while it waits any other call, timer or message handler may run.
Most of what is hard in this code is state read before an `await` and relied on
after it. Only the mission has a database behind it, and that as a port.

| Component | State | Operations | Interacts with | What is hard | What makes it correct |
|---|---|---|---|---|---|
| Mission aggregate (`core/mission/domain`) | status, version, budget, DAG, completed tasks, spent money, gates, pending events | create, startPlanning, attachDAG, completeTask, openHumanGate, resolveHumanGate, pause, fail, complete | raises events; saved by the handlers | any command in any order; commands that fail half-way (a gate is pushed before its transition is refused); order of the budget check and the last-task check | no proceeding past an open gate; verified means the work the DAG announces done within budget; final states final; version counts status changes |
| Mission persistence and creation (`core/mission/application`, `domain/repositories`, `shared/events`) | stored aggregate; the handler's progress | handle; load, command, save | repository and bus (ports) | crash or failure between save and publish; concurrent writers under an optimistic lock | reply tells the truth; lock protects what was decided; events of a stored mission come out |
| Department (`workforce/core/department`) | workers Map, pendingGoals, timers | initialize, hire, fire, receiveGoal, assignGoal, assignPendingGoals, adjustCapacity, ensureMinimumStaffing, reports, reviews | creates workers, hears their events, subscribes to directives | size checks and searches of the queue before awaits; overlapping calls | no goal lost, given once, to one who can serve it; size and staffing limits |
| Worker (`workforce/core/worker`) | goals, status, recoveryAttempts, pendingEscalations, autonomy, memories | onboard, acceptGoal, startNextGoal, reflect, learn, recover, escalate, shareKnowledge, handoff, terminate | bus, department (events), knowledge base | one status field written by every call; nested recovery with a shared counter; a terminate that stops nothing | no goal disappears; no goal worked on twice; recovery gets on to its end |
| Message bus (`workforce/core/communication`) | topic -> handlers | subscribe, unsubscribe, publish | everyone | unsubscribe is per topic, publish swallows errors, nobody may listen | exactly the active workers listen |
| Organization, runtime, executives (`workforce/core/organization`, `runtime`, `executive`) | departments, company goals, department reports, escalations | boot, registerDepartment, setGoal, policies, health check; CEO setCompanyGoal, decomposeGoal, reviews, escalations | boot departments in turn; directives over the bus; listeners on department events | event loops between listeners; two buses where one was meant; sequential dispatch through slow departments | each goal reaches each addressed department once; a report is one report |
| Knowledge base and worker memory (`workforce/core/knowledge`, `memory`) | items of a department; four tiers per worker | store, bulkStore, retrieve; seedFromKnowledge, absorb, inject, exportAll | shareKnowledge, onboarding, recovery, termination | keys from the clock and from the domain; retrieval before subscription; a re-broadcast over a Map that changes | a shared item reaches every colleague, and stays known |
| Department subclasses (`workforce/departments`) | none beyond the base class | executeGoal, handleMessage per role | worker | one pattern, eight times | that of the worker |
| Decision engine, metrics (`workforce/core/decision`, `metrics`) | autonomy level; counters | evaluate, setAutonomyLevel; record | worker, reviews | constants in three places that only together decide what may be done alone; two copies of the level | alone, a worker takes the least risk; the copies agree |
| Agent lifecycle (`orchestration/agent-lifecycle`) | state, history | transition | whoever drives an agent (not in the repository) | a table of 12 states and 22 events | only tabled transitions; nobody stays in tool_waiting |
| Tool executor (`tools/tool-executor`) | none | invoke: permission, firewall, registry, execution, firewall, audit | ports | failure at each await, before or after its effect, in the catch branch too | answer, audit log and effect agree |
| Workflow scheduling (`core/workflow`) | none | computeSchedule, computeCriticalPath | none | duplicate and dangling edges, cycles, nodes listed twice | layers respect edges; refused exactly if cyclic; the critical path is as long as the layers are many |
| Memory manager (`memory/application`) | none | assembleContext, selectWithinBudget, storeEpisode | four stores and embeddings (ports) | parallel retrieval that degrades; working memory that alone exceeds the budget | context within budget; only what does not fit is left out |
| Next-generation engines (`core/nextgen`) | signatures; balances; impulses; topology | evaluateProposal; register, reward, deduct; broadcastImpulse; evolve; simulate | workers by callback | missing or throwing evaluators; rounding; stale allowances | thresholds mean what they say; the pool is conserved |
| Shared kernel (`shared`), LLM providers (`core/llm`) | values; the chosen provider | Result, Entity, errors; complete | all | none of their own | |
| Python SDK (`src/sdk`) | tokens used, tool calls | complete, call, reflect | router and tool executor | check-then-await on the token budget | overshoot bounded; only declared tools |
| UI, deployment, scripts (`src/apps`, `src/infrastructure`, `src/scripts`) | demo data, configuration | | | | |

The unit tests (`src/tests/unit`) make one call after another and await each; all
but one, which stores twenty items of knowledge at once, let no two calls overlap, which is
where the models look. Every place where this code is exposed to a hazard is listed with its line
under "hazards" in `PROJECT.json`, with the property that would catch it or the
reason why there is none yet.

## 2. The modules

```
MissionAggregate   the aggregate as a data type
   |-- Mission         one aggregate, any caller
   |-- VersionedStatus what readers of the store see
   `-- MissionStore    creation handler and writers; implements VersionedStatus
                       all three                          -> MissionProofs
Schedule           topological layers and critical path   -> ScheduleProofs
GoalPool           what a department promises about goals
   `-- Department      a department and its overlapping calls;
                       implements GoalPool                -> DepartmentProofs
BaseWorker         one worker and its overlapping calls   -> BaseWorkerProofs
Escalation         decisions, escalations, promotion      -> EscalationProofs
MessageBus         the bus as a data type
   `-- Company         boot, staff, bus, knowledge, directives, reports
                                                          -> CompanyProofs
Knowledge          knowledge base and memories on a clock -> KnowledgeProofs
AgentLifecycle, ToolExecutor, ContextAssembly   the parts of
   Agent               one agent at work                  -> AgentProofs
```

Each `MCx` module gives x the constants its configurations use.

**Reading an action.** In `MissionAggregate` a command is an operator from the
record before to the record after; a command that fails returns what the code
leaves behind, which is not always what it was given. In the workforce modules an
action is the stretch of one asynchronous call from an `await` to the next. The
variable `calls` (Department, BaseWorker) holds for each call in flight where it
waits and the local variables it still needs; Company, where each kind of call is
simpler, keeps that in `share`, `goal`, `reporting`, `terminating` and `phase`, as
Knowledge does in `place` and `share`, Escalation in `call` and Agent in `inv` and `ctx`.
Local variables captured before an `await` are in the record, whatever the object
looks like when the call resumes: `prev` is the status `reflect` will put back,
`hires` the deficit `adjustCapacity` computed, `left` the decomposition of a goal.

| Variable or operator | Code |
|---|---|
| `Mission!mission` | `MissionAggregate.props` and the pending events; `announced` is what `MissionHumanGateOpened` told the outside, the only source of gate ids |
| `Mission!elapsed` | `elapsedHours`, the clock since `startedAt` |
| `MissionStore!creator` | `CreateMissionHandler.handle` between its awaits |
| `MissionStore!session` | a handler that has loaded, run one command and not yet saved |
| `Department!workers`, `profile`, `status`, `held` | the Map; `WorkerProfile` (written once, by `hire`); the worker's own status; the goals it accepted |
| `Department!calls` | initialize, receiveGoal, adjustCapacity and fire in flight, within `hire` or not |
| `BaseWorker!goals`, `status`, ... | the fields of the same name |
| `BaseWorker!calls` | acceptGoal, a message handler or terminate in flight, down to the await within startNextGoal, reflect, learn or recover |
| `Company!subscriptions` | the Map of the runtime's `MessageBus` |
| `Company!phase`, `dept`, `terminating` | which workers are on the books, of which department, and how many `terminate` calls run |
| `Company!share`, `inbox`, `heard` | `shareKnowledge` calls with the listener of `attachWorkerListeners`; direct messages whose handler waits; items in a worker's memory |
| `Company!goal`, `received` | `CEO.setCompanyGoal` calls; directives a department was handed |
| `Company!reporting`, `departmentReports` | `generateAndSubmitReport` and who called it; what `handleDepartmentReport` filed |
| `Knowledge!base`, `memory` | `KnowledgeBase.items`; `WorkerMemory.semanticStore`, settled entries and the one whose key is the current millisecond |
| `Knowledge!place`, `onTopic`, `share`, `inbox` | where each worker is between the awaits of onboard and terminate; the department's topic; calls of shareKnowledge; direct messages whose handler waits |
| `Knowledge!seen`, `tooEarly`, `absorbed`, `met`, `upset` | history, which no action reads except the beginning of `base` a newcomer retrieved |
| `Escalation!autonomyLevel`, `engineLevel` | `profile.autonomyLevel` and the copy in the worker's `DecisionEngine` |
| `Escalation!call`, `mail`, `pendingEscalations` | a call of decide or escalate; the message in the manager's handler; the list of the same name |
| `Schedule!inDegree`, `layers`, `currentLayer`, `longestPath`, `pathTo` | the variables of the same name; `pc` is the loop, or how the function ended |
| `Agent!state`, `inv`, `audit`, `ctx` | `currentState`; `invoke` between its awaits with the entries it wrote; `assembleContext` between its awaits |
| `Agent!tokensUsed`, `inFlight` | `LLMProxy._tokens_used`; the completions that wait for the router |

**External code.** The repository port of missions saves or throws, and throws on
a version mismatch (its declaration says so); a save that throws for another reason may
have committed before. The event bus delivers all events or none, and may reject after it
delivered them. How the work on a goal ends (success, blocked, exception) is a free
choice. `acceptGoal` waits as long as the worker works. The ports of the tool executor
and of the memory manager answer or reject; a tool that rejects may have had its effect
and a logger that rejects may have written its entry. The orchestrator that feeds the
agent's state machine is not in the repository: `Agent` says in its header what is
assumed of it, which is what the names of the events say.

**Abstractions.** Ids, texts, dates and most numbers are gone. Workers are
numbered in the order in which they are hired, which is the order of the Map the
listener of `knowledge_shared` goes through. Of the budget, money and hours are
small naturals compared as in the code. A department's goal names the roles that
serve it instead of a text that mentions them. Relevances, tokens, scores (in
hundredths) and confidences (in percent) are small naturals; in Escalation they are
those of the code. The code's floating point can differ from them in the last digit,
which matters where a confidence is exactly 0.7; both outcomes of that comparison
satisfy the properties. In Schedule the order of arrays is left out; where it
decides between equally long paths the choice is open. The filter that takes a goal
out of a department's queue takes out one place, because the queue holds a goal once
(`QueuedOnce`, proved in `DepartmentProofs`).

## 3. The runs

| Run | Question | States | Shows |
|---|---|---|---|
| `Mission` | what can any sequence of commands make of an aggregate? | 48 thousand | gates hold, budget enforced, finals final, version = number of status changes |
| `MissionStore` | is a mission safe between process and database? | 3.7 million | the reply can be relied on through crashes and through ports that fail before or after they took effect; no writer undoes what another decided on DAG and gates; to its readers the store is one status that moves as if writers took turns (it implements `VersionedStatus`) |
| `Department` | what can overlapping calls do to a department? | 66 thousand | to those who hand it goals it is a pool that loses none and gives each to somebody who can serve it (it implements `GoalPool`); size limit kept by calls that do not overlap; minimum staffing restored again and again |
| `BaseWorker` | what can overlapping calls do to a worker? | 2.8 million | started goals are done, worked on or escalated; no goal worked on twice; every step of a call, nested retries included, brings it nearer to its end, and only a success or an escalation of another call, which sets the shared counter back, takes it away from it; calls end unless that happens for ever |
| `Company` | who gets what when workers are hired, fired and fired twice while knowledge, goals and reports travel over one bus? | 395 thousand | exactly the active listen; shared items reach every peer; sharing ends; company goals arrive once |
| `Knowledge` | who can miss a shared item, and who can forget one? | 3.2 million | only a newcomer between retrieval and subscription misses it; an absorbed share is only displaced by another share, or by what a recovery injects, in a millisecond of its sharing |
| `Escalation` | what may a worker decide alone while it is promoted? | 156 thousand | nothing but an option of the least risk, nothing risky if there is a choice; both copies of its level agree |
| `Agent` | what if every port of an agent can fail, with or without effect? | 11 thousand | answers agree with the audit log; token budgets hold as far as they can; tool calls end |
| `Schedule` | what does the sorter make of any graph, malformed ones included? | 69 thousand | dependencies come first; refusal exactly of cycles in well-formed graphs; the critical path spans the layers |

Bounds, and why they are enough:

- *Mission*: two tasks distinguish "some" from "all" done; costs 0..2 against
  budgets 1..2 reach below, at and above the limit, with zero a value the budget
  check refuses; three gates give an open one, a resolved one and one whose
  opening was refused; the clock passes the limit of one hour. `totalTasks` is below,
  at and above the number of nodes, and zero for a DAG without nodes.
- *MissionStore*: two writers are what it takes to conflict, and a third sees
  nothing two do not see. The writers are symmetric.
- *Department*: two calls in flight (a third overlaps with each as the second
  does), two roles of which one needs two workers, two goals of which one fits one
  role only, room for one worker more than the minimum, one firing. `MaxHires` is
  large enough never to stop a hire: deadlock is checked, and a hire out of ids
  would be one.
- *BaseWorker*: two calls, two goal ids of different priority and three
  acceptances, so that one goal arrives twice as it does from `Department`; the
  real `MAX_RECOVERY_ATTEMPTS` of 3. Three acceptances also bound how often the shared
  counter is set back, so that in the instance every call ends; `EveryCallEnds` says
  nevertheless what holds without that bound, where a failing goal is retried for ever
  if goals that recover keep coming. `RecoveryGetsOn` speaks of single steps, is proved,
  and has no bound in it.
- *Company*: two departments, one of them without minimum staff; a target that
  exists and one that does not, as in `CEO.decomposeGoal`; three workers (a sharer
  and two peers, or one peer and one who leaves); two calls of fire, which may be
  on the same worker. One item and one goal: items and goals do not interact in
  the model, and the proofs are for any number. `Reporters` bounds whose weekly
  timer comes round.
- *Knowledge*: two items of one domain, which is what it takes to displace each
  other by millisecond and by domain; one above and one below the confidence of 85
  that a leaver's items get, and room for one in a retrieval, so that what a leaver
  stores crowds out the one and not the other. One of the two workers may leave, and one
  of them (`Recovering`) meets errors, at any time and as often as it likes; the proof is
  for any number of them.
- *Escalation*: a worker under each kind of manager (the CEO, the CTO, one nobody
  speaks for); two options of any risk, reversibility and impact; one escalation,
  with promotions at every point of it. The scores are those of the code. The
  proof covers any number of options and escalations.
- *Agent*: a declared tool that is registered, one that is not, and a registered
  one that is not declared; sources of two relevances and two sizes, more than fit;
  working memory that is absent, fits and exceeds the budget by itself; three
  completions that together overshoot the token budget.
- *Schedule*: all graphs of up to four tasks with up to four edges, or three of
  which one is listed twice, self-loops and edges that leave the nodes included,
  and nodes listed twice. Four tasks make a diamond, and two disjoint cycles.

Deadlock is checked where the system never stops by itself (Mission, Department,
Company, Escalation). A store whose mission failed and whose gates are used up, a
worker that is terminated with its list full, an agent in a final state, a sorter
that has returned and a department everyone has left may stop.

**Fairness.** A call whose awaited promise settles is resumed: weak fairness on
each call's resumption (in Company, on each action of `Resume` but boot, on which
no liveness property depends). In Department also the capacity timer, which
`setInterval` repeats for ever once the department is initialized. In Agent the
ports answer, and the orchestrator, which is not in the repository, passes their
answers on to the state machine. In Escalation message handlers settle and the
calls that wait for them go on. Nothing is assumed about arrivals: goals, hirings,
firings, messages, tool calls and the weekly timer need never happen. A promise
that never settles (a hung LLM call) is outside these assumptions. `Mission` and
`MissionStore` have no liveness properties: callers need not go on.

### Where code and comments disagree

Three have a run of their own in which TLC finds the behaviour.

- `MissionLostUpdate`: `completeTask` does not move the version unless the status
  moves, so two completions loaded from one version both save and one is lost.
- `CompanyReports`: `report_submitted` triggers `generateAndSubmitReport`, which
  emits `report_submitted`.
- `EscalationAnswered`: a worker nests its escalation in the message, the CEO reads
  it from the top level and answers the topic `worker.undefined`.

The others are in the models as the code has them; the properties of the passing
runs say what holds next to them.

- The creation handler publishes after the save, outside its `try`
  (`CreateMissionHandler.ts:71`); a rejected publish leaves a stored mission that
  was never announced, where `AggregateRoot.ts:20` has events dispatched after
  every successful save, and a save that rejects after it committed is reported as a
  failure of a mission that is there. `ReplyIsTruthful` is about what the caller can
  conclude: nothing is announced that is not stored.
- "Check if all tasks complete" (`MissionAggregate.ts:189`) compares the number of
  completed ids with `dag.totalTasks`, and nothing ties that to `dag.nodes`, although
  "Everything within a MissionAggregate is always consistent" (line 11). A DAG of two
  nodes and `totalTasks: 1` is verified after one task. `VerifiedWithinBudget` says what
  the count is worth: that many different tasks of the DAG are done.
- All calls of a worker share `recoveryAttempts`, and a retry that succeeds sets it to
  zero (`BaseWorker.ts:820`): while other goals recover again and again, a goal that
  always fails is retried for ever and never escalated.
- `reflect` is within the `try` of `startNextGoal` (`BaseWorker.ts:253`): if it rejects
  after the goal was completed, `recover` executes the completed goal again.
- A goal that a worker was hired for is handed over by `assignPendingGoals` and once
  more by `assignGoal` (`Department.ts:282`). `GoalPool` therefore lets a goal have several takers.
- An escalation that is resolved starts the next pending goal; the blocked one stays
  active and nothing resumes it (`BaseWorker.ts:685`).
- Goals are only started at acceptance by an idle worker or when an escalation is
  resolved (`BaseWorker.ts:230`); others wait for ever. `ActiveGoalIsAccountedFor`
  speaks of goals that were started.
- Calls in flight write their status over "terminated" (`BaseWorker.ts:378`).
- One termination unsubscribes the whole department (`BaseWorker.ts:726`).
  `KnowledgeReachesPeers` holds in spite of it because the listener tells the peers
  one by one as well.
- The sorter "throws if a cycle is detected", which it sees by counting: an edge to
  an unknown task can make the counts agree and a cyclic graph pass without its
  cyclic part, and a valid graph with a node listed twice is refused.
  `ScheduledUnlessCyclic` is therefore about well-formed graphs; what
  `DependenciesFirst` says holds for all.
- "Every invocation cryptographically logged" (`ToolExecutor.ts:11`): a tool that is not
  registered, or a logger that rejects, leaves no entry. `AnswerMatchesRecord` says
  which answer goes with which log.
- A worker's level can move between the evaluation of a decision and the check of
  whether it may act alone; `LeastRiskAlone` says when it cannot.
- With the constants the shipped workers record, no review promotes anybody
  (`Promote` stands for whoever calls `upgradeAutonomy`).
- No command resumes a paused mission although the table allows it, and no code
  reads `maxCount` of a worker type.

## 4. The proofs

TLAPS checks these for every value of the constants that satisfies the assumptions
named in the modules. Most say that bounds are naturals, that the sets the code
iterates over are finite, and that constants have the shape the code gives them
(`TaskAssumption`, `BudgetAssumption`, `CallerAssumption`, `MissionAssumption`,
`MissionStoreAssumption`, `DepartmentAssumption`, `BaseWorkerAssumption`,
`CompanyAssumption`, `DagAssumption`, `EscalationAssumption`, `RegisteredAssumption`,
`ContextAssumption`, `AgentAssumption`, `KnowledgeAssumption`). `ContextAssumption` also
has each store of the memory manager return an entry once, under an id of its own. One is a demand on a
configuration: `StaffingAssumption`, that a department has room for its minimum staffing.
All shipped departments do (engineering asks for 7 workers of at most 50, legal for 1 of
8), but no code checks it; without it `initialize`, which hires the minimum without
looking at `maxWorkers`, exceeds the limit. Only `RoomForEveryone` uses it.

**MissionProofs.** Every invariant speaks of one record, so the inductive invariant
`MissionInv(m)` is a predicate on records and each command has a lemma that keeps it;
the theorems about `Mission` and some of those about `MissionStore` only collect them.

- Types: `Fields` and `Update` say what a well-formed record is made of and that
  replacing a field keeps it well-formed. From them `TransitionType`, `EventType`
  and one lemma for each command that does more.
- `WorkInv` adds to `VerifiedWithinBudget` that completed tasks are tasks of the
  DAG at all times, that none are completed before there is one, and that there is none
  before the mission executes. Without it a DAG could be attached under tasks that were
  counted against another one.
- `GateInv` adds to the two gate properties that resolved gates were announced and
  announced ones exist. Without it the gate resolved at a `HUMAN_GATE` need not be
  the one the mission waits for.
- `CommandSteps`: each command moves the status along the table and the version
  with it, or neither.
- Theorems: `TypeCorrect`, `VerificationIsEarned`, `GatesHold`,
  `OneDecisionIsEnough`, `TerminalStaysFinal`, `VersionTracksStatus`,
  `OverspendStops`: all seven properties of the run.

`StoreInv`, about `MissionStore`, says that what is stored and what any writer holds in
memory satisfies `MissionInv`, where the creation handler is when it has said what, and
of each session: its version is never ahead of the stored one, and if they are equal its
copy is one command away from what is stored. The last part is what the optimistic lock
is for: a save that passes the version check is one transition of the stored status,
which is the refinement `StoreImplementsLock`. The copy also undoes nothing (`Stands`):
no command takes back a DAG, an announced gate or, before the mission has failed, a
resolution, so that a save that passes the check keeps them, which is `DecisionsStand`; a
save that does not pass changes nothing. Theorems: `StoreTypeCorrect`, `RepliesHold`,
`DecisionsAreKept`, `StoreImplementsLock`.

**DepartmentProofs.** Every action makes one entry or none in the department's ledger:
a goal arrives, a goal is handed over, a worker is hired (`Entry`). These are the three
actions of `GoalPool`, which `PoolImplemented` shows the department to implement: what
waits is what is in the queue, a goal's takers are the workers whose list has it, and
calls, statuses and the books are hidden. `Ledger`, the invariant that needs, adds to
`NoGoalForgotten` (a received goal is queued or with a worker) and `GoalsFitTheWorker` that the queue holds a goal once, without
which taking one place out would not take the goal out, and that workers are numbered in
the order of hiring, so that a new worker is nobody's namesake and holds nothing.
`Effect(c)` says of an action of call c that it makes an entry, keeps the workforce
well-formed and leaves the other calls alone; whatever they rely on over their awaits
(`FrameInv`: their worker is hired, and for a role that serves their goal; their goal was
received) is never struck out again, so it survives any interleaving. Theorems:
`TypeCorrect`, `EveryGoalIsKept`, `EveryGoalFits`, `PoolImplemented`.

`WithinMaxWorkers` speaks of calls that do not overlap, and needs to know what the single
call in flight is about. Until the department is ready that is `initialize`, which fills
the posts type by type (`Filling`): no role has more workers than `minCount`, so that a
worker's role and its rank among its peers are a post that nobody else has, and there are
no more workers than posts (`EveryoneHasAPost`). From then on nobody is missing, so
that `ensureMinimumStaffing` hires nobody and every other hire was counted when it was
checked (`Steady`). Of an overlap nothing is claimed: there the limit is exceeded, as
the code reads `workers.size` before it awaits. Theorem: `RoomForEveryone`.

**BaseWorkerProofs.** A worker's list of goals only grows, and a goal only moves from
pending to active to completed (`Evolves`), so what a call relies on over its awaits
(`FrameInv`: the goal it works on is started, done while it reflects, and known to the
manager while it escalates) is kept by every other call. `Effect(c)` is what an action may
do: start the most urgent pending goal, go on with its own, or let go of it when it is
done or escalated. A goal may be on the list twice, because a department hands it over
twice, and a recovery that finds its goal again by id goes on with the first copy, which
need not be its own. `InOrder`, that of two copies the first is started first, is why
the copy it goes on with has been started too. `Distance(c)` is how far a call is from
its end: ten for each attempt the shared counter leaves, and the awaits of the present
attempt. `ResumeGetsOn` shows that every resumption of the call lowers it, an exception
because it costs an attempt or ends the attempts (`AttemptsCounted`), everything else
because the next await is a later one (`LaterAwait`). Of the others' steps, only those
that set the counter back raise it (`OtherSteps`, `CounterGoesUp`). Theorems:
`TypeCorrect`, `NoStartedGoalIsDropped`, `GoalsAreNotShared`, `RecoveryEnds`: all
properties of the run but `EveryCallEnds`, which is that measure with fairness.

**CompanyProofs.** The inductive invariant has three parts, each kept with the
help of those before it.

- `TypeInv`: types, and that whoever has a phase has a department, that a
  terminating worker is active or terminated, that only an initialized department
  reports.
- `ListeningInv`: a worker's own topic has exactly `<<w>>` while it is active and
  nothing otherwise; the department's topic has active workers of that department
  only. The property counts deliveries; the invariant says what the sequences are.
  Firing twice is where it could fail: the second `terminate` ends after colleagues
  have subscribed again.
- `ShareInv(k)`: of the audience, whoever the listener has passed has the item in
  its memory or its inbox. The step to the next peer skips nobody, because peers
  are told in the order of the Map and newcomers enter at its end, and it is heard,
  because of `ListeningInv`.
- `Subscribe` and `Unsubscribe` are the facts about the bus all of it rests on;
  `ShareStays` says which steps leave a `shareKnowledge` call alone.
- `Directed` and `Dispatched(g)` follow a company goal: a department listens to its
  directives from before boot returns and `terminate` leaves that topic alone, so what
  it has received and what is left of the decomposition add up to what was addressed
  to it. `MentionsTail` is the counting.
- `ToDo(k)` counts the awaits a `shareKnowledge` call has before it at most: two for
  each peer the listener has yet to tell, one for each message being handled, and its
  own. Each of its steps shortens it, messages wait only while the listener
  waits for them (`Mailing`), and of everything else that happens only hiring into the
  department lengthens it, because the listener goes through a Map that grows at its
  end. What `EveryShareEnds` needs besides is fairness, and an end of the hiring, which
  in the model the number of workers brings.
- Theorems: `TypeCorrect`, `Listening`, `Reaches`: the three invariants of the run;
  `GoalsArrive`: what `CompanyGoalArrivesOnce` says except that the dispatch ends;
  `NothingButHiringDelays`: the measure.

**KnowledgeProofs.** The base only grows (`BaseGrows`), so what a newcomer retrieved
is still its beginning. `Sharing(k)` follows one share: stored from its first step
on, then every peer up to `told` has absorbed the item, has it in its inbox or was
sent it too early, and at the end everyone who has retrieved by then. That newcomers
enter the Map behind `told` needs `Arrivals`: hiring fills it in order. `Clock` says
that what is under way belongs to this millisecond, that any two of that have met, and
(`Remembers`) that what a worker absorbed is settled, or excused, or the current entry of
its memory and under way: so absorbing a share displaces only what it has met
(`AbsorbKeeps`), and injecting an item only what is excused from then on (`InjectKeeps`).
`SharingStays` says which steps leave a share alone. Theorems: `TypeCorrect`,
`OnlyGapLoses`, `ForgottenUnderLoad`: all three properties of the run.

**ScheduleProofs.** Of any finite graph: the in-degree of a task is the number of
its edges whose origin has not been worked off, the current layer is what has none
left and has not been processed, and no cycle lies within what was processed.
`CountGoesDown` and `LayerAdded` are about the counting; `LayerStep` keeps the
invariant. When the loop ends with tasks left over, each of them waits for another
one, which is a cycle; when all are processed there is none.
The critical path comes from a second invariant, `PathInv`, on top of the first: every task
of a layer waits for one of the layer before (`Layered`), and a task the path loop has
visited has a chain through all the layers up to its own, and the length of it
(`Visited`). `LongerChain` adds a task to a chain, `VisitStep` and `LongestStep` are the
two loops. Theorems: `LayersRespectDependencies`, `RefusedExactlyIfCyclic`,
`CriticalPathSpans`: all properties of the run.

**EscalationProofs.** The lemmas are arithmetic over the code's constants: `Scores`
bounds the score of an option within the worker's autonomy by its risk, and the
bounds of different risks do not overlap, hence `BestHasLeastRisk`;
`HighRiskIsUnsure` shows that the best of several options, if it is of high risk,
leads by too little to reach the bar of confidence. The invariant `Decided`
ties the choice a call carries over its awaits to the options it came from.
Theorems: `TypeCorrect`, `AloneTheLeastRisk`, `LevelsAgree`.

**AgentProofs.** `Progress` says for each await of `invoke` what the log holds and
whether the tool has run. The token budget counts a completion in flight as the
whole response it may still bring, so that what is used and what is promised can
exceed the budget by one response for each completion that was admitted. Theorems:
`TypeCorrect`, `AnswersMatch`, `OvershootBounded`.

The context is one pass of straight code between two awaits, so its theorem is about
functions and not about steps: for any results of the searches, `selectWithinBudget`
of them satisfies what `ContextWithinBudget` says of a bundle. `Packed` is the invariant
of the selection loop: what was taken fits, and whatever was passed over did not fit beside
the first n that were taken, all of them at least as relevant. A turn of the loop keeps it
(`TurnKeepsPacked`) because sources come in the order of relevance. That the sort loses and
repeats nothing is `SortPermutes`: the number of sources before a source is a place of its
own, so the places are a permutation. That a truncated bundle lacks a source needs
the sources to be different, which they are by tier and id (`JoinedApart`). The sums and
selections are recursive functions over an interval; since the library's induction
theorems cannot be used, `Induct` derives induction from the least number at which a set
of numbers begins, and `Unroll` the equations of such a function. Theorem:
`BundlesKeepToBudget`.

`ToolCallsEnd` is proved as well, under fairness stated without `ENABLED`: `PortsAnswer`
says that an invocation that has not returned is answered by a port again and again, and
`AnswersPassedOn` that an answer does not wait for the state machine forever; the guards
stand where weak fairness has `ENABLED`. `Within(n)` is that an invocation returns after
at most n awaits: every answer lowers n, nothing else raises it, and n is at most seven,
so that seven applications of the fairness reach the answer. Theorem: `ToolCallsComeBack`.

**Only model-checked**: the liveness properties `MinimumStaffingRestored`,
`EveryCallEnds`, `EveryShareEnds`, `CompanyGoalArrivesOnce` and the refuted
`WeeklyReportEnds` and `EscalationAnswered`, which need fairness, hence `ENABLED`, and are
out of the prover's reach. Of `ToolCallsEnd` only the weak fairness of the specification
is left to the model checker: the theorem assumes it in the form above. Every invariant
and action property of the passing runs and both refinements are theorems.

## 5. What is not modelled, and the plan

Left out for good, with the reason: the user interface, manifests and scripts (no
logic of the system); LLM providers (one HTTP call); shared value wrappers (no
state); the next-generation engines, which only their unit tests call, so that
there is no sequence of calls to check: straight-line arithmetic on reals, a loop
over callbacks, a stored list, and a simulator that samples at random. The
department subclasses are one pattern, which `BaseWorker` has in the variant with
most behaviour, the support worker. Performance reviews change nothing with the
scores the shipped workers record. Improvement plans and the heartbeat publish a
message or set a field nobody reads; company goals and policies of the organization
and its health check likewise.

What could come next: `handoffGoal` and requests between departments on the bus of
`Company`.
