----------------------------- MODULE Department -----------------------------
(***************************************************************************)
(* A department of packages/workforce: its workforce, its queue of goals   *)
(* and the asynchronous calls that change both.  initialize, receiveGoal,  *)
(* adjustCapacity (a timer) and fire run concurrently in one process: a    *)
(* call keeps the processor up to its next await, and any other call may   *)
(* run while it waits.  Each action below is one such stretch.             *)
(*                                                                         *)
(* The awaits that matter are createWorker, onboard, acceptGoal (which     *)
(* lasts as long as the worker works on the goal) and terminate.  Of a     *)
(* worker the model keeps what the department sees and its own status;     *)
(* BaseWorker models it in full.                                           *)
(*                                                                         *)
(* Left out: performance reviews.  The worker classes record successes     *)
(* only, with constant scores, so that overallScore stays between the      *)
(* thresholds of a review and its trend stays "stable": a review changes   *)
(* nothing.  Reports and cross-department requests change no state here.   *)
(***************************************************************************)
EXTENDS Integers, Sequences, FiniteSets, SequencesExt

CONSTANTS Goal, Role,
          Call,         \* bound: calls in flight at once
          WorkerTypes,  \* config.workerTypes, as a sequence of roles
          MinCount,     \* role -> minCount; no code reads maxCount
          Matches,      \* goal -> roles with a specialization it mentions
          MaxWorkers,   \* config.maxWorkers
          MaxHires,     \* bound: workers ever created
          MaxFires      \* bound: workers ever terminated

ASSUME DepartmentAssumption ==
    /\ WorkerTypes \in Seq(Role)
    /\ MinCount \in [Role -> Nat]
    /\ Matches \in [Goal -> SUBSET Role]
    /\ MaxWorkers \in Nat /\ MaxHires \in Nat /\ MaxFires \in Nat

Elements(s) == {s[i] : i \in DOMAIN s}

\* One post for every worker that minimum staffing asks for.  Each of the
\* nine departments is configured with room for all of them (engineering
\* asks for 7 of 50, legal for 1 of 8); nothing checks it.
Posts == UNION {{r} \X (1 .. MinCount[r]) : r \in Elements(WorkerTypes)}

ASSUME StaffingAssumption == Cardinality(Posts) <= MaxWorkers

VARIABLES workers,      \* the Map: ids of the workers on the books
          profile,      \* id -> profile (role and profile.status) once created
          status,       \* id -> the worker's own status
          held,         \* id -> goals the worker accepted, in order
          pendingGoals, \* the queue
          calls,        \* call -> where it waits and what it has left to do
          ready,        \* initialize has returned: the timers run
          received,     \* history: goals handed to receiveGoal
          overlapped    \* history: two calls were once in flight together

vars == <<workers, profile, status, held, pendingGoals, calls, ready,
          received, overlapped>>

\* The ids are random UUIDs; here they are numbered in the order of hiring.
WorkerId == 1 .. MaxHires
None == "none"
NoProfile == [role |-> None, status |-> None]
Hired == {w \in WorkerId : profile[w] # NoProfile}

\* A call in flight.  "type" is the loop it is in, 0 for the scale-up and k
\* for workerTypes[k] of the staffing loop; "hires" counts the iterations it
\* has left; role, goal and worker are those of the hire it waits for.
NewCall(op) == [op |-> op, at |-> "start", type |-> 0, hires |-> 0,
                role |-> None, goal |-> None, worker |-> 0]
Free == [NewCall("free") EXCEPT !.at = "free"]

Overlap(c) == overlapped' = (overlapped \/ \E d \in Call \ {c} : calls[d] # Free)

Headcount(r) == Cardinality({w \in workers : profile[w].role = r})

Init == /\ workers = {} /\ pendingGoals = << >>
        /\ profile = [w \in WorkerId |-> NoProfile]
        /\ status = [w \in WorkerId |-> None]
        /\ held = [w \in WorkerId |-> << >>]
        /\ \E c \in Call :
             calls = [d \in Call |-> IF d = c THEN NewCall("initialize") ELSE Free]
        /\ ready = FALSE /\ received = {} /\ overlapped = FALSE

-----------------------------------------------------------------------------
(* The staffing loop, which initialize and adjustCapacity end with         *)

\* What ensureMinimumStaffing finds missing when it comes to workerTypes[k].
Shortage_AtLeastOne(k) == IF Headcount(WorkerTypes[k]) > 0 THEN 0
                          ELSE MinCount[WorkerTypes[k]]

Shortage(k) == MinCount[WorkerTypes[k]] - Headcount(WorkerTypes[k])

\* Call c goes on from f: with the next hire of its loop, with the next type
\* that is short, or back to its caller.
GoOn(c, f) ==
    LET short == {k \in f.type + 1 .. Len(WorkerTypes) : Shortage(k) > 0}
    IN  \/ /\ f.hires > 0
           /\ calls' = [calls EXCEPT ![c] =
                 [f EXCEPT !.at = "createWorker", !.hires = @ - 1,
                           !.role = WorkerTypes[IF f.type = 0 THEN 1 ELSE f.type]]]
           /\ UNCHANGED ready
        \/ /\ f.hires = 0
           /\ \E k \in short :
                /\ \A j \in short : k <= j
                /\ calls' = [calls EXCEPT ![c] =
                      [f EXCEPT !.at = "createWorker", !.type = k,
                                !.hires = Shortage(k) - 1, !.role = WorkerTypes[k]]]
           /\ UNCHANGED ready
        \/ /\ f.hires = 0 /\ short = {}
           /\ calls' = [calls EXCEPT ![c] = Free]
           /\ ready' = (ready \/ f.op = "initialize")

Initialize(c) ==
    /\ calls[c].op = "initialize" /\ calls[c].at = "start"
    /\ GoOn(c, calls[c])
    /\ UNCHANGED <<workers, profile, status, held, pendingGoals, received, overlapped>>

\* The capacity timer.  No profile ever has status "idle" (hire sets
\* "onboarding" and nothing else writes it), so idleCount is 0 and the
\* scale-down branch, which needs more than two idle workers, does nothing.
AdjustCapacity(c) ==
    LET idleCount == Cardinality({w \in workers : profile[w].status = "idle"})
        excess == Len(pendingGoals) - idleCount
        room == MaxWorkers - Cardinality(workers)
        deficit == IF excess > 0 /\ room > 0 /\ WorkerTypes # << >>
                   THEN IF excess < room THEN excess ELSE room
                   ELSE 0
    IN  /\ ready /\ calls[c] = Free
        /\ GoOn(c, [NewCall("adjustCapacity") EXCEPT !.hires = deficit])
        /\ Overlap(c)
        /\ UNCHANGED <<workers, profile, status, held, pendingGoals, received>>

-----------------------------------------------------------------------------
(* receiveGoal and assignGoal                                              *)

\* worker.acceptGoal(goal): an idle worker starts working and, from then on,
\* is never idle again.
Accept(w, g) ==
    /\ held' = [held EXCEPT ![w] = Append(@, g)]
    /\ status' = [status EXCEPT ![w] = IF @ = "idle" THEN "working" ELSE @]

findBestWorkerFor(g) == {w \in workers : profile[w].status \in {"idle", "working"}}

\* A size check that lets one more in.
MayHire_OneMore == Cardinality(workers) <= MaxWorkers

MayHire == Cardinality(workers) < MaxWorkers

\* pendingGoals.filter(other => other.goalId !== g): receiveGoal queues a goal
\* once, so that the filter takes it out of the one place it has, if any.
WithoutGoal(g) ==
    IF g \in Elements(pendingGoals)
    THEN RemoveAt(pendingGoals, CHOOSE i \in DOMAIN pendingGoals : pendingGoals[i] = g)
    ELSE pendingGoals

\* The first worker type that serves g.
FirstType(g, k) == /\ k \in 1 .. Len(WorkerTypes) /\ WorkerTypes[k] \in Matches[g]
                   /\ \A j \in 1 .. k - 1 : WorkerTypes[j] \notin Matches[g]

\* A goal nobody takes stays in the queue: to be hired for, at capacity, or
\* escalated because no type serves it (the escalation changes no state).
ReceiveGoal(c, g) ==
    /\ calls[c] = Free /\ g \notin received
    /\ received' = received \cup {g}
    /\ Overlap(c)
    /\ \/ \E w \in findBestWorkerFor(g) :
            /\ Accept(w, g)
            /\ pendingGoals' = WithoutGoal(g)
            /\ calls' = [calls EXCEPT ![c] =
                  [NewCall("receiveGoal") EXCEPT !.at = "acceptGoal",
                                                 !.goal = g, !.worker = w]]
       \/ /\ findBestWorkerFor(g) = {}
          /\ pendingGoals' = Append(pendingGoals, g)
          /\ \/ /\ MayHire
                /\ \E k \in 1 .. Len(WorkerTypes) :
                     /\ FirstType(g, k)
                     /\ calls' = [calls EXCEPT ![c] =
                           [NewCall("receiveGoal") EXCEPT !.at = "createWorker",
                                !.role = WorkerTypes[k], !.goal = g]]
             \/ /\ ~MayHire \/ \A k \in 1 .. Len(WorkerTypes) : ~FirstType(g, k)
                /\ UNCHANGED calls
          /\ UNCHANGED <<held, status>>
    /\ UNCHANGED <<workers, profile, ready>>

-----------------------------------------------------------------------------
(* hire, up to each of its awaits                                          *)

\* createWorker returned: the worker is on the books and starts to onboard.
WorkerCreated(c) ==
    /\ calls[c].at = "createWorker"
    /\ \E w \in WorkerId :
         /\ w = Cardinality(Hired) + 1
         /\ workers' = workers \cup {w}
         /\ profile' = [profile EXCEPT ![w] = [role |-> calls[c].role,
                                               status |-> "onboarding"]]
         /\ status' = [status EXCEPT ![w] = "onboarding"]
         /\ calls' = [calls EXCEPT ![c].at = "onboard", ![c].worker = w]
    /\ UNCHANGED <<held, pendingGoals, ready, received, overlapped>>

\* A find that takes the head of the queue, whatever it asks for.
Oldest_Head(r, i) == i \in DOMAIN pendingGoals /\ i = 1

\* assignPendingGoals' "find", for a worker of role r: the oldest queued goal
\* it can serve.
Oldest(r, i) == /\ i \in DOMAIN pendingGoals /\ r \in Matches[pendingGoals[i]]
                /\ \A j \in 1 .. i - 1 : r \notin Matches[pendingGoals[j]]

\* hire returned worker w to the call f was in.  receiveGoal hands over the
\* goal it hired for, whether or not assignPendingGoals already has.
HireReturns(c, f) ==
    IF f.op = "receiveGoal"
    THEN /\ Accept(f.worker, f.goal)
         /\ calls' = [calls EXCEPT ![c].at = "acceptGoal"]
         /\ UNCHANGED ready
    ELSE GoOn(c, f) /\ UNCHANGED <<held, status>>

\* Dequeuing by what the worker can do and not by goal id.
Dequeue_AllOfRole(r, g) ==
    LET Other(h) == r \notin Matches[h] IN SelectSeq(pendingGoals, Other)

Dequeue(r, g) == WithoutGoal(g)

\* onboard returned: the worker is idle and is handed a queued goal, if one
\* fits; if none does hire returns.
Onboarded(c) ==
    LET f == calls[c]
        w == f.worker
        r == profile[w].role
    IN  /\ f.at = "onboard"
        /\ \/ \E i \in DOMAIN pendingGoals :
                /\ Oldest(r, i)
                /\ pendingGoals' = Dequeue(r, pendingGoals[i])
                /\ held' = [held EXCEPT ![w] = Append(@, pendingGoals[i])]
                /\ status' = [status EXCEPT ![w] = "working"]
                /\ calls' = [calls EXCEPT ![c].at = "acceptPending"]
                /\ UNCHANGED ready
           \/ /\ \A i \in DOMAIN pendingGoals : ~Oldest(r, i)
              /\ f.op = "receiveGoal"
              /\ held' = [held EXCEPT ![w] = Append(@, f.goal)]
              /\ status' = [status EXCEPT ![w] = "working"]
              /\ calls' = [calls EXCEPT ![c].at = "acceptGoal"]
              /\ UNCHANGED <<pendingGoals, ready>>
           \/ /\ \A i \in DOMAIN pendingGoals : ~Oldest(r, i)
              /\ f.op # "receiveGoal"
              /\ status' = [status EXCEPT ![w] = "idle"]
              /\ GoOn(c, f)
              /\ UNCHANGED <<held, pendingGoals>>
        /\ UNCHANGED <<workers, profile, received, overlapped>>

\* The worker is done with the queued goal it was handed.
PendingAccepted(c) ==
    /\ calls[c].at = "acceptPending"
    /\ HireReturns(c, calls[c])
    /\ UNCHANGED <<workers, profile, pendingGoals, received, overlapped>>

\* The worker is done with the goal receiveGoal handed over.
GoalAccepted(c) ==
    /\ calls[c].at = "acceptGoal"
    /\ calls' = [calls EXCEPT ![c] = Free]
    /\ UNCHANGED <<workers, profile, status, held, pendingGoals, ready, received,
                   overlapped>>

-----------------------------------------------------------------------------
Terminated == {w \in WorkerId : status[w] = "terminated"}

\* fire: a worker's id is known outside once it is onboarded.
Fire(c, w) ==
    /\ calls[c] = Free /\ w \in workers /\ status[w] # "onboarding"
    /\ Cardinality(Terminated \cup {calls[d].worker : d \in {e \in Call :
                        calls[e].at = "terminate"}} \cup {w}) <= MaxFires
    /\ calls' = [calls EXCEPT ![c] = [NewCall("fire") EXCEPT !.at = "terminate",
                                                             !.worker = w]]
    /\ Overlap(c)
    /\ UNCHANGED <<workers, profile, status, held, pendingGoals, ready, received>>

\* A listener that leaves the worker on the books.
FireEnds_OnTheBooks(c) ==
    /\ calls[c].at = "terminate"
    /\ status' = [status EXCEPT ![calls[c].worker] = "terminated"]
    /\ calls' = [calls EXCEPT ![c] = Free]
    /\ UNCHANGED <<workers, profile, held, pendingGoals, ready, received, overlapped>>

\* terminate returned; its event takes the worker off the books.
FireEnds(c) ==
    /\ calls[c].at = "terminate"
    /\ workers' = workers \ {calls[c].worker}
    /\ status' = [status EXCEPT ![calls[c].worker] = "terminated"]
    /\ calls' = [calls EXCEPT ![c] = Free]
    /\ UNCHANGED <<profile, held, pendingGoals, ready, received, overlapped>>

\* A call resumes from the await it is in.
Resume(c) == \/ Initialize(c) \/ WorkerCreated(c) \/ Onboarded(c)
             \/ PendingAccepted(c) \/ GoalAccepted(c) \/ FireEnds(c)

Next == \E c \in Call :
            \/ Resume(c)
            \/ \E g \in Goal : ReceiveGoal(c, g)
            \/ AdjustCapacity(c)
            \/ \E w \in WorkerId : Fire(c, w)

Spec == Init /\ [][Next]_vars

\* Promises resolve, and the timer keeps firing.
Fairness == /\ \A c \in Call : WF_vars(Resume(c))
            /\ WF_vars(\E c \in Call : AdjustCapacity(c))

FairSpec == Spec /\ Fairness

-----------------------------------------------------------------------------
Frame == [op : {"free", "initialize", "receiveGoal", "adjustCapacity", "fire"},
          at : {"free", "start", "createWorker", "onboard", "acceptPending",
                "acceptGoal", "terminate"},
          type : 0 .. Len(WorkerTypes), hires : Nat,
          role : Role \cup {None}, goal : Goal \cup {None},
          worker : WorkerId \cup {0}]

\* Well-formed, and nobody is on the books who was never hired or has left.
TypeOK ==
    /\ workers \subseteq Hired \ Terminated
    /\ profile \in [WorkerId -> [role : Role, status : {"onboarding"}]
                                 \cup {NoProfile}]
    /\ status \in [WorkerId -> {None, "onboarding", "idle", "working", "terminated"}]
    /\ held \in [WorkerId -> Seq(Goal)]
    /\ pendingGoals \in Seq(Goal)
    /\ calls \in [Call -> Frame]
    /\ ready \in BOOLEAN /\ received \subseteq Goal /\ overlapped \in BOOLEAN

Pool == INSTANCE GoalPool WITH
            Worker <- WorkerId,
            waiting <- Elements(pendingGoals),
            takers <- [g \in Goal |-> {w \in WorkerId : g \in Elements(held[w])}],
            role <- [w \in WorkerId |-> profile[w].role]

\* The queue and the workers never lose a goal between them: concurrent hires
\* may both go for it, and both take it, but it leaves the queue only to a
\* worker, who keeps it (receiveGoal, assignPendingGoals and hire together).
GoalsAreKept == Pool!Spec

\* Whatever the queue looked like when its onboarding ended, a worker is only
\* ever handed goals its specializations serve.
GoalsFitTheWorker ==
    \A w \in Hired : \A g \in Elements(held[w]) : profile[w].role \in Matches[g]

\* The size is checked before the awaits of a hire and not after: the limit
\* of the department holds as long as calls do not overlap and nobody leaves
\* (minimum staffing replaces a leaver even when another hire took the room).
WithinMaxWorkers ==
    ~overlapped /\ Terminated = {} => Cardinality(workers) <= MaxWorkers

\* "Always keep at least this many" (Department.ts): however calls overlap
\* and whoever is fired, every role is again and again at its minimum.
MinimumStaffingRestored ==
    \A r \in Elements(WorkerTypes) : []<>(Headcount(r) >= MinCount[r])
=============================================================================
