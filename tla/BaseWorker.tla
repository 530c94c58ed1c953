----------------------------- MODULE BaseWorker -----------------------------
(***************************************************************************)
(* One worker of packages/workforce (BaseWorker, with the executeGoal and  *)
(* the messages of a support worker): its goals, its status, its recovery  *)
(* from failures and its escalations.                                      *)
(*                                                                         *)
(* The worker is an object in one process.  acceptGoal, an incoming        *)
(* message and terminate are asynchronous calls that share it; each runs   *)
(* up to its next await and the others run while it waits.  A call is a    *)
(* record of where it waits; each action is the stretch between two awaits.*)
(*                                                                         *)
(* External: how the work of a goal ends (it succeeds, it is blocked, it   *)
(* throws).  Abstracted: memory, knowledge base, metrics, the content of   *)
(* messages.  Sending a message changes no state of the sender.            *)
(***************************************************************************)
EXTENDS Integers, Sequences, FiniteSets

CONSTANTS GoalId,
          Priority,     \* goal id -> 0 (critical) .. 3 (low)
          Call,         \* bound: calls in flight at once
          MaxGoals,     \* bound: goals ever accepted
          MAX_RECOVERY_ATTEMPTS

ASSUME BaseWorkerAssumption ==
    /\ Priority \in [GoalId -> Nat]
    /\ MaxGoals \in Nat /\ MAX_RECOVERY_ATTEMPTS \in Nat

VARIABLES goals,              \* accepted goals, in order: id and status
          status,
          recoveryAttempts,
          pendingEscalations, \* blockedTask of each escalation, and resolved or not
          subscribed,         \* to its topic on the bus
          calls               \* call -> where it waits

vars == <<goals, status, recoveryAttempts, pendingEscalations, subscribed, calls>>

WorkerStatus == {"onboarding", "idle", "working", "reflecting", "learning",
                 "escalating", "recovering", "terminated"}

\* "goal" is the place in goals of the goal a call works on, "prev" the
\* status reflect will put back, "retry" says that recover runs the goal.
Free == [at |-> "free", goal |-> 0, prev |-> "idle", retry |-> FALSE]

Set(c, frame) == calls' = [calls EXCEPT ![c] = frame]
Go(c, at) == calls' = [calls EXCEPT ![c].at = at]

\* A worker that has just been created, and the hire that onboards it.
Init == /\ goals = << >> /\ status = "onboarding" /\ recoveryAttempts = 0
        /\ pendingEscalations = << >> /\ subscribed = FALSE
        /\ \E c \in Call :
             calls = [d \in Call |-> [Free EXCEPT !.at = IF d = c THEN "onboard"
                                                                 ELSE "free"]]

\* Context and knowledge are loaded.
Onboarded(c) ==
    /\ calls[c].at = "onboard"
    /\ status' = "idle" /\ subscribed' = TRUE
    /\ Set(c, Free)
    /\ UNCHANGED <<goals, recoveryAttempts, pendingEscalations>>

-----------------------------------------------------------------------------
(* Goals                                                                   *)

Pending == {i \in DOMAIN goals : goals[i].status = "pending"}
Rank(i) == Priority[goals[i].id]

\* The head of the stable sort by priority.
MostUrgent(i) ==
    \A j \in Pending : Rank(i) < Rank(j) \/ (Rank(i) = Rank(j) /\ i <= j)

\* A start that leaves the goal pending until its work is done.
startNextGoal_Unmarked(c, st) ==
    \/ \E i \in Pending :
         /\ MostUrgent(i)
         /\ status' = "working"
         /\ Set(c, [Free EXCEPT !.at = "execute", !.goal = i])
         /\ UNCHANGED goals
    \/ Pending = {} /\ status' = st /\ Set(c, Free) /\ UNCHANGED goals

\* startNextGoal of a worker in status st; the goal is executed within the call.
startNextGoal(c, st) ==
    \/ \E i \in Pending :
         /\ MostUrgent(i)
         /\ goals' = [goals EXCEPT ![i].status = "active"]
         /\ status' = "working"
         /\ Set(c, [Free EXCEPT !.at = "execute", !.goal = i])
    \/ Pending = {} /\ status' = st /\ Set(c, Free) /\ UNCHANGED goals

\* The goal is on the list before the first await.
AcceptGoal(c, g) ==
    /\ calls[c] = Free /\ status # "onboarding" /\ Len(goals) < MaxGoals
    /\ goals' = Append(goals, [id |-> g, status |-> "pending"])
    /\ Set(c, [Free EXCEPT !.at = "acknowledge"])
    /\ UNCHANGED <<status, recoveryAttempts, pendingEscalations, subscribed>>

\* Stored and acknowledged: an idle worker starts its most urgent goal.
Acknowledged(c) ==
    /\ calls[c].at = "acknowledge"
    /\ IF status = "idle" THEN startNextGoal(c, status)
                          ELSE Set(c, Free) /\ UNCHANGED <<goals, status>>
    /\ UNCHANGED <<recoveryAttempts, pendingEscalations, subscribed>>

-----------------------------------------------------------------------------
(* The work of a goal: executeGoal and what follows it                     *)

\* A success that gives one attempt back and does not start afresh.
ExecuteReturns_OneBack(c) ==
    /\ Set(c, Free)
    /\ recoveryAttempts' = IF calls[c].retry THEN recoveryAttempts - 1
                                             ELSE recoveryAttempts

\* executeGoal returned to startNextGoal, or to recover, which then starts
\* counting afresh.
ExecuteReturns(c) ==
    /\ Set(c, Free)
    /\ recoveryAttempts' = IF calls[c].retry THEN 0 ELSE recoveryAttempts

\* The work is done; reflect notes the status it will put back.
WorkSucceeds(c) ==
    /\ calls[c].at = "execute"
    /\ goals' = [goals EXCEPT ![calls[c].goal].status = "completed"]
    /\ status' = "reflecting"
    /\ Set(c, [calls[c] EXCEPT !.at = "reflect", !.prev = status])
    /\ UNCHANGED <<recoveryAttempts, pendingEscalations, subscribed>>

Reflected(c) ==
    /\ calls[c].at = "reflect"
    /\ status' = "learning"
    /\ Go(c, "learn")
    /\ UNCHANGED <<goals, recoveryAttempts, pendingEscalations, subscribed>>

\* learn leaves the worker idle.  Inside reflect the caller resumes later.
Learned(c) ==
    /\ calls[c].at \in {"learn", "learnFeedback"}
    /\ status' = "idle"
    /\ IF calls[c].at = "learn" THEN Go(c, "reflectEnd") ELSE Set(c, Free)
    /\ UNCHANGED <<goals, recoveryAttempts, pendingEscalations, subscribed>>

ReflectEnds(c) ==
    /\ calls[c].at = "reflectEnd"
    /\ status' = calls[c].prev
    /\ ExecuteReturns(c)
    /\ UNCHANGED <<goals, pendingEscalations, subscribed>>

Escalate(i) ==
    /\ pendingEscalations' = Append(pendingEscalations,
                                    [task |-> goals[i].id, resolved |-> FALSE])
    /\ status' = "escalating"

\* The worker cannot resolve it and says so to its manager.
WorkBlocked(c) ==
    /\ calls[c].at = "execute"
    /\ Escalate(calls[c].goal)
    /\ Go(c, "escalate")
    /\ UNCHANGED <<goals, recoveryAttempts, subscribed>>

BlockEscalated(c) ==
    /\ calls[c].at = "escalate"
    /\ ExecuteReturns(c)
    /\ UNCHANGED <<goals, status, pendingEscalations, subscribed>>

\* Where a call waits for something that may reject: for the work itself, or
\* for the reflection on it.  What learn and recover await is in memory.
MayThrow == {"execute", "reflect"}

\* The exception reaches startNextGoal or recover; reflect's notes are gone.
Catch(c, at) == Set(c, [calls[c] EXCEPT !.at = at, !.prev = "idle"])

\* recover that gives up without telling anyone.
WorkThrows_Silent(c) ==
    /\ calls[c].at \in MayThrow
    /\ recoveryAttempts' = recoveryAttempts + 1
    /\ UNCHANGED pendingEscalations
    /\ status' = "recovering"
    /\ Catch(c, IF recoveryAttempts + 1 > MAX_RECOVERY_ATTEMPTS THEN "giveUp" ELSE "recover")
    /\ UNCHANGED <<goals, subscribed>>

\* recover that does not count its attempts.
WorkThrows_Uncounted(c) ==
    /\ calls[c].at \in MayThrow
    /\ status' = "recovering"
    /\ Catch(c, "recover")
    /\ UNCHANGED <<goals, subscribed, recoveryAttempts, pendingEscalations>>

\* executeGoal threw, perhaps with the goal completed already: recover counts
\* the attempt, and escalates at the limit.
WorkThrows(c) ==
    /\ calls[c].at \in MayThrow
    /\ recoveryAttempts' = recoveryAttempts + 1
    /\ IF recoveryAttempts + 1 > MAX_RECOVERY_ATTEMPTS
       THEN Escalate(calls[c].goal) /\ Catch(c, "giveUp")
       ELSE /\ status' = "recovering" /\ Catch(c, "recover")
            /\ UNCHANGED pendingEscalations
    /\ UNCHANGED <<goals, subscribed>>

\* goals.find(g => g.goalId === taskId)
FirstWithId(g, i) == /\ goals[i].id = g
                     /\ \A j \in 1 .. i - 1 : goals[j].id # g

\* A reset that takes the counter with it.
ContextReset_Fresh(c) ==
    /\ calls[c].at = "recover"
    /\ \E i \in DOMAIN goals :
         /\ FirstWithId(goals[calls[c].goal].id, i)
         /\ Set(c, [calls[c] EXCEPT !.at = "execute", !.goal = i, !.retry = TRUE])
    /\ status' = "working" /\ recoveryAttempts' = 0
    /\ UNCHANGED <<goals, pendingEscalations, subscribed>>

\* The context is reset: the goal with that id is executed again, whether it
\* is completed by now or not.
ContextReset(c) ==
    /\ calls[c].at = "recover"
    /\ \E i \in DOMAIN goals :
         /\ FirstWithId(goals[calls[c].goal].id, i)
         /\ Set(c, [calls[c] EXCEPT !.at = "execute", !.goal = i, !.retry = TRUE])
    /\ status' = "working"
    /\ UNCHANGED <<goals, recoveryAttempts, pendingEscalations, subscribed>>

FailureEscalated(c) ==
    /\ calls[c].at = "giveUp"
    /\ recoveryAttempts' = 0
    /\ Set(c, Free)
    /\ UNCHANGED <<goals, status, pendingEscalations, subscribed>>

-----------------------------------------------------------------------------
(* Messages and termination                                                *)

\* Customer feedback is learnt from whatever the worker is doing.
CsatReceived(c) ==
    /\ calls[c] = Free /\ subscribed
    /\ status' = "learning"
    /\ Set(c, [Free EXCEPT !.at = "learnFeedback"])
    /\ UNCHANGED <<goals, recoveryAttempts, pendingEscalations, subscribed>>

\* The manager answers an escalation, perhaps a second time.
EscalationResolved(c, k) ==
    /\ calls[c] = Free /\ subscribed
    /\ pendingEscalations' = [pendingEscalations EXCEPT ![k].resolved = TRUE]
    /\ IF status = "escalating"
       THEN startNextGoal(c, "idle")
       ELSE UNCHANGED <<goals, status, calls>>
    /\ UNCHANGED <<recoveryAttempts, subscribed>>

\* The handoff, the knowledge and the report are awaited first.  Nobody
\* stops the calls in flight.
Terminate(c) ==
    /\ calls[c] = Free /\ subscribed
    /\ Set(c, [Free EXCEPT !.at = "terminate"])
    /\ UNCHANGED <<goals, status, recoveryAttempts, pendingEscalations, subscribed>>

TerminateEnds(c) ==
    /\ calls[c].at = "terminate"
    /\ status' = "terminated" /\ subscribed' = FALSE
    /\ Set(c, Free)
    /\ UNCHANGED <<goals, recoveryAttempts, pendingEscalations>>

-----------------------------------------------------------------------------
Resume(c) == \/ Onboarded(c) \/ Acknowledged(c)
             \/ WorkSucceeds(c) \/ WorkBlocked(c) \/ WorkThrows(c)
             \/ Reflected(c) \/ Learned(c) \/ ReflectEnds(c)
             \/ BlockEscalated(c) \/ ContextReset(c) \/ FailureEscalated(c)
             \/ TerminateEnds(c)

Next == \E c \in Call :
            \/ Resume(c)
            \/ \E g \in GoalId : AcceptGoal(c, g)
            \/ CsatReceived(c)
            \/ \E k \in DOMAIN pendingEscalations : EscalationResolved(c, k)
            \/ Terminate(c)

Spec == Init /\ [][Next]_vars

\* What a call awaits resolves or rejects in the end.
FairSpec == Spec /\ \A c \in Call : WF_vars(Resume(c))

-----------------------------------------------------------------------------
Goals == [id : GoalId, status : {"pending", "active", "completed"}]
Escalations == [task : GoalId, resolved : BOOLEAN]
Frame == [at : {"free", "onboard", "acknowledge", "execute", "reflect", "learn",
                "learnFeedback", "reflectEnd", "escalate", "recover", "giveUp",
                "terminate"},
          goal : Nat, prev : WorkerStatus, retry : BOOLEAN]

\* Well-formed; above all, the shared counter never runs below zero.
TypeOK ==
    /\ goals \in Seq(Goals)
    /\ status \in WorkerStatus
    /\ recoveryAttempts \in Nat
    /\ pendingEscalations \in Seq(Escalations)
    /\ subscribed \in BOOLEAN
    /\ calls \in [Call -> Frame]
    /\ \A c \in Call : calls[c].goal \in DOMAIN goals \cup {0}

WorksOn(c, g) == calls[c].goal # 0 /\ goals[calls[c].goal].id = g

\* No goal falls through recovery: one that was started and is neither done
\* nor being worked on has been escalated to the manager.
ActiveGoalIsAccountedFor ==
    \A i \in DOMAIN goals : goals[i].status = "active" =>
        LET g == goals[i].id
        IN  \/ \E c \in Call : WorksOn(c, g)
            \/ \E k \in DOMAIN pendingEscalations : pendingEscalations[k].task = g
            \/ \E j \in DOMAIN goals : goals[j] = [id |-> g, status |-> "completed"]

\* However calls interleave, and although a worker may be idle in the middle
\* of a goal, two calls never work on the same goal.  (Of a goal handed over
\* twice recover executes the first copy, so only goals that came once count.)
OneCallPerGoal ==
    \A c, d \in Call : \A g \in GoalId :
        /\ c # d /\ WorksOn(c, g) /\ WorksOn(d, g)
        => \E i, j \in DOMAIN goals : i # j /\ goals[i].id = g /\ goals[j].id = g

\* Call d ends and sets the counter back that all calls share.
Busy(c) == calls[c].at # "free"
Resets(d) == Busy(d) /\ ~Busy(d)' /\ recoveryAttempts' < recoveryAttempts

\* How far a call is from its end: the attempts that are left, and in each
\* of them the awaits that are left.
Awaits == [onboard |-> 1, learnFeedback |-> 1, terminate |-> 1, giveUp |-> 1,
           escalate |-> 2, reflectEnd |-> 3, learn |-> 4,
           reflect |-> 5, execute |-> 6, recover |-> 7, acknowledge |-> 8]
AttemptsLeft == IF recoveryAttempts > MAX_RECOVERY_ATTEMPTS
                THEN 0 ELSE MAX_RECOVERY_ATTEMPTS + 1 - recoveryAttempts
Distance(c) == IF Busy(c) THEN 10 * AttemptsLeft + Awaits[calls[c].at] ELSE 0

\* Nested recovery gets on: each step of a call, a failure and a retry
\* included, brings it nearer to its end, and no other call takes it further
\* away from it, except by setting the shared counter back.
RecoveryGetsOn ==
    [][\A c \in Call : Busy(c) =>
        /\ Resume(c) => Distance(c)' < Distance(c)
        /\ \/ Distance(c)' <= Distance(c)
           \/ \E d \in Call \ {c} : Resets(d)]_vars

\* A call ends, and no goal is retried for ever, unless other calls set the
\* shared counter back again and again.  (That they can is the code as it is:
\* with goals that recover coming in for ever, one that fails is retried for
\* ever and never escalated.)
EveryCallEnds ==
    \A c \in Call : \/ []<>~Busy(c)
                    \/ []<><<\E d \in Call \ {c} : Resets(d)>>_vars
=============================================================================
