-------------------------- MODULE BaseWorkerProofs --------------------------
(***************************************************************************)
(* Proofs about BaseWorker, for any number of goals and of calls.          *)
(*                                                                         *)
(* The goal list only grows, and a goal only moves from pending to active  *)
(* to completed (Evolves).  What a call in flight relies on (FrameInv) is  *)
(* therefore kept by every other call.  Each action either starts the most *)
(* urgent pending goal, or carries on with the goal its call has and lets  *)
(* go of it only when the goal is done or escalated (Effect).              *)
(***************************************************************************)
EXTENDS BaseWorker, SequenceTheorems, TLAPS

\* Where a call waits while it works on a goal.
Working == {"execute", "reflect", "learn", "reflectEnd", "escalate", "recover",
            "giveUp"}

Told(list, g) == \E k \in DOMAIN list : list[k].task = g
Done(g) == \E j \in DOMAIN goals : goals[j] = [id |-> g, status |-> "completed"]

\* What a call in flight relies on over its awaits.
FrameInv(c) ==
    LET i == calls[c].goal
    IN  /\ i \in DOMAIN goals \cup {0}
        /\ i # 0 <=> calls[c].at \in Working
        /\ i # 0 => goals[i].status # "pending"
        /\ calls[c].at \in {"reflect", "learn", "reflectEnd"} =>
                goals[i].status = "completed"
        /\ calls[c].at \in {"escalate", "giveUp"} => Told(pendingEscalations, goals[i].id)

\* Of a goal handed over twice the first copy is started first.
InOrder ==
    \A i, j \in DOMAIN goals :
        i < j /\ goals[i].id = goals[j].id /\ goals[i].status = "pending"
        => goals[j].status = "pending"

Typed == /\ goals \in Seq(Goals) /\ status \in WorkerStatus
         /\ recoveryAttempts \in Nat /\ pendingEscalations \in Seq(Escalations)
         /\ subscribed \in BOOLEAN /\ calls \in [Call -> Frame]

IInv == /\ Typed /\ InOrder /\ \A c \in Call : FrameInv(c)
        /\ ActiveGoalIsAccountedFor /\ OneCallPerGoal

-----------------------------------------------------------------------------
(* The goal list                                                           *)

\* What every step leaves true of the goals there were.
Evolves(g, h) ==
    /\ h \in Seq(Goals)
    /\ \A i \in DOMAIN g :
         /\ i \in DOMAIN h /\ h[i].id = g[i].id
         /\ g[i].status # "pending" => h[i].status # "pending"
         /\ g[i].status = "completed" => h[i].status = "completed"

\* A goal's status is overwritten and nothing else.
Marked(g, i, s) == [g EXCEPT ![i].status = s]

LEMMA Mark ==
    ASSUME NEW g \in Seq(Goals), NEW i \in DOMAIN g,
           NEW s \in {"pending", "active", "completed"}
    PROVE  /\ Marked(g, i, s) \in Seq(Goals) /\ DOMAIN Marked(g, i, s) = DOMAIN g
           /\ Marked(g, i, s)[i] = [id |-> g[i].id, status |-> s]
           /\ \A j \in DOMAIN g : j # i => Marked(g, i, s)[j] = g[j]
<1> DEFINE h == Marked(g, i, s)
<1>1. g[i] \in Goals
  BY ElementOfSeq, LenProperties
<1>2. [g[i] EXCEPT !.status = s] = [id |-> g[i].id, status |-> s]
  BY <1>1 DEF Goals
<1>3. [g[i] EXCEPT !.status = s] \in Goals
  BY <1>1, <1>2 DEF Goals
<1>4. h = [g EXCEPT ![i] = [g[i] EXCEPT !.status = s]]
  BY DEF Marked
<1> HIDE DEF h
<1>5. h \in Seq(Goals)
  BY <1>3, <1>4, ExceptSeq, LenProperties
<1>6. DOMAIN h = DOMAIN g
  BY <1>4
<1>7. h[i] = [g[i] EXCEPT !.status = s]
  BY <1>4
<1>8. \A j \in DOMAIN g : j # i => h[j] = g[j]
  BY <1>4
<1> QED BY <1>2, <1>5, <1>6, <1>7, <1>8 DEF h

\* A goal is put at the end of the list.
LEMMA Add ==
    ASSUME NEW g \in Seq(Goals), NEW x \in Goals, NEW h, h = Append(g, x)
    PROVE  /\ h \in Seq(Goals) /\ DOMAIN g \subseteq DOMAIN h
           /\ \A j \in DOMAIN h : (j \in DOMAIN g /\ h[j] = g[j])
                                  \/ (j \notin DOMAIN g /\ h[j] = x)
           /\ \A i \in DOMAIN g, j \in DOMAIN h \ DOMAIN g : i < j
<1>1. /\ h \in Seq(Goals) /\ Len(h) = Len(g) + 1
      /\ \A i \in 1 .. Len(g) : h[i] = g[i]
      /\ h[Len(g) + 1] = x
  BY AppendProperties
<1>2. DOMAIN g = 1 .. Len(g) /\ DOMAIN h = 1 .. Len(g) + 1 /\ Len(g) \in Nat
  BY <1>1, LenProperties
<1> QED BY <1>1, <1>2

\* The ways in which an action changes the list.
Kept      == goals' = goals
Accepted  == \E g \in GoalId : goals' = Append(goals, [id |-> g, status |-> "pending"])
Started(i) == /\ i \in Pending /\ MostUrgent(i)
              /\ goals' = Marked(goals, i, "active")
Finished(i) == /\ i \in DOMAIN goals /\ goals[i].status # "pending"
               /\ goals' = Marked(goals, i, "completed")

LEMMA ListEvolves ==
    ASSUME goals \in Seq(Goals),
           Kept \/ Accepted \/ (\E i : Started(i)) \/ (\E i : Finished(i))
    PROVE  Evolves(goals, goals')
<1>1. CASE Kept
  BY <1>1 DEF Kept, Evolves
<1>2. CASE Accepted
  <2>1. PICK g \in GoalId : goals' = Append(goals, [id |-> g, status |-> "pending"])
    BY <1>2 DEF Accepted
  <2>2. [id |-> g, status |-> "pending"] \in Goals
    BY DEF Goals
  <2> QED BY <2>1, <2>2, Add DEF Evolves
<1>3. ASSUME NEW i, Started(i) \/ Finished(i) PROVE Evolves(goals, goals')
  <2>1. i \in DOMAIN goals
    BY <1>3 DEF Started, Finished, Pending
  <2>2. PICK s \in {"active", "completed"} :
            /\ goals' = Marked(goals, i, s)
            /\ goals[i].status = "completed" => s = "completed"
    BY <1>3 DEF Started, Finished, Pending
  <2>3. /\ goals' \in Seq(Goals) /\ DOMAIN goals' = DOMAIN goals
        /\ goals'[i] = [id |-> goals[i].id, status |-> s]
        /\ \A j \in DOMAIN goals : j # i => goals'[j] = goals[j]
    <3>1. s \in {"pending", "active", "completed"}
      OBVIOUS
    <3>2. /\ Marked(goals, i, s) \in Seq(Goals) /\ DOMAIN Marked(goals, i, s) = DOMAIN goals
           /\ Marked(goals, i, s)[i] = [id |-> goals[i].id, status |-> s]
           /\ \A j \in DOMAIN goals : j # i => Marked(goals, i, s)[j] = goals[j]
      BY <2>1, <3>1, Mark
    <3>3. goals' = Marked(goals, i, s)
      BY <2>2
    <3> QED BY <3>2, <3>3
  <2> QED BY <2>2, <2>3 DEF Evolves
<1> QED BY <1>1, <1>2, <1>3

-----------------------------------------------------------------------------
(* Frames and escalations                                                  *)

\* A frame is replaced, or only its place.
LEMMA SetFrame ==
    ASSUME calls \in [Call -> Frame], NEW c \in Call, NEW f \in Frame, Set(c, f)
    PROVE  /\ calls' \in [Call -> Frame] /\ calls'[c] = f
           /\ \A d \in Call : d # c => calls'[d] = calls[d]
BY DEF Set

LEMMA GoTo ==
    ASSUME calls \in [Call -> Frame], NEW c \in Call, NEW p, Go(c, p),
           p \in {"learn", "reflectEnd", "escalate"}
    PROVE  /\ calls' \in [Call -> Frame]
           /\ calls'[c].at = p /\ calls'[c].goal = calls[c].goal
           /\ \A d \in Call : d # c => calls'[d] = calls[d]
<1> DEFINE f == [calls[c] EXCEPT !.at = p]
<1>1. calls[c] \in Frame
  OBVIOUS
<1>2. f \in Frame /\ f.at = p /\ f.goal = calls[c].goal
  BY <1>1 DEF Frame
<1>3. calls' = [calls EXCEPT ![c] = f]
  BY DEF Go
<1> HIDE DEF f
<1> QED BY <1>2, <1>3

LEMMA CatchAt ==
    ASSUME calls \in [Call -> Frame], NEW c \in Call, NEW p, Catch(c, p),
           p \in {"recover", "giveUp"}
    PROVE  /\ calls' \in [Call -> Frame]
           /\ calls'[c].at = p /\ calls'[c].goal = calls[c].goal
           /\ \A d \in Call : d # c => calls'[d] = calls[d]
<1> DEFINE f == [calls[c] EXCEPT !.at = p, !.prev = "idle"]
<1>1. calls[c] \in Frame
  OBVIOUS
<1>2. f \in Frame /\ f.at = p /\ f.goal = calls[c].goal
  BY <1>1 DEF Frame, WorkerStatus
<1>3. Set(c, f)
  BY DEF Catch
<1> HIDE DEF f
<1> QED BY <1>2, <1>3, SetFrame

\* What a step leaves true of the escalations there were.
EscalationsStay ==
    /\ pendingEscalations' \in Seq(Escalations)
    /\ \A k \in DOMAIN pendingEscalations :
         /\ k \in DOMAIN pendingEscalations'
         /\ pendingEscalations'[k].task = pendingEscalations[k].task

\* A new escalation is on the list, and the others stay on it.
LEMMA Escalating ==
    ASSUME pendingEscalations \in Seq(Escalations), goals \in Seq(Goals),
           NEW i \in DOMAIN goals, Escalate(i)
    PROVE  EscalationsStay /\ Told(pendingEscalations', goals[i].id) /\ status' \in WorkerStatus
<1> DEFINE e == [task |-> goals[i].id, resolved |-> FALSE]
<1>1. goals[i] \in Goals
  BY ElementOfSeq, LenProperties
<1>2. e \in Escalations /\ e.task = goals[i].id
  BY <1>1 DEF Goals, Escalations
<1>3. pendingEscalations' = Append(pendingEscalations, e) /\ status' = "escalating"
  BY DEF Escalate, e
<1> HIDE DEF e
<1>4. /\ pendingEscalations' \in Seq(Escalations)
      /\ Len(pendingEscalations') = Len(pendingEscalations) + 1
      /\ \A k \in 1 .. Len(pendingEscalations) :
            pendingEscalations'[k] = pendingEscalations[k]
      /\ pendingEscalations'[Len(pendingEscalations) + 1] = e
  BY <1>2, <1>3, AppendProperties
<1>5. /\ DOMAIN pendingEscalations = 1 .. Len(pendingEscalations)
      /\ DOMAIN pendingEscalations' = 1 .. Len(pendingEscalations) + 1
      /\ Len(pendingEscalations) \in Nat
  BY <1>4, LenProperties
<1>6. EscalationsStay
  BY <1>4, <1>5 DEF EscalationsStay
<1>7. Told(pendingEscalations', goals[i].id)
  BY <1>2, <1>4, <1>5 DEF Told
<1> QED BY <1>3, <1>6, <1>7 DEF WorkerStatus

\* An answered one stays on the list.
LEMMA Answering ==
    ASSUME pendingEscalations \in Seq(Escalations),
           NEW k \in DOMAIN pendingEscalations,
           pendingEscalations' = [pendingEscalations EXCEPT ![k].resolved = TRUE]
    PROVE  EscalationsStay
<1> DEFINE e == [pendingEscalations[k] EXCEPT !.resolved = TRUE]
<1>1. pendingEscalations[k] \in Escalations
  BY ElementOfSeq, LenProperties
<1>2. e \in Escalations /\ e.task = pendingEscalations[k].task
  BY <1>1 DEF Escalations
<1>3. pendingEscalations' = [pendingEscalations EXCEPT ![k] = e]
  OBVIOUS
<1> HIDE DEF e
<1>4. pendingEscalations' \in Seq(Escalations)
  <2>1. k \in 1 .. Len(pendingEscalations)
    BY LenProperties
  <2>2. [pendingEscalations EXCEPT ![k] = e] \in Seq(Escalations)
    BY <1>2, <2>1, ExceptSeq
  <2> QED BY <1>3, <2>2
<1> QED BY <1>2, <1>3, <1>4 DEF EscalationsStay

-----------------------------------------------------------------------------
(* The actions                                                             *)

\* The call starts a goal, ...
Takes(c) == /\ calls[c].goal = 0
            /\ Started(calls'[c].goal)

\* ... or it carries on with the one it has, until that is done or escalated.
Carries(c) ==
    /\ Kept \/ Accepted \/ Finished(calls[c].goal)
    /\ calls'[c].goal # 0 =>
         /\ calls[c].goal # 0
         /\ goals'[calls'[c].goal].id = goals[calls[c].goal].id
    /\ calls[c].goal # 0 /\ calls'[c].goal = 0 =>
         \/ goals[calls[c].goal].status = "completed"
         \/ Told(pendingEscalations, goals[calls[c].goal].id)

\* What an action of call c does.
Effect(c) ==
    /\ Typed' /\ EscalationsStay /\ FrameInv(c)'
    /\ \A d \in Call : d # c => calls'[d] = calls[d]
    /\ Takes(c) \/ Carries(c)

\* The idle frame.
LEMMA FreeFrame == Free \in Frame /\ Free.goal = 0 /\ Free.at = "free"
BY DEF Free, Frame, WorkerStatus

\* A call that becomes free, of whatever it was.
LEMMA BecomesFree ==
    ASSUME Typed, NEW c \in Call, Set(c, Free)
    PROVE  /\ calls' \in [Call -> Frame] /\ FrameInv(c)' /\ calls'[c].goal = 0
           /\ \A d \in Call : d # c => calls'[d] = calls[d]
<1>1. /\ calls' \in [Call -> Frame] /\ calls'[c] = Free
      /\ \A d \in Call : d # c => calls'[d] = calls[d]
  BY FreeFrame, SetFrame DEF Typed
<1> QED BY <1>1, FreeFrame DEF FrameInv, Working

\* startNextGoal, of a call that has no goal yet.
LEMMA StartNext ==
    ASSUME Typed, NEW c \in Call, calls[c].goal = 0, NEW st \in WorkerStatus,
           startNextGoal(c, st), EscalationsStay, subscribed' \in BOOLEAN,
           recoveryAttempts' \in Nat
    PROVE  Effect(c)
<1>1. ASSUME NEW i \in Pending, MostUrgent(i),
             goals' = [goals EXCEPT ![i].status = "active"], status' = "working",
             Set(c, [Free EXCEPT !.at = "execute", !.goal = i])
      PROVE  Effect(c)
  <2> DEFINE f == [Free EXCEPT !.at = "execute", !.goal = i]
  <2>1. i \in DOMAIN goals /\ goals \in Seq(Goals) /\ i \in Nat /\ i # 0
    BY <1>1, LenProperties DEF Pending, Typed
  <2>2. f \in Frame /\ f.at = "execute" /\ f.goal = i
    BY <2>1 DEF Free, Frame, WorkerStatus
  <2> HIDE DEF f
  <2>3. /\ calls' \in [Call -> Frame] /\ calls'[c] = f
        /\ \A d \in Call : d # c => calls'[d] = calls[d]
    BY <1>1, <2>2, SetFrame DEF Typed, f
  <2>4. goals' = Marked(goals, i, "active")
    BY <1>1 DEF Marked
  <2>5. Started(i)
    BY <1>1, <2>4 DEF Started
  <2>6. Evolves(goals, goals')
    BY <2>1, <2>5, ListEvolves
  <2>7. goals'[i] = [id |-> goals[i].id, status |-> "active"]
    BY <2>1, <2>4, Mark
  <2>8. FrameInv(c)'
    BY <2>1, <2>2, <2>3, <2>6, <2>7 DEF FrameInv, Working, Evolves
  <2>9. Typed'
    BY <1>1, <2>3, <2>6 DEF Typed, Evolves, EscalationsStay, WorkerStatus
  <2> QED BY <2>2, <2>3, <2>5, <2>8, <2>9 DEF Effect, Takes
<1>2. ASSUME status' = st, Set(c, Free), UNCHANGED goals PROVE Effect(c)
  <2>1. Typed'
    BY <1>2, BecomesFree DEF Typed, EscalationsStay
  <2> QED BY <1>2, <2>1, BecomesFree DEF Effect, Carries, Kept
<1> QED BY <1>1, <1>2 DEF startNextGoal

\* An action that leaves the escalations alone.
LEMMA NoEscalation ==
    ASSUME Typed, UNCHANGED pendingEscalations
    PROVE  EscalationsStay
BY DEF Typed, EscalationsStay

\* A call that waits outside any goal ends: onboard, learning from feedback, terminate.
LEMMA EndsEffect ==
    ASSUME Typed, NEW c \in Call, FrameInv(c), calls[c].at \notin Working,
           UNCHANGED <<goals, pendingEscalations>>, Set(c, Free),
           status' \in WorkerStatus, subscribed' \in BOOLEAN, recoveryAttempts' \in Nat
    PROVE  Effect(c)
<1>1. Typed'
  BY BecomesFree DEF Typed
<1>2. calls[c].goal = 0
  BY DEF FrameInv
<1> QED BY <1>1, <1>2, BecomesFree, NoEscalation DEF Effect, Carries, Kept

\* A call that works on a goal comes to an end, the goal done or escalated.
LEMMA LetsGoEffect ==
    ASSUME Typed, NEW c \in Call, FrameInv(c),
           calls[c].at \in {"reflectEnd", "escalate", "giveUp"},
           UNCHANGED <<goals, pendingEscalations, subscribed>>, Set(c, Free),
           status' \in WorkerStatus, recoveryAttempts' \in Nat
    PROVE  Effect(c)
<1>1. Typed'
  BY BecomesFree DEF Typed
<1>2. \/ goals[calls[c].goal].status = "completed"
      \/ Told(pendingEscalations, goals[calls[c].goal].id)
  BY DEF FrameInv
<1> QED BY <1>1, <1>2, BecomesFree, NoEscalation DEF Effect, Carries, Kept

\* A call begins with a frame that has no goal.
LEMMA BeginsEffect ==
    ASSUME Typed, NEW c \in Call, calls[c] = Free,
           NEW p \in {"acknowledge", "learnFeedback", "terminate"},
           Set(c, [Free EXCEPT !.at = p]), Kept \/ Accepted,
           UNCHANGED <<pendingEscalations, subscribed, recoveryAttempts>>,
           status' \in WorkerStatus
    PROVE  Effect(c)
<1> DEFINE f == [Free EXCEPT !.at = p]
<1>1. f \in Frame /\ f.at = p /\ f.goal = 0
  BY DEF Free, Frame, WorkerStatus
<1> HIDE DEF f
<1>2. /\ calls' \in [Call -> Frame] /\ calls'[c] = f
      /\ \A d \in Call : d # c => calls'[d] = calls[d]
  BY <1>1, SetFrame DEF Typed, f
<1>3. FrameInv(c)'
  BY <1>1, <1>2 DEF FrameInv, Working
<1>4. goals' \in Seq(Goals)
  BY ListEvolves DEF Typed, Evolves
<1>5. Typed'
  BY <1>2, <1>4 DEF Typed
<1> QED BY <1>1, <1>2, <1>3, <1>5, FreeFrame, NoEscalation DEF Effect, Carries

\* The work succeeds: the goal is completed before the call reflects on it.
LEMMA SucceedsEffect ==
    ASSUME Typed, NEW c \in Call, FrameInv(c), WorkSucceeds(c)
    PROVE  Effect(c)
<1> DEFINE i == calls[c].goal
           f == [calls[c] EXCEPT !.at = "reflect", !.prev = status]
<1>1. calls[c] \in Frame /\ calls[c].at = "execute"
  BY DEF Typed, WorkSucceeds
<1>2. /\ i \in DOMAIN goals /\ i # 0 /\ goals[i].status # "pending"
      /\ goals \in Seq(Goals)
  BY <1>1 DEF FrameInv, Working, Typed
<1>3. f \in Frame /\ f.at = "reflect" /\ f.goal = i
  BY <1>1 DEF Frame, Typed
<1>4. goals' = Marked(goals, i, "completed") /\ status' = "reflecting" /\ Set(c, f)
  BY DEF WorkSucceeds, Marked
<1> HIDE DEF f, i
<1>5. /\ calls' \in [Call -> Frame] /\ calls'[c] = f
      /\ \A d \in Call : d # c => calls'[d] = calls[d]
  BY <1>3, <1>4, SetFrame DEF Typed
<1>6. Finished(i)
  BY <1>2, <1>4 DEF Finished
<1>7. Evolves(goals, goals')
  BY <1>2, <1>6, ListEvolves
<1>8. goals'[i] = [id |-> goals[i].id, status |-> "completed"]
  BY <1>2, <1>4, Mark
<1>9. FrameInv(c)'
  BY <1>2, <1>3, <1>5, <1>7, <1>8 DEF FrameInv, Working, Evolves
<1>10. Typed'
  BY <1>4, <1>5, <1>7 DEF Typed, Evolves, WorkSucceeds, WorkerStatus
<1>11. EscalationsStay
  BY NoEscalation DEF WorkSucceeds
<1> QED BY <1>2, <1>3, <1>5, <1>6, <1>8, <1>9, <1>10, <1>11 DEF Effect, Carries, i

\* A call goes to another place of the work on its goal.
LEMMA MovesEffect ==
    ASSUME Typed, NEW c \in Call, FrameInv(c), calls[c].at \in Working,
           NEW p, \/ p \in {"learn", "reflectEnd", "escalate"} /\ Go(c, p)
                  \/ p \in {"recover", "giveUp"} /\ Catch(c, p),
           p \in {"learn", "reflectEnd"} => calls[c].at \in {"reflect", "learn"},
           p \in {"escalate", "giveUp"} =>
                Told(pendingEscalations', goals[calls[c].goal].id),
           EscalationsStay, UNCHANGED <<goals, subscribed>>,
           status' \in WorkerStatus, recoveryAttempts' \in Nat
    PROVE  Effect(c)
<1>1. /\ calls' \in [Call -> Frame]
      /\ calls'[c].at = p /\ calls'[c].goal = calls[c].goal
      /\ \A d \in Call : d # c => calls'[d] = calls[d]
  BY GoTo, CatchAt DEF Typed
<1>2. FrameInv(c)'
  BY <1>1 DEF FrameInv, Working
<1>3. Typed'
  BY <1>1 DEF Typed, EscalationsStay
<1>4. Carries(c)
  BY <1>1 DEF Carries, Kept
<1> QED BY <1>1, <1>2, <1>3, <1>4 DEF Effect

\* The context is reset: the call goes on with the first copy of its goal,
\* which was started before.
LEMMA ResetEffect ==
    ASSUME Typed, InOrder, NEW c \in Call, FrameInv(c), ContextReset(c)
    PROVE  Effect(c)
<1>1. PICK i \in DOMAIN goals :
        /\ FirstWithId(goals[calls[c].goal].id, i)
        /\ Set(c, [calls[c] EXCEPT !.at = "execute", !.goal = i, !.retry = TRUE])
  BY DEF ContextReset
<1> DEFINE k == calls[c].goal
           f == [calls[c] EXCEPT !.at = "execute", !.goal = i, !.retry = TRUE]
<1>2. calls[c] \in Frame /\ calls[c].at = "recover" /\ goals \in Seq(Goals)
  BY DEF Typed, ContextReset
<1>3. k \in DOMAIN goals /\ k # 0 /\ goals[k].status # "pending"
  BY <1>2 DEF FrameInv, Working
<1>4. i \in Nat /\ i # 0 /\ k \in Nat /\ i <= k /\ goals[i].id = goals[k].id
  BY <1>1, <1>2, <1>3, LenProperties DEF FirstWithId
<1>5. goals[i].status # "pending"
  BY <1>3, <1>4 DEF InOrder
<1>6. f \in Frame /\ f.at = "execute" /\ f.goal = i
  BY <1>2, <1>4 DEF Frame
<1> HIDE DEF f, k
<1>7. /\ calls' \in [Call -> Frame] /\ calls'[c] = f
      /\ \A d \in Call : d # c => calls'[d] = calls[d]
  BY <1>1, <1>6, SetFrame DEF Typed, f
<1>8. goals' = goals /\ status' = "working" /\ EscalationsStay
  BY NoEscalation DEF ContextReset
<1>9. FrameInv(c)'
  BY <1>4, <1>5, <1>6, <1>7, <1>8 DEF FrameInv, Working
<1>10. Typed'
  BY <1>2, <1>7, <1>8 DEF Typed, ContextReset, EscalationsStay, WorkerStatus
<1> QED BY <1>3, <1>4, <1>6, <1>7, <1>8, <1>9, <1>10 DEF Effect, Carries, Kept, k

\* What becomes of a call when what it waits for is there.
LEMMA ResumeEffect ==
    ASSUME Typed, InOrder, NEW c \in Call, FrameInv(c), Resume(c)
    PROVE  Effect(c)
<1> USE DEF WorkerStatus
<1>1. CASE Onboarded(c)
  <2>1. calls[c].at = "onboard"
    BY <1>1 DEF Onboarded
  <2> QED BY <1>1, <2>1, EndsEffect DEF Onboarded, Working, Typed
<1>2. CASE Acknowledged(c)
  <2>1. calls[c].at = "acknowledge" /\ calls[c].goal = 0
    BY <1>2 DEF Acknowledged, FrameInv, Working
  <2>2. CASE status = "idle"
    <3>1. startNextGoal(c, status) /\ status \in WorkerStatus
      BY <1>2, <2>2 DEF Acknowledged, Typed
    <3>2. EscalationsStay /\ subscribed' \in BOOLEAN /\ recoveryAttempts' \in Nat
      BY <1>2, NoEscalation DEF Acknowledged, Typed
    <3> QED BY <2>1, <3>1, <3>2, StartNext
  <2>3. CASE status # "idle"
    BY <1>2, <2>1, <2>3, EndsEffect DEF Acknowledged, Working, Typed
  <2> QED BY <2>2, <2>3
<1>3. CASE WorkSucceeds(c)
  BY <1>3, SucceedsEffect
<1>4. CASE WorkBlocked(c)
  <2>1. calls[c].at = "execute" /\ calls[c].goal \in DOMAIN goals
    BY <1>4 DEF WorkBlocked, FrameInv, Working
  <2>2. /\ EscalationsStay /\ status' \in WorkerStatus
        /\ Told(pendingEscalations', goals[calls[c].goal].id)
    BY <1>4, <2>1, Escalating DEF WorkBlocked, Typed
  <2> QED BY <1>4, <2>1, <2>2, MovesEffect DEF WorkBlocked, Working, Typed
<1>5. CASE WorkThrows(c)
  <2>1. calls[c].at \in Working /\ calls[c].goal \in DOMAIN goals
    BY <1>5 DEF WorkThrows, MayThrow, FrameInv, Working
  <2>2. recoveryAttempts' \in Nat
    BY <1>5 DEF WorkThrows, Typed
  <2>3. CASE recoveryAttempts + 1 > MAX_RECOVERY_ATTEMPTS
    <3>1. Escalate(calls[c].goal) /\ Catch(c, "giveUp") /\ UNCHANGED <<goals, subscribed>>
      BY <1>5, <2>3 DEF WorkThrows
    <3>2. /\ EscalationsStay /\ status' \in WorkerStatus
          /\ Told(pendingEscalations', goals[calls[c].goal].id)
      BY <2>1, <3>1, Escalating DEF Typed
    <3> QED BY <2>1, <2>2, <3>1, <3>2, MovesEffect
  <2>4. CASE ~(recoveryAttempts + 1 > MAX_RECOVERY_ATTEMPTS)
    <3>1. /\ status' = "recovering" /\ Catch(c, "recover") /\ UNCHANGED <<goals, subscribed>>
          /\ EscalationsStay
      BY <1>5, <2>4, NoEscalation DEF WorkThrows
    <3> QED BY <2>1, <2>2, <3>1, MovesEffect
  <2> QED BY <2>3, <2>4
<1>6. CASE Reflected(c)
  BY <1>6, NoEscalation, MovesEffect DEF Reflected, Working, Typed
<1>7. CASE Learned(c)
  <2>1. CASE calls[c].at = "learn"
    BY <1>7, <2>1, NoEscalation, MovesEffect DEF Learned, Working, Typed
  <2>2. CASE calls[c].at = "learnFeedback"
    BY <1>7, <2>2, EndsEffect DEF Learned, Working, Typed
  <2> QED BY <1>7, <2>1, <2>2 DEF Learned
<1>8. CASE ReflectEnds(c)
  <2>1. calls[c].prev \in WorkerStatus
    BY DEF Typed, Frame
  <2>2. recoveryAttempts' \in Nat
    BY <1>8 DEF ReflectEnds, ExecuteReturns, Typed
  <2> QED BY <1>8, <2>1, <2>2, LetsGoEffect DEF ReflectEnds, ExecuteReturns
<1>9. CASE BlockEscalated(c)
  <2>1. recoveryAttempts' \in Nat
    BY <1>9 DEF BlockEscalated, ExecuteReturns, Typed
  <2> QED BY <1>9, <2>1, LetsGoEffect DEF BlockEscalated, ExecuteReturns, Typed
<1>10. CASE ContextReset(c)
  BY <1>10, ResetEffect
<1>11. CASE FailureEscalated(c)
  BY <1>11, LetsGoEffect DEF FailureEscalated, Typed
<1>12. CASE TerminateEnds(c)
  BY <1>12, EndsEffect DEF TerminateEnds, Working, Typed
<1> QED BY <1>1, <1>2, <1>3, <1>4, <1>5, <1>6, <1>7, <1>8, <1>9, <1>10, <1>11,
        <1>12 DEF Resume

\* A step either is an action of one call with its effect, or does not touch
\* the goals and the calls at all.
LEMMA StepEffect ==
    ASSUME IInv, [Next]_vars
    PROVE  \/ \E c \in Call : Effect(c)
           \/ Typed' /\ EscalationsStay /\ UNCHANGED <<goals, calls>>
<1> USE DEF IInv, WorkerStatus
<1>1. ASSUME NEW c \in Call, Resume(c) PROVE Effect(c)
  BY <1>1, ResumeEffect
<1>2. ASSUME NEW c \in Call, NEW g \in GoalId, AcceptGoal(c, g) PROVE Effect(c)
  <2>1. Accepted
    BY <1>2 DEF AcceptGoal, Accepted
  <2> QED BY <1>2, <2>1, BeginsEffect DEF AcceptGoal, Typed
<1>3. ASSUME NEW c \in Call, CsatReceived(c) \/ Terminate(c) PROVE Effect(c)
  <2>1. Kept
    BY <1>3 DEF CsatReceived, Terminate, Kept
  <2> QED BY <1>3, <2>1, BeginsEffect DEF CsatReceived, Terminate, Typed
<1>4. ASSUME NEW c \in Call, NEW k \in DOMAIN pendingEscalations,
             EscalationResolved(c, k)
      PROVE  Effect(c) \/ (Typed' /\ EscalationsStay /\ UNCHANGED <<goals, calls>>)
  <2>1. EscalationsStay
    BY <1>4, Answering DEF EscalationResolved, Typed
  <2>2. UNCHANGED <<recoveryAttempts, subscribed>>
    BY <1>4 DEF EscalationResolved
  <2>3. CASE status = "escalating"
    <3>1. startNextGoal(c, "idle") /\ calls[c].goal = 0
      BY <1>4, <2>3, FreeFrame DEF EscalationResolved
    <3> QED BY <2>1, <2>2, <3>1, StartNext DEF Typed
  <2>4. CASE status # "escalating"
    <3>1. UNCHANGED <<goals, status, calls>>
      BY <1>4, <2>4 DEF EscalationResolved
    <3> QED BY <2>1, <2>2, <3>1 DEF Typed, EscalationsStay
  <2> QED BY <2>3, <2>4
<1>5. CASE UNCHANGED vars
  <2>1. Typed' /\ EscalationsStay
    BY <1>5, NoEscalation DEF vars, Typed
  <2> QED BY <1>5, <2>1 DEF vars
<1> QED BY <1>1, <1>2, <1>3, <1>4, <1>5 DEF Next

-----------------------------------------------------------------------------
(* The invariant                                                           *)

\* Either way the list evolves.
LEMMA EffectEvolves ==
    ASSUME Typed, NEW c \in Call, Effect(c)
    PROVE  Evolves(goals, goals')
<1>1. Kept \/ Accepted \/ (\E i : Started(i)) \/ (\E i : Finished(i))
  BY DEF Effect, Takes, Carries
<1> QED BY <1>1, ListEvolves DEF Typed

\* Copies are still started in order: the most urgent goal is the first of
\* its copies, because they are of the same priority.
LEMMA OrderStays ==
    ASSUME Typed, InOrder, NEW c \in Call, Effect(c)
    PROVE  InOrder'
<1> USE DEF Typed
<1>0. DOMAIN goals \subseteq Nat
  BY LenProperties
<1>1. CASE Kept
  BY <1>1 DEF Kept, InOrder
<1>2. CASE Accepted
  <2>1. PICK g \in GoalId : goals' = Append(goals, [id |-> g, status |-> "pending"])
    BY <1>2 DEF Accepted
  <2>2. [id |-> g, status |-> "pending"] \in Goals
    BY DEF Goals
  <2>3. /\ \A j \in DOMAIN goals' : \/ j \in DOMAIN goals /\ goals'[j] = goals[j]
                                  \/ /\ j \notin DOMAIN goals
                                     /\ goals'[j] = [id |-> g, status |-> "pending"]
        /\ \A i \in DOMAIN goals, j \in DOMAIN goals' \ DOMAIN goals : i < j
        /\ DOMAIN goals' \subseteq Nat
    BY <2>1, <2>2, Add, LenProperties
  <2> QED BY <1>0, <2>3 DEF InOrder
<1>3. ASSUME NEW i, Started(i) PROVE InOrder'
  <2>1. i \in DOMAIN goals /\ goals[i].status = "pending" /\ MostUrgent(i)
    BY <1>3 DEF Started, Pending
  <2>2. /\ DOMAIN goals' = DOMAIN goals
        /\ goals'[i] = [id |-> goals[i].id, status |-> "active"]
        /\ \A j \in DOMAIN goals : j # i => goals'[j] = goals[j]
    BY <1>3, <2>1, Mark DEF Started
  <2>3. ASSUME NEW j \in DOMAIN goals, j < i, goals[j].id = goals[i].id,
               goals[j].status = "pending"
        PROVE  FALSE
    <3>1. Rank(i) = Rank(j) /\ j \in Pending
      BY <2>3 DEF Rank, Pending
    <3>2. goals[i].id \in GoalId
      <4>1. goals[i] \in Goals
        BY <2>1, ElementOfSeq, LenProperties
      <4> QED BY <4>1 DEF Goals
    <3>3. Rank(i) \in Nat
      BY <3>2, BaseWorkerAssumption DEF Rank
    <3> QED BY <1>0, <2>1, <2>3, <3>1, <3>3 DEF MostUrgent
  <2> QED BY <1>0, <2>2, <2>3 DEF InOrder
<1>4. ASSUME NEW i, Finished(i) PROVE InOrder'
  <2>1. /\ DOMAIN goals' = DOMAIN goals /\ i \in DOMAIN goals
        /\ goals[i].status # "pending"
        /\ goals'[i] = [id |-> goals[i].id, status |-> "completed"]
        /\ \A j \in DOMAIN goals : j # i => goals'[j] = goals[j]
    BY <1>4, Mark DEF Finished
  <2> QED BY <2>1 DEF InOrder
<1> QED BY <1>1, <1>2, <1>3, <1>4 DEF Effect, Takes, Carries

\* What a call relies on is kept by the others.
LEMMA FramesStay ==
    ASSUME NEW c \in Call, NEW d \in Call, FrameInv(d), calls'[d] = calls[d],
           Evolves(goals, goals'), EscalationsStay
    PROVE  FrameInv(d)'
<1>1. \A i \in DOMAIN goals : Told(pendingEscalations, goals[i].id) =>
                              Told(pendingEscalations', goals'[i].id)
  BY DEF Told, EscalationsStay, Evolves
<1>2. CASE calls[d].goal = 0
  BY <1>2 DEF FrameInv, Working
<1>3. CASE calls[d].goal # 0
  BY <1>1, <1>3 DEF FrameInv, Evolves
<1> QED BY <1>2, <1>3

Accounted(g) == \/ \E c \in Call : WorksOn(c, g)
                \/ Told(pendingEscalations, g)
                \/ Done(g)

\* A goal that is accounted for stays so.
LEMMA AccountedStays ==
    ASSUME Typed, \A d \in Call : FrameInv(d), NEW c \in Call, Effect(c),
           NEW g, Accounted(g)
    PROVE  Accounted(g)'
<1>1. Evolves(goals, goals')
  BY EffectEvolves
<1>2. ASSUME Told(pendingEscalations, g) PROVE Accounted(g)'
  BY <1>2 DEF Told, Effect, EscalationsStay, Accounted
<1>3. ASSUME NEW j \in DOMAIN goals, goals[j].id = g, goals[j].status = "completed"
      PROVE  Accounted(g)'
  <2>1. /\ j \in DOMAIN goals' /\ goals' \in Seq(Goals)
        /\ goals'[j].id = g /\ goals'[j].status = "completed"
    BY <1>1, <1>3 DEF Evolves
  <2>2. goals'[j] \in Goals
    BY <2>1, ElementOfSeq, LenProperties
  <2>3. goals'[j] = [id |-> g, status |-> "completed"]
    BY <2>1, <2>2 DEF Goals
  <2> QED BY <2>1, <2>3 DEF Done, Accounted
<1>4. ASSUME Done(g) PROVE Accounted(g)'
  BY <1>3, <1>4 DEF Done
<1>5. ASSUME NEW d \in Call, WorksOn(d, g), d # c PROVE Accounted(g)'
  <2>1. calls'[d] = calls[d] /\ calls[d].goal \in DOMAIN goals
    BY <1>5 DEF Effect, WorksOn, FrameInv
  <2> QED BY <1>1, <1>5, <2>1 DEF WorksOn, Evolves, Accounted
<1>6. ASSUME WorksOn(c, g) PROVE Accounted(g)'
  <2>1. /\ calls[c].goal \in DOMAIN goals /\ calls[c].goal # 0
        /\ goals[calls[c].goal].id = g /\ Carries(c)
    BY <1>6 DEF WorksOn, FrameInv, Effect, Takes
  <2>2. CASE calls'[c].goal # 0
    BY <2>1, <2>2 DEF Carries, WorksOn, Accounted
  <2>3. CASE calls'[c].goal = 0
    BY <1>2, <1>3, <2>1, <2>3 DEF Carries
  <2> QED BY <2>2, <2>3
<1> QED BY <1>2, <1>4, <1>5, <1>6 DEF Accounted

\* A goal that has just been started is the goal of the call that started it.
LEMMA AccountingStays ==
    ASSUME Typed, \A d \in Call : FrameInv(d), ActiveGoalIsAccountedFor,
           NEW c \in Call, Effect(c)
    PROVE  ActiveGoalIsAccountedFor'
<1>1. SUFFICES ASSUME NEW i \in DOMAIN goals', goals'[i].status = "active",
                      NEW g, g = goals'[i].id
               PROVE  Accounted(g)'
  BY DEF ActiveGoalIsAccountedFor, Accounted, Told, Done
<1>2. Evolves(goals, goals')
  BY EffectEvolves
<1>3. CASE i \in DOMAIN goals /\ goals[i].status = "active"
  <2>1. Accounted(goals[i].id)
    BY <1>3 DEF ActiveGoalIsAccountedFor, Accounted, Told, Done
  <2>2. g = goals[i].id
    BY <1>1, <1>2, <1>3 DEF Evolves
  <2> QED BY <2>1, <2>2, AccountedStays
<1>4. CASE Takes(c) /\ i = calls'[c].goal
  <2>1. i # 0
    BY <1>1, EffectEvolves, LenProperties DEF Evolves
  <2> QED BY <1>1, <1>4, <2>1 DEF WorksOn, Accounted
<1>5. ASSUME NEW k, Started(k), i # k PROVE i \in DOMAIN goals /\ goals[i].status = "active"
  <2>1. k \in DOMAIN goals /\ goals' = Marked(goals, k, "active") /\ goals \in Seq(Goals)
    BY <1>5 DEF Started, Pending, Typed
  <2>2. /\ DOMAIN Marked(goals, k, "active") = DOMAIN goals
        /\ \A j \in DOMAIN goals : j # k => Marked(goals, k, "active")[j] = goals[j]
    BY <2>1, Mark
  <2> QED BY <1>1, <1>5, <2>1, <2>2
<1>6. ASSUME NEW k, Finished(k) PROVE i \in DOMAIN goals /\ goals[i].status = "active"
  <2>1. k \in DOMAIN goals /\ goals' = Marked(goals, k, "completed") /\ goals \in Seq(Goals)
    BY <1>6 DEF Finished, Typed
  <2>2. /\ DOMAIN Marked(goals, k, "completed") = DOMAIN goals
        /\ Marked(goals, k, "completed")[k] = [id |-> goals[k].id, status |-> "completed"]
        /\ \A j \in DOMAIN goals : j # k => Marked(goals, k, "completed")[j] = goals[j]
    BY <2>1, Mark
  <2> QED BY <1>1, <2>1, <2>2
<1>7. CASE Accepted
  <2>1. PICK h \in GoalId : goals' = Append(goals, [id |-> h, status |-> "pending"])
    BY <1>7 DEF Accepted
  <2>2. [id |-> h, status |-> "pending"] \in Goals
    BY DEF Goals
  <2>3. \/ i \in DOMAIN goals /\ goals'[i] = goals[i]
        \/ goals'[i] = [id |-> h, status |-> "pending"]
    BY <1>1, <2>1, <2>2, Add DEF Typed
  <2> QED BY <1>1, <1>3, <2>3
<1>8. CASE Kept
  BY <1>1, <1>3, <1>8 DEF Kept
<1> QED BY <1>3, <1>4, <1>5, <1>6, <1>7, <1>8 DEF Effect, Takes, Carries

\* Two places of the list with the same goal.
Twice(list, g) == \E i, j \in DOMAIN list : i # j /\ list[i].id = g /\ list[j].id = g

\* A call only joins another on a goal that is on the list twice: what the
\* other works on is not pending, so the call has taken another copy.
LEMMA OneCallStays ==
    ASSUME Typed, \A d \in Call : FrameInv(d), OneCallPerGoal,
           NEW c \in Call, Effect(c)
    PROVE  OneCallPerGoal'
<1>1. SUFFICES ASSUME NEW a \in Call, NEW b \in Call, NEW g \in GoalId, a # b,
                      WorksOn(a, g)', WorksOn(b, g)'
               PROVE  Twice(goals', g)
  BY DEF OneCallPerGoal, Twice
<1>2. Evolves(goals, goals')
  BY EffectEvolves
<1>3. Twice(goals, g) => Twice(goals', g)
  BY <1>2 DEF Evolves, Twice
<1>4. ASSUME NEW d \in Call, d # c, WorksOn(d, g)' PROVE WorksOn(d, g)
  <2>1. calls'[d] = calls[d]
    BY <1>4 DEF Effect
  <2>2. calls[d].goal \in DOMAIN goals
    BY <1>4, <2>1 DEF WorksOn, FrameInv
  <2> QED BY <1>2, <1>4, <2>1, <2>2 DEF WorksOn, Evolves
<1>5. CASE Carries(c)
  <2>1. WorksOn(c, g)' => WorksOn(c, g)
    BY <1>5 DEF Carries, WorksOn
  <2> QED BY <1>1, <1>3, <1>4, <2>1 DEF OneCallPerGoal, Twice
<1>6. CASE Takes(c)
  <2>1. ASSUME NEW d \in Call, d # c, WorksOn(d, g)', WorksOn(c, g)'
        PROVE  Twice(goals', g)
    <3>1. /\ calls[d].goal \in DOMAIN goals /\ goals[calls[d].goal].id = g
          /\ goals[calls[d].goal].status # "pending"
      BY <1>4, <2>1 DEF WorksOn, FrameInv
    <3>2. /\ calls'[c].goal \in DOMAIN goals
          /\ goals[calls'[c].goal].status = "pending"
      BY <1>6 DEF Takes, Started, Pending
    <3>3. goals'[calls'[c].goal].id = g
      BY <2>1 DEF WorksOn
    <3> QED BY <1>2, <3>1, <3>2, <3>3 DEF Evolves, Twice
  <2>2. CASE a # c /\ b # c
    BY <1>1, <1>3, <1>4, <2>2 DEF OneCallPerGoal, Twice
  <2> QED BY <1>1, <2>1, <2>2
<1> QED BY <1>5, <1>6 DEF Effect

\* The invariant holds initially and every step keeps it.
LEMMA Inductive == Spec => []IInv
<1>1. Init => IInv
  <2> SUFFICES ASSUME Init PROVE IInv
    OBVIOUS
  <2>1. PICK c \in Call :
          calls = [d \in Call |-> [Free EXCEPT !.at = IF d = c THEN "onboard" ELSE "free"]]
    BY DEF Init
  <2>2. \A d \in Call : /\ calls[d] \in Frame /\ calls[d].goal = 0
                        /\ calls[d].at \in {"onboard", "free"}
    BY <2>1 DEF Free, Frame, WorkerStatus
  <2>3. goals = << >> /\ pendingEscalations = << >> /\ DOMAIN goals = {}
    BY DEF Init
  <2>4. Typed
    BY <2>1, <2>2, <2>3, EmptySeq DEF Init, Typed, WorkerStatus
  <2>5. \A d \in Call : FrameInv(d)
    BY <2>2 DEF FrameInv, Working
  <2>6. InOrder /\ ActiveGoalIsAccountedFor /\ OneCallPerGoal
    BY <2>2, <2>3 DEF InOrder, ActiveGoalIsAccountedFor, OneCallPerGoal, WorksOn
  <2> QED BY <2>4, <2>5, <2>6 DEF IInv
<1>2. IInv /\ [Next]_vars => IInv'
  <2> SUFFICES ASSUME IInv, [Next]_vars PROVE IInv'
    OBVIOUS
  <2>1. ASSUME NEW c \in Call, Effect(c) PROVE IInv'
    <3>1. Typed' /\ InOrder' /\ ActiveGoalIsAccountedFor' /\ OneCallPerGoal'
      BY <2>1, OrderStays, AccountingStays, OneCallStays DEF IInv, Effect
    <3>2. \A d \in Call : FrameInv(d)'
      BY <2>1, EffectEvolves, FramesStay DEF IInv, Effect
    <3> QED BY <3>1, <3>2 DEF IInv
  <2>2. CASE Typed' /\ EscalationsStay /\ UNCHANGED <<goals, calls>>
    <3>1. \A g : Told(pendingEscalations, g) => Told(pendingEscalations', g)
      BY <2>2 DEF Told, EscalationsStay
    <3>2. InOrder' /\ OneCallPerGoal'
      BY <2>2 DEF IInv, InOrder, OneCallPerGoal, WorksOn
    <3>3. ActiveGoalIsAccountedFor'
      BY <2>2, <3>1 DEF IInv, ActiveGoalIsAccountedFor, WorksOn, Told
    <3>4. \A d \in Call : FrameInv(d)'
      BY <2>2, <3>1 DEF IInv, FrameInv
    <3> QED BY <2>2, <3>2, <3>3, <3>4 DEF IInv
  <2> QED BY <2>1, <2>2, StepEffect
<1> QED BY <1>1, <1>2, PTL DEF Spec

\* A worker's fields and calls are always well formed, whatever overlaps.
THEOREM TypeCorrect == Spec => []TypeOK
<1>1. IInv => TypeOK
  BY DEF IInv, Typed, FrameInv, TypeOK
<1> QED BY <1>1, Inductive, PTL

\* A started goal is worked on, done, or escalated to the manager.
THEOREM NoStartedGoalIsDropped == Spec => []ActiveGoalIsAccountedFor
<1>1. IInv => ActiveGoalIsAccountedFor
  BY DEF IInv
<1> QED BY <1>1, Inductive, PTL

\* No two calls work on a goal that was accepted once.
THEOREM GoalsAreNotShared == Spec => []OneCallPerGoal
<1>1. IInv => OneCallPerGoal
  BY DEF IInv
<1> QED BY <1>1, Inductive, PTL

-----------------------------------------------------------------------------
(* How far a call is from its end                                          *)

\* The attempts left when the counter is at n.
LeftOf(n) == IF n > MAX_RECOVERY_ATTEMPTS THEN 0 ELSE MAX_RECOVERY_ATTEMPTS + 1 - n

\* The attempts left are a natural number, and fewer of them when the counter
\* has gone up.
LEMMA AttemptsCounted ==
    ASSUME Typed, Typed'
    PROVE  /\ AttemptsLeft \in Nat /\ AttemptsLeft' \in Nat
           /\ recoveryAttempts' >= recoveryAttempts => AttemptsLeft' <= AttemptsLeft
           /\ recoveryAttempts' = recoveryAttempts + 1 /\ AttemptsLeft > 0 =>
                    AttemptsLeft' = AttemptsLeft - 1
           /\ recoveryAttempts <= MAX_RECOVERY_ATTEMPTS => AttemptsLeft > 0
<1>1. /\ MAX_RECOVERY_ATTEMPTS \in Nat
      /\ recoveryAttempts \in Nat /\ recoveryAttempts' \in Nat
  BY BaseWorkerAssumption DEF Typed
<1>2. /\ AttemptsLeft = LeftOf(recoveryAttempts)
      /\ AttemptsLeft' = LeftOf(recoveryAttempts')
  BY DEF AttemptsLeft, LeftOf
<1>3. ASSUME NEW n \in Nat
      PROVE  /\ LeftOf(n) \in Nat
             /\ n <= MAX_RECOVERY_ATTEMPTS => LeftOf(n) = MAX_RECOVERY_ATTEMPTS + 1 - n
             /\ ~(n <= MAX_RECOVERY_ATTEMPTS) => LeftOf(n) = 0
  BY <1>1 DEF LeftOf
<1> QED BY <1>1, <1>2, <1>3

\* A call that goes from one of its awaits to a later one, ...
LEMMA LaterAwait ==
    ASSUME Typed, Typed', NEW c \in Call, NEW p, NEW q,
           calls[c].at = p, calls'[c].at = q, p # "free", q # "free",
           recoveryAttempts' = recoveryAttempts, Awaits[q] < Awaits[p]
    PROVE  Distance(c)' < Distance(c)
<1>1. Awaits[p] \in 1..8 /\ Awaits[q] \in 1..8
  BY DEF Typed, Frame, Awaits
<1>2. AttemptsLeft' = AttemptsLeft /\ AttemptsLeft \in Nat
  BY BaseWorkerAssumption DEF Typed, AttemptsLeft
<1>3. Distance(c) = 10 * AttemptsLeft + Awaits[p]
  BY DEF Distance, Busy
<1>4. Distance(c)' = 10 * AttemptsLeft' + Awaits[q]
  BY DEF Distance, Busy
<1> QED BY <1>1, <1>2, <1>3, <1>4

\* ... or that ends, is nearer to its end.
LEMMA Ends ==
    ASSUME Typed, NEW c \in Call, Busy(c), Set(c, Free)
    PROVE  Distance(c)' < Distance(c)
<1>1. Awaits[calls[c].at] \in 1..8
  BY DEF Typed, Frame, Awaits, Busy
<1>2. AttemptsLeft \in Nat
  BY BaseWorkerAssumption DEF Typed, AttemptsLeft
<1>3. Distance(c) > 0
  BY <1>1, <1>2 DEF Distance
<1>4. calls'[c].at = "free"
  BY DEF Set, Free, Typed
<1>5. Distance(c)' = 0
  BY <1>4 DEF Distance, Busy
<1> QED BY <1>3, <1>5

\* Whatever a call resumes with, it is nearer to its end.
LEMMA ResumeGetsOn ==
    ASSUME IInv, NEW c \in Call, Resume(c)
    PROVE  Busy(c) /\ Distance(c)' < Distance(c)
<1>1. Typed /\ Typed' /\ calls[c] \in Frame
  BY ResumeEffect DEF IInv, Effect, Typed
<1>2. Busy(c)
  BY DEF Resume, Onboarded, Acknowledged, WorkSucceeds, WorkBlocked, WorkThrows,
     MayThrow, Reflected, Learned, ReflectEnds, BlockEscalated, ContextReset,
     FailureEscalated, TerminateEnds, Busy
<1>3. CASE Set(c, Free)
  BY <1>1, <1>2, <1>3, Ends
<1>4. CASE Acknowledged(c) /\ ~Set(c, Free)
  <2>1. PICK i \in Pending : Set(c, [Free EXCEPT !.at = "execute", !.goal = i])
    BY <1>4 DEF Acknowledged, startNextGoal
  <2>2. calls[c].at = "acknowledge" /\ calls'[c].at = "execute"
    BY <1>1, <1>4, <2>1 DEF Acknowledged, Set, Free, Typed
  <2>3. recoveryAttempts' = recoveryAttempts
    BY <1>4 DEF Acknowledged
  <2>4. Awaits["execute"] < Awaits["acknowledge"]
    BY DEF Awaits
  <2> QED BY <1>1, <2>2, <2>3, <2>4, <1>2, LaterAwait
<1>5. CASE WorkSucceeds(c)
  <2>1. calls[c].at = "execute" /\ calls'[c].at = "reflect"
    BY <1>1, <1>5 DEF WorkSucceeds, Set, Frame, Typed
  <2>3. recoveryAttempts' = recoveryAttempts
    BY <1>5 DEF WorkSucceeds
  <2>4. Awaits["reflect"] < Awaits["execute"]
    BY DEF Awaits
  <2> QED BY <1>1, <2>1, <2>3, <2>4, <1>2, LaterAwait
<1>6. CASE WorkBlocked(c)
  <2>1. calls[c].at = "execute" /\ calls'[c].at = "escalate"
    BY <1>1, <1>6, GoTo DEF WorkBlocked, Typed
  <2>3. recoveryAttempts' = recoveryAttempts
    BY <1>6 DEF WorkBlocked
  <2>4. Awaits["escalate"] < Awaits["execute"]
    BY DEF Awaits
  <2> QED BY <1>1, <2>1, <2>3, <2>4, <1>2, LaterAwait
<1>7. CASE Reflected(c)
  <2>1. calls[c].at = "reflect" /\ calls'[c].at = "learn"
    BY <1>1, <1>7, GoTo DEF Reflected, Typed
  <2>3. recoveryAttempts' = recoveryAttempts
    BY <1>7 DEF Reflected
  <2>4. Awaits["learn"] < Awaits["reflect"]
    BY DEF Awaits
  <2> QED BY <1>1, <2>1, <2>3, <2>4, <1>2, LaterAwait
<1>8. CASE Learned(c) /\ ~Set(c, Free)
  <2>1. calls[c].at = "learn" /\ calls'[c].at = "reflectEnd"
    BY <1>1, <1>8, GoTo DEF Learned, Typed
  <2>3. recoveryAttempts' = recoveryAttempts
    BY <1>8 DEF Learned
  <2>4. Awaits["reflectEnd"] < Awaits["learn"]
    BY DEF Awaits
  <2> QED BY <1>1, <2>1, <2>3, <2>4, <1>2, LaterAwait
<1>9. CASE ContextReset(c)
  <2>1. PICK i \in DOMAIN goals :
            Set(c, [calls[c] EXCEPT !.at = "execute", !.goal = i, !.retry = TRUE])
    BY <1>9 DEF ContextReset
  <2>2. calls[c].at = "recover" /\ calls'[c].at = "execute"
    BY <1>1, <1>9, <2>1 DEF ContextReset, Set, Frame, Typed
  <2>3. recoveryAttempts' = recoveryAttempts
    BY <1>9 DEF ContextReset
  <2>4. Awaits["execute"] < Awaits["recover"]
    BY DEF Awaits
  <2> QED BY <1>1, <2>2, <2>3, <2>4, <1>2, LaterAwait
<1>10. CASE WorkThrows(c)
  <2>1. /\ Awaits[calls[c].at] \in {5, 6} /\ recoveryAttempts' = recoveryAttempts + 1
        /\ recoveryAttempts \in Nat
    BY <1>1, <1>10 DEF WorkThrows, MayThrow, Awaits, Typed
  <2>2. /\ AttemptsLeft \in Nat /\ AttemptsLeft' \in Nat /\ AttemptsLeft' <= AttemptsLeft
        /\ AttemptsLeft > 0 => AttemptsLeft' = AttemptsLeft - 1
    BY <1>1, <2>1, AttemptsCounted
  <2>3. Distance(c) = 10 * AttemptsLeft + Awaits[calls[c].at]
    BY <1>2 DEF Distance
  <2>4. CASE recoveryAttempts + 1 > MAX_RECOVERY_ATTEMPTS
    <3>1. calls'[c].at = "giveUp"
      BY <1>1, <1>10, <2>4, CatchAt DEF WorkThrows, Typed
    <3>2. Distance(c)' = 10 * AttemptsLeft' + 1
      <4>1. Distance(c)' = 10 * AttemptsLeft' + Awaits["giveUp"]
        BY <3>1 DEF Distance, Busy
      <4> QED BY <4>1 DEF Awaits
    <3> QED BY <1>2, <2>1, <2>2, <2>3, <3>2
  <2>5. CASE ~(recoveryAttempts + 1 > MAX_RECOVERY_ATTEMPTS)
    <3>1. calls'[c].at = "recover"
      BY <1>1, <1>10, <2>5, CatchAt DEF WorkThrows, Typed
    <3>2. Distance(c)' = 10 * AttemptsLeft' + 7
      <4>1. Distance(c)' = 10 * AttemptsLeft' + Awaits["recover"]
        BY <3>1 DEF Distance, Busy
      <4> QED BY <4>1 DEF Awaits
    <3>3. AttemptsLeft > 0
      BY <1>1, <2>1, <2>5, AttemptsCounted, BaseWorkerAssumption
    <3> QED BY <1>2, <2>1, <2>2, <2>3, <3>2, <3>3
  <2> QED BY <2>4, <2>5
<1>11. \/ Set(c, Free) \/ Acknowledged(c) \/ WorkSucceeds(c) \/ WorkBlocked(c)
       \/ Reflected(c) \/ Learned(c) \/ ContextReset(c) \/ WorkThrows(c)
  BY DEF Resume, Onboarded, ReflectEnds, BlockEscalated, ExecuteReturns,
     FailureEscalated, TerminateEnds
<1> QED BY <1>2, <1>3, <1>4, <1>5, <1>6, <1>7, <1>8, <1>9, <1>10, <1>11

\* A step that no call resumes with is one of a call that begins, or of none,
\* and leaves the counter alone.
LEMMA OtherSteps ==
    ASSUME IInv, [Next]_vars, ~\E c \in Call : Resume(c)
    PROVE  /\ recoveryAttempts' = recoveryAttempts
           /\ \A c \in Call : Busy(c) => calls'[c] = calls[c]
<1> USE FreeFrame DEF Busy
<1>1. ASSUME NEW c \in Call, NEW g \in GoalId, AcceptGoal(c, g)
      PROVE  /\ recoveryAttempts' = recoveryAttempts
             /\ \A d \in Call : Busy(d) => calls'[d] = calls[d]
  BY <1>1 DEF AcceptGoal, Set, IInv, Typed
<1>2. ASSUME NEW c \in Call, CsatReceived(c) \/ Terminate(c)
      PROVE  /\ recoveryAttempts' = recoveryAttempts
             /\ \A d \in Call : Busy(d) => calls'[d] = calls[d]
  BY <1>2 DEF CsatReceived, Terminate, Set, IInv, Typed
<1>3. ASSUME NEW c \in Call, NEW k \in DOMAIN pendingEscalations,
             EscalationResolved(c, k)
      PROVE  /\ recoveryAttempts' = recoveryAttempts
             /\ \A d \in Call : Busy(d) => calls'[d] = calls[d]
  BY <1>3 DEF EscalationResolved, startNextGoal, Set, IInv, Typed
<1>4. CASE UNCHANGED vars
  BY <1>4 DEF vars
<1> QED BY <1>1, <1>2, <1>3, <1>4 DEF Next

\* Only a call that ends sets the counter back.
LEMMA CounterGoesUp ==
    ASSUME IInv, NEW c \in Call, Resume(c)
    PROVE  recoveryAttempts' >= recoveryAttempts \/ Resets(c)
<1>1. recoveryAttempts \in Nat /\ recoveryAttempts' \in Nat /\ calls \in [Call -> Frame]
  BY ResumeEffect DEF IInv, Effect, Typed
<1>2. CASE ReflectEnds(c) \/ BlockEscalated(c) \/ FailureEscalated(c)
  <2>1. Busy(c) /\ Set(c, Free)
    BY <1>2 DEF ReflectEnds, BlockEscalated, ExecuteReturns, FailureEscalated, Busy
  <2>2. ~Busy(c)'
    BY <1>1, <2>1 DEF Set, Free, Busy
  <2> QED BY <1>1, <2>1, <2>2 DEF Resets
<1>3. CASE recoveryAttempts' \in {recoveryAttempts, recoveryAttempts + 1}
  BY <1>1, <1>3
<1> QED BY <1>2, <1>3 DEF Resume, Onboarded, Acknowledged, WorkSucceeds, WorkBlocked,
        WorkThrows, Reflected, Learned, ContextReset, TerminateEnds

\* Recovery gets on: a call's own steps bring it nearer to its end, and those
\* of others only take it away from it when they set the counter back.
THEOREM RecoveryEnds == Spec => RecoveryGetsOn
<1> DEFINE Near(c) == Resume(c) => Distance(c)' < Distance(c)
           Later(c) == \/ Distance(c)' <= Distance(c)
                       \/ \E d \in Call \ {c} : Resets(d)
<1>1. IInv /\ IInv' /\ [Next]_vars =>
        [\A c \in Call : Busy(c) =>
          /\ Resume(c) => Distance(c)' < Distance(c)
          /\ \/ Distance(c)' <= Distance(c)
             \/ \E d \in Call \ {c} : Resets(d)]_vars
  <2> SUFFICES ASSUME IInv, IInv', [Next]_vars, NEW c \in Call, Busy(c)
               PROVE  Near(c) /\ Later(c)
    BY Zenon
  <2>1. Near(c)
    BY ResumeGetsOn
  <2>2. /\ Typed /\ Typed' /\ Distance(c) \in Nat
        /\ calls[c] \in Frame /\ calls'[c] \in Frame
    <3>1. Typed /\ Typed' /\ calls[c] \in Frame /\ calls'[c] \in Frame
      BY DEF IInv, Typed
    <3>2. AttemptsLeft \in Nat
      BY <3>1, AttemptsCounted
    <3>3. Awaits[calls[c].at] \in Nat
      BY <3>1 DEF Frame, Awaits, Busy
    <3> QED BY <3>1, <3>2, <3>3 DEF Distance
  <2>3. ASSUME calls'[c] = calls[c], recoveryAttempts' >= recoveryAttempts
        PROVE  Distance(c)' <= Distance(c)
    <3>1. /\ AttemptsLeft \in Nat /\ AttemptsLeft' \in Nat
          /\ AttemptsLeft' <= AttemptsLeft
      BY <2>2, <2>3, AttemptsCounted
    <3>2. Awaits[calls[c].at] \in Nat
      BY <2>2 DEF Frame, Awaits, Busy
    <3>3. Distance(c) = 10 * AttemptsLeft + Awaits[calls[c].at]
      BY DEF Distance
    <3>4. Distance(c)' = 10 * AttemptsLeft' + Awaits[calls[c].at]
      BY <2>3 DEF Distance, Busy
    <3> QED BY <3>1, <3>2, <3>3, <3>4
  <2>4. CASE Resume(c)
    <3>1. Distance(c)' < Distance(c) /\ Distance(c)' \in Nat
      <4>1. AttemptsLeft' \in Nat
        BY <2>2, AttemptsCounted
      <4>2. Busy(c)' => Awaits[calls'[c].at] \in Nat
        BY <2>2 DEF Frame, Awaits, Busy
      <4>3. Distance(c)' \in Nat
        BY <4>1, <4>2 DEF Distance
      <4> QED BY <2>1, <2>4, <4>3
    <3> QED BY <2>1, <2>2, <3>1
  <2>5. ASSUME NEW d \in Call \ {c}, Resume(d) PROVE Later(c)
    <3>1. calls'[c] = calls[c]
      BY <2>5, ResumeEffect DEF IInv, Effect
    <3> QED BY <2>3, <2>5, <3>1, CounterGoesUp
  <2>6. CASE ~\E d \in Call : Resume(d)
    <3>1. recoveryAttempts' = recoveryAttempts /\ calls'[c] = calls[c]
      BY <2>6, OtherSteps
    <3>2. recoveryAttempts' >= recoveryAttempts
      BY <2>2, <3>1 DEF Typed
    <3> QED BY <2>1, <2>3, <3>1, <3>2
  <2> QED BY <2>1, <2>4, <2>5, <2>6
<1> QED BY <1>1, Inductive, PTL DEF Spec, RecoveryGetsOn
=============================================================================
