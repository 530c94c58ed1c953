--------------------------- MODULE CompanyProofs ---------------------------
(***************************************************************************)
(* Proofs about Company, for any departments, workers, items of knowledge,  *)
(* goals and bounds.  The inductive invariant has three parts, each kept    *)
(* with the help of those before it: the types, who listens to which topic, *)
(* and how far each shareKnowledge call has come.  How far a company goal   *)
(* has come follows from the types alone.  The last section measures what a *)
(* shareKnowledge call has before it.                                       *)
(***************************************************************************)
EXTENDS Company, FiniteSetTheorems, TLAPS

Handler == WorkerId \cup Dept

\* Types, and what relates one counter or phase to another.
TypeInv ==
    /\ TypeOK
    /\ \A w \in WorkerId :
         /\ phase[w] # None => dept[w] \in Dept
         /\ terminating[w] <= fires
         /\ terminating[w] > 0 => phase[w] \in {"active", "terminated"}
    /\ \A d \in Dept : reporting[d] # None => d \in ready

\* A worker's own topic has one handler while the worker is active and none
\* otherwise; a department's topic has handlers of active workers of the
\* department only.
ListeningInv ==
    /\ \A w \in WorkerId :
         subscriptions[Direct(w)] = IF phase[w] = "active" THEN <<w>> ELSE << >>
    /\ \A d \in Dept : \A i \in DOMAIN subscriptions[Broadcast(d)] :
         LET w == subscriptions[Broadcast(d)][i]
         IN  w \in WorkerId /\ phase[w] = "active" /\ dept[w] = d
    /\ \A d \in Dept : \A i \in DOMAIN subscriptions[Directive(d)] :
         subscriptions[Directive(d)][i] \in Dept

\* The audience is of the sharer's department; of it, whom the listener has
\* passed has heard the item or has it in the inbox, and at the end all have
\* heard it, but for those who left.
ShareInv(k) ==
    LET s == share[k]
    IN  /\ s.at # "unshared" =>
             /\ s.by \in WorkerId /\ phase[s.by] \in {"active", "terminated"}
             /\ \A w \in s.audience : /\ w # s.by /\ dept[w] = dept[s.by]
                                      /\ phase[w] \in {"active", "terminated"}
        /\ s.at = "store" => s.told = 0
        /\ s.at = "broadcast" =>
             \A w \in s.audience : phase[w] = "active" /\ w <= s.told =>
                k \in heard[w] \/ k \in inbox[w]
        /\ s.at = "done" =>
             \A w \in s.audience : phase[w] = "active" => k \in heard[w]

IInv == TypeInv /\ ListeningInv /\ \A k \in Knowledge : ShareInv(k)

-----------------------------------------------------------------------------
(* The bus                                                                 *)

\* Topics of different kinds, or of different owners, are different.
LEMMA TopicsDiffer ==
    /\ \A v, w \in WorkerId : Direct(v) = Direct(w) => v = w
    /\ \A c, d \in Dept : /\ Broadcast(c) = Broadcast(d) => c = d
                          /\ Directive(c) = Directive(d) => c = d
                          /\ Broadcast(c) # Directive(d)
    /\ \A w \in WorkerId, d \in Dept : /\ Direct(w) # Broadcast(d)
                                       /\ Direct(w) # Directive(d)
BY DEF Direct, Broadcast, Directive

LEMMA TopicsExist ==
    /\ \A w \in WorkerId : Direct(w) \in Topic
    /\ \A d \in Dept : Broadcast(d) \in Topic /\ Directive(d) \in Topic
BY DEF Topic

\* subscribe appends to one topic and leaves the others alone.
LEMMA Subscribe ==
    ASSUME NEW H, NEW subs \in [Topic -> Seq(H)], NEW t \in Topic, NEW h \in H
    PROVE  /\ subscribe(subs, t, h) \in [Topic -> Seq(H)]
           /\ subscribe(subs, t, h)[t] = Append(subs[t], h)
           /\ \A u \in Topic \ {t} : subscribe(subs, t, h)[u] = subs[u]
BY DEF subscribe

\* unsubscribe empties one topic and leaves the others alone.
LEMMA Unsubscribe ==
    ASSUME NEW H, NEW subs \in [Topic -> Seq(H)], NEW t \in Topic
    PROVE  /\ unsubscribe(subs, t) \in [Topic -> Seq(H)]
           /\ unsubscribe(subs, t)[t] = << >>
           /\ \A u \in Topic \ {t} : unsubscribe(subs, t)[u] = subs[u]
BY DEF unsubscribe

\* A publication is handed to a handler a natural number of times.
LEMMA DeliveriesNat ==
    ASSUME NEW H, NEW subs \in [Topic -> Seq(H)], NEW t \in Topic, NEW h
    PROVE  Deliveries(subs, t, h) \in Nat
<1>1. IsFiniteSet(DOMAIN subs[t])
  BY FS_Interval
<1>2. IsFiniteSet({i \in DOMAIN subs[t] : subs[t][i] = h})
  BY <1>1, FS_Subset
<1> QED BY <1>2, FS_CardinalityType DEF Deliveries

-----------------------------------------------------------------------------
(* Types                                                                   *)

\* A shareKnowledge call goes on to another await, or to another peer.
LEMMA ShareUpdate ==
    ASSUME NEW s \in Share
    PROVE  /\ \A a \in {"unshared", "store", "broadcast", "done"} :
                  [s EXCEPT !.at = a] \in Share
           /\ \A w \in 0 .. MaxHires : [s EXCEPT !.told = w] \in Share
BY DEF Share

LEMMA TypesInit == Init => TypeInv
<1> SUFFICES ASSUME Init PROVE TypeInv
  OBVIOUS
<1> USE CompanyAssumption
<1>1. subscriptions \in [Topic -> Seq(WorkerId \cup Dept)]
  BY DEF Init
<1>2. share \in [Knowledge -> Share]
  BY DEF Init, Unshared, Share
<1>3. goal \in [CompanyGoal ->
            [at : {"unset", "decompose", "publish", "done"}, left : Seq(Target)]]
  BY DEF Init, Unset
<1> QED BY <1>1, <1>2, <1>3 DEF Init, TypeInv, TypeOK, None

LEMMA TypesKept == TypeInv /\ [Next]_vars => TypeInv'
<1> SUFFICES ASSUME TypeInv, [Next]_vars PROVE TypeInv'
  OBVIOUS
<1> USE CompanyAssumption DEF TypeInv, TypeOK, None
<1>1. ASSUME NEW d \in Dept, StartDepartment(d) PROVE TypeInv'
  <2>1. subscriptions' \in [Topic -> Seq(WorkerId \cup Dept)]
    BY <1>1, Subscribe, TopicsExist DEF StartDepartment
  <2> QED BY <1>1, <2>1 DEF StartDepartment, workforce, sharing, governing
<1>2. ASSUME NEW d \in Dept, DepartmentReady(d) PROVE TypeInv'
  BY <1>2 DEF DepartmentReady, workforce, sharing, governing
<1>3. ASSUME NEW d \in Dept, Hire(d) PROVE TypeInv'
  BY <1>3 DEF Hire, sharing, governing
<1>4. ASSUME NEW w \in WorkerId, Onboard(w) PROVE TypeInv'
  <2>1. dept[w] \in Dept
    BY <1>4 DEF Onboard
  <2>2. subscribe(subscriptions, Direct(w), w) \in [Topic -> Seq(WorkerId \cup Dept)]
    BY Subscribe, TopicsExist
  <2>3. subscriptions' \in [Topic -> Seq(WorkerId \cup Dept)]
    BY <1>4, <2>1, <2>2, Subscribe, TopicsExist DEF Onboard
  <2> QED BY <1>4, <2>1, <2>3 DEF Onboard, sharing, governing
<1>5. ASSUME NEW w \in WorkerId, Fire(w) PROVE TypeInv'
  BY <1>5 DEF Fire, sharing, governing
<1>6. ASSUME NEW w \in WorkerId, Terminated(w) PROVE TypeInv'
  <2>1. dept[w] \in Dept
    BY <1>6 DEF Terminated
  <2>2. unsubscribe(subscriptions, Direct(w)) \in [Topic -> Seq(WorkerId \cup Dept)]
    BY Unsubscribe, TopicsExist
  <2>3. subscriptions' \in [Topic -> Seq(WorkerId \cup Dept)]
    BY <1>6, <2>1, <2>2, Unsubscribe, TopicsExist DEF Terminated
  <2> QED BY <1>6, <2>1, <2>3 DEF Terminated, sharing, governing
<1>7. ASSUME NEW w \in WorkerId, NEW k \in Knowledge, ShareKnowledge(w, k)
      PROVE  TypeInv'
  <2> DEFINE s == [by |-> w, at |-> "store", told |-> 0,
                   audience |-> {v \in Staff(dept[w]) : phase[v] = "active"} \ {w}]
  <2>1. s \in Share
    BY DEF Share, Staff, OnTheBooks, WorkerId
  <2>2. share' = [share EXCEPT ![k] = s]
    BY <1>7 DEF ShareKnowledge
  <2> HIDE DEF s
  <2>3. share' \in [Knowledge -> Share]
    BY <2>1, <2>2
  <2> QED BY <1>7, <2>3 DEF ShareKnowledge, workforce, governing
<1>8. ASSUME NEW k \in Knowledge, BroadcastKnowledge(k) PROVE TypeInv'
  <2>1. share' \in [Knowledge -> Share]
    <3>1. [share[k] EXCEPT !.at = "broadcast"] \in Share
      BY ShareUpdate
    <3> QED BY <1>8, <3>1 DEF BroadcastKnowledge
  <2>2. heard' \in [WorkerId -> SUBSET Knowledge]
    BY <1>8 DEF BroadcastKnowledge
  <2> QED BY <1>8, <2>1, <2>2 DEF BroadcastKnowledge, workforce, governing
<1>9. ASSUME NEW k \in Knowledge, Rebroadcast(k) PROVE TypeInv'
  <2>1. CASE /\ share' = [share EXCEPT ![k].at = "done"]
             /\ inbox' = inbox
    <3>1. [share[k] EXCEPT !.at = "done"] \in Share
      BY ShareUpdate
    <3>2. share' \in [Knowledge -> Share]
      BY <2>1, <3>1
    <3> QED BY <1>9, <2>1, <3>2 DEF Rebroadcast, workforce, governing
  <2>2. ASSUME NEW w \in WorkerId, share' = [share EXCEPT ![k].told = w],
               inbox' = [v \in WorkerId |->
                            IF v \in Handlers(subscriptions, Direct(w))
                            THEN inbox[v] \cup {k} ELSE inbox[v]]
        PROVE  TypeInv'
    <3>1. [share[k] EXCEPT !.told = w] \in Share
      <4>1. w \in 0 .. MaxHires
        BY DEF WorkerId
      <4>2. share[k] \in Share
        OBVIOUS
      <4> QED BY <4>1, <4>2, ShareUpdate
    <3>2. share' \in [Knowledge -> Share]
      BY <2>2, <3>1
    <3>3. inbox' \in [WorkerId -> SUBSET Knowledge]
      BY <2>2
    <3> QED BY <1>9, <3>2, <3>3 DEF Rebroadcast, workforce, governing
  <2> QED BY <1>9, <2>1, <2>2 DEF Rebroadcast
<1>10. ASSUME NEW w \in WorkerId, NEW k \in Knowledge, Absorb(w, k) PROVE TypeInv'
  <2>1. heard' \in [WorkerId -> SUBSET Knowledge] /\ inbox' \in [WorkerId -> SUBSET Knowledge]
    BY <1>10 DEF Absorb
  <2> QED BY <1>10, <2>1 DEF Absorb, workforce, governing
<1>11. ASSUME NEW g \in CompanyGoal, SetCompanyGoal(g) PROVE TypeInv'
  BY <1>11 DEF SetCompanyGoal, workforce, sharing
<1>12. ASSUME NEW g \in CompanyGoal, Dispatch(g) PROVE TypeInv'
  <2>1. \A d \in Dept : Deliveries(subscriptions, Directive(d), d) \in Nat
    BY DeliveriesNat, TopicsExist
  <2>2. received' \in [Dept -> [CompanyGoal -> Nat]]
    <3>1. \A d \in Dept : [received[d] EXCEPT ![g] =
                @ + Deliveries(subscriptions, Directive(d), d)] \in [CompanyGoal -> Nat]
      BY <2>1
    <3>2. CASE received' = received
      BY <3>2
    <3>3. CASE received' = [d \in Dept |->
                IF Head(goal[g].left) = d
                THEN [received[d] EXCEPT ![g] =
                        @ + Deliveries(subscriptions, Directive(d), d)]
                ELSE received[d]]
      <4>1. \A d \in Dept : received'[d] \in [CompanyGoal -> Nat]
        BY <3>1, <3>3
      <4> QED BY <3>3, <4>1
    <3> QED BY <1>12, <3>2, <3>3 DEF Dispatch
  <2> DEFINE Dispatching == [at : {"unset", "decompose", "publish", "done"},
                             left : Seq(Target)]
  <2>3. goal' \in [CompanyGoal -> Dispatching]
    <3>1. goal[g] \in Dispatching
      OBVIOUS
    <3>2. [goal[g] EXCEPT !.at = "done"] \in Dispatching
      BY <3>1
    <3>3. goal[g].left # << >> =>
                [at |-> "publish", left |-> Tail(goal[g].left)] \in Dispatching
      BY <3>1
    <3> HIDE DEF Dispatching
    <3>4. CASE goal[g].left = << >>
      <4>1. goal' = [goal EXCEPT ![g] = [goal[g] EXCEPT !.at = "done"]]
        BY <1>12, <3>4 DEF Dispatch
      <4> QED BY <3>2, <4>1 DEF Dispatching
    <3>5. CASE goal[g].left # << >>
      <4>1. goal' = [goal EXCEPT ![g] =
                        [at |-> "publish", left |-> Tail(goal[g].left)]]
        BY <1>12, <3>5 DEF Dispatch
      <4> QED BY <3>3, <3>5, <4>1 DEF Dispatching
    <3> QED BY <3>4, <3>5
  <2> QED BY <1>12, <2>2, <2>3 DEF Dispatch, workforce, sharing
<1>13. ASSUME NEW d \in Dept, WeeklyReport(d) PROVE TypeInv'
  BY <1>13 DEF WeeklyReport, workforce, sharing
<1>14. ASSUME NEW d \in Dept, ReportSubmitted(d) PROVE TypeInv'
  BY <1>14 DEF ReportSubmitted, workforce, sharing
<1>15. CASE UNCHANGED vars
  BY <1>15 DEF vars
<1> QED BY <1>1, <1>2, <1>3, <1>4, <1>5, <1>6, <1>7, <1>8, <1>9, <1>10, <1>11,
           <1>12, <1>13, <1>14, <1>15 DEF Next, Resume
-----------------------------------------------------------------------------
(* Who listens                                                             *)

LEMMA ListeningInit == Init => ListeningInv
BY TopicsExist DEF Init, ListeningInv, None

\* A step that changes neither subscriptions nor phases nor departments.
LEMMA ListeningSame ==
    ASSUME ListeningInv, UNCHANGED <<subscriptions, phase, dept>>
    PROVE  ListeningInv'
BY DEF ListeningInv

LEMMA ListeningKept == TypeInv /\ ListeningInv /\ [Next]_vars => ListeningInv'
<1> SUFFICES ASSUME TypeInv, ListeningInv, [Next]_vars PROVE ListeningInv'
  OBVIOUS
<1>0. subscriptions \in [Topic -> Seq(Handler)]
  BY DEF TypeInv, TypeOK, Handler
<1>1. ASSUME NEW d \in Dept, StartDepartment(d) PROVE ListeningInv'
  <2>1. /\ subscriptions'[Directive(d)] = Append(subscriptions[Directive(d)], d)
        /\ \A t \in Topic \ {Directive(d)} : subscriptions'[t] = subscriptions[t]
    BY <1>0, <1>1, Subscribe, TopicsExist DEF StartDepartment, Handler
  <2>2. subscriptions[Directive(d)] \in Seq(Handler)
    BY <1>0, TopicsExist
  <2>3. phase' = phase /\ dept' = dept
    BY <1>1 DEF StartDepartment, workforce
  <2>4. \A c \in Dept : \A i \in DOMAIN subscriptions'[Directive(c)] :
            subscriptions'[Directive(c)][i] \in Dept
    <3> TAKE c \in Dept
    <3>1. CASE c = d
      BY <2>1, <2>2, <3>1 DEF ListeningInv
    <3>2. CASE c # d
      BY <2>1, <3>2, TopicsDiffer, TopicsExist DEF ListeningInv
    <3> QED BY <3>1, <3>2
  <2>5. /\ \A w \in WorkerId : subscriptions'[Direct(w)] = subscriptions[Direct(w)]
        /\ \A c \in Dept : subscriptions'[Broadcast(c)] = subscriptions[Broadcast(c)]
    BY <2>1, TopicsDiffer, TopicsExist
  <2> QED BY <2>3, <2>4, <2>5 DEF ListeningInv
<1>2. ASSUME NEW d \in Dept, Hire(d) PROVE ListeningInv'
  <2>1. PICK w \in WorkerId : /\ phase[w] = None
                              /\ phase' = [phase EXCEPT ![w] = "onboarding"]
                              /\ dept' = [dept EXCEPT ![w] = d]
    BY <1>2 DEF Hire
  <2>2. subscriptions' = subscriptions
    BY <1>2 DEF Hire
  <2> QED BY <2>1, <2>2 DEF ListeningInv, TypeInv, TypeOK, None
<1>3. ASSUME NEW w \in WorkerId, Onboard(w) PROVE ListeningInv'
  <2> DEFINE own == subscribe(subscriptions, Direct(w), w)
             b == Broadcast(dept[w])
  <2>1. /\ phase[w] = "onboarding" /\ dept[w] \in Dept /\ dept' = dept
        /\ phase' = [phase EXCEPT ![w] = "active"]
        /\ subscriptions' = subscribe(own, b, w)
    BY <1>3 DEF Onboard, TypeInv, None
  <2>2. w \in Handler /\ Direct(w) \in Topic /\ b \in Topic /\ Direct(w) # b
    BY <2>1, TopicsExist, TopicsDiffer DEF Handler
  <2>3. /\ own \in [Topic -> Seq(Handler)]
        /\ own[Direct(w)] = Append(subscriptions[Direct(w)], w)
        /\ \A t \in Topic \ {Direct(w)} : own[t] = subscriptions[t]
    BY <1>0, <2>2, Subscribe
  <2> HIDE DEF own
  <2>4. /\ subscriptions'[b] = Append(own[b], w)
        /\ \A t \in Topic \ {b} : subscriptions'[t] = own[t]
    <3> HIDE DEF b
    <3>1. /\ subscribe(own, b, w)[b] = Append(own[b], w)
          /\ \A t \in Topic \ {b} : subscribe(own, b, w)[t] = own[t]
      BY <2>2, <2>3, Subscribe
    <3> QED BY <2>1, <3>1
  <2>5. phase'[w] = "active" /\ \A v \in WorkerId \ {w} : phase'[v] = phase[v]
    BY <2>1 DEF TypeInv, TypeOK
  <2>6. \A v \in WorkerId : subscriptions'[Direct(v)] =
                                IF phase'[v] = "active" THEN <<v>> ELSE << >>
    <3> TAKE v \in WorkerId
    <3>1. Direct(v) \in Topic /\ Direct(v) # b
      BY <2>1, TopicsExist, TopicsDiffer
    <3>2. subscriptions[Direct(v)] = IF phase[v] = "active" THEN <<v>> ELSE << >>
      BY DEF ListeningInv
    <3>3. CASE v = w
      <4>1. subscriptions'[Direct(w)] = Append(subscriptions[Direct(w)], w)
        BY <2>2, <2>3, <2>4
      <4>2. subscriptions[Direct(w)] = << >>
        BY <2>1, <3>2, <3>3
      <4>3. Append(<< >>, w) = <<w>>
        OBVIOUS
      <4> QED BY <2>5, <3>3, <4>1, <4>2, <4>3
    <3>4. CASE v # w
      <4>1. Direct(v) # Direct(w)
        BY <3>4, TopicsDiffer
      <4>2. subscriptions'[Direct(v)] = subscriptions[Direct(v)]
        BY <2>3, <2>4, <3>1, <4>1
      <4> QED BY <2>5, <3>2, <3>4, <4>2
    <3> QED BY <3>3, <3>4
  <2>7. ASSUME NEW d \in Dept, NEW i \in DOMAIN subscriptions'[Broadcast(d)]
        PROVE  LET v == subscriptions'[Broadcast(d)][i]
               IN  v \in WorkerId /\ phase'[v] = "active" /\ dept'[v] = d
    <3>1. Broadcast(d) \in Topic /\ own[Broadcast(d)] = subscriptions[Broadcast(d)]
      BY <2>3, TopicsDiffer, TopicsExist
    <3>2. subscriptions[Broadcast(d)] \in Seq(Handler)
      BY <1>0, <3>1
    <3>3. ASSUME NEW j \in DOMAIN subscriptions[Broadcast(d)]
          PROVE  LET v == subscriptions[Broadcast(d)][j]
                 IN  v \in WorkerId /\ phase'[v] = "active" /\ dept'[v] = d
      BY <2>1, <2>5 DEF ListeningInv
    <3>4. CASE d = dept[w]
      <4>1. subscriptions'[Broadcast(d)] = Append(subscriptions[Broadcast(d)], w)
        BY <2>4, <3>1, <3>4
      <4> DEFINE old == subscriptions[Broadcast(d)]
      <4>2. \/ i \in DOMAIN old /\ Append(old, w)[i] = old[i]
            \/ Append(old, w)[i] = w
        <5>1. i \in DOMAIN Append(old, w)
          BY <4>1
        <5> HIDE DEF old
        <5>2. old \in Seq(Handler)
          BY <3>2 DEF old
        <5> QED BY <2>2, <5>1, <5>2
      <4> QED BY <2>1, <2>5, <3>3, <3>4, <4>1, <4>2
    <3>5. CASE d # dept[w]
      <4>1. Broadcast(d) # b
        BY <2>1, <3>5, TopicsDiffer
      <4>2. subscriptions'[Broadcast(d)] = subscriptions[Broadcast(d)]
        BY <2>4, <3>1, <4>1
      <4> QED BY <3>3, <4>2
    <3> QED BY <3>4, <3>5
  <2>8. \A d \in Dept : subscriptions'[Directive(d)] = subscriptions[Directive(d)]
    BY <2>1, <2>3, <2>4, TopicsDiffer, TopicsExist
  <2> HIDE DEF b
  <2> QED BY <2>6, <2>7, <2>8 DEF ListeningInv
<1>4. ASSUME NEW w \in WorkerId, Terminated(w) PROVE ListeningInv'
  <2> DEFINE own == unsubscribe(subscriptions, Direct(w))
             b == Broadcast(dept[w])
  <2>1. /\ phase[w] \in {"active", "terminated"} /\ dept[w] \in Dept /\ dept' = dept
        /\ phase' = [phase EXCEPT ![w] = "terminated"]
        /\ subscriptions' = unsubscribe(own, b)
    BY <1>4 DEF Terminated, TypeInv, None
  <2>2. Direct(w) \in Topic /\ b \in Topic /\ Direct(w) # b
    BY <2>1, TopicsExist, TopicsDiffer
  <2>3. /\ own \in [Topic -> Seq(Handler)]
        /\ own[Direct(w)] = << >>
        /\ \A t \in Topic \ {Direct(w)} : own[t] = subscriptions[t]
    BY <1>0, <2>2, Unsubscribe
  <2> HIDE DEF own
  <2>4. /\ subscriptions'[b] = << >>
        /\ \A t \in Topic \ {b} : subscriptions'[t] = own[t]
    BY <2>1, <2>2, <2>3, Unsubscribe
  <2>5. phase'[w] = "terminated" /\ \A v \in WorkerId \ {w} : phase'[v] = phase[v]
    BY <2>1 DEF TypeInv, TypeOK
  <2>6. \A v \in WorkerId : subscriptions'[Direct(v)] =
                                IF phase'[v] = "active" THEN <<v>> ELSE << >>
    <3> TAKE v \in WorkerId
    <3>1. Direct(v) \in Topic /\ Direct(v) # b
      BY <2>1, TopicsExist, TopicsDiffer
    <3>2. CASE v = w
      BY <2>3, <2>4, <2>5, <3>1, <3>2
    <3>3. CASE v # w
      <4>1. Direct(v) # Direct(w)
        BY <3>3, TopicsDiffer
      <4>2. subscriptions'[Direct(v)] = subscriptions[Direct(v)]
        BY <2>3, <2>4, <3>1, <4>1
      <4> QED BY <2>5, <3>3, <4>2 DEF ListeningInv
    <3> QED BY <3>2, <3>3
  <2>7. ASSUME NEW d \in Dept, NEW i \in DOMAIN subscriptions'[Broadcast(d)]
        PROVE  LET v == subscriptions'[Broadcast(d)][i]
               IN  v \in WorkerId /\ phase'[v] = "active" /\ dept'[v] = d
    <3>1. CASE d = dept[w]
      BY <2>4, <3>1
    <3>2. CASE d # dept[w]
      <4>1. Broadcast(d) \in Topic /\ Broadcast(d) # b /\ Broadcast(d) # Direct(w)
        BY <2>1, <3>2, TopicsDiffer, TopicsExist
      <4>2. subscriptions'[Broadcast(d)] = subscriptions[Broadcast(d)]
        BY <2>3, <2>4, <4>1
      <4> DEFINE v == subscriptions[Broadcast(d)][i]
      <4>3. v \in WorkerId /\ phase[v] = "active" /\ dept[v] = d
        BY <4>2 DEF ListeningInv
      <4>4. v # w
        BY <3>2, <4>3
      <4> HIDE DEF v
      <4>5. phase'[v] = "active" /\ dept'[v] = d
        BY <2>1, <2>5, <4>3, <4>4
      <4> QED BY <4>2, <4>3, <4>5 DEF v
    <3> QED BY <3>1, <3>2
  <2>8. \A d \in Dept : subscriptions'[Directive(d)] = subscriptions[Directive(d)]
    BY <2>1, <2>3, <2>4, TopicsDiffer, TopicsExist
  <2> HIDE DEF b
  <2> QED BY <2>6, <2>7, <2>8 DEF ListeningInv
<1>5. CASE \/ \E d \in Dept : \/ DepartmentReady(d) \/ ReportSubmitted(d)
                              \/ WeeklyReport(d)
           \/ \E w \in WorkerId, k \in Knowledge : ShareKnowledge(w, k) \/ Absorb(w, k)
           \/ \E k \in Knowledge : BroadcastKnowledge(k) \/ Rebroadcast(k)
           \/ \E g \in CompanyGoal : SetCompanyGoal(g) \/ Dispatch(g)
           \/ \E w \in WorkerId : Fire(w)
           \/ UNCHANGED vars
  <2>1. UNCHANGED <<subscriptions, phase, dept>>
    BY <1>5 DEF DepartmentReady, ReportSubmitted, WeeklyReport, ShareKnowledge, Absorb,
                BroadcastKnowledge, Rebroadcast, SetCompanyGoal, Dispatch, Fire,
                workforce, vars
  <2> QED BY <2>1, ListeningSame
<1> QED BY <1>1, <1>2, <1>3, <1>4, <1>5 DEF Next, Resume

-----------------------------------------------------------------------------
(* How far a shareKnowledge call has come                                  *)

LEMMA ShareInit == Init => \A k \in Knowledge : ShareInv(k)
BY DEF Init, ShareInv, Unshared

\* A step that leaves the call alone, brings nobody back and loses neither what
\* was heard nor what waits in an inbox.
LEMMA ShareStays ==
    ASSUME NEW k \in Knowledge, TypeInv, ShareInv(k), share'[k] = share[k],
           \A w \in WorkerId : phase[w] \in {"active", "terminated"} =>
              /\ dept'[w] = dept[w] /\ phase'[w] \in {"active", "terminated"}
              /\ phase'[w] = "active" => phase[w] = "active",
           \A w \in WorkerId : /\ k \in heard[w] => k \in heard'[w]
                               /\ k \in inbox[w] => k \in heard'[w] \cup inbox'[w]
    PROVE  ShareInv(k)'
<1> DEFINE s == share[k]
<1>1. s.audience \subseteq WorkerId
  BY DEF TypeInv, TypeOK, Share
<1>2. /\ s.at # "unshared" =>
           /\ s.by \in WorkerId /\ phase[s.by] \in {"active", "terminated"}
           /\ \A w \in s.audience : /\ w # s.by /\ dept[w] = dept[s.by]
                                    /\ phase[w] \in {"active", "terminated"}
      /\ s.at = "store" => s.told = 0
      /\ s.at = "broadcast" =>
           \A w \in s.audience : phase[w] = "active" /\ w <= s.told =>
              k \in heard[w] \/ k \in inbox[w]
      /\ s.at = "done" =>
           \A w \in s.audience : phase[w] = "active" => k \in heard[w]
  BY DEF ShareInv
<1>3. share'[k] = s
  OBVIOUS
<1> HIDE DEF s
<1>4. s.at # "unshared" =>
        /\ s.by \in WorkerId /\ phase'[s.by] \in {"active", "terminated"}
        /\ \A w \in s.audience : /\ w # s.by /\ dept'[w] = dept'[s.by]
                                 /\ phase'[w] \in {"active", "terminated"}
  BY <1>1, <1>2
<1>5. s.at = "broadcast" =>
        \A w \in s.audience : phase'[w] = "active" /\ w <= s.told =>
           k \in heard'[w] \/ k \in inbox'[w]
  BY <1>1, <1>2
<1>6. s.at = "done" =>
        \A w \in s.audience : phase'[w] = "active" => k \in heard'[w]
  BY <1>1, <1>2
<1> QED BY <1>2, <1>3, <1>4, <1>5, <1>6 DEF ShareInv

\* The listener tells the next peer, or finds that it has told them all.
LEMMA ShareAdvances ==
    ASSUME NEW k \in Knowledge, TypeInv, ListeningInv, ShareInv(k), Rebroadcast(k)
    PROVE  ShareInv(k)'
<1> DEFINE s == share[k]
<1>1. /\ s \in Share /\ s.audience \subseteq WorkerId
      /\ s.told \in 0 .. MaxHires /\ MaxHires \in Nat
  BY CompanyAssumption DEF TypeInv, TypeOK, Share
<1>2. /\ s.at = "broadcast" /\ \A w \in WorkerId : k \notin inbox[w]
      /\ phase' = phase /\ dept' = dept /\ heard' = heard
  BY DEF Rebroadcast, workforce
<1>3. /\ s.by \in WorkerId /\ phase[s.by] \in {"active", "terminated"}
      /\ \A w \in s.audience : /\ w # s.by /\ dept[w] = dept[s.by]
                               /\ phase[w] \in {"active", "terminated"}
      /\ \A w \in s.audience : phase[w] = "active" /\ w <= s.told => k \in heard[w]
  BY <1>1, <1>2 DEF ShareInv
<1>4. \A w \in s.audience : phase[w] = "active" => w \in Peers(s)
  BY <1>1, <1>3 DEF Peers, Staff, OnTheBooks
<1>5. CASE /\ \A w \in Peers(s) : w <= s.told
           /\ share' = [share EXCEPT ![k].at = "done"]
  <2>1. share'[k] = [s EXCEPT !.at = "done"]
    BY <1>5 DEF TypeInv, TypeOK
  <2>2. \A w \in s.audience : phase[w] = "active" => k \in heard[w]
    BY <1>3, <1>4, <1>5
  <2> HIDE DEF s
  <2>3. /\ share'[k].at = "done" /\ share'[k].by = s.by
        /\ share'[k].audience = s.audience
    BY <1>1, <2>1 DEF Share
  <2> QED BY <1>2, <1>3, <2>2, <2>3 DEF ShareInv
<1>6. ASSUME NEW w \in WorkerId, NextPeer(s, w), share' = [share EXCEPT ![k].told = w],
             inbox' = [v \in WorkerId |->
                          IF v \in Handlers(subscriptions, Direct(w))
                          THEN inbox[v] \cup {k} ELSE inbox[v]]
      PROVE  ShareInv(k)'
  <2>1. share'[k] = [s EXCEPT !.told = w]
    BY <1>6 DEF TypeInv, TypeOK
  <2>2. phase[w] = "active" => k \in inbox'[w]
    <3>1. phase[w] = "active" => subscriptions[Direct(w)] = <<w>>
      BY DEF ListeningInv
    <3>2. w \in Handlers(subscriptions, Direct(w)) => k \in inbox'[w]
      BY <1>6
    <3>3. subscriptions[Direct(w)] = <<w>> => w \in Handlers(subscriptions, Direct(w))
      BY DEF Handlers
    <3> QED BY <3>1, <3>2, <3>3
  <2>3. ASSUME NEW v \in s.audience, phase[v] = "active", v <= w
        PROVE  k \in heard[v] \/ k \in inbox'[v]
    <3>1. v \in WorkerId /\ v \in Peers(s)
      BY <1>1, <1>4, <2>3
    <3>2. CASE v <= s.told
      BY <1>3, <2>3, <3>2
    <3>3. CASE ~(v <= s.told)
      <4>1. v > s.told => w <= v
        BY <1>6, <3>1 DEF NextPeer
      <4>2. v = w
        BY <1>1, <2>3, <3>1, <3>3, <4>1 DEF WorkerId
      <4> QED BY <2>2, <2>3, <4>2
    <3> QED BY <3>2, <3>3
  <2> HIDE DEF s
  <2>4. /\ share'[k].at = "broadcast" /\ share'[k].by = s.by /\ share'[k].told = w
        /\ share'[k].audience = s.audience
    BY <1>1, <1>2, <2>1 DEF Share
  <2> QED BY <1>2, <1>3, <2>3, <2>4 DEF ShareInv
<1> QED BY <1>5, <1>6 DEF Rebroadcast

LEMMA ShareKept ==
    ASSUME NEW k \in Knowledge, TypeInv, ListeningInv, ShareInv(k), [Next]_vars
    PROVE  ShareInv(k)'
<1> USE CompanyAssumption
<1>1. ASSUME NEW d \in Dept, Hire(d) PROVE ShareInv(k)'
  <2>1. PICK w \in WorkerId : /\ phase[w] = None
                              /\ phase' = [phase EXCEPT ![w] = "onboarding"]
                              /\ dept' = [dept EXCEPT ![w] = d]
    BY <1>1 DEF Hire
  <2>2. UNCHANGED sharing
    BY <1>1 DEF Hire
  <2> QED BY <2>1, <2>2, ShareStays DEF TypeInv, TypeOK, None, sharing
<1>2. ASSUME NEW w \in WorkerId, Onboard(w) PROVE ShareInv(k)'
  <2>1. /\ phase[w] = "onboarding" /\ dept' = dept /\ UNCHANGED sharing
        /\ phase' = [phase EXCEPT ![w] = "active"]
    BY <1>2 DEF Onboard
  <2> QED BY <2>1, ShareStays DEF TypeInv, TypeOK, None, sharing
<1>3. ASSUME NEW w \in WorkerId, Terminated(w) PROVE ShareInv(k)'
  <2>1. /\ dept' = dept /\ UNCHANGED sharing
        /\ phase' = [phase EXCEPT ![w] = "terminated"]
    BY <1>3 DEF Terminated
  <2> QED BY <2>1, ShareStays DEF TypeInv, TypeOK, None, sharing
<1>4. ASSUME NEW w \in WorkerId, NEW j \in Knowledge, ShareKnowledge(w, j)
      PROVE  ShareInv(k)'
  <2>1. UNCHANGED <<phase, dept, inbox, heard>>
    BY <1>4 DEF ShareKnowledge, workforce
  <2>2. CASE j # k
    <3>1. share'[k] = share[k]
      BY <1>4, <2>2 DEF ShareKnowledge, TypeInv, TypeOK
    <3> QED BY <2>1, <3>1, ShareStays
  <2>3. CASE j = k
    <3> DEFINE listeners == {v \in Staff(dept[w]) : phase[v] = "active"} \ {w}
    <3>1. share'[k] = [by |-> w, at |-> "store", told |-> 0, audience |-> listeners]
      BY <1>4, <2>3 DEF ShareKnowledge, TypeInv, TypeOK
    <3>2. \A v \in listeners : v # w /\ dept[v] = dept[w] /\ phase[v] = "active"
      BY DEF Staff
    <3>3. phase[w] \in {"active", "terminated"}
      BY <1>4 DEF ShareKnowledge
    <3> HIDE DEF listeners
    <3> QED BY <2>1, <3>1, <3>2, <3>3 DEF ShareInv
  <2> QED BY <2>2, <2>3
<1>5. ASSUME NEW j \in Knowledge, BroadcastKnowledge(j) PROVE ShareInv(k)'
  <2>1. UNCHANGED <<phase, dept, inbox>>
    BY <1>5 DEF BroadcastKnowledge, workforce
  <2>2. \A w \in WorkerId : heard[w] \subseteq heard'[w]
    BY <1>5 DEF BroadcastKnowledge
  <2>3. CASE j # k
    <3>1. share'[k] = share[k]
      BY <1>5, <2>3 DEF BroadcastKnowledge, TypeInv, TypeOK
    <3> QED BY <2>1, <2>2, <3>1, ShareStays
  <2>4. CASE j = k
    <3> DEFINE s == share[k]
    <3>1. share'[k] = [s EXCEPT !.at = "broadcast"] /\ s.at = "store"
      BY <1>5, <2>4 DEF BroadcastKnowledge, TypeInv, TypeOK
    <3>2. s \in Share
      BY DEF TypeInv, TypeOK
    <3>3. /\ s.told = 0 /\ s.by \in WorkerId /\ phase[s.by] \in {"active", "terminated"}
          /\ \A w \in s.audience : /\ w # s.by /\ dept[w] = dept[s.by]
                                   /\ phase[w] \in {"active", "terminated"}
      BY <3>1 DEF ShareInv
    <3> HIDE DEF s
    <3>4. /\ share'[k].at = "broadcast" /\ share'[k].told = 0
          /\ share'[k].by = s.by /\ share'[k].audience = s.audience
      BY <3>1, <3>2, <3>3 DEF Share
    <3>5. \A w \in s.audience : ~(w <= 0)
      BY <3>2 DEF Share, WorkerId
    <3> QED BY <2>1, <3>3, <3>4, <3>5 DEF ShareInv
  <2> QED BY <2>3, <2>4
<1>6. ASSUME NEW j \in Knowledge, Rebroadcast(j) PROVE ShareInv(k)'
  <2>1. CASE j = k
    BY <1>6, <2>1, ShareAdvances
  <2>2. CASE j # k
    <3>1. UNCHANGED <<phase, dept, heard>>
      BY <1>6 DEF Rebroadcast, workforce
    <3>2. share'[k] = share[k]
      BY <1>6, <2>2 DEF Rebroadcast, TypeInv, TypeOK
    <3>3. \A w \in WorkerId : inbox[w] \subseteq inbox'[w]
      BY <1>6 DEF Rebroadcast
    <3> QED BY <3>1, <3>2, <3>3, ShareStays
  <2> QED BY <2>1, <2>2
<1>7. ASSUME NEW w \in WorkerId, NEW j \in Knowledge, Absorb(w, j) PROVE ShareInv(k)'
  <2>1. UNCHANGED <<phase, dept, share>>
    BY <1>7 DEF Absorb, workforce
  <2>2. \A v \in WorkerId : /\ heard[v] \subseteq heard'[v]
                            /\ inbox[v] \subseteq heard'[v] \cup inbox'[v]
    BY <1>7 DEF Absorb, TypeInv, TypeOK
  <2> QED BY <2>1, <2>2, ShareStays
<1>8. CASE \/ \E d \in Dept : \/ StartDepartment(d) \/ DepartmentReady(d)
                              \/ ReportSubmitted(d) \/ WeeklyReport(d)
           \/ \E w \in WorkerId : Fire(w)
           \/ \E g \in CompanyGoal : SetCompanyGoal(g) \/ Dispatch(g)
           \/ UNCHANGED vars
  <2>1. UNCHANGED <<phase, dept, share, inbox, heard>>
    BY <1>8 DEF StartDepartment, DepartmentReady, ReportSubmitted, WeeklyReport, Fire,
                SetCompanyGoal, Dispatch, workforce, sharing, vars
  <2> QED BY <2>1, ShareStays DEF TypeInv, TypeOK
<1> QED BY <1>1, <1>2, <1>3, <1>4, <1>5, <1>6, <1>7, <1>8 DEF Next, Resume

-----------------------------------------------------------------------------
(* The theorems                                                            *)

LEMMA Inductive == Spec => []IInv
<1>1. Init => IInv
  BY TypesInit, ListeningInit, ShareInit DEF IInv
<1>2. IInv /\ [Next]_vars => IInv'
  <2> SUFFICES ASSUME IInv, [Next]_vars PROVE IInv'
    OBVIOUS
  <2>1. TypeInv /\ ListeningInv /\ \A k \in Knowledge : ShareInv(k)
    BY DEF IInv
  <2>2. TypeInv' /\ ListeningInv'
    BY <2>1, TypesKept, ListeningKept
  <2>3. \A k \in Knowledge : ShareInv(k)'
    BY <2>1, ShareKept
  <2> QED BY <2>2, <2>3 DEF IInv
<1> QED BY <1>1, <1>2, PTL DEF Spec

\* The state stays well-formed: subscriptions, shareKnowledge calls, goals and
\* reports are what the code can hold, and only a department whose initialize
\* has returned has a report on file.
THEOREM TypeCorrect == Spec => []TypeOK
<1>1. IInv => TypeOK
  BY DEF IInv, TypeInv
<1> QED BY <1>1, Inductive, PTL

\* onboard and terminate keep the bus in step with who is active, for any number
\* of workers, departments and second firings: an active worker listens once to
\* its own topic and nobody else is ever called.
THEOREM Listening == Spec => []OnlyTheActiveListen
<1>1. TypeInv /\ ListeningInv => OnlyTheActiveListen
  <2> SUFFICES ASSUME TypeInv, ListeningInv, NEW w \in WorkerId
               PROVE  /\ Deliveries(subscriptions, Direct(w), w) =
                            IF phase[w] = "active" THEN 1 ELSE 0
                      /\ \A t \in Topic : w \in Handlers(subscriptions, t) =>
                            phase[w] = "active" /\ t \in {Direct(w), Broadcast(dept[w])}
    BY DEF OnlyTheActiveListen
  <2>1. subscriptions[Direct(w)] = IF phase[w] = "active" THEN <<w>> ELSE << >>
    BY DEF ListeningInv
  <2>2. ASSUME phase[w] = "active" PROVE Deliveries(subscriptions, Direct(w), w) = 1
    <3>1. {i \in DOMAIN subscriptions[Direct(w)] : subscriptions[Direct(w)][i] = w} = {1}
      BY <2>1, <2>2
    <3>2. Cardinality({1}) = 1
      BY FS_Singleton
    <3> QED BY <3>1, <3>2 DEF Deliveries
  <2>3. ASSUME phase[w] # "active" PROVE Deliveries(subscriptions, Direct(w), w) = 0
    <3>1. {i \in DOMAIN subscriptions[Direct(w)] : subscriptions[Direct(w)][i] = w} = {}
      BY <2>1, <2>3
    <3>2. Cardinality({}) = 0
      BY FS_EmptySet
    <3> QED BY <3>1, <3>2 DEF Deliveries
  <2>4. ASSUME NEW t \in Topic, NEW i \in DOMAIN subscriptions[t], subscriptions[t][i] = w
        PROVE  phase[w] = "active" /\ t \in {Direct(w), Broadcast(dept[w])}
    <3>1. ASSUME NEW v \in WorkerId, t = Direct(v)
          PROVE  phase[w] = "active" /\ t \in {Direct(w), Broadcast(dept[w])}
      <4>1. subscriptions[t] = <<v>> /\ phase[v] = "active"
        <5>1. subscriptions[t] = IF phase[v] = "active" THEN <<v>> ELSE << >>
          BY <3>1 DEF ListeningInv
        <5>2. subscriptions[t] # << >>
          BY <2>4
        <5> QED BY <5>1, <5>2
      <4>2. v = w
        BY <2>4, <4>1
      <4> QED BY <3>1, <4>1, <4>2
    <3>2. ASSUME NEW d \in Dept, t = Broadcast(d)
          PROVE  phase[w] = "active" /\ t \in {Direct(w), Broadcast(dept[w])}
      BY <2>4, <3>2 DEF ListeningInv
    <3>3. ASSUME NEW d \in Dept, t = Directive(d)
          PROVE  FALSE
      <4>1. w \in Dept
        BY <2>4, <3>3 DEF ListeningInv
      <4> QED BY <4>1, CompanyAssumption
    <3> QED BY <3>1, <3>2, <3>3 DEF Topic
  <2>5. \A t \in Topic : w \in Handlers(subscriptions, t) =>
            phase[w] = "active" /\ t \in {Direct(w), Broadcast(dept[w])}
    BY <2>4 DEF Handlers
  <2> QED BY <2>2, <2>3, <2>5
<1> QED BY <1>1, Inductive, PTL DEF IInv

\* Whatever leaves, arrives and falls silent while shareKnowledge runs, whoever
\* was active in the department at its start and still is has the item at its
\* end: the listener that tells the peers one by one makes up for the broadcast.
THEOREM Reaches == Spec => []KnowledgeReachesPeers
<1>1. IInv => KnowledgeReachesPeers
  BY DEF IInv, ShareInv, KnowledgeReachesPeers
<1> QED BY <1>1, Inductive, PTL

-----------------------------------------------------------------------------
(* Company goals                                                           *)

\* How often d is among the departments of a decomposition.
Mentions(s, d) == Cardinality({i \in DOMAIN s : s[i] = d})

\* A department listens to its directives from the start of its initialize on.
Directed == \A d \in Dept : /\ subscriptions[Directive(d)] \in {<< >>, <<d>>}
                            /\ d \in ready => subscriptions[Directive(d)] = <<d>>

\* What a department has received of a goal and what is left for it add up to
\* what the CEO addressed to it.
Dispatched(g) ==
    LET f == goal[g]
    IN  IF f.at = "unset"
        THEN \A d \in Dept : received[d][g] = 0
        ELSE /\ ready = Dept /\ f.left \in Seq(Target)
             /\ f.at = "done" => f.left = << >>
             /\ \A d \in Dept : received[d][g] + Mentions(f.left, d) = Mentions(Targets, d)

\* What a dispatched company goal has come to: no department has it more often
\* than it was addressed, and at the end each has it exactly as often.
EveryDirectiveArrives ==
    \A g \in CompanyGoal, d \in Dept :
        /\ received[d][g] <= Mentions(Targets, d)
        /\ goal[g].at = "done" => received[d][g] = Mentions(Targets, d)

LEMMA MentionsNat ==
    ASSUME NEW s \in Seq(Target), NEW d PROVE Mentions(s, d) \in Nat
<1>1. IsFiniteSet(DOMAIN s)
  BY FS_Interval
<1>2. IsFiniteSet({i \in DOMAIN s : s[i] = d})
  BY <1>1, FS_Subset
<1> QED BY <1>2, FS_CardinalityType DEF Mentions

\* Taking the first department off a decomposition counts it once.
LEMMA MentionsTail ==
    ASSUME NEW s \in Seq(Target), s # << >>, NEW d
    PROVE  Mentions(s, d) = Mentions(Tail(s), d) + IF Head(s) = d THEN 1 ELSE 0
<1> DEFINE S == {i \in DOMAIN s : s[i] = d}
           T == {i \in DOMAIN Tail(s) : Tail(s)[i] = d}
           R == S \ {1}
           f == [i \in T |-> i + 1]
<1>1. /\ Len(s) \in Nat \ {0} /\ DOMAIN s = 1 .. Len(s)
      /\ DOMAIN Tail(s) = 1 .. Len(s) - 1 /\ Tail(s) \in Seq(Target)
      /\ \A i \in 1 .. Len(s) - 1 : Tail(s)[i] = s[i + 1]
      /\ Head(s) = s[1]
  OBVIOUS
<1>2. IsFiniteSet(S) /\ IsFiniteSet(T) /\ IsFiniteSet(R)
  <2>1. IsFiniteSet(1 .. Len(s)) /\ IsFiniteSet(1 .. Len(s) - 1)
    BY <1>1, FS_Interval
  <2>2. S \subseteq 1 .. Len(s) /\ T \subseteq 1 .. Len(s) - 1 /\ R \subseteq S
    BY <1>1
  <2> HIDE DEF S, T, R
  <2> QED BY <2>1, <2>2, FS_Subset
<1>3. f \in Bijection(T, R)
  <2>1. \A i \in T : i + 1 \in R
    BY <1>1
  <2>2. \A j \in R : j - 1 \in T /\ f[j - 1] = j
    BY <1>1
  <2>3. \A i, j \in T : f[i] = f[j] => i = j
    BY <1>1
  <2>4. \A i \in T : f[i] = i + 1
    OBVIOUS
  <2>5. f \in [T -> R]
    <3> HIDE DEF T, R
    <3> QED BY <2>1
  <2> HIDE DEF T, R, f
  <2> QED BY <2>2, <2>3, <2>5 DEF Bijection, Injection, Surjection, IsInjective
<1>4. Cardinality(T) = Cardinality(R)
  <2> HIDE DEF T, R, f
  <2> QED BY <1>2, <1>3, FS_Bijection DEF ExistsBijection
<1>5. CASE Head(s) = d
  <2>1. 1 \in S
    BY <1>1, <1>5
  <2>2. Cardinality(R) = Cardinality(S) - 1
    <3> HIDE DEF S
    <3> QED BY <1>2, <2>1, FS_RemoveElement
  <2>3. Cardinality(S) \in Nat
    <3> HIDE DEF S
    <3> QED BY <1>2, FS_CardinalityType
  <2> HIDE DEF S, T, R
  <2>4. Cardinality(S) = Cardinality(T) + 1
    BY <1>4, <2>2, <2>3
  <2> QED BY <1>5, <2>4 DEF Mentions, S, T
<1>6. CASE Head(s) # d
  <2>1. R = S
    BY <1>1, <1>6
  <2>2. Mentions(s, d) = Cardinality(S) /\ Mentions(Tail(s), d) = Cardinality(T)
    BY DEF Mentions
  <2>3. Cardinality(T) \in Nat
    <3> HIDE DEF T
    <3> QED BY <1>2, FS_CardinalityType
  <2> HIDE DEF S, T, R
  <2> QED BY <1>4, <1>6, <2>1, <2>2, <2>3
<1> QED BY <1>5, <1>6

\* A directive is handed over once by a department's subscription.
LEMMA OneDelivery ==
    ASSUME NEW d \in Dept, subscriptions[Directive(d)] = <<d>>
    PROVE  Deliveries(subscriptions, Directive(d), d) = 1
<1>1. {i \in DOMAIN subscriptions[Directive(d)] : subscriptions[Directive(d)][i] = d} = {1}
  OBVIOUS
<1> QED BY <1>1, FS_Singleton DEF Deliveries

LEMMA DirectedKept ==
    ASSUME TypeInv, Directed, [Next]_vars
    PROVE  Directed' /\ (ready = Dept => ready' = Dept)
<1>0. subscriptions \in [Topic -> Seq(Handler)]
  BY DEF TypeInv, TypeOK, Handler
<1>1. ASSUME NEW d \in Dept, StartDepartment(d)
      PROVE  Directed' /\ ready' = ready
  <2>1. /\ subscriptions'[Directive(d)] = Append(subscriptions[Directive(d)], d)
        /\ \A t \in Topic \ {Directive(d)} : subscriptions'[t] = subscriptions[t]
    BY <1>0, <1>1, Subscribe, TopicsExist DEF StartDepartment, Handler
  <2>2. subscriptions[Directive(d)] = << >> /\ ready' = ready
    BY <1>1 DEF StartDepartment, Started
  <2>3. subscriptions'[Directive(d)] = <<d>>
    BY <2>1, <2>2
  <2> QED BY <2>1, <2>2, <2>3, TopicsDiffer, TopicsExist DEF Directed
<1>2. ASSUME NEW d \in Dept, DepartmentReady(d)
      PROVE  Directed' /\ (ready = Dept => ready' = Dept)
  <2>1. ready \subseteq Dept
    BY DEF TypeInv, TypeOK
  <2> QED BY <1>2, <2>1 DEF DepartmentReady, Started, Directed
<1>3. ASSUME NEW w \in WorkerId, Onboard(w) PROVE Directed' /\ ready' = ready
  <2> DEFINE own == subscribe(subscriptions, Direct(w), w)
             b == Broadcast(dept[w])
  <2>1. dept[w] \in Dept /\ subscriptions' = subscribe(own, b, w) /\ ready' = ready
    BY <1>3 DEF Onboard, TypeInv, None
  <2>2. w \in Handler /\ Direct(w) \in Topic /\ b \in Topic
    BY <2>1, TopicsExist DEF Handler
  <2>3. /\ own \in [Topic -> Seq(Handler)]
        /\ own[Direct(w)] = Append(subscriptions[Direct(w)], w)
        /\ \A t \in Topic \ {Direct(w)} : own[t] = subscriptions[t]
    <3> HIDE DEF own, b
    <3>1. /\ subscribe(subscriptions, Direct(w), w) \in [Topic -> Seq(Handler)]
          /\ subscribe(subscriptions, Direct(w), w)[Direct(w)] = Append(subscriptions[Direct(w)], w)
          /\ \A t \in Topic \ {Direct(w)} :
                subscribe(subscriptions, Direct(w), w)[t] = subscriptions[t]
      BY <1>0, <2>2, Subscribe
    <3> QED BY <3>1 DEF own
  <2> HIDE DEF own
  <2>4. \A t \in Topic \ {b} : subscriptions'[t] = own[t]
    BY <2>1, <2>2, <2>3, Subscribe
  <2>5. \A d \in Dept : subscriptions'[Directive(d)] = subscriptions[Directive(d)]
    BY <2>1, <2>3, <2>4, TopicsDiffer, TopicsExist
  <2> QED BY <2>1, <2>5 DEF Directed
<1>4. ASSUME NEW w \in WorkerId, Terminated(w) PROVE Directed' /\ ready' = ready
  <2> DEFINE own == unsubscribe(subscriptions, Direct(w))
             b == Broadcast(dept[w])
  <2>1. dept[w] \in Dept /\ subscriptions' = unsubscribe(own, b) /\ ready' = ready
    BY <1>4 DEF Terminated, TypeInv, None
  <2>2. Direct(w) \in Topic /\ b \in Topic
    BY <2>1, TopicsExist
  <2>3. /\ own \in [Topic -> Seq(Handler)]
        /\ own[Direct(w)] = << >>
        /\ \A t \in Topic \ {Direct(w)} : own[t] = subscriptions[t]
    <3> HIDE DEF own, b
    <3>1. /\ unsubscribe(subscriptions, Direct(w)) \in [Topic -> Seq(Handler)]
          /\ unsubscribe(subscriptions, Direct(w))[Direct(w)] = << >>
          /\ \A t \in Topic \ {Direct(w)} :
                unsubscribe(subscriptions, Direct(w))[t] = subscriptions[t]
      BY <1>0, <2>2, Unsubscribe
    <3> QED BY <3>1 DEF own
  <2> HIDE DEF own
  <2>4. \A t \in Topic \ {b} : subscriptions'[t] = own[t]
    BY <2>1, <2>2, <2>3, Unsubscribe
  <2>5. \A d \in Dept : subscriptions'[Directive(d)] = subscriptions[Directive(d)]
    BY <2>1, <2>3, <2>4, TopicsDiffer, TopicsExist
  <2> QED BY <2>1, <2>5 DEF Directed
<1>5. CASE \/ \E d \in Dept : Hire(d) \/ ReportSubmitted(d) \/ WeeklyReport(d)
           \/ \E w \in WorkerId, k \in Knowledge : ShareKnowledge(w, k) \/ Absorb(w, k)
           \/ \E k \in Knowledge : BroadcastKnowledge(k) \/ Rebroadcast(k)
           \/ \E g \in CompanyGoal : SetCompanyGoal(g) \/ Dispatch(g)
           \/ \E w \in WorkerId : Fire(w)
           \/ UNCHANGED vars
  <2>1. UNCHANGED <<subscriptions, ready>>
    BY <1>5 DEF Hire, ReportSubmitted, WeeklyReport, ShareKnowledge, Absorb,
                BroadcastKnowledge, Rebroadcast, SetCompanyGoal, Dispatch, Fire, vars
  <2> QED BY <2>1 DEF Directed
<1> QED BY <1>1, <1>2, <1>3, <1>4, <1>5 DEF Next, Resume

LEMMA DispatchedKept ==
    ASSUME TypeInv, Directed, NEW g \in CompanyGoal, Dispatched(g), [Next]_vars
    PROVE  Dispatched(g)'
<1> USE CompanyAssumption
<1>0. ready = Dept => ready' = Dept
  BY DirectedKept
<1>1. ASSUME UNCHANGED <<goal, received>> PROVE Dispatched(g)'
  BY <1>0, <1>1 DEF Dispatched
<1>2. ASSUME NEW h \in CompanyGoal, SetCompanyGoal(h) PROVE Dispatched(g)'
  <2>1. received' = received /\ ready = Dept /\ ready' = ready /\ goal[h] = Unset
    BY <1>2 DEF SetCompanyGoal
  <2>2. goal' = [goal EXCEPT ![h] = [at |-> "decompose", left |-> Targets]]
    BY <1>2 DEF SetCompanyGoal
  <2>3. CASE h = g
    <3>1. goal'[g].at = "decompose" /\ goal'[g].left = Targets
      BY <2>2, <2>3 DEF TypeInv, TypeOK
    <3>2. \A d \in Dept : received[d][g] = 0
      BY <2>1, <2>3 DEF Dispatched, Unset
    <3>3. \A d \in Dept : Mentions(Targets, d) \in Nat
      BY MentionsNat
    <3> QED BY <2>1, <3>1, <3>2, <3>3 DEF Dispatched
  <2>4. CASE h # g
    <3>1. goal'[g] = goal[g]
      BY <2>2, <2>4 DEF TypeInv, TypeOK
    <3> QED BY <2>1, <3>1 DEF Dispatched
  <2> QED BY <2>3, <2>4
<1>3. ASSUME NEW h \in CompanyGoal, Dispatch(h) PROVE Dispatched(g)'
  <2>1. ready' = ready /\ goal[h].at \in {"decompose", "publish"}
    BY <1>3 DEF Dispatch
  <2>2. CASE h # g
    <3>1. goal'[g] = goal[g]
      BY <1>3, <2>2 DEF Dispatch, TypeInv, TypeOK
    <3>2. \A d \in Dept : received[d] \in [CompanyGoal -> Nat]
      BY DEF TypeInv, TypeOK
    <3>3. \A d \in Dept : received'[d][g] = received[d][g]
      <4> TAKE d \in Dept
      <4>1. \/ received'[d] = received[d]
            \/ \E n : received'[d] = [received[d] EXCEPT ![h] = n]
        BY <1>3 DEF Dispatch
      <4> QED BY <2>2, <3>2, <4>1
    <3> QED BY <2>1, <3>1, <3>3 DEF Dispatched
  <2>3. CASE h = g /\ goal[g].left = << >>
    <3>1. /\ goal'[g].at = "done" /\ goal'[g].left = << >>
          /\ received' = received
      BY <1>3, <2>3 DEF Dispatch, TypeInv, TypeOK
    <3> QED BY <2>1, <2>3, <3>1 DEF Dispatched
  <2>4. CASE h = g /\ goal[g].left # << >>
    <3> DEFINE s == goal[g].left
    <3>1. /\ ready = Dept /\ s \in Seq(Target) /\ s # << >>
          /\ \A d \in Dept : received[d][g] + Mentions(s, d) = Mentions(Targets, d)
      BY <2>1, <2>4 DEF Dispatched
    <3>2. /\ goal'[g] = [at |-> "publish", left |-> Tail(s)]
          /\ received' = [d \in Dept |->
                IF Head(s) = d
                THEN [received[d] EXCEPT ![g] =
                        @ + Deliveries(subscriptions, Directive(d), d)]
                ELSE received[d]]
      BY <1>3, <2>4 DEF Dispatch, TypeInv, TypeOK
    <3> HIDE DEF s
    <3>3. ASSUME NEW d \in Dept
          PROVE  received'[d][g] + Mentions(Tail(s), d) = Mentions(Targets, d)
      <4>1. Deliveries(subscriptions, Directive(d), d) = 1
        BY <3>1, OneDelivery DEF Directed
      <4>2. received[d] \in [CompanyGoal -> Nat] /\ received[d][g] \in Nat
        BY DEF TypeInv, TypeOK
      <4>3. received'[d][g] = received[d][g] + IF Head(s) = d THEN 1 ELSE 0
        BY <3>2, <4>1, <4>2
      <4>4. Mentions(s, d) = Mentions(Tail(s), d) + IF Head(s) = d THEN 1 ELSE 0
        BY <3>1, MentionsTail
      <4>5. Mentions(Tail(s), d) \in Nat
        <5>1. Tail(s) \in Seq(Target)
          BY <3>1
        <5> QED BY <5>1, MentionsNat
      <4> DEFINE one == IF Head(s) = d THEN 1 ELSE 0
      <4>6. one \in Nat /\ received'[d][g] = received[d][g] + one
        BY <4>3
      <4>7. received[d][g] + (Mentions(Tail(s), d) + one) = Mentions(Targets, d)
        BY <3>1, <4>4
      <4> HIDE DEF one
      <4> QED BY <4>2, <4>5, <4>6, <4>7
    <3>4. goal'[g].at = "publish" /\ goal'[g].left = Tail(s) /\ Tail(s) \in Seq(Target)
      BY <3>1, <3>2
    <3> QED BY <2>1, <3>1, <3>3, <3>4 DEF Dispatched
  <2> QED BY <2>2, <2>3, <2>4
<1>4. CASE \/ \E d \in Dept : \/ StartDepartment(d) \/ DepartmentReady(d) \/ Hire(d)
                              \/ ReportSubmitted(d) \/ WeeklyReport(d)
           \/ \E w \in WorkerId : Fire(w) \/ Onboard(w) \/ Terminated(w)
           \/ \E w \in WorkerId, k \in Knowledge : ShareKnowledge(w, k) \/ Absorb(w, k)
           \/ \E k \in Knowledge : BroadcastKnowledge(k) \/ Rebroadcast(k)
           \/ UNCHANGED vars
  <2>1. UNCHANGED <<goal, received>>
    BY <1>4 DEF StartDepartment, DepartmentReady, Hire, ReportSubmitted, WeeklyReport,
                Fire, Onboard, Terminated, ShareKnowledge, Absorb, BroadcastKnowledge,
                Rebroadcast, governing, vars
  <2> QED BY <1>1, <2>1
<1> QED BY <1>2, <1>3, <1>4 DEF Next, Resume

\* However departments are staffed, fired from and silenced while the CEO's
\* goal is dispatched, each department has it at the end as often as the goal
\* was decomposed into it, and never more often: the subscription to directives
\* is made before boot returns, and terminate does not touch it.  That the end
\* is reached is what the run adds (CompanyGoalArrivesOnce).
THEOREM GoalsArrive == Spec => []EveryDirectiveArrives
<1> DEFINE Inv == Directed /\ \A g \in CompanyGoal : Dispatched(g)
<1>1. Init => Inv
  BY TopicsExist DEF Init, Directed, Dispatched, Unset
<1>2. TypeInv /\ Inv /\ [Next]_vars => Inv'
  BY DirectedKept, DispatchedKept
<1>3. TypeInv /\ Inv => EveryDirectiveArrives
  <2> SUFFICES ASSUME TypeInv, NEW g \in CompanyGoal, Dispatched(g), NEW d \in Dept
               PROVE  /\ received[d][g] <= Mentions(Targets, d)
                      /\ goal[g].at = "done" => received[d][g] = Mentions(Targets, d)
    BY DEF EveryDirectiveArrives
  <2>1. received[d][g] \in Nat /\ Mentions(Targets, d) \in Nat
    BY MentionsNat, CompanyAssumption DEF TypeInv, TypeOK
  <2>2. CASE goal[g].at = "unset"
    BY <2>1, <2>2 DEF Dispatched
  <2>3. CASE goal[g].at # "unset"
    <3> DEFINE s == goal[g].left
    <3>1. /\ s \in Seq(Target)
          /\ goal[g].at = "done" => s = << >>
          /\ received[d][g] + Mentions(s, d) = Mentions(Targets, d)
      BY <2>3 DEF Dispatched
    <3> HIDE DEF s
    <3>2. Mentions(s, d) \in Nat
      BY <3>1, MentionsNat
    <3>3. Mentions(<< >>, d) = 0
      <4>1. {i \in DOMAIN << >> : << >>[i] = d} = {}
        OBVIOUS
      <4> QED BY <4>1, FS_EmptySet DEF Mentions
    <3> QED BY <2>1, <3>1, <3>2, <3>3
  <2> QED BY <2>2, <2>3
<1>4. IInv => TypeInv
  BY DEF IInv
<1> HIDE DEF Inv
<1> QED BY <1>1, <1>2, <1>3, <1>4, Inductive, PTL DEF Spec

-----------------------------------------------------------------------------
(* Shares come to an end                                                    *)

Underway(k) == share[k].at \in {"store", "broadcast"}

\* Messages about k whose handler waits, and peers the listener has yet to tell.
Mailed(k) == {w \in WorkerId : k \in inbox[w]}
Ahead(k) == {w \in Peers(share[k]) : w > share[k].told}

\* The awaits a shareKnowledge call has before it at most: two for each peer yet
\* to be told, one for a message that is handled, and its own.
ToDo(k) == IF share[k].at = "store" THEN 2 * Cardinality(Ahead(k)) + 2
           ELSE IF share[k].at = "broadcast"
           THEN 2 * Cardinality(Ahead(k)) + Cardinality(Mailed(k)) + 1
           ELSE 0

ShareStep(k) == BroadcastKnowledge(k) \/ Rebroadcast(k) \/ \E w \in WorkerId : Absorb(w, k)

\* A step of a call shortens what is before it, and of everything else that
\* happens only hiring into the sharer's department lengthens it.
SharesWindDown ==
    \A k \in Knowledge : Underway(k) =>
        /\ ShareStep(k) => ToDo(k)' < ToDo(k)
        /\ ToDo(k)' <= ToDo(k) \/ Hire(dept[share[k].by])

\* Messages are handled while the listener waits for them.
Mailing == \A k \in Knowledge : Mailed(k) # {} => share[k].at = "broadcast"

\* The measure is a number.
Counted == \A k \in Knowledge : ToDo(k) \in Nat

\* There are finitely many workers, so the peers and messages can be counted.
LEMMA SharingFinite ==
    ASSUME TypeInv, NEW k \in Knowledge
    PROVE  /\ IsFiniteSet(Ahead(k)) /\ Cardinality(Ahead(k)) \in Nat
           /\ IsFiniteSet(Mailed(k)) /\ Cardinality(Mailed(k)) \in Nat
           /\ ToDo(k) \in Nat
<1>1. IsFiniteSet(WorkerId)
  BY CompanyAssumption, FS_Interval DEF WorkerId
<1>2. Ahead(k) \subseteq WorkerId /\ Mailed(k) \subseteq WorkerId
  BY DEF Ahead, Mailed, Peers, Staff, OnTheBooks
<1>3. /\ IsFiniteSet(Ahead(k)) /\ Cardinality(Ahead(k)) \in Nat
      /\ IsFiniteSet(Mailed(k)) /\ Cardinality(Mailed(k)) \in Nat
  BY <1>1, <1>2, FS_Subset, FS_CardinalityType
<1> QED BY <1>3 DEF ToDo

\* A step that leaves a call and its messages alone and brings it no peer.
LEMMA NoLonger ==
    ASSUME TypeInv, TypeInv', NEW k \in Knowledge, share'[k] = share[k],
           Mailed(k)' = Mailed(k), Ahead(k)' \subseteq Ahead(k)
    PROVE  ToDo(k)' <= ToDo(k)
<1>1. /\ IsFiniteSet(Ahead(k)) /\ Cardinality(Ahead(k)) \in Nat
      /\ Cardinality(Mailed(k)) \in Nat
  BY SharingFinite
<1>2. Cardinality(Ahead(k)') \in Nat /\ Cardinality(Ahead(k)') <= Cardinality(Ahead(k))
  BY <1>1, FS_Subset, FS_CardinalityType
<1>3. Cardinality(Ahead(k))' = Cardinality(Ahead(k)') /\ Cardinality(Mailed(k))' = Cardinality(Mailed(k))
  OBVIOUS
<1> QED BY <1>1, <1>2, <1>3 DEF ToDo

\* A call's own step.
LEMMA SharesAdvance ==
    ASSUME TypeInv, TypeInv', ListeningInv, Mailing, NEW k \in Knowledge, ShareInv(k),
           ShareStep(k)
    PROVE  ToDo(k)' < ToDo(k)
<1> DEFINE s == share[k]
           a == Cardinality(Ahead(k))
           b == Cardinality(Mailed(k))
<1>1. /\ IsFiniteSet(Ahead(k)) /\ a \in Nat /\ IsFiniteSet(Mailed(k)) /\ b \in Nat
      /\ s \in Share
  BY SharingFinite DEF TypeInv, TypeOK
<1>2. UNCHANGED <<phase, dept>>
  BY DEF ShareStep, BroadcastKnowledge, Rebroadcast, Absorb, workforce
<1>3. CASE BroadcastKnowledge(k)
  <2>1. s.at = "store" /\ share'[k] = [s EXCEPT !.at = "broadcast"] /\ inbox' = inbox
    BY <1>3 DEF BroadcastKnowledge, TypeInv, TypeOK
  <2>2. Mailed(k) = {} /\ Mailed(k)' = {}
    BY <2>1 DEF Mailing, Mailed
  <2>3. share'[k].at = "broadcast" /\ share'[k].by = s.by /\ share'[k].told = s.told
    BY <1>1, <2>1 DEF Share
  <2>4. Ahead(k)' = Ahead(k)
    BY <1>2, <2>3 DEF Ahead, Peers, Staff, OnTheBooks
  <2>5. Cardinality(Ahead(k))' = a /\ Cardinality(Mailed(k))' = 0
    BY <2>2, <2>4, FS_EmptySet
  <2>6. ToDo(k) = 2 * a + 2 /\ ToDo(k)' = 2 * a + 0 + 1
    BY <2>1, <2>3, <2>5 DEF ToDo
  <2> QED BY <1>1, <2>6
<1>4. ASSUME NEW w \in WorkerId, Absorb(w, k) PROVE ToDo(k)' < ToDo(k)
  <2>1. /\ w \in Mailed(k) /\ share' = share
        /\ inbox' = [inbox EXCEPT ![w] = @ \ {k}]
    BY <1>4 DEF Absorb, Mailed
  <2>2. Mailed(k)' = Mailed(k) \ {w}
    BY <2>1 DEF Mailed, TypeInv, TypeOK
  <2>3. Ahead(k)' = Ahead(k) /\ s.at = "broadcast"
    BY <1>2, <2>1 DEF Ahead, Peers, Staff, OnTheBooks, Mailing
  <2>4. Cardinality(Mailed(k)') = b - 1
    BY <1>1, <2>1, <2>2, FS_RemoveElement
  <2>5. ToDo(k) = 2 * a + b + 1 /\ ToDo(k)' = 2 * a + (b - 1) + 1
    BY <2>1, <2>3, <2>4 DEF ToDo
  <2> QED BY <1>1, <2>5
<1>5. CASE Rebroadcast(k)
  <2>1. s.at = "broadcast" /\ Mailed(k) = {}
    BY <1>5 DEF Rebroadcast, Mailed
  <2>2. ToDo(k) = 2 * a + 1
    BY <1>1, <2>1, FS_EmptySet DEF ToDo
  <2>3. CASE share' = [share EXCEPT ![k].at = "done"]
    <3>1. share'[k] = [s EXCEPT !.at = "done"]
      BY <2>3 DEF TypeInv, TypeOK
    <3>2. share'[k].at = "done"
      BY <1>1, <3>1 DEF Share
    <3>3. ToDo(k)' = 0
      BY <3>2 DEF ToDo
    <3> QED BY <1>1, <2>2, <3>3
  <2>4. ASSUME NEW w \in WorkerId, NextPeer(s, w), share' = [share EXCEPT ![k].told = w],
               inbox' = [v \in WorkerId |->
                            IF v \in Handlers(subscriptions, Direct(w))
                            THEN inbox[v] \cup {k} ELSE inbox[v]]
        PROVE  ToDo(k)' < ToDo(k)
    <3>1. share'[k] = [s EXCEPT !.told = w]
      BY <2>4 DEF TypeInv, TypeOK
    <3>2. share'[k].at = "broadcast" /\ share'[k].by = s.by /\ share'[k].told = w
      BY <1>1, <2>1, <3>1 DEF Share
    <3>3. w \in Ahead(k) /\ s.told \in Int /\ \A v \in WorkerId : v \in Int
      BY <1>1, <2>4, CompanyAssumption DEF NextPeer, Ahead, Share, WorkerId
    <3>4. Ahead(k)' \subseteq Ahead(k) \ {w}
      <4>1. Ahead(k)' = {v \in Peers(s) : v > w}
        BY <1>2, <3>2 DEF Ahead, Peers, Staff, OnTheBooks
      <4>2. Peers(s) \subseteq WorkerId /\ w > s.told
        BY <2>4 DEF NextPeer, Peers, Staff, OnTheBooks
      <4> QED BY <3>3, <4>1, <4>2 DEF Ahead
    <3>5. Cardinality(Ahead(k)') \in Nat /\ Cardinality(Ahead(k)') <= a - 1
      <4>1. IsFiniteSet(Ahead(k) \ {w}) /\ Cardinality(Ahead(k) \ {w}) = a - 1
        BY <1>1, <3>3, FS_RemoveElement
      <4> QED BY <3>4, <4>1, FS_Subset, FS_CardinalityType
    <3>6. Mailed(k)' \subseteq {w}
      <4>1. subscriptions[Direct(w)] \in {<<w>>, << >>}
        BY DEF ListeningInv
      <4>2. Handlers(subscriptions, Direct(w)) \subseteq {w}
        BY <4>1 DEF Handlers
      <4> QED BY <2>1, <2>4, <4>2 DEF Mailed
    <3>7. Cardinality(Mailed(k)') \in {0, 1}
      <4>1. Mailed(k)' = {} \/ Mailed(k)' = {w}
        BY <3>6
      <4> QED BY <4>1, FS_EmptySet, FS_Singleton
    <3>8. ToDo(k)' = 2 * Cardinality(Ahead(k)') + Cardinality(Mailed(k)') + 1
      BY <3>2 DEF ToDo
    <3> QED BY <1>1, <2>2, <3>5, <3>7, <3>8
  <2> QED BY <1>5, <2>3, <2>4 DEF Rebroadcast
<1> QED BY <1>3, <1>4, <1>5 DEF ShareStep

\* The listener of one item sends no messages about another.
LEMMA RebroadcastMails ==
    ASSUME NEW j \in Knowledge, NEW k \in Knowledge, j # k, Rebroadcast(j),
           NEW v \in WorkerId
    PROVE  k \in inbox'[v] <=> k \in inbox[v]
<1>1. CASE inbox' = inbox
  BY <1>1
<1>2. ASSUME NEW w \in WorkerId,
             inbox' = [u \in WorkerId |->
                          IF u \in Handlers(subscriptions, Direct(w))
                          THEN inbox[u] \cup {j} ELSE inbox[u]]
      PROVE  k \in inbox'[v] <=> k \in inbox[v]
  BY <1>2
<1> QED BY <1>1, <1>2 DEF Rebroadcast

\* Everybody else's steps.
LEMMA SharesLeftAlone ==
    ASSUME TypeInv, TypeInv', NEW k \in Knowledge, ShareInv(k), Underway(k),
           [Next]_vars, ~ShareStep(k)
    PROVE  ToDo(k)' <= ToDo(k) \/ Hire(dept[share[k].by])
<1> DEFINE s == share[k]
<1>1. /\ s.by \in WorkerId /\ phase[s.by] # None /\ s.at \notin {"unshared", "done"}
  BY DEF Underway, ShareInv, None
<1>2. ASSUME UNCHANGED <<phase, dept>>, share'[k] = share[k],
             \A w \in WorkerId : k \in inbox'[w] <=> k \in inbox[w]
      PROVE  ToDo(k)' <= ToDo(k)
  <2>1. Mailed(k)' = Mailed(k) /\ Ahead(k)' = Ahead(k)
    BY <1>2 DEF Mailed, Ahead, Peers, Staff, OnTheBooks
  <2> QED BY <1>2, <2>1, NoLonger
<1>3. ASSUME NEW d \in Dept, Hire(d), d # dept[s.by] PROVE ToDo(k)' <= ToDo(k)
  <2>1. PICK w \in WorkerId : /\ phase[w] = None
                              /\ phase' = [phase EXCEPT ![w] = "onboarding"]
                              /\ dept' = [dept EXCEPT ![w] = d]
    BY <1>3 DEF Hire
  <2>2. share' = share /\ inbox' = inbox
    BY <1>3 DEF Hire, sharing
  <2>3. w # s.by /\ dept'[s.by] = dept[s.by] /\ dept'[w] = d
        /\ \A v \in WorkerId : v # w => phase'[v] = phase[v] /\ dept'[v] = dept[v]
    BY <1>1, <2>1 DEF TypeInv, TypeOK
  <2>4. Mailed(k)' = Mailed(k) /\ Ahead(k)' \subseteq Ahead(k)
    BY <1>3, <2>2, <2>3 DEF Mailed, Ahead, Peers, Staff, OnTheBooks
  <2> QED BY <2>2, <2>4, NoLonger
<1>4. ASSUME NEW w \in WorkerId, Onboard(w) PROVE ToDo(k)' <= ToDo(k)
  <2>1. /\ phase[w] = "onboarding" /\ phase' = [phase EXCEPT ![w] = "active"]
        /\ UNCHANGED <<dept, share, inbox>>
    BY <1>4 DEF Onboard, sharing
  <2>2. OnTheBooks' = OnTheBooks
    BY <2>1 DEF OnTheBooks, TypeInv, TypeOK
  <2>3. Mailed(k)' = Mailed(k) /\ Ahead(k)' = Ahead(k)
    BY <2>1, <2>2 DEF Mailed, Ahead, Peers, Staff
  <2> QED BY <2>1, <2>3, NoLonger
<1>5. ASSUME NEW w \in WorkerId, Terminated(w) PROVE ToDo(k)' <= ToDo(k)
  <2>1. /\ phase' = [phase EXCEPT ![w] = "terminated"]
        /\ UNCHANGED <<dept, share, inbox>>
    BY <1>5 DEF Terminated, sharing
  <2>2. OnTheBooks' \subseteq OnTheBooks
    BY <2>1 DEF OnTheBooks, TypeInv, TypeOK
  <2>3. Mailed(k)' = Mailed(k) /\ Ahead(k)' \subseteq Ahead(k)
    BY <2>1, <2>2 DEF Mailed, Ahead, Peers, Staff
  <2> QED BY <2>1, <2>3, NoLonger
<1>6. ASSUME NEW w \in WorkerId, NEW j \in Knowledge, ShareKnowledge(w, j)
      PROVE  ToDo(k)' <= ToDo(k)
  <2>1. j # k
    BY <1>1, <1>6 DEF ShareKnowledge, Unshared
  <2>2. share'[k] = share[k] /\ UNCHANGED <<phase, dept, inbox>>
    BY <1>6, <2>1 DEF ShareKnowledge, workforce, TypeInv, TypeOK
  <2> QED BY <1>2, <2>2
<1>7. ASSUME NEW j \in Knowledge,
             BroadcastKnowledge(j) \/ Rebroadcast(j) \/ \E w \in WorkerId : Absorb(w, j)
      PROVE  ToDo(k)' <= ToDo(k)
  <2>1. j # k
    BY <1>7 DEF ShareStep
  <2>2. share'[k] = share[k] /\ UNCHANGED <<phase, dept>>
    BY <1>7, <2>1 DEF BroadcastKnowledge, Rebroadcast, Absorb, workforce, TypeInv, TypeOK
  <2>3. \A w \in WorkerId : k \in inbox'[w] <=> k \in inbox[w]
    <3>1. CASE BroadcastKnowledge(j)
      BY <3>1 DEF BroadcastKnowledge
    <3>2. CASE Rebroadcast(j)
      BY <2>1, <3>2, RebroadcastMails
    <3>3. ASSUME NEW w \in WorkerId, Absorb(w, j)
          PROVE  \A v \in WorkerId : k \in inbox'[v] <=> k \in inbox[v]
      BY <2>1, <3>3 DEF Absorb, TypeInv, TypeOK
    <3> QED BY <1>7, <3>1, <3>2, <3>3
  <2> QED BY <1>2, <2>2, <2>3
<1>8. CASE \/ \E d \in Dept : \/ StartDepartment(d) \/ DepartmentReady(d)
                              \/ ReportSubmitted(d) \/ WeeklyReport(d)
           \/ \E w \in WorkerId : Fire(w)
           \/ \E g \in CompanyGoal : SetCompanyGoal(g) \/ Dispatch(g)
           \/ UNCHANGED vars
  <2>1. UNCHANGED <<phase, dept, share, inbox>>
    BY <1>8 DEF StartDepartment, DepartmentReady, ReportSubmitted, WeeklyReport, Fire,
                SetCompanyGoal, Dispatch, workforce, sharing, vars
  <2> QED BY <1>2, <2>1
<1> QED BY <1>3, <1>4, <1>5, <1>6, <1>7, <1>8 DEF Next, Resume

\* Only the listener sends messages, and it goes on when they are handled.
LEMMA MailingKept ==
    ASSUME TypeInv, ListeningInv, Mailing, [Next]_vars
    PROVE  Mailing'
<1> SUFFICES ASSUME NEW k \in Knowledge, Mailed(k)' # {} PROVE share'[k].at = "broadcast"
  BY DEF Mailing
<1>1. ASSUME Mailed(k) # {}, share'[k].at = share[k].at PROVE share'[k].at = "broadcast"
  BY <1>1 DEF Mailing
<1>2. CASE UNCHANGED <<share, inbox>>
  BY <1>1, <1>2 DEF Mailed
<1>3. ASSUME NEW w \in WorkerId, NEW j \in Knowledge, ShareKnowledge(w, j)
      PROVE  share'[k].at = "broadcast"
  <2>1. Mailed(k) # {} /\ share[k].at = "broadcast"
    BY <1>3 DEF ShareKnowledge, Mailed, Mailing
  <2>2. j # k
    BY <1>3, <2>1 DEF ShareKnowledge, Unshared
  <2> QED BY <1>3, <2>1, <2>2 DEF ShareKnowledge, TypeInv, TypeOK
<1>4. ASSUME NEW j \in Knowledge, BroadcastKnowledge(j) PROVE share'[k].at = "broadcast"
  <2>1. Mailed(k) # {} /\ share[k].at = "broadcast" /\ share[j].at = "store"
    BY <1>4 DEF BroadcastKnowledge, Mailed, Mailing
  <2>2. j # k
    BY <2>1
  <2> QED BY <1>4, <2>1, <2>2 DEF BroadcastKnowledge, TypeInv, TypeOK
<1>5. ASSUME NEW j \in Knowledge, Rebroadcast(j) PROVE share'[k].at = "broadcast"
  <2>1. CASE j # k
    <3>1. share'[k] = share[k]
      BY <1>5, <2>1 DEF Rebroadcast, TypeInv, TypeOK
    <3>2. Mailed(k) # {}
      BY <1>5, <2>1, RebroadcastMails DEF Mailed
    <3> QED BY <1>1, <3>1, <3>2
  <2>2. CASE j = k
    <3>1. share[k].at = "broadcast" /\ Mailed(k) = {} /\ share[k] \in Share
      BY <1>5, <2>2 DEF Rebroadcast, Mailed, TypeInv, TypeOK
    <3>2. inbox' # inbox
      BY <3>1 DEF Mailed
    <3>3. PICK w \in WorkerId : share' = [share EXCEPT ![k].told = w]
      BY <1>5, <2>2, <3>2 DEF Rebroadcast
    <3>4. share'[k] = [share[k] EXCEPT !.told = w]
      BY <3>3 DEF TypeInv, TypeOK
    <3> QED BY <3>1, <3>4 DEF Share
  <2> QED BY <2>1, <2>2
<1>6. ASSUME NEW w \in WorkerId, NEW j \in Knowledge, Absorb(w, j)
      PROVE  share'[k].at = "broadcast"
  <2>1. share' = share /\ Mailed(k) # {}
    BY <1>6 DEF Absorb, Mailed, TypeInv, TypeOK
  <2> QED BY <1>1, <2>1
<1>7. CASE \/ \E d \in Dept : \/ StartDepartment(d) \/ DepartmentReady(d) \/ Hire(d)
                              \/ ReportSubmitted(d) \/ WeeklyReport(d)
           \/ \E w \in WorkerId : Fire(w) \/ Onboard(w) \/ Terminated(w)
           \/ \E g \in CompanyGoal : SetCompanyGoal(g) \/ Dispatch(g)
           \/ UNCHANGED vars
  <2>1. UNCHANGED <<share, inbox>>
    BY <1>7 DEF StartDepartment, DepartmentReady, Hire, ReportSubmitted, WeeklyReport,
                Fire, Onboard, Terminated, SetCompanyGoal, Dispatch, sharing, vars
  <2> QED BY <1>2, <2>1
<1> QED BY <1>3, <1>4, <1>5, <1>6, <1>7 DEF Next, Resume

\* The listener goes through a Map that changes under it, and every peer it
\* tells may take its time: each await still brings shareKnowledge nearer to its
\* end, and nothing but hiring into the department puts the end off.
THEOREM NothingButHiringDelays == Spec => [][SharesWindDown]_vars
<1>1. Init => Mailing
  BY DEF Init, Mailing, Mailed
<1>2. IInv /\ Mailing /\ [Next]_vars => Mailing'
  BY MailingKept DEF IInv
<1>3. IInv => Counted
  BY SharingFinite DEF IInv, Counted
<1>4. IInv /\ IInv' /\ Mailing /\ Counted /\ Counted' /\ [Next]_vars => SharesWindDown
  <2> SUFFICES ASSUME IInv, IInv', Mailing, Counted, Counted', [Next]_vars,
                      NEW k \in Knowledge, Underway(k)
               PROVE  /\ ShareStep(k) => ToDo(k)' < ToDo(k)
                      /\ ToDo(k)' <= ToDo(k) \/ Hire(dept[share[k].by])
    BY DEF SharesWindDown
  <2>1. TypeInv /\ TypeInv' /\ ListeningInv /\ ShareInv(k)
    BY DEF IInv
  <2>2. ShareStep(k) => ToDo(k)' < ToDo(k)
    BY <2>1, SharesAdvance
  <2>3. ~ShareStep(k) => ToDo(k)' <= ToDo(k) \/ Hire(dept[share[k].by])
    BY <2>1, SharesLeftAlone
  <2>4. ToDo(k) \in Nat /\ ToDo(k)' \in Nat
    BY DEF Counted
  <2> QED BY <2>2, <2>3, <2>4
<1> QED BY <1>1, <1>2, <1>3, <1>4, Inductive, PTL DEF Spec
=============================================================================
