------------------------------ MODULE Company ------------------------------
(***************************************************************************)
(* The workforce as one process of many asynchronous calls over one bus:    *)
(* WorkforceRuntime boots the departments one after the other, workers come *)
(* and go with their subscriptions, share what they learn, the CEO hands    *)
(* company goals down and departments report to the organization.           *)
(*                                                                          *)
(* Each action is the stretch of a call from one await to the next.  How a  *)
(* department works off a goal is Department's and BaseWorker's subject:    *)
(* here receiving one is an await that ends.  When workers are hired is     *)
(* left open once the department is ready (Department says when).  Left     *)
(* out: the knowledge a newcomer is seeded with, cross-department requests  *)
(* (their handler only emits an event) and escalations.                     *)
(***************************************************************************)
EXTENDS Integers, MessageBus

CONSTANTS Departments,  \* the registered departments, in order of registration
          Targets,      \* departments the CEO decomposes a goal into, in order
          CompanyGoal, Knowledge,
          MinStaff,     \* department -> its minimum staffing
          MaxHires, MaxFires,  \* bounds: workers ever hired, calls of fire
          Reporters     \* bound: departments whose weekly timer comes round

Dept == {Departments[i] : i \in DOMAIN Departments}
Target == {Targets[i] : i \in DOMAIN Targets}
WorkerId == 1 .. MaxHires   \* in the order in which they enter the Map

ASSUME CompanyAssumption ==
    /\ MaxHires \in Nat /\ MaxFires \in Nat /\ MinStaff \in [Dept -> Nat]
    /\ Targets \in Seq(Target)
    /\ WorkerId \cap Dept = {}
    /\ Cardinality(Dept) = Len(Departments)

VARIABLES subscriptions,  \* of the runtime's bus
          ready,          \* departments whose initialize has returned
          phase,          \* worker -> none, onboarding, active or terminated
          dept,           \* worker -> its department
          terminating,    \* worker -> calls of terminate in flight
          fires,          \* number of calls of fire so far
          share,          \* knowledge -> the shareKnowledge call about it
          inbox,          \* worker -> direct messages whose handler waits
          heard,          \* worker -> knowledge its memory has absorbed
          goal,           \* company goal -> the setCompanyGoal call about it
          received,       \* department -> company goal -> times received
          reporting,      \* department -> who called the report in submission
          departmentReports   \* departments with a report on file

vars == <<subscriptions, ready, phase, dept, terminating, fires, share, inbox,
          heard, goal, received, reporting, departmentReports>>
workforce == <<phase, dept, terminating, fires>>
sharing == <<share, inbox, heard>>
governing == <<goal, received, reporting, departmentReports>>

None == "none"
Direct(w) == <<"worker", w>>
Broadcast(d) == <<"department", d>>
Directive(d) == <<"directive", d>>
Topic == {Direct(w) : w \in WorkerId} \cup {Broadcast(d) : d \in Dept}
         \cup {Directive(d) : d \in Dept}

\* department.workers, of all departments.
OnTheBooks == {w \in WorkerId : phase[w] \in {"onboarding", "active"}}
Staff(d) == {w \in OnTheBooks : dept[w] = d}

Unshared == [by |-> 0, at |-> "unshared", told |-> 0, audience |-> {}]
Unset == [at |-> "unset", left |-> << >>]

Init == /\ subscriptions = [t \in Topic |-> << >>] /\ ready = {}
        /\ phase = [w \in WorkerId |-> None]
        /\ dept = [w \in WorkerId |-> None]
        /\ terminating = [w \in WorkerId |-> 0] /\ fires = 0
        /\ share = [k \in Knowledge |-> Unshared]
        /\ inbox = [w \in WorkerId |-> {}] /\ heard = [w \in WorkerId |-> {}]
        /\ goal = [g \in CompanyGoal |-> Unset]
        /\ received = [d \in Dept |-> [g \in CompanyGoal |-> 0]]
        /\ reporting = [d \in Dept |-> None] /\ departmentReports = {}

-----------------------------------------------------------------------------
(* Boot and staff                                                          *)

Started(d) == subscriptions[Directive(d)] # << >>

\* boot comes to department d: initialize subscribes it to directives.
StartDepartment(d) ==
    /\ ~Started(d)
    /\ \A i \in DOMAIN Departments : Departments[i] = d =>
            \A j \in 1 .. i - 1 : Departments[j] \in ready
    /\ subscriptions' = subscribe(subscriptions, Directive(d), d)
    /\ UNCHANGED <<ready, workforce, sharing, governing>>

\* ensureMinimumStaffing returned, and with it initialize.
DepartmentReady(d) ==
    /\ Started(d) /\ d \notin ready
    /\ Cardinality(Staff(d)) >= MinStaff[d]
    /\ \A w \in Staff(d) : phase[w] # "onboarding"
    /\ ready' = ready \cup {d}
    /\ UNCHANGED <<subscriptions, workforce, sharing, governing>>

\* Before it is ready a department hires its minimum staff one by one.
Hire(d) ==
    /\ \/ d \in ready
       \/ /\ Started(d) /\ Cardinality(Staff(d)) < MinStaff[d]
          /\ \A w \in Staff(d) : phase[w] # "onboarding"
    /\ \E w \in WorkerId :
         /\ phase[w] = None /\ \A v \in 1 .. w - 1 : phase[v] # None
         /\ phase' = [phase EXCEPT ![w] = "onboarding"]
         /\ dept' = [dept EXCEPT ![w] = d]
    /\ UNCHANGED <<subscriptions, ready, terminating, fires, sharing, governing>>

\* onboard: the worker subscribes to its own topic and its department's.
Onboard(w) ==
    /\ phase[w] = "onboarding"
    /\ phase' = [phase EXCEPT ![w] = "active"]
    /\ subscriptions' = subscribe(subscribe(subscriptions, Direct(w), w),
                                  Broadcast(dept[w]), w)
    /\ UNCHANGED <<ready, dept, terminating, fires, sharing, governing>>

\* fire, of a worker that is on the books; it may be called twice.
Fire(w) ==
    /\ phase[w] = "active" /\ dept[w] \in ready /\ fires < MaxFires
    /\ terminating' = [terminating EXCEPT ![w] = @ + 1]
    /\ fires' = fires + 1
    /\ UNCHANGED <<subscriptions, ready, phase, dept, sharing, governing>>

\* A terminate that gives up the department's topics instead of its own.
Terminated_OtherTopics(w) ==
    /\ terminating[w] > 0
    /\ terminating' = [terminating EXCEPT ![w] = @ - 1]
    /\ phase' = [phase EXCEPT ![w] = "terminated"]
    /\ subscriptions' = unsubscribe(unsubscribe(subscriptions, Directive(dept[w])),
                                    Broadcast(dept[w]))
    /\ UNCHANGED <<ready, dept, fires, sharing, governing>>

\* The end of terminate: both topics are given up, the department's for every
\* worker in it, and the event takes the worker off the books.
Terminated(w) ==
    /\ terminating[w] > 0
    /\ terminating' = [terminating EXCEPT ![w] = @ - 1]
    /\ phase' = [phase EXCEPT ![w] = "terminated"]
    /\ subscriptions' = unsubscribe(unsubscribe(subscriptions, Direct(w)),
                                    Broadcast(dept[w]))
    /\ UNCHANGED <<ready, dept, fires, sharing, governing>>

-----------------------------------------------------------------------------
(* Knowledge                                                               *)

\* shareKnowledge stores the item and waits.  Work in flight outlives
\* terminate, so that a worker may share after it has left.
ShareKnowledge(w, k) ==
    /\ phase[w] \in {"active", "terminated"} /\ share[k] = Unshared
    /\ share' = [share EXCEPT ![k] =
            [by |-> w, at |-> "store", told |-> 0,
             audience |-> {v \in Staff(dept[w]) : phase[v] = "active"} \ {w}]]
    /\ UNCHANGED <<subscriptions, ready, workforce, inbox, heard, governing>>

\* The broadcast: handleDepartmentMessage absorbs in the publisher's stretch.
BroadcastKnowledge(k) ==
    /\ share[k].at = "store"
    /\ heard' = [w \in WorkerId |->
            IF w \in Handlers(subscriptions, Broadcast(dept[share[k].by]))
            THEN heard[w] \cup {k} ELSE heard[w]]
    /\ share' = [share EXCEPT ![k].at = "broadcast"]
    /\ UNCHANGED <<subscriptions, ready, workforce, inbox, governing>>

\* Peers counted from the sharer on.
Peers_AfterSharer(s) == {w \in Staff(dept[s.by]) : w > s.by}

\* Whom the listener has to tell: the department's Map, as it is now.
Peers(s) == Staff(dept[s.by]) \ {s.by}

\* A loop that never gets past the first entry.
NextPeer_First(s, w) == w \in Peers(s) /\ \A v \in Peers(s) : w <= v

\* The Map may change while the listener goes through it: the next entry after
\* the last one told.
NextPeer(s, w) == /\ w \in Peers(s) /\ w > s.told
                  /\ \A v \in Peers(s) : v > s.told => w <= v

\* knowledge_shared is emitted, or the previous peer's handlers have settled:
\* the listener tells the next peer, which handles the message if subscribed.
Rebroadcast(k) ==
    LET s == share[k]
    IN  /\ s.at = "broadcast" /\ \A w \in WorkerId : k \notin inbox[w]
        /\ \/ \E w \in WorkerId :
                /\ NextPeer(s, w)
                /\ share' = [share EXCEPT ![k].told = w]
                /\ inbox' = [v \in WorkerId |->
                        IF v \in Handlers(subscriptions, Direct(w))
                        THEN inbox[v] \cup {k} ELSE inbox[v]]
           \/ /\ \A w \in Peers(s) : w <= s.told
              /\ share' = [share EXCEPT ![k].at = "done"]
              /\ UNCHANGED inbox
        /\ UNCHANGED <<subscriptions, ready, workforce, heard, governing>>

\* handleMessage has stored the message and absorbs its knowledge, even if
\* the worker has been terminated meanwhile.
Absorb(w, k) ==
    /\ k \in inbox[w]
    /\ heard' = [heard EXCEPT ![w] = @ \cup {k}]
    /\ inbox' = [inbox EXCEPT ![w] = @ \ {k}]
    /\ UNCHANGED <<subscriptions, ready, workforce, share, governing>>

-----------------------------------------------------------------------------
(* Company goals and reports                                               *)

\* setCompanyGoal: boot has returned, so every department is initialized.
SetCompanyGoal(g) ==
    /\ ready = Dept /\ goal[g] = Unset
    /\ goal' = [goal EXCEPT ![g] = [at |-> "decompose", left |-> Targets]]
    /\ UNCHANGED <<subscriptions, ready, workforce, sharing, received, reporting,
                   departmentReports>>

\* The goal is decomposed, or the department that got the previous directive
\* is done with it: the next directive is published.  A department that does
\* not exist has no handler.
Dispatch(g) ==
    LET f == goal[g]
    IN  /\ f.at \in {"decompose", "publish"}
        /\ IF f.left = << >>
           THEN /\ goal' = [goal EXCEPT ![g].at = "done"]
                /\ UNCHANGED received
           ELSE /\ goal' = [goal EXCEPT ![g] = [at |-> "publish", left |-> Tail(f.left)]]
                /\ received' = [d \in Dept |->
                        IF Head(f.left) = d
                        THEN [received[d] EXCEPT ![g] =
                                @ + Deliveries(subscriptions, Directive(d), d)]
                        ELSE received[d]]
        /\ UNCHANGED <<subscriptions, ready, workforce, sharing, reporting,
                       departmentReports>>

\* A timer set before the first staffing is awaited.
WeeklyReport_BeforeReady(d) ==
    /\ Started(d) /\ d \in Reporters /\ reporting[d] = None
    /\ reporting' = [reporting EXCEPT ![d] = "timer"]
    /\ UNCHANGED <<subscriptions, ready, workforce, sharing, goal, received,
                   departmentReports>>

\* The weekly timer calls generateAndSubmitReport.
WeeklyReport(d) ==
    /\ d \in ready \cap Reporters /\ reporting[d] = None
    /\ reporting' = [reporting EXCEPT ![d] = "timer"]
    /\ UNCHANGED <<subscriptions, ready, workforce, sharing, goal, received,
                   departmentReports>>

\* The report is published, on a bus the organization does not listen to, and
\* the call emits report_submitted before it returns.  The listener that
\* registerDepartment attached answers with another generateAndSubmitReport;
\* a call the listener made returns to it, and it files the report.
ReportSubmitted(d) ==
    /\ reporting[d] # None
    /\ reporting' = [reporting EXCEPT ![d] = "listener"]
    /\ departmentReports' = IF reporting[d] = "listener"
                            THEN departmentReports \cup {d} ELSE departmentReports
    /\ UNCHANGED <<subscriptions, ready, workforce, sharing, goal, received>>

-----------------------------------------------------------------------------
\* Calls that are under way and resume from their awaits.
Resume == \/ \E d \in Dept : \/ StartDepartment(d) \/ DepartmentReady(d)
                             \/ ReportSubmitted(d)
          \/ \E w \in WorkerId : Onboard(w) \/ Terminated(w)
          \/ \E k \in Knowledge : \/ BroadcastKnowledge(k) \/ Rebroadcast(k)
                                  \/ \E w \in WorkerId : Absorb(w, k)
          \/ \E g \in CompanyGoal : Dispatch(g)

Next == \/ Resume
        \/ \E d \in Dept : Hire(d) \/ WeeklyReport(d)
        \/ \E w \in WorkerId : Fire(w) \/ \E k \in Knowledge : ShareKnowledge(w, k)
        \/ \E g \in CompanyGoal : SetCompanyGoal(g)

Spec == Init /\ [][Next]_vars

\* Promises resolve: every call that waits is resumed in the end.
Fairness ==
    /\ \A w \in WorkerId : WF_vars(Onboard(w)) /\ WF_vars(Terminated(w))
    /\ \A k \in Knowledge :
         /\ WF_vars(BroadcastKnowledge(k)) /\ WF_vars(Rebroadcast(k))
         /\ \A w \in WorkerId : WF_vars(Absorb(w, k))
    /\ \A g \in CompanyGoal : WF_vars(Dispatch(g))
    /\ \A d \in Dept : WF_vars(ReportSubmitted(d))

FairSpec == Spec /\ Fairness

-----------------------------------------------------------------------------
Share == [by : 0 .. MaxHires, at : {"unshared", "store", "broadcast", "done"},
          told : 0 .. MaxHires, audience : SUBSET WorkerId]

\* Well-formed; memories and mailboxes hold shared knowledge only, and only
\* of workers who were once on the books.
TypeOK ==
    /\ subscriptions \in [Topic -> Seq(WorkerId \cup Dept)]
    /\ ready \subseteq Dept /\ departmentReports \subseteq ready
    /\ phase \in [WorkerId -> {None, "onboarding", "active", "terminated"}]
    /\ dept \in [WorkerId -> Dept \cup {None}]
    /\ terminating \in [WorkerId -> 0 .. MaxFires] /\ fires \in 0 .. MaxFires
    /\ share \in [Knowledge -> Share]
    /\ inbox \in [WorkerId -> SUBSET Knowledge]
    /\ heard \in [WorkerId -> SUBSET Knowledge]
    /\ goal \in [CompanyGoal ->
            [at : {"unset", "decompose", "publish", "done"}, left : Seq(Target)]]
    /\ received \in [Dept -> [CompanyGoal -> Nat]]
    /\ reporting \in [Dept -> {None, "timer", "listener"}]

\* However onboarding, firing and a second firing interleave, a worker is
\* listening exactly while it is active: once on its own topic, and nobody
\* who has left, or not yet arrived, is called by any topic.
OnlyTheActiveListen ==
    \A w \in WorkerId :
        /\ Deliveries(subscriptions, Direct(w), w) = IF phase[w] = "active" THEN 1 ELSE 0
        /\ \A t \in Topic : w \in Handlers(subscriptions, t) =>
                phase[w] = "active" /\ t \in {Direct(w), Broadcast(dept[w])}

\* A leaver silences the department's topic for everyone, and peers leave and
\* arrive while the listener goes through them: by its end, a shared item has
\* still reached every peer who was active when it began and has stayed.
KnowledgeReachesPeers ==
    \A k \in Knowledge : share[k].at = "done" =>
        \A w \in share[k].audience : phase[w] = "active" => k \in heard[w]

\* Newcomers do not keep the listener going for ever.
EveryShareEnds ==
    \A k \in Knowledge : share[k] # Unshared ~> share[k].at = "done"

\* Each target department that exists gets a company goal once, whatever
\* happens to its workers and their subscriptions on the way.
CompanyGoalArrivesOnce ==
    \A g \in CompanyGoal : goal[g] # Unset ~>
        /\ goal[g].at = "done"
        /\ \A d \in Dept : received[d][g] =
                Cardinality({i \in DOMAIN Targets : Targets[i] = d})

\* "Weekly workforce report" (Department.ts): a report started by the timer
\* is submitted and that is that.
WeeklyReportEnds == \A d \in Dept : reporting[d] = "timer" ~> reporting[d] = None
=============================================================================
