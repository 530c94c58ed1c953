-------------------------- MODULE DepartmentProofs --------------------------
(***************************************************************************)
(* Proofs about Department, for any roles, goals and number of calls.      *)
(*                                                                         *)
(* The department keeps a ledger: who was hired as what, which goals are   *)
(* queued and which a worker holds.  A step enters one goal, hands one     *)
(* over or enters one worker (Entry), and each of these keeps the ledger   *)
(* right.  A call relies on the ledger over its awaits (FrameInv) for what *)
(* is never struck out again: that its worker is hired, and for what role, *)
(* and that its goal was received.                                         *)
(*                                                                         *)
(* The size of the department needs more (Staffed): while calls do not     *)
(* overlap, the one in flight fills posts or takes places that were free   *)
(* when it was checked, and nobody else takes them.                        *)
(***************************************************************************)
EXTENDS Department, FiniteSetTheorems, SequenceTheorems, TLAPS

Profile == [role : Role, status : {"onboarding"}]
Status == {None, "onboarding", "idle", "working", "terminated"}

\* Workers are numbered in the order of hiring, and a number is used once.
Numbered == /\ \E n \in Nat : Hired = 1 .. n
            /\ \A w \in WorkerId \ Hired : held[w] = << >>

QueuedOnce == \A i, j \in DOMAIN pendingGoals :
                  pendingGoals[i] = pendingGoals[j] => i = j

\* The queue and the workers never lose a goal between them: concurrent
\* hires may both go for it, and both take it, but it is never dropped.
NoGoalForgotten ==
    received = Elements(pendingGoals) \cup UNION {Elements(held[w]) : w \in WorkerId}

Ledger == /\ profile \in [WorkerId -> Profile \cup {NoProfile}]
          /\ held \in [WorkerId -> Seq(Goal)]
          /\ pendingGoals \in Seq(Goal) /\ received \subseteq Goal
          /\ Numbered /\ QueuedOnce /\ NoGoalForgotten /\ GoalsFitTheWorker

Workforce == /\ workers \subseteq Hired \ Terminated
             /\ status \in [WorkerId -> Status] /\ calls \in [Call -> Frame]
             /\ ready \in BOOLEAN /\ overlapped \in BOOLEAN

\* What a call in flight relies on over its awaits.
FrameInv(c) ==
    LET f == calls[c]
    IN  /\ f.hires > 0 => WorkerTypes # << >>
        /\ f.at = "createWorker" => f.role \in Role
        /\ f.at \in {"onboard", "acceptPending", "acceptGoal", "terminate"} =>
             f.worker \in Hired
        /\ f.op = "receiveGoal" /\ f.at \in {"createWorker", "onboard", "acceptPending"} =>
             /\ f.goal \in received /\ f.role \in Matches[f.goal]
             /\ f.at # "createWorker" => profile[f.worker].role = f.role

Types == 1 .. Len(WorkerTypes)

IInv == Ledger /\ Workforce /\ \A c \in Call : FrameInv(c)

-----------------------------------------------------------------------------
(* Queues                                                                  *)

Once(s) == \A i, j \in DOMAIN s : s[i] = s[j] => i = j

\* A goal is put at the end of a queue or of what a worker holds.
LEMMA Appended ==
    ASSUME NEW s \in Seq(Goal), NEW g \in Goal, NEW t, t = Append(s, g)
    PROVE  /\ t \in Seq(Goal) /\ Elements(t) = Elements(s) \cup {g}
           /\ Once(s) /\ g \notin Elements(s) => Once(t)
<1>1. /\ t \in Seq(Goal) /\ Len(t) = Len(s) + 1 /\ t[Len(s) + 1] = g
      /\ \A i \in 1 .. Len(s) : t[i] = s[i]
  BY AppendProperties
<1>2. DOMAIN s = 1 .. Len(s) /\ DOMAIN t = 1 .. Len(s) + 1 /\ Len(s) \in Nat
  BY <1>1, LenProperties
<1>3. Elements(t) = Elements(s) \cup {g}
  BY <1>1, <1>2 DEF Elements
<1>4. ASSUME Once(s), g \notin Elements(s) PROVE Once(t)
  BY <1>1, <1>2, <1>4 DEF Once, Elements
<1> QED BY <1>1, <1>3, <1>4

\* One place of a queue is taken out.
LEMMA Removed ==
    ASSUME NEW s \in Seq(Goal), NEW i \in DOMAIN s, Once(s), NEW t, t = RemoveAt(s, i)
    PROVE  t \in Seq(Goal) /\ Elements(t) = Elements(s) \ {s[i]} /\ Once(t)
<1> DEFINE n == Len(s)
           a == SubSeq(s, 1, i - 1)
           b == SubSeq(s, i + 1, n)
<1>1. n \in Nat /\ DOMAIN s = 1 .. n /\ i \in 1 .. n
  BY LenProperties
<1>2. \A j \in 1 .. n : s[j] \in Goal
  BY ElementOfSeq
<1>3. /\ a \in Seq(Goal) /\ Len(a) = i - 1
      /\ \A j \in 1 .. i - 1 : a[j] = s[j]
  BY <1>1, <1>2, SubSeqProperties
<1>4. /\ b \in Seq(Goal) /\ Len(b) = n - i
      /\ \A j \in 1 .. n - i : b[j] = s[i + j]
  BY <1>1, <1>2, SubSeqProperties
<1>5. t = a \o b
  BY DEF RemoveAt
<1> HIDE DEF n, a, b
<1>6. /\ t \in Seq(Goal) /\ Len(t) = n - 1
      /\ \A j \in 1 .. n - 1 : t[j] = IF j < i THEN s[j] ELSE s[j + 1]
  <2>1. /\ t \in Seq(Goal) /\ Len(t) = Len(a) + Len(b)
        /\ \A j \in 1 .. Len(a) + Len(b) : t[j] = IF j <= Len(a) THEN a[j] ELSE b[j - Len(a)]
    BY <1>3, <1>4, <1>5, ConcatProperties
  <2>2. Len(t) = n - 1
    BY <1>1, <1>3, <1>4, <2>1
  <2>3. ASSUME NEW j \in 1 .. n - 1 PROVE t[j] = IF j < i THEN s[j] ELSE s[j + 1]
    <3>1. t[j] = IF j <= i - 1 THEN a[j] ELSE b[j - (i - 1)]
      BY <1>1, <1>3, <1>4, <2>1, <2>3
    <3>2. CASE j < i
      BY <1>1, <1>3, <3>1, <3>2
    <3>3. CASE ~(j < i)
      <4>1. j - (i - 1) \in 1 .. n - i /\ i + (j - (i - 1)) = j + 1
        BY <1>1, <3>3
      <4> QED BY <1>1, <1>4, <3>1, <3>3, <4>1
    <3> QED BY <3>2, <3>3
  <2> QED BY <2>1, <2>2, <2>3
<1>7. DOMAIN t = 1 .. n - 1
  BY <1>1, <1>6, LenProperties
<1>8. Once(t)
  <2> SUFFICES ASSUME NEW j \in DOMAIN t, NEW k \in DOMAIN t, t[j] = t[k], j < k
               PROVE  FALSE
    BY <1>1, <1>7 DEF Once
  <2> DEFINE at(m) == IF m < i THEN m ELSE m + 1
  <2>1. j \in 1 .. n - 1 /\ k \in 1 .. n - 1
    BY <1>7
  <2>2. at(j) \in DOMAIN s /\ at(k) \in DOMAIN s /\ at(j) < at(k)
    BY <1>1, <2>1
  <2>3. t[j] = s[at(j)] /\ t[k] = s[at(k)]
    BY <1>6, <2>1
  <2> HIDE DEF at
  <2>4. s[at(j)] = s[at(k)]
    BY <2>3
  <2>5. at(j) = at(k)
    BY <2>2, <2>4 DEF Once
  <2> QED BY <1>1, <2>2, <2>5
<1>9. ASSUME NEW g PROVE g \in Elements(t) <=> g \in Elements(s) /\ g # s[i]
  <2>1. ASSUME NEW j \in DOMAIN t, g = t[j] PROVE g \in Elements(s) /\ g # s[i]
    BY <1>1, <1>6, <1>7, <2>1 DEF Elements, Once
  <2>2. ASSUME NEW j \in DOMAIN s, g = s[j], g # s[i] PROVE g \in Elements(t)
    <3>1. CASE j < i
      <4>1. j \in DOMAIN t /\ t[j] = g
        BY <1>1, <1>6, <1>7, <2>2, <3>1
      <4> QED BY <4>1 DEF Elements
    <3>2. CASE j > i
      <4>1. j - 1 \in DOMAIN t /\ t[j - 1] = g
        BY <1>1, <1>6, <1>7, <2>2, <3>2
      <4> QED BY <4>1 DEF Elements
    <3> QED BY <1>1, <2>2, <3>1, <3>2
  <2> QED BY <2>1, <2>2 DEF Elements
<1> QED BY <1>6, <1>8, <1>9

\* The filter on a goal's id takes that goal out and leaves the others.
LEMMA Filtered ==
    ASSUME pendingGoals \in Seq(Goal), QueuedOnce, NEW g, NEW t, t = WithoutGoal(g)
    PROVE  t \in Seq(Goal) /\ Elements(t) = Elements(pendingGoals) \ {g} /\ Once(t)
<1>1. Once(pendingGoals)
  BY DEF QueuedOnce, Once
<1>2. CASE g \notin Elements(pendingGoals)
  BY <1>1, <1>2 DEF WithoutGoal
<1>3. CASE g \in Elements(pendingGoals)
  <2> DEFINE i == CHOOSE j \in DOMAIN pendingGoals : pendingGoals[j] = g
  <2>1. i \in DOMAIN pendingGoals /\ pendingGoals[i] = g
    BY <1>3 DEF Elements
  <2>2. t = RemoveAt(pendingGoals, i)
    BY <1>3 DEF WithoutGoal
  <2> HIDE DEF i
  <2> QED BY <1>1, <2>1, <2>2, Removed
<1> QED BY <1>2, <1>3

-----------------------------------------------------------------------------
(* The ledger                                                              *)

\* The entries an action may make: a goal is queued, ...
Arrives(g) == /\ g \in Goal \ received
              /\ received' = received \cup {g}
              /\ pendingGoals' = Append(pendingGoals, g)
              /\ UNCHANGED <<held, profile>>

\* ... a goal is handed to a worker who can serve it, ...
Handed(w, g) == /\ w \in Hired /\ g \in received /\ profile[w].role \in Matches[g]
                /\ held' = [held EXCEPT ![w] = Append(@, g)]
                /\ pendingGoals' = pendingGoals \/ pendingGoals' = WithoutGoal(g)
                /\ UNCHANGED <<received, profile>>

\* ... or a worker is hired.
Joins(w, r) == /\ w \in WorkerId /\ w = Cardinality(Hired) + 1 /\ r \in Role
               /\ profile' = [profile EXCEPT ![w] = [role |-> r, status |-> "onboarding"]]
               /\ UNCHANGED <<received, held, pendingGoals>>

Entry == \/ \E g : Arrives(g)
         \/ \E w, g : Handed(w, g)
         \/ \E w, r : Joins(w, r)
         \/ UNCHANGED <<received, held, pendingGoals, profile>>

\* What an entry leaves true of those there were.
Grows == /\ Hired \subseteq Hired' /\ received \subseteq received'
         /\ \A w \in Hired : profile'[w] = profile[w]

LEMMA Arriving ==
    ASSUME Ledger, NEW g, Arrives(g)
    PROVE  Ledger' /\ Grows
<1>1. /\ pendingGoals' \in Seq(Goal)
      /\ Elements(pendingGoals') = Elements(pendingGoals) \cup {g}
      /\ Once(pendingGoals) /\ g \notin Elements(pendingGoals) => Once(pendingGoals')
  BY Appended DEF Ledger, Arrives
<1>2. g \notin Elements(pendingGoals)
  BY DEF Ledger, NoGoalForgotten, Arrives
<1>3. QueuedOnce'
  BY <1>1, <1>2 DEF Ledger, QueuedOnce, Once
<1>4. Hired' = Hired
  BY DEF Arrives, Hired
<1>5. Numbered' /\ GoalsFitTheWorker'
  BY <1>4 DEF Ledger, Numbered, GoalsFitTheWorker, Arrives
<1>6. NoGoalForgotten'
  BY <1>1 DEF Ledger, NoGoalForgotten, Arrives
<1> QED BY <1>1, <1>3, <1>4, <1>5, <1>6 DEF Ledger, Arrives, Grows

LEMMA Handing ==
    ASSUME Ledger, NEW w, NEW g, Handed(w, g)
    PROVE  Ledger' /\ Grows
<1> DEFINE s == Append(held[w], g)
<1>1. w \in WorkerId /\ held[w] \in Seq(Goal) /\ g \in Goal
  BY DEF Ledger, Handed, Hired
<1>2. s \in Seq(Goal) /\ Elements(s) = Elements(held[w]) \cup {g}
  BY <1>1, Appended
<1>3. /\ held' = [held EXCEPT ![w] = s]
  BY DEF Handed
<1> HIDE DEF s
<1>4. /\ held' \in [WorkerId -> Seq(Goal)] /\ held'[w] = s
      /\ \A v \in WorkerId : v # w => held'[v] = held[v]
  BY <1>1, <1>2, <1>3 DEF Ledger
<1>5. /\ pendingGoals' \in Seq(Goal) /\ Once(pendingGoals')
      /\ Elements(pendingGoals') \subseteq Elements(pendingGoals)
      /\ Elements(pendingGoals) \subseteq Elements(pendingGoals') \cup {g}
  <2>1. CASE pendingGoals' = pendingGoals
    BY <2>1 DEF Ledger, QueuedOnce, Once
  <2>2. CASE pendingGoals' = WithoutGoal(g)
    <3> DEFINE t == WithoutGoal(g)
    <3>1. t \in Seq(Goal) /\ Elements(t) = Elements(pendingGoals) \ {g} /\ Once(t)
      BY Filtered DEF Ledger
    <3> HIDE DEF t
    <3>2. pendingGoals' = t
      BY <2>2 DEF t
    <3> QED BY <3>1, <3>2
  <2> QED BY <2>1, <2>2 DEF Handed
<1>6. Hired' = Hired /\ w \in Hired /\ received' = received /\ profile' = profile
  BY DEF Handed, Hired
<1>7. Numbered'
  BY <1>4, <1>6 DEF Ledger, Numbered
<1>8. GoalsFitTheWorker'
  <2> SUFFICES ASSUME NEW v \in Hired, NEW h \in Elements(held'[v])
               PROVE  profile[v].role \in Matches[h]
    BY <1>6 DEF GoalsFitTheWorker
  <2>1. CASE v = w
    BY <1>2, <1>4, <2>1 DEF Ledger, GoalsFitTheWorker, Handed
  <2>2. CASE v # w
    BY <1>4, <2>2 DEF Ledger, GoalsFitTheWorker, Hired
  <2> QED BY <2>1, <2>2
<1>9. NoGoalForgotten'
  <2>1. \A h : h \in received <=> \/ h \in Elements(pendingGoals)
                                  \/ \E v \in WorkerId : h \in Elements(held[v])
    BY DEF Ledger, NoGoalForgotten
  <2>2. \A v \in WorkerId : /\ Elements(held[v]) \subseteq Elements(held'[v])
                            /\ Elements(held'[v]) \subseteq Elements(held[v]) \cup {g}
    BY <1>2, <1>4
  <2>3. g \in received /\ g \in Elements(held'[w])
    BY <1>2, <1>4 DEF Handed
  <2>4. \A h : h \in received <=> \/ h \in Elements(pendingGoals')
                                  \/ \E v \in WorkerId : h \in Elements(held'[v])
    BY <1>1, <1>5, <2>1, <2>2, <2>3
  <2> QED BY <1>6, <2>4 DEF NoGoalForgotten
<1>10. QueuedOnce'
  BY <1>5 DEF QueuedOnce, Once
<1> QED BY <1>4, <1>5, <1>6, <1>7, <1>8, <1>9, <1>10 DEF Ledger, Grows

\* The next number is a new one.
LEMMA NextNumber ==
    ASSUME Ledger
    PROVE  \E n \in Nat : Hired = 1 .. n /\ Cardinality(Hired) + 1 = n + 1
<1>1. PICK n \in Nat : Hired = 1 .. n
  BY DEF Ledger, Numbered
<1>2. Cardinality(1 .. n) = n
  BY FS_Interval
<1> QED BY <1>1, <1>2

LEMMA Joining ==
    ASSUME Ledger, NEW w, NEW r, Joins(w, r)
    PROVE  Ledger' /\ Grows /\ Hired' = Hired \cup {w} /\ w \notin Hired /\ profile'[w].role = r
<1> DEFINE p == [role |-> r, status |-> "onboarding"]
<1>1. PICK n \in Nat : Hired = 1 .. n /\ w = n + 1
  BY NextNumber DEF Joins
<1>2. w \in WorkerId /\ w \notin Hired
  BY <1>1 DEF Joins
<1>3. p \in Profile /\ p.role = r /\ p # NoProfile
  BY DEF Joins, Profile, NoProfile, None
<1>4. profile' = [profile EXCEPT ![w] = p]
  BY DEF Joins
<1> HIDE DEF p
<1>5. /\ profile' \in [WorkerId -> Profile \cup {NoProfile}] /\ profile'[w] = p
      /\ \A v \in WorkerId : v # w => profile'[v] = profile[v]
  BY <1>2, <1>3, <1>4 DEF Ledger
<1>6. Hired' = Hired \cup {w}
  BY <1>2, <1>3, <1>5 DEF Hired
<1>7. Grows
  BY <1>2, <1>5, <1>6 DEF Grows, Joins, Hired
<1>8. Numbered'
  <2>1. Hired' = 1 .. (n + 1)
    BY <1>1, <1>6
  <2>2. \A v \in WorkerId \ Hired' : held'[v] = << >>
    BY <1>6 DEF Ledger, Numbered, Joins
  <2> QED BY <2>1, <2>2 DEF Numbered
<1>9. GoalsFitTheWorker'
  <2>1. held'[w] = << >> /\ Elements(held'[w]) = {}
    BY <1>2 DEF Ledger, Numbered, Elements, Joins
  <2> QED BY <1>5, <1>6, <2>1 DEF Ledger, GoalsFitTheWorker, Hired, Joins
<1>10. QueuedOnce' /\ NoGoalForgotten'
  BY DEF Ledger, QueuedOnce, NoGoalForgotten, Joins
<1> QED BY <1>2, <1>3, <1>5, <1>6, <1>7, <1>8, <1>9, <1>10 DEF Ledger, Joins

\* Every entry keeps the ledger right.
LEMMA LedgerStays == ASSUME Ledger, Entry PROVE Ledger' /\ Grows
<1>1. CASE UNCHANGED <<received, held, pendingGoals, profile>>
  <2>1. Hired' = Hired
    BY <1>1 DEF Hired
  <2> QED BY <1>1, <2>1 DEF Ledger, Grows, Numbered, QueuedOnce, NoGoalForgotten,
                            GoalsFitTheWorker
<1> QED BY <1>1, Arriving, Handing, Joining DEF Entry

\* What a call relies on is kept by the others.
LEMMA FramesStay ==
    ASSUME NEW d \in Call, FrameInv(d), calls'[d] = calls[d], Grows
    PROVE  FrameInv(d)'
BY DEF FrameInv, Grows

-----------------------------------------------------------------------------
(* Calls and the workforce                                                 *)

\* The frame of a call is replaced.
Moves(c, e) == calls' = [calls EXCEPT ![c] = e]

LEMMA Moving ==
    ASSUME Workforce, NEW c \in Call, NEW e \in Frame, Moves(c, e)
    PROVE  /\ calls' \in [Call -> Frame] /\ calls'[c] = e
           /\ \A d \in Call : d # c => calls'[d] = calls[d]
BY DEF Workforce, Moves

LEMMA FreeFrame == Free \in Frame /\ Free.at = "free" /\ Free.hires = 0
BY DEF Free, NewCall, Frame

\* The numbers staffing reckons with.
LEMMA Counts ==
    ASSUME Workforce
    PROVE  /\ IsFiniteSet(WorkerId) /\ IsFiniteSet(workers) /\ Cardinality(workers) \in Nat
           /\ \A r : Headcount(r) \in Nat
           /\ \A k \in Types : WorkerTypes[k] \in Role /\ Shortage(k) \in Int
           /\ Len(WorkerTypes) \in Nat /\ (Len(WorkerTypes) > 0 <=> WorkerTypes # << >>)
<1> USE DepartmentAssumption
<1>1. IsFiniteSet(WorkerId)
  BY FS_Interval DEF WorkerId
<1>2. IsFiniteSet(workers)
  <2>1. workers \subseteq WorkerId
    BY DEF Workforce, Hired
  <2> QED BY <1>1, <2>1, FS_Subset
<1>3. ASSUME NEW r PROVE Headcount(r) \in Nat
  <2> DEFINE S == {w \in workers : profile[w].role = r}
  <2>1. IsFiniteSet(S)
    BY <1>2, FS_Subset
  <2>2. Cardinality(S) \in Nat
    BY <2>1, FS_CardinalityType
  <2> QED BY <2>2 DEF Headcount
<1>4. \A k \in Types : WorkerTypes[k] \in Role
  BY ElementOfSeq DEF Types
<1>5. \A k \in Types : Shortage(k) \in Int
  BY <1>3, <1>4 DEF Shortage
<1>6. Len(WorkerTypes) \in Nat /\ (Len(WorkerTypes) > 0 <=> WorkerTypes # << >>)
  BY EmptySeq, LenProperties
<1> QED BY <1>1, <1>2, <1>3, <1>4, <1>5, <1>6, FS_CardinalityType

\* Where the staffing loop and the scale-up take a call: to its next hire, to
\* the next type that is short, or back.
GoesTo(f, e) ==
    \/ /\ f.hires > 0 /\ UNCHANGED ready
       /\ e.op = f.op /\ e.at = "createWorker" /\ e.type = f.type
       /\ e.hires = f.hires - 1 /\ e.role \in Role
       /\ f.type > 0 => e.role = WorkerTypes[f.type]
    \/ /\ f.hires = 0 /\ UNCHANGED ready
       /\ \E k \in Types :
            /\ f.type < k /\ Shortage(k) > 0
            /\ \A j \in Types : f.type < j /\ j < k => Shortage(j) <= 0
            /\ e.op = f.op /\ e.at = "createWorker" /\ e.type = k
            /\ e.hires = Shortage(k) - 1 /\ e.role = WorkerTypes[k]
    \/ /\ f.hires = 0 /\ \A j \in Types : f.type < j => Shortage(j) <= 0
       /\ e = Free /\ ready' = (ready \/ f.op = "initialize")

LEMMA GoingOn ==
    ASSUME Workforce, NEW c \in Call, NEW f \in Frame, GoOn(c, f),
           f.hires > 0 => WorkerTypes # << >>, f.op # "receiveGoal"
    PROVE  /\ calls' \in [Call -> Frame] /\ FrameInv(c)' /\ ready' \in BOOLEAN
           /\ \A d \in Call : d # c => calls'[d] = calls[d]
           /\ GoesTo(f, calls'[c])
<1>1. f.type \in 0 .. Len(WorkerTypes) /\ f.hires \in Nat
  BY DEF Frame
<1>2. ASSUME NEW e \in Frame, Moves(c, e), GoesTo(f, e)
      PROVE  /\ calls' \in [Call -> Frame] /\ FrameInv(c)' /\ ready' \in BOOLEAN
             /\ \A d \in Call : d # c => calls'[d] = calls[d]
             /\ GoesTo(f, calls'[c])
  <2>1. /\ calls' \in [Call -> Frame] /\ calls'[c] = e
        /\ \A d \in Call : d # c => calls'[d] = calls[d]
    BY <1>2, Moving
  <2>2. /\ e.hires > 0 => WorkerTypes # << >>
        /\ e.at = "createWorker" => e.op = f.op /\ e.role \in Role
        /\ e.at \in {"createWorker", "free"}
    BY <1>2, Counts, FreeFrame DEF GoesTo, Types
  <2>3. FrameInv(c)'
    BY <2>1, <2>2 DEF FrameInv
  <2>4. ready' \in BOOLEAN
    BY <1>2 DEF GoesTo, Workforce
  <2> QED BY <1>2, <2>1, <2>3, <2>4
<1>3. CASE f.hires > 0 /\ UNCHANGED ready
           /\ Moves(c, [f EXCEPT !.at = "createWorker", !.hires = @ - 1,
                                 !.role = WorkerTypes[IF f.type = 0 THEN 1 ELSE f.type]])
  <2> DEFINE k == IF f.type = 0 THEN 1 ELSE f.type
             n == f.hires - 1
             e == [f EXCEPT !.at = "createWorker", !.hires = n, !.role = WorkerTypes[k]]
  <2>1. k \in Types
    BY <1>1, <1>3, Counts DEF Types
  <2>2. WorkerTypes[k] \in Role /\ n \in Nat /\ (f.type > 0 => k = f.type)
    BY <1>1, <1>3, <2>1, Counts
  <2>3. Moves(c, e)
    BY <1>3
  <2> HIDE DEF k, n
  <2>4. /\ e \in Frame /\ e.at = "createWorker" /\ e.role = WorkerTypes[k]
        /\ e.op = f.op /\ e.type = f.type /\ e.hires = n
    BY <2>2 DEF Frame
  <2> HIDE DEF e
  <2>5. GoesTo(f, e)
    BY <1>3, <2>2, <2>4 DEF GoesTo, n
  <2> QED BY <1>2, <2>3, <2>4, <2>5
<1>4. ASSUME NEW k \in f.type + 1 .. Len(WorkerTypes), Shortage(k) > 0, f.hires = 0,
             \A j \in f.type + 1 .. Len(WorkerTypes) : Shortage(j) > 0 => k <= j,
             UNCHANGED ready,
             Moves(c, [f EXCEPT !.at = "createWorker", !.type = k,
                                !.hires = Shortage(k) - 1, !.role = WorkerTypes[k]])
      PROVE  /\ calls' \in [Call -> Frame] /\ FrameInv(c)' /\ ready' \in BOOLEAN
             /\ \A d \in Call : d # c => calls'[d] = calls[d]
             /\ GoesTo(f, calls'[c])
  <2> DEFINE n == Shortage(k) - 1
             e == [f EXCEPT !.at = "createWorker", !.type = k,
                            !.hires = n, !.role = WorkerTypes[k]]
  <2>1. k \in Types /\ f.type < k /\ k \in 0 .. Len(WorkerTypes)
    BY <1>1, <1>4, Counts DEF Types
  <2>2. WorkerTypes[k] \in Role /\ n \in Nat
    BY <1>4, <2>1, Counts
  <2>3. Moves(c, e)
    BY <1>4
  <2>4. n = Shortage(k) - 1
    OBVIOUS
  <2> HIDE DEF n
  <2>5. /\ e \in Frame /\ e.at = "createWorker" /\ e.role = WorkerTypes[k]
        /\ e.op = f.op /\ e.type = k /\ e.hires = n
    BY <2>1, <2>2 DEF Frame
  <2> HIDE DEF e
  <2>6. \A j \in Types : f.type < j /\ j < k => Shortage(j) <= 0
    BY <1>1, <1>4, <2>1, Counts DEF Types
  <2>7. GoesTo(f, e)
    BY <1>4, <2>1, <2>4, <2>5, <2>6 DEF GoesTo
  <2> QED BY <1>2, <2>3, <2>5, <2>7
<1>5. CASE /\ f.hires = 0 /\ {k \in f.type + 1 .. Len(WorkerTypes) : Shortage(k) > 0} = {}
           /\ Moves(c, Free) /\ ready' = (ready \/ f.op = "initialize")
  <2>1. \A j \in Types : f.type < j => Shortage(j) <= 0
    BY <1>1, <1>5, Counts DEF Types
  <2> QED BY <1>2, <1>5, <2>1, FreeFrame DEF GoesTo
<1> QED BY <1>3, <1>4, <1>5 DEF GoOn, Moves

\* Nobody comes back who was terminated, and nobody else is.
Stay == /\ status' \in [WorkerId -> Status]
        /\ \A v \in WorkerId : status'[v] = "terminated" => status[v] = "terminated"

LEMMA BooksStay ==
    ASSUME Workforce, UNCHANGED <<workers, profile>>, Stay
    PROVE  workers' \subseteq Hired' \ Terminated'
<1>1. Hired' = Hired
  BY DEF Hired
<1>2. Terminated' \subseteq Terminated
  BY DEF Stay, Terminated
<1> QED BY <1>1, <1>2 DEF Workforce

\* A status is overwritten.
LEMMA Overwritten ==
    ASSUME Workforce, NEW w \in WorkerId, NEW s \in Status \ {"terminated"},
           status' = [status EXCEPT ![w] = s]
    PROVE  Stay
BY DEF Workforce, Stay

LEMMA Accepting ==
    ASSUME Workforce, NEW w \in WorkerId, NEW g, Accept(w, g)
    PROVE  Stay
<1> DEFINE s == IF status[w] = "idle" THEN "working" ELSE status[w]
<1>1. status[w] \in Status
  BY DEF Workforce
<1>2. s \in Status /\ (s = "terminated" => status[w] = "terminated")
  BY <1>1 DEF Status
<1>3. status' = [status EXCEPT ![w] = s]
  BY DEF Accept
<1> HIDE DEF s
<1> QED BY <1>2, <1>3 DEF Workforce, Stay

-----------------------------------------------------------------------------
(* The actions                                                             *)

\* What an action of call c does.
Effect(c) == /\ Entry /\ Workforce' /\ FrameInv(c)'
             /\ \A d \in Call : d # c => calls'[d] = calls[d]

NoEntry == UNCHANGED <<received, held, pendingGoals, profile>>

\* An action that leaves the ledger and the books alone.
LEMMA QuietEffect ==
    ASSUME IInv, NEW c \in Call, NoEntry, UNCHANGED workers, Stay,
           calls' \in [Call -> Frame], FrameInv(c)',
           \A d \in Call : d # c => calls'[d] = calls[d],
           ready' \in BOOLEAN, overlapped' \in BOOLEAN
    PROVE  Effect(c)
<1>1. Workforce'
  BY BooksStay DEF IInv, Workforce, NoEntry, Stay
<1> QED BY <1>1 DEF Effect, Entry, NoEntry

LEMMA Same == ASSUME Workforce, UNCHANGED status PROVE Stay
BY DEF Workforce, Stay

LEMMA InitializeEffect ==
    ASSUME IInv, NEW c \in Call, Initialize(c)
    PROVE  Effect(c)
<1>1. calls[c] \in Frame /\ calls[c].op # "receiveGoal"
  BY DEF IInv, Workforce, Initialize
<1>2. GoOn(c, calls[c]) /\ (calls[c].hires > 0 => WorkerTypes # << >>)
  BY DEF IInv, FrameInv, Initialize
<1>3. NoEntry /\ Stay /\ UNCHANGED workers /\ overlapped' \in BOOLEAN
  BY Same DEF IInv, Initialize, NoEntry, Workforce
<1> QED BY <1>1, <1>2, <1>3, GoingOn, QuietEffect DEF IInv

\* The scale-up: as many hires as there is room for.
LEMMA ScaleUp ==
    ASSUME IInv, NEW c \in Call, AdjustCapacity(c)
    PROVE  \E f \in Frame :
             /\ GoOn(c, f) /\ f.op = "adjustCapacity" /\ f.at = "start" /\ f.type = 0
             /\ f.hires > 0 => /\ WorkerTypes # << >>
                               /\ Cardinality(workers) + f.hires <= MaxWorkers
<1> DEFINE idle == Cardinality({w \in workers : profile[w].status = "idle"})
           excess == Len(pendingGoals) - idle
           room == MaxWorkers - Cardinality(workers)
           deficit == IF excess > 0 /\ room > 0 /\ WorkerTypes # << >>
                      THEN IF excess < room THEN excess ELSE room
                      ELSE 0
           f == [NewCall("adjustCapacity") EXCEPT !.hires = deficit]
<1>1. idle \in Nat /\ Cardinality(workers) \in Nat
  <2>1. IsFiniteSet(workers) /\ Cardinality(workers) \in Nat
    BY Counts DEF IInv
  <2>2. IsFiniteSet({w \in workers : profile[w].status = "idle"})
    BY <2>1, FS_Subset
  <2> QED BY <2>1, <2>2, FS_CardinalityType
<1>2. excess \in Int /\ room \in Int
  BY <1>1, DepartmentAssumption, LenProperties DEF IInv, Ledger
<1>3. GoOn(c, f)
  BY DEF AdjustCapacity
<1>4. room = MaxWorkers - Cardinality(workers)
  OBVIOUS
<1> HIDE DEF idle, excess, room
<1>5. deficit \in Nat /\ (deficit > 0 => WorkerTypes # << >> /\ deficit <= room)
  BY <1>2
<1> HIDE DEF deficit
<1>6. deficit > 0 => Cardinality(workers) + deficit <= MaxWorkers
  BY <1>1, <1>4, <1>5, DepartmentAssumption
<1>7. /\ f \in Frame /\ f.hires = deficit /\ f.op = "adjustCapacity"
      /\ f.at = "start" /\ f.type = 0
  <2>1. 0 \in 0 .. Len(WorkerTypes)
    BY DepartmentAssumption, LenProperties
  <2> QED BY <1>5, <2>1 DEF NewCall, Frame
<1> HIDE DEF f
<1> QED BY <1>3, <1>5, <1>6, <1>7

LEMMA AdjustCapacityEffect ==
    ASSUME IInv, NEW c \in Call, AdjustCapacity(c)
    PROVE  Effect(c)
<1>1. PICK f \in Frame : /\ GoOn(c, f) /\ f.op = "adjustCapacity"
                         /\ f.hires > 0 => WorkerTypes # << >>
  BY ScaleUp
<1>2. NoEntry /\ Stay /\ UNCHANGED workers
  BY Same DEF IInv, AdjustCapacity, NoEntry
<1>3. overlapped' \in BOOLEAN
  BY DEF AdjustCapacity, Overlap, IInv, Workforce
<1> QED BY <1>1, <1>2, <1>3, GoingOn, QuietEffect DEF IInv

\* A goal is queued, and a worker who serves it is hired if there is room.
LEMMA Receiving ==
    ASSUME IInv, NEW c \in Call, NEW g \in Goal, ReceiveGoal(c, g)
    PROVE  /\ Arrives(g) /\ UNCHANGED <<workers, profile, status, ready>>
           /\ \E f \in Frame :
                /\ Moves(c, f) /\ f.hires = 0
                /\ \/ f = Free
                   \/ /\ MayHire /\ f.op = "receiveGoal" /\ f.at = "createWorker"
                      /\ f.type = 0 /\ f.goal = g /\ f.role \in Role \cap Matches[g]
<1>1. findBestWorkerFor(g) = {}
  BY DEF findBestWorkerFor, IInv, Ledger, Workforce, Hired, Profile, NoProfile, None
<1>2. Arrives(g) /\ UNCHANGED <<workers, profile, status, ready>>
  BY <1>1 DEF ReceiveGoal, Arrives
<1>3. ASSUME NEW k \in 1 .. Len(WorkerTypes), FirstType(g, k), MayHire,
             Moves(c, [NewCall("receiveGoal") EXCEPT !.at = "createWorker",
                                !.role = WorkerTypes[k], !.goal = g])
      PROVE  \E f \in Frame :
               /\ Moves(c, f) /\ f.hires = 0 /\ MayHire
               /\ f.op = "receiveGoal" /\ f.at = "createWorker"
               /\ f.type = 0 /\ f.goal = g /\ f.role \in Role \cap Matches[g]
  <2> DEFINE f == [NewCall("receiveGoal") EXCEPT !.at = "createWorker",
                                !.role = WorkerTypes[k], !.goal = g]
  <2>1. WorkerTypes[k] \in Role /\ 0 \in 0 .. Len(WorkerTypes)
    BY DepartmentAssumption, ElementOfSeq, LenProperties
  <2>2. /\ f \in Frame /\ f.hires = 0 /\ f.at = "createWorker" /\ f.type = 0
        /\ f.role = WorkerTypes[k] /\ f.goal = g /\ f.op = "receiveGoal"
    BY <2>1 DEF NewCall, Frame
  <2>3. Moves(c, f)
    BY <1>3
  <2> HIDE DEF f
  <2> QED BY <1>3, <2>1, <2>2, <2>3 DEF FirstType
<1>4. CASE UNCHANGED calls
  <2>1. Moves(c, Free)
    BY <1>4 DEF ReceiveGoal, IInv, Workforce, Moves
  <2> QED BY <1>2, <2>1, FreeFrame
<1> QED BY <1>1, <1>2, <1>3, <1>4 DEF ReceiveGoal, Moves

LEMMA ReceiveGoalEffect ==
    ASSUME IInv, NEW c \in Call, NEW g \in Goal, ReceiveGoal(c, g)
    PROVE  Effect(c)
<1>1. Arrives(g) /\ UNCHANGED <<workers, profile, status, ready>>
  BY Receiving
<1>2. PICK f \in Frame :
        /\ Moves(c, f) /\ f.hires = 0
        /\ \/ f = Free
           \/ f.at = "createWorker" /\ f.goal = g /\ f.role \in Role \cap Matches[g]
  BY Receiving
<1>3. /\ calls' \in [Call -> Frame] /\ calls'[c] = f
      /\ \A d \in Call : d # c => calls'[d] = calls[d]
  BY <1>2, Moving DEF IInv
<1>4. g \in received'
  BY <1>1 DEF Arrives
<1>5. FrameInv(c)'
  BY <1>2, <1>3, <1>4, FreeFrame DEF FrameInv
<1>6. overlapped' \in BOOLEAN
  BY DEF ReceiveGoal, Overlap, IInv, Workforce
<1>7. Workforce'
  BY <1>1, <1>3, <1>6, BooksStay, Same DEF IInv, Workforce, Stay
<1> QED BY <1>1, <1>3, <1>5, <1>7 DEF Effect, Entry

\* A worker is on the books, under a number nobody had, and starts to onboard.
LEMMA Creating ==
    ASSUME IInv, NEW c \in Call, WorkerCreated(c)
    PROVE  \E w \in WorkerId, f \in Frame :
             /\ Joins(w, calls[c].role) /\ w \notin Hired /\ Hired' = Hired \cup {w}
             /\ workers' = workers \cup {w} /\ status' = [status EXCEPT ![w] = "onboarding"]
             /\ Moves(c, f) /\ f.at = "onboard" /\ f.worker = w
             /\ f.op = calls[c].op /\ f.role = calls[c].role /\ f.goal = calls[c].goal
             /\ f.hires = calls[c].hires /\ f.type = calls[c].type
<1> DEFINE r == calls[c].role
<1>1. PICK w \in WorkerId :
         /\ w = Cardinality(Hired) + 1
         /\ workers' = workers \cup {w}
         /\ profile' = [profile EXCEPT ![w] = [role |-> r, status |-> "onboarding"]]
         /\ status' = [status EXCEPT ![w] = "onboarding"]
         /\ calls' = [calls EXCEPT ![c].at = "onboard", ![c].worker = w]
  BY DEF WorkerCreated
<1> DEFINE f == [calls[c] EXCEPT !.at = "onboard", !.worker = w]
<1>2. calls[c] \in Frame /\ r \in Role
  BY DEF IInv, Workforce, WorkerCreated, FrameInv
<1>3. Joins(w, r)
  BY <1>1, <1>2 DEF Joins, WorkerCreated
<1>4. Hired' = Hired \cup {w} /\ w \notin Hired
  BY <1>3, Joining DEF IInv
<1>5. /\ f \in Frame /\ f.at = "onboard" /\ f.worker = w /\ f.op = calls[c].op
      /\ f.role = r /\ f.goal = calls[c].goal /\ f.hires = calls[c].hires
      /\ f.type = calls[c].type
  BY <1>2 DEF Frame
<1>6. Moves(c, f)
  BY <1>1 DEF Moves
<1> HIDE DEF f
<1> QED BY <1>1, <1>3, <1>4, <1>5, <1>6

LEMMA WorkerCreatedEffect ==
    ASSUME IInv, NEW c \in Call, WorkerCreated(c)
    PROVE  Effect(c)
<1>1. PICK w \in WorkerId, f \in Frame :
             /\ Joins(w, calls[c].role) /\ Hired' = Hired \cup {w}
             /\ workers' = workers \cup {w} /\ status' = [status EXCEPT ![w] = "onboarding"]
             /\ Moves(c, f) /\ f.at = "onboard" /\ f.worker = w
             /\ f.op = calls[c].op /\ f.role = calls[c].role /\ f.goal = calls[c].goal
             /\ f.hires = calls[c].hires
  BY Creating
<1>2. calls[c] \in Frame /\ FrameInv(c) /\ calls[c].at = "createWorker"
  BY DEF IInv, Workforce, WorkerCreated
<1>3. profile'[w].role = f.role /\ received' = received
  BY <1>1, Joining DEF IInv, Joins
<1>4. /\ calls' \in [Call -> Frame] /\ calls'[c] = f
      /\ \A d \in Call : d # c => calls'[d] = calls[d]
  BY <1>1, Moving DEF IInv
<1>5. FrameInv(c)'
  BY <1>1, <1>2, <1>3, <1>4 DEF FrameInv
<1>6. Stay /\ status'[w] = "onboarding"
  BY <1>1, Overwritten DEF IInv, Workforce, Status
<1>7. workers' \subseteq Hired' \ Terminated'
  <2>1. \A v \in workers : v \in Hired /\ v \notin Terminated
    BY DEF IInv, Workforce
  <2> QED BY <1>1, <1>6, <2>1 DEF Stay, Terminated
<1>8. Workforce'
  BY <1>4, <1>6, <1>7 DEF IInv, Workforce, WorkerCreated, Stay
<1> QED BY <1>1, <1>4, <1>5, <1>8 DEF Effect, Entry

\* A call goes on with its frame at another place.
LEMMA Advancing ==
    ASSUME Workforce, NEW c \in Call, NEW p \in {"acceptPending", "acceptGoal"},
           calls' = [calls EXCEPT ![c].at = p]
    PROVE  /\ calls' \in [Call -> Frame]
           /\ calls'[c] = [calls[c] EXCEPT !.at = p]
           /\ \A d \in Call : d # c => calls'[d] = calls[d]
<1> DEFINE f == [calls[c] EXCEPT !.at = p]
<1>1. calls[c] \in Frame
  BY DEF Workforce
<1>2. f \in Frame
  BY <1>1 DEF Frame
<1>3. Moves(c, f)
  BY DEF Moves
<1> HIDE DEF f
<1> QED BY <1>2, <1>3, Moving DEF f

\* A call that has handed its worker a goal waits for the worker to be done with it.
LEMMA HandedEffect ==
    ASSUME IInv, NEW c \in Call, NEW p \in {"acceptPending", "acceptGoal"},
           calls[c].at \in {"onboard", "acceptPending"},
           calls' = [calls EXCEPT ![c].at = p],
           NEW g, Handed(calls[c].worker, g), Stay,
           UNCHANGED <<workers, ready, overlapped>>
    PROVE  Effect(c)
<1> DEFINE f == [calls[c] EXCEPT !.at = p]
<1>1. /\ calls' \in [Call -> Frame] /\ calls'[c] = f
      /\ \A d \in Call : d # c => calls'[d] = calls[d]
  BY Advancing DEF IInv
<1>2. calls[c] \in Frame /\ FrameInv(c)
  BY DEF IInv, Workforce
<1>3. /\ f.at = p /\ f.op = calls[c].op /\ f.worker = calls[c].worker
      /\ f.role = calls[c].role /\ f.goal = calls[c].goal /\ f.hires = calls[c].hires
  BY <1>2 DEF Frame
<1> HIDE DEF f
<1>4. profile' = profile /\ received' = received /\ Hired' = Hired
  BY DEF Handed, Hired
<1>5. FrameInv(c)'
  BY <1>1, <1>2, <1>3, <1>4 DEF FrameInv
<1>6. Workforce'
  BY <1>1, <1>4, BooksStay DEF IInv, Workforce, Stay
<1>7. Entry
  BY DEF Entry
<1> QED BY <1>1, <1>5, <1>6, <1>7 DEF Effect

LEMMA OnboardedEffect ==
    ASSUME IInv, NEW c \in Call, Onboarded(c)
    PROVE  Effect(c)
<1> DEFINE w == calls[c].worker
           r == profile[w].role
<1>1. /\ calls[c].at = "onboard" /\ calls[c] \in Frame /\ FrameInv(c)
      /\ UNCHANGED <<workers, profile, received, overlapped>>
  BY DEF IInv, Workforce, Onboarded
<1>2. w \in Hired /\ w \in WorkerId
  BY <1>1 DEF FrameInv, Hired
<1>3. ASSUME NEW i \in DOMAIN pendingGoals, Oldest(r, i),
             pendingGoals' = Dequeue(r, pendingGoals[i]),
             held' = [held EXCEPT ![w] = Append(@, pendingGoals[i])],
             status' = [status EXCEPT ![w] = "working"],
             calls' = [calls EXCEPT ![c].at = "acceptPending"], UNCHANGED ready
      PROVE  Effect(c)
  <2>1. pendingGoals[i] \in received
    BY <1>3 DEF IInv, Ledger, NoGoalForgotten, Elements
  <2>2. Handed(w, pendingGoals[i])
    BY <1>1, <1>2, <1>3, <2>1 DEF Handed, Oldest, Dequeue
  <2>3. Stay
    BY <1>2, <1>3, Overwritten DEF IInv, Status
  <2> QED BY <1>1, <1>3, <2>2, <2>3, HandedEffect
<1>4. CASE /\ calls[c].op = "receiveGoal"
           /\ held' = [held EXCEPT ![w] = Append(@, calls[c].goal)]
           /\ status' = [status EXCEPT ![w] = "working"]
           /\ calls' = [calls EXCEPT ![c].at = "acceptGoal"]
           /\ UNCHANGED <<pendingGoals, ready>>
  <2>1. Handed(w, calls[c].goal)
    BY <1>1, <1>2, <1>4 DEF Handed, FrameInv
  <2>2. Stay
    BY <1>2, <1>4, Overwritten DEF IInv, Status
  <2> QED BY <1>1, <1>4, <2>1, <2>2, HandedEffect
<1>5. CASE /\ calls[c].op # "receiveGoal"
           /\ status' = [status EXCEPT ![w] = "idle"]
           /\ GoOn(c, calls[c]) /\ UNCHANGED <<held, pendingGoals>>
  <2>1. Stay
    BY <1>2, <1>5, Overwritten DEF IInv, Status
  <2>2. calls[c].hires > 0 => WorkerTypes # << >>
    BY <1>1 DEF FrameInv
  <2>3. NoEntry /\ overlapped' \in BOOLEAN
    BY <1>1, <1>5 DEF NoEntry, IInv, Workforce
  <2> QED BY <1>1, <1>5, <2>1, <2>2, <2>3, GoingOn, QuietEffect DEF IInv
<1> QED BY <1>3, <1>4, <1>5 DEF Onboarded

LEMMA PendingAcceptedEffect ==
    ASSUME IInv, NEW c \in Call, PendingAccepted(c)
    PROVE  Effect(c)
<1> DEFINE w == calls[c].worker
           g == calls[c].goal
<1>1. /\ calls[c].at = "acceptPending" /\ calls[c] \in Frame /\ FrameInv(c)
      /\ UNCHANGED <<workers, profile, pendingGoals, received, overlapped>>
  BY DEF IInv, Workforce, PendingAccepted
<1>2. w \in Hired /\ w \in WorkerId
  BY <1>1 DEF FrameInv, Hired
<1>3. CASE /\ calls[c].op = "receiveGoal" /\ Accept(w, g)
           /\ calls' = [calls EXCEPT ![c].at = "acceptGoal"] /\ UNCHANGED ready
  <2>1. Handed(w, g)
    BY <1>1, <1>2, <1>3 DEF Handed, FrameInv, Accept
  <2>2. Stay
    BY <1>2, <1>3, Accepting DEF IInv
  <2> QED BY <1>1, <1>3, <2>1, <2>2, HandedEffect
<1>4. CASE calls[c].op # "receiveGoal" /\ GoOn(c, calls[c]) /\ UNCHANGED <<held, status>>
  <2>1. Stay /\ NoEntry /\ overlapped' \in BOOLEAN
    BY <1>1, <1>4, Same DEF NoEntry, IInv, Workforce
  <2>2. calls[c].hires > 0 => WorkerTypes # << >>
    BY <1>1 DEF FrameInv
  <2> QED BY <1>1, <1>4, <2>1, <2>2, GoingOn, QuietEffect DEF IInv
<1> QED BY <1>3, <1>4 DEF PendingAccepted, HireReturns

\* A call that ends relies on nothing.
LEMMA Ending ==
    ASSUME Workforce, NEW c \in Call, Moves(c, Free)
    PROVE  /\ calls' \in [Call -> Frame] /\ FrameInv(c)'
           /\ \A d \in Call : d # c => calls'[d] = calls[d]
<1>1. /\ calls' \in [Call -> Frame] /\ calls'[c] = Free
      /\ \A d \in Call : d # c => calls'[d] = calls[d]
  BY FreeFrame, Moving
<1>2. FrameInv(c)'
  BY <1>1, FreeFrame DEF FrameInv
<1> QED BY <1>1, <1>2

LEMMA GoalAcceptedEffect ==
    ASSUME IInv, NEW c \in Call, GoalAccepted(c)
    PROVE  Effect(c)
<1>1. Moves(c, Free) /\ NoEntry /\ UNCHANGED <<workers, status, ready, overlapped>>
  BY DEF GoalAccepted, Moves, NoEntry
<1>2. Stay
  BY <1>1, Same DEF IInv
<1> QED BY <1>1, <1>2, Ending, QuietEffect DEF IInv, Workforce

LEMMA FireEffect ==
    ASSUME IInv, NEW c \in Call, NEW w \in WorkerId, Fire(c, w)
    PROVE  Effect(c)
<1> DEFINE f == [NewCall("fire") EXCEPT !.at = "terminate", !.worker = w]
<1>1. 0 \in 0 .. Len(WorkerTypes)
  BY DepartmentAssumption, LenProperties
<1>2. f \in Frame /\ f.at = "terminate" /\ f.worker = w /\ f.op = "fire" /\ f.hires = 0
  BY <1>1 DEF NewCall, Frame
<1>3. Moves(c, f) /\ NoEntry /\ UNCHANGED <<workers, ready>>
  BY DEF Fire, Moves, NoEntry
<1> HIDE DEF f
<1>4. /\ calls' \in [Call -> Frame] /\ calls'[c] = f
      /\ \A d \in Call : d # c => calls'[d] = calls[d]
  BY <1>2, <1>3, Moving DEF IInv
<1>5. w \in Hired'
  BY DEF Fire, IInv, Workforce, Hired
<1>6. FrameInv(c)'
  BY <1>2, <1>4, <1>5 DEF FrameInv
<1>7. Stay
  BY Same DEF IInv, Fire
<1>8. overlapped' \in BOOLEAN
  BY DEF Fire, Overlap, IInv, Workforce
<1> QED BY <1>3, <1>4, <1>6, <1>7, <1>8, QuietEffect DEF IInv, Workforce

LEMMA FireEndsEffect ==
    ASSUME IInv, NEW c \in Call, FireEnds(c)
    PROVE  Effect(c)
<1> DEFINE w == calls[c].worker
<1>1. Moves(c, Free) /\ NoEntry /\ UNCHANGED <<ready, overlapped>>
  BY DEF FireEnds, Moves, NoEntry
<1>2. workers' = workers \ {w} /\ status' = [status EXCEPT ![w] = "terminated"]
  BY DEF FireEnds
<1>3. status' \in [WorkerId -> Status] /\ \A v \in WorkerId : v # w => status'[v] = status[v]
  BY <1>2 DEF IInv, Workforce, Status
<1>4. workers' \subseteq Hired' \ Terminated'
  BY <1>1, <1>2, <1>3 DEF IInv, Workforce, Hired, Terminated, NoEntry
<1>5. Workforce'
  BY <1>1, <1>3, <1>4, Ending DEF IInv, Workforce
<1> QED BY <1>1, <1>5, Ending DEF Effect, Entry, NoEntry, IInv

LEMMA ResumeEffect == ASSUME IInv, NEW c \in Call, Resume(c) PROVE Effect(c)
BY InitializeEffect, WorkerCreatedEffect, OnboardedEffect, PendingAcceptedEffect,
   GoalAcceptedEffect, FireEndsEffect DEF Resume

\* The invariant holds initially and every step keeps it.
LEMMA Inductive == Spec => []IInv
<1>1. Init => IInv
  <2> SUFFICES ASSUME Init PROVE IInv
    OBVIOUS
  <2>1. PICK c \in Call :
          calls = [d \in Call |-> IF d = c THEN NewCall("initialize") ELSE Free]
    BY DEF Init
  <2>2. NewCall("initialize") \in Frame
    BY DepartmentAssumption, LenProperties DEF NewCall, Frame
  <2>3. \A d \in Call : /\ calls[d] \in Frame /\ calls[d].hires = 0
                        /\ calls[d].at \in {"start", "free"}
    BY <2>1, <2>2, FreeFrame DEF NewCall
  <2>4. calls \in [Call -> Frame]
    BY <2>1, <2>2, FreeFrame
  <2>5. Hired = {} /\ \A w \in WorkerId : Elements(held[w]) = {}
    BY DEF Init, Hired, Elements
  <2>6. Workforce
    BY <2>4, <2>5 DEF Init, Workforce, Status
  <2>7. Numbered
    <3>1. 1 .. 0 = {}
      OBVIOUS
    <3> QED BY <2>5, <3>1 DEF Numbered, Init
  <2>8. Ledger
    <3>1. Elements(pendingGoals) = {} /\ QueuedOnce
      BY DEF Init, Elements, QueuedOnce
    <3>2. NoGoalForgotten
      BY <2>5, <3>1 DEF Init, NoGoalForgotten
    <3> QED BY <2>5, <2>7, <3>1, <3>2, EmptySeq DEF Init, Ledger, GoalsFitTheWorker
  <2>9. \A d \in Call : FrameInv(d)
    BY <2>3 DEF FrameInv
  <2> QED BY <2>6, <2>8, <2>9 DEF IInv
<1>2. IInv /\ [Next]_vars => IInv'
  <2> SUFFICES ASSUME IInv, [Next]_vars PROVE IInv'
    OBVIOUS
  <2>1. ASSUME NEW c \in Call, Effect(c) PROVE IInv'
    <3>1. Ledger' /\ Grows
      BY <2>1, LedgerStays DEF IInv, Effect
    <3>2. \A d \in Call : FrameInv(d)'
      BY <2>1, <3>1, FramesStay DEF IInv, Effect
    <3> QED BY <2>1, <3>1, <3>2 DEF IInv, Effect
  <2>2. CASE UNCHANGED vars
    <3>1. Hired' = Hired /\ Terminated' = Terminated
      BY <2>2 DEF vars, Hired, Terminated
    <3>2. Ledger'
      BY <2>2, LedgerStays DEF vars, Entry, IInv
    <3>3. Workforce' /\ \A d \in Call : FrameInv(d)'
      BY <2>2, <3>1 DEF vars, IInv, Workforce, FrameInv
    <3> QED BY <3>2, <3>3 DEF IInv
  <2>3. CASE Next
    BY <2>1, <2>3, ResumeEffect, ReceiveGoalEffect, AdjustCapacityEffect, FireEffect DEF Next
  <2> QED BY <2>2, <2>3
<1> QED BY <1>1, <1>2, PTL DEF Spec

\* Well formed, and nobody is on the books who was not hired or has left.
THEOREM TypeCorrect == Spec => []TypeOK
<1>1. IInv => TypeOK
  BY DEF IInv, Ledger, Workforce, TypeOK, Profile, Status
<1> QED BY <1>1, Inductive, PTL

\* However hires overlap, a goal that was received is queued or with a worker.
THEOREM EveryGoalIsKept == Spec => []NoGoalForgotten
<1>1. IInv => NoGoalForgotten
  BY DEF IInv, Ledger
<1> QED BY <1>1, Inductive, PTL

\* A goal that arrives joins those that wait in the pool.
LEMMA ArrivingPools ==
    ASSUME Ledger, NEW g, Arrives(g)
    PROVE  Pool!Arrive(g)
<1>1. Elements(pendingGoals') = Elements(pendingGoals) \cup {g}
  BY Appended DEF Ledger, Arrives
<1> QED BY <1>1 DEF Arrives, Pool!Arrive

\* Handing a goal to a worker adds the worker to its takers, and to no other
\* goal's, whether the goal still waited or not.
LEMMA HandingPools ==
    ASSUME Ledger, NEW w, NEW g, Handed(w, g)
    PROVE  Pool!HandOver(g)
<1> DEFINE s == Append(held[w], g)
           takers == [h \in Goal |-> {v \in WorkerId : h \in Elements(held[v])}]
<1>1. w \in WorkerId /\ held[w] \in Seq(Goal) /\ g \in Goal
  BY DEF Ledger, Handed, Hired
<1>2. s \in Seq(Goal) /\ Elements(s) = Elements(held[w]) \cup {g}
  BY <1>1, Appended
<1>3. held' = [held EXCEPT ![w] = s]
  BY DEF Handed
<1> HIDE DEF s
<1>4. held'[w] = s /\ \A v \in WorkerId : v # w => held'[v] = held[v]
  BY <1>1, <1>3 DEF Ledger
<1>5. \A h \in Goal, v \in WorkerId :
          h \in Elements(held'[v]) <=> h \in Elements(held[v]) \/ (h = g /\ v = w)
  BY <1>2, <1>4
<1>6. \A h \in Goal :
          {v \in WorkerId : h \in Elements(held'[v])}
            = {v \in WorkerId : h \in Elements(held[v])} \cup (IF h = g THEN {w} ELSE {})
  BY <1>1, <1>5
<1>7. takers' = [takers EXCEPT ![g] = @ \cup {w}]
  BY <1>1, <1>6
<1>8. [v \in WorkerId |-> profile[v].role][w] \in Matches[g]
  BY <1>1 DEF Handed
<1>9. Pool!Takes(w, g)
  BY <1>7, <1>8 DEF Pool!Takes
<1>10. Elements(pendingGoals') \in {Elements(pendingGoals), Elements(pendingGoals) \ {g}}
  <2> DEFINE t == WithoutGoal(g)
  <2>1. Elements(t) = Elements(pendingGoals) \ {g}
    BY Filtered DEF Ledger
  <2> HIDE DEF t
  <2>2. pendingGoals' = pendingGoals \/ pendingGoals' = t
    BY DEF Handed, t
  <2> QED BY <2>1, <2>2
<1> QED BY <1>1, <1>9, <1>10 DEF Handed, Pool!HandOver

\* Hiring gives a role to a worker that had none.
LEMMA JoiningPools ==
    ASSUME Ledger, NEW w, NEW r, Joins(w, r)
    PROVE  w \in WorkerId /\ Pool!Hire(w)
<1> DEFINE p == [role |-> r, status |-> "onboarding"]
           role == [v \in WorkerId |-> profile[v].role]
<1>1. w \in WorkerId /\ w \notin Hired /\ r \in Role
  BY Joining DEF Joins
<1>2. profile[w] = NoProfile /\ NoProfile.role = None /\ p.role = r
  BY <1>1 DEF Hired, NoProfile
<1>3. profile' = [profile EXCEPT ![w] = p]
  BY DEF Joins
<1> HIDE DEF p
<1>4. profile'[w] = p /\ \A v \in WorkerId : v # w => profile'[v] = profile[v]
  BY <1>1, <1>3 DEF Ledger
<1>5. role[w] = None /\ role' = [role EXCEPT ![w] = r]
  BY <1>1, <1>2, <1>4
<1> QED BY <1>1, <1>5 DEF Joins, Pool!Hire

\* The department implements the pool of goals: its concurrent calls are, to
\* whoever hands it goals, arrivals, handovers and hires one after the other.
THEOREM PoolImplemented == Spec => GoalsAreKept
<1>1. Init => Pool!Init
  <2> SUFFICES ASSUME Init PROVE Pool!Init
    OBVIOUS
  <2>1. Elements(pendingGoals) = {} /\ \A w \in WorkerId : Elements(held[w]) = {}
    BY DEF Init, Elements
  <2>2. \A w \in WorkerId : profile[w].role = None
    BY DEF Init, NoProfile
  <2> QED BY <2>1, <2>2 DEF Init, Pool!Init
<1>2. IInv /\ [Next]_vars => [Pool!Next]_(Pool!vars)
  <2> SUFFICES ASSUME IInv, [Next]_vars PROVE Pool!Next \/ UNCHANGED Pool!vars
    OBVIOUS
  <2>1. Entry
    BY ResumeEffect, ReceiveGoalEffect, AdjustCapacityEffect, FireEffect
       DEF Next, Effect, vars, Entry
  <2>2. CASE \E g : Arrives(g)
    BY <2>2, ArrivingPools DEF IInv, Arrives, Pool!Next
  <2>3. CASE \E w, g : Handed(w, g)
    <3>1. PICK w, g : Handed(w, g)
      BY <2>3
    <3>2. g \in Goal
      BY <3>1 DEF IInv, Ledger, Handed
    <3> QED BY <3>1, <3>2, HandingPools DEF IInv, Pool!Next
  <2>4. CASE \E w, r : Joins(w, r)
    BY <2>4, JoiningPools DEF IInv, Pool!Next
  <2>5. CASE NoEntry
    BY <2>5 DEF NoEntry, Pool!vars
  <2> QED BY <2>1, <2>2, <2>3, <2>4, <2>5 DEF Entry, NoEntry
<1> QED BY <1>1, <1>2, Inductive, PTL DEF Spec, GoalsAreKept, Pool!Spec

\* However hires overlap, a worker is handed only goals it can serve.
THEOREM EveryGoalFits == Spec => []GoalsFitTheWorker
<1>1. IInv => GoalsFitTheWorker
  BY DEF IInv, Ledger
<1> QED BY <1>1, Inductive, PTL

-----------------------------------------------------------------------------
(* Room for everyone: while calls do not overlap and nobody has left,      *)
(* initialize fills the posts (Filling), and from then on nobody is        *)
(* missing, so that only hires which were checked are made (Steady).       *)

\* The hires a call still has to make.
Open(f) == f.hires + (IF f.at = "createWorker" THEN 1 ELSE 0)
Hiring == {"start", "createWorker", "onboard", "acceptPending"}

Filled == \A k \in Types : Shortage(k) <= 0

Checked(f) == /\ f.op # "initialize"
              /\ f.at \in Hiring =>
                   f.type = 0 /\ Cardinality(workers) + Open(f) <= MaxWorkers

Steady == /\ Cardinality(workers) <= MaxWorkers /\ Filled
          /\ \A c \in Call : Checked(calls[c])

\* No role has more workers than posts.
WithinPosts == /\ \A w \in workers : profile[w].role \in Elements(WorkerTypes)
               /\ \A r \in Role : Headcount(r) <= MinCount[r]

\* The types before the call's are filled, and its own will be.
Fills(f) == /\ f.op = "initialize" /\ f.at \in Hiring
            /\ \A k \in Types : k < f.type => Shortage(k) <= 0
            /\ f.type = 0 => Open(f) = 0
            /\ f.type > 0 => /\ Shortage(f.type) = Open(f)
                             /\ f.at = "createWorker" => f.role = WorkerTypes[f.type]

Filling == WithinPosts /\ \E c \in Call : Fills(calls[c])

Staffed == ~overlapped /\ Terminated = {} => IF ready THEN Steady ELSE Filling

\* No two calls have overlapped, and a worker that onboards is still onboarding.
Orderly == /\ Terminated \subseteq Hired
           /\ ~overlapped =>
                /\ \A c, d \in Call : calls[c] # Free /\ calls[d] # Free => c = d
                /\ \A c \in Call : calls[c].at = "onboard" =>
                                      status[calls[c].worker] = "onboarding"

LEMMA PostsFinite == IsFiniteSet(Posts)
<1> USE DepartmentAssumption
<1> DEFINE E == Elements(WorkerTypes)
           S == {{r} \X (1 .. MinCount[r]) : r \in E}
           f == [r \in E |-> {r} \X (1 .. MinCount[r])]
<1>1. IsFiniteSet(E)
  <2>1. WorkerTypes \in Surjection(1 .. Len(WorkerTypes), E)
    BY ElementOfSeq, LenProperties DEF Surjection, Elements
  <2>2. IsFiniteSet(1 .. Len(WorkerTypes))
    BY LenProperties, FS_Interval
  <2> HIDE DEF E
  <2> QED BY <2>1, <2>2, FS_Surjection
<1>2. \A r \in E : r \in Role
  BY ElementOfSeq, LenProperties DEF Elements
<1>3. IsFiniteSet(S)
  <2>1. f \in Surjection(E, S)
    BY DEF Surjection
  <2> HIDE DEF f, S, E
  <2> QED BY <1>1, <2>1, FS_Surjection
<1>4. ASSUME NEW T \in S PROVE IsFiniteSet(T)
  <2>1. PICK r \in E : T = {r} \X (1 .. MinCount[r])
    OBVIOUS
  <2>2. MinCount[r] \in Nat
    BY <1>2
  <2>3. IsFiniteSet({r})
    BY FS_Singleton
  <2>4. IsFiniteSet(1 .. MinCount[r])
    BY <2>2, FS_Interval
  <2> QED BY <2>1, <2>3, <2>4, FS_Product
<1>5. Posts = UNION S
  BY DEF Posts
<1> HIDE DEF S
<1> QED BY <1>3, <1>4, <1>5, FS_UNION

\* Each worker has a post of its own: its role, and its rank among its peers.
LEMMA EveryoneHasAPost ==
    ASSUME Workforce, WithinPosts,
           profile \in [WorkerId -> Profile \cup {NoProfile}]
    PROVE  Cardinality(workers) <= MaxWorkers
<1> DEFINE Peers(w) == {v \in workers : profile[v].role = profile[w].role}
           Senior(w) == {v \in Peers(w) : v <= w}
           post == [w \in workers |-> <<profile[w].role, Cardinality(Senior(w))>>]
<1>1. IsFiniteSet(workers) /\ workers \subseteq Hired /\ \A w \in workers : w \in Nat
  BY Counts DEF Workforce, Hired, WorkerId
<1>2. \A w \in workers : IsFiniteSet(Peers(w)) /\ IsFiniteSet(Senior(w))
  <2> TAKE w \in workers
  <2>1. IsFiniteSet(Peers(w))
    BY <1>1, FS_Subset
  <2>2. Senior(w) \subseteq Peers(w)
    OBVIOUS
  <2> HIDE DEF Peers, Senior
  <2> QED BY <2>1, <2>2, FS_Subset
<1>3. \A w \in workers : profile[w].role \in Role /\ profile[w].role \in Elements(WorkerTypes)
  BY <1>1 DEF Hired, Profile, WithinPosts
<1>4. ASSUME NEW w \in workers PROVE post[w] \in Posts
  <2> DEFINE n == Cardinality(Senior(w))
             r == profile[w].role
  <2>1. n \in Nat /\ n # 0
    <3>1. w \in Senior(w)
      BY <1>1
    <3>2. IsFiniteSet(Senior(w))
      BY <1>2
    <3> HIDE DEF Senior
    <3> QED BY <3>1, <3>2, FS_CardinalityType, FS_EmptySet
  <2>2. n <= Cardinality(Peers(w))
    <3>1. Senior(w) \subseteq Peers(w) /\ IsFiniteSet(Peers(w))
      BY <1>2
    <3> HIDE DEF Peers, Senior
    <3> QED BY <3>1, FS_Subset
  <2>3. Cardinality(Peers(w)) \in Nat /\ Cardinality(Peers(w)) <= MinCount[r]
    <3>1. Cardinality(Peers(w)) = Headcount(r)
      BY DEF Headcount
    <3>2. Headcount(r) \in Nat /\ Headcount(r) <= MinCount[r]
      BY <1>3, Counts DEF WithinPosts
    <3> QED BY <3>1, <3>2
  <2>4. MinCount[r] \in Nat
    BY <1>3, DepartmentAssumption
  <2>5. post[w] = <<r, n>>
    OBVIOUS
  <2> HIDE DEF post, n, Peers
  <2>6. n \in 1 .. MinCount[r]
    BY <2>1, <2>2, <2>3, <2>4
  <2> QED BY <1>3, <2>5, <2>6 DEF Posts
<1>5. ASSUME NEW x \in workers, NEW y \in workers, x < y, post[x] = post[y]
      PROVE  FALSE
  <2>1. profile[x].role = profile[y].role /\ Cardinality(Senior(x)) = Cardinality(Senior(y))
    BY <1>5
  <2>2. x \in Nat /\ y \in Nat
    BY <1>1
  <2>3. Senior(x) \subseteq Senior(y)
    <3> SUFFICES ASSUME NEW v \in Senior(x) PROVE v \in Senior(y)
      OBVIOUS
    <3>1. v \in workers /\ v <= x /\ profile[v].role = profile[y].role /\ v \in Nat
      BY <1>1, <2>1
    <3> QED BY <1>5, <2>2, <3>1
  <2>4. y \in Senior(y) /\ y \notin Senior(x)
    BY <1>5, <2>2
  <2>5. IsFiniteSet(Senior(y))
    BY <1>2
  <2> HIDE DEF Senior
  <2> QED BY <2>1, <2>3, <2>4, <2>5, FS_Subset
<1>6. post \in [workers -> Posts]
  <2> HIDE DEF Senior
  <2> QED BY <1>4
<1>7. Cardinality(workers) \in Nat /\ Cardinality(Posts) \in Nat
  BY <1>1, PostsFinite, FS_CardinalityType
<1> HIDE DEF post
<1>8. ~(Cardinality(Posts) < Cardinality(workers))
  <2> SUFFICES ASSUME Cardinality(Posts) < Cardinality(workers) PROVE FALSE
    OBVIOUS
  <2>1. PICK x, y \in workers : x # y /\ post[x] = post[y]
    BY <1>1, <1>6, PostsFinite, FS_PigeonHole
  <2>2. x < y \/ y < x
    BY <1>1, <2>1
  <2> QED BY <1>5, <2>1, <2>2
<1> QED BY <1>7, <1>8, StaffingAssumption, DepartmentAssumption

\* The call that acts is the only one in flight, before and after.
Solo(c) == \A d \in Call : d # c => calls[d] = Free /\ calls'[d] = Free

SameCrew == UNCHANGED <<workers, profile>>

LEMMA CrewStays ==
    ASSUME SameCrew
    PROVE  /\ \A r : Headcount(r)' = Headcount(r)
           /\ \A k : Shortage(k)' = Shortage(k)
           /\ WithinPosts' = WithinPosts
BY DEF SameCrew, Headcount, Shortage, WithinPosts

LEMMA SteadyStays ==
    ASSUME Steady, SameCrew, NEW c \in Call, Solo(c), Checked(calls'[c])
    PROVE  Steady'
<1>1. Filled'
  BY CrewStays DEF Steady, Filled
<1>2. \A f : Checked(f) <=> /\ f.op # "initialize"
                            /\ f.at \in Hiring => /\ f.type = 0
                                  /\ Cardinality(workers') + Open(f) <= MaxWorkers
  BY DEF Checked, SameCrew
<1>3. Checked(Free)
  BY DEF Checked, Free, NewCall, Hiring
<1>4. \A d \in Call : Checked(calls[d])'
  BY <1>2, <1>3 DEF Checked, Solo
<1> QED BY <1>1, <1>4 DEF Steady, SameCrew

LEMMA FillingStays ==
    ASSUME Filling, SameCrew, NEW c \in Call, Fills(calls'[c])
    PROVE  Filling'
<1>1. WithinPosts' /\ \A k : Shortage(k)' = Shortage(k)
  BY CrewStays DEF Filling
<1>2. Fills(calls[c])'
  BY <1>1 DEF Fills
<1> QED BY <1>1, <1>2 DEF Filling

\* Who calls when somebody fills: only initialize.
LEMMA OnlyInitialize ==
    ASSUME Filling, NEW c \in Call, Solo(c)
    PROVE  Fills(calls[c]) /\ calls[c] # Free /\ calls[c].at \in Hiring
<1>1. PICK d \in Call : Fills(calls[d])
  BY DEF Filling
<1>2. calls[d] # Free
  BY <1>1 DEF Fills, Free, NewCall
<1> QED BY <1>1, <1>2 DEF Solo, Fills

\* The staffing loop and the scale-up keep to the posts and to the room.
LEMMA LoopStaffs ==
    ASSUME IInv, NEW c \in Call, NEW f \in Frame, GoesTo(f, calls'[c]), SameCrew, Solo(c),
           f.at # "createWorker",
           ready => /\ Steady /\ f.op # "initialize" /\ f.type = 0
                    /\ Cardinality(workers) + f.hires <= MaxWorkers,
           ~ready => Filling /\ Fills(f)
    PROVE  IF ready' THEN Steady' ELSE Filling'
<1> DEFINE e == calls'[c]
<1>1. f.type \in 0 .. Len(WorkerTypes) /\ f.hires \in Nat
  BY DEF Frame
<1>2. Cardinality(workers) \in Nat /\ MaxWorkers \in Nat
  BY Counts, DepartmentAssumption DEF IInv
<1>3. CASE ready
  <2>1. \A k \in Types : Shortage(k) <= 0 /\ Shortage(k) \in Int
    BY <1>3, Counts DEF Steady, Filled, IInv
  <2>2. \/ e = Free
        \/ e.op = f.op /\ e.at = "createWorker" /\ e.type = 0 /\ e.hires = f.hires - 1
    <3>1. ~\E k \in Types : Shortage(k) > 0
      BY <2>1
    <3> QED BY <1>3, <3>1 DEF GoesTo
  <2>3. Checked(e)
    BY <1>1, <1>2, <1>3, <2>2 DEF Checked, Open, Free, NewCall, Hiring
  <2>4. ready'
    BY <1>3 DEF GoesTo
  <2> QED BY <1>3, <2>3, <2>4, SteadyStays
<1>4. CASE ~ready
  <2>1. /\ Filling /\ f.op = "initialize" /\ Open(f) = f.hires
        /\ \A k \in Types : k < f.type => Shortage(k) <= 0
        /\ f.type = 0 => f.hires = 0
        /\ f.type > 0 => Shortage(f.type) = f.hires
    BY <1>1, <1>4 DEF Fills, Open
  <2>2. \A k \in Types : k \in Nat /\ k > 0 /\ Shortage(k) \in Int
    BY Counts DEF Types, IInv
  <2>3. CASE /\ f.hires > 0 /\ UNCHANGED ready
             /\ e.op = f.op /\ e.at = "createWorker" /\ e.type = f.type
             /\ e.hires = f.hires - 1
             /\ f.type > 0 => e.role = WorkerTypes[f.type]
    <3>1. Open(e) = f.hires
      BY <1>1, <2>3 DEF Open
    <3>2. Fills(e)
      BY <2>1, <2>3, <3>1 DEF Fills, Hiring
    <3> QED BY <1>4, <2>1, <2>3, <3>2, FillingStays
  <2>4. ASSUME NEW k \in Types, f.hires = 0, UNCHANGED ready, f.type < k, Shortage(k) > 0,
               \A j \in Types : f.type < j /\ j < k => Shortage(j) <= 0,
               e.op = f.op, e.at = "createWorker", e.type = k,
               e.hires = Shortage(k) - 1, e.role = WorkerTypes[k]
        PROVE  Filling' /\ UNCHANGED ready
    <3>1. Open(e) = Shortage(k) /\ k # 0
      BY <1>1, <2>2, <2>4 DEF Open
    <3>2. \A j \in Types : j < k => Shortage(j) <= 0
      <4> SUFFICES ASSUME NEW j \in Types, j < k PROVE Shortage(j) <= 0
        OBVIOUS
      <4>1. CASE j = f.type
        BY <1>1, <2>1, <2>2, <2>4, <4>1
      <4> QED BY <1>1, <2>1, <2>2, <2>4, <4>1
    <3>3. Fills(e)
      BY <2>1, <2>4, <3>1, <3>2 DEF Fills, Hiring
    <3> QED BY <2>1, <2>4, <3>3, FillingStays
  <2>5. CASE /\ f.hires = 0 /\ \A j \in Types : f.type < j => Shortage(j) <= 0
             /\ e = Free /\ ready' = (ready \/ f.op = "initialize")
    <3>1. Filled
      <4> SUFFICES ASSUME NEW j \in Types PROVE Shortage(j) <= 0
        BY DEF Filled
      <4>1. CASE j = f.type
        BY <1>1, <2>1, <2>2, <2>5, <4>1
      <4> QED BY <1>1, <2>1, <2>2, <2>5, <4>1
    <3>2. Filled'
      BY <3>1, CrewStays DEF Filled
    <3>3. Cardinality(workers') <= MaxWorkers
      BY <2>1, EveryoneHasAPost DEF IInv, Ledger, Filling, SameCrew
    <3>4. \A d \in Call : calls'[d] = Free
      BY <2>5 DEF Solo
    <3>5. \A d \in Call : Checked(calls[d])'
      BY <3>4 DEF Checked, Free, NewCall, Hiring
    <3> QED BY <2>1, <2>5, <3>2, <3>3, <3>5 DEF Steady
  <2> QED BY <1>4, <2>3, <2>4, <2>5 DEF GoesTo
<1> QED BY <1>3, <1>4 DEF IInv, Workforce

\* A call begins, perhaps beside another, or one in flight resumes.
Turn(c) == \/ calls[c] = Free /\ Overlap(c)
           \/ calls[c] # Free /\ UNCHANGED overlapped

\* What an action does to the statuses.
Marks(c) == /\ Terminated' \subseteq Hired'
            /\ ~overlapped' =>
                 /\ Terminated \subseteq Terminated'
                 /\ calls'[c].at = "onboard" =>
                      status'[calls'[c].worker] = "onboarding"

\* What it does to the workforce when it is the only call.
Staffs(c) == /\ Solo(c) /\ (IF ready THEN Steady ELSE Filling) /\ Terminated' = {}
             => IF ready' THEN Steady' ELSE Filling'

LEMMA StaffedStays ==
    ASSUME IInv, Orderly, Staffed, NEW c \in Call, Effect(c), Turn(c), Marks(c), Staffs(c)
    PROVE  Orderly' /\ Staffed'
<1>1. ASSUME ~overlapped' PROVE ~overlapped /\ Solo(c)
  <2>1. ~overlapped /\ \A d \in Call : d # c => calls[d] = Free
    BY <1>1 DEF Turn, Overlap, Orderly, IInv, Workforce
  <2> QED BY <2>1 DEF Solo, Effect
<1>2. Orderly'
  <2>1. Free.at # "onboard"
    BY FreeFrame
  <2> QED BY <1>1, <2>1 DEF Orderly, Marks, Solo
<1>3. Staffed'
  BY <1>1 DEF Staffed, Staffs, Marks
<1> QED BY <1>2, <1>3

\* Statuses are only overwritten with others than "terminated".
LEMMA StayMarks ==
    ASSUME Orderly, Stay, Hired' = Hired
    PROVE  Terminated' \subseteq Hired'
BY DEF Orderly, Stay, Terminated

LEMMA SameMarks ==
    ASSUME Orderly, UNCHANGED <<status, profile>>, NEW c \in Call,
           calls'[c].at # "onboard"
    PROVE  Marks(c)
<1>1. Terminated' = Terminated /\ Hired' = Hired
  BY DEF Terminated, Hired
<1> QED BY <1>1 DEF Orderly, Marks

\* Where the loop leads, nobody onboards.
LEMMA LoopMarks ==
    ASSUME NEW f, NEW e, GoesTo(f, e)
    PROVE  e.at # "onboard"
BY FreeFrame DEF GoesTo

LEMMA InitializeStaffs ==
    ASSUME IInv, Orderly, NEW c \in Call, Initialize(c)
    PROVE  Turn(c) /\ Marks(c) /\ Staffs(c)
<1>1. /\ calls[c] \in Frame /\ calls[c].op = "initialize" /\ calls[c].at = "start"
      /\ GoOn(c, calls[c]) /\ (calls[c].hires > 0 => WorkerTypes # << >>)
      /\ UNCHANGED <<workers, profile, status, overlapped>>
  BY DEF IInv, Workforce, FrameInv, Initialize
<1>2. GoesTo(calls[c], calls'[c])
  BY <1>1, GoingOn DEF IInv
<1>3. Turn(c)
  BY <1>1, FreeFrame DEF Turn
<1>4. Marks(c)
  BY <1>1, <1>2, LoopMarks, SameMarks
<1>5. Staffs(c)
  <2> SUFFICES ASSUME Solo(c), IF ready THEN Steady ELSE Filling
               PROVE  IF ready' THEN Steady' ELSE Filling'
    BY DEF Staffs
  <2>1. ~ready
    BY <1>1 DEF Steady, Checked
  <2>2. Filling /\ Fills(calls[c])
    BY <2>1, OnlyInitialize
  <2> QED BY <1>1, <1>2, <2>1, <2>2, LoopStaffs DEF SameCrew
<1> QED BY <1>3, <1>4, <1>5

LEMMA AdjustCapacityStaffs ==
    ASSUME IInv, Orderly, NEW c \in Call, AdjustCapacity(c)
    PROVE  Turn(c) /\ Marks(c) /\ Staffs(c)
<1>1. PICK f \in Frame :
        /\ GoOn(c, f) /\ f.op = "adjustCapacity" /\ f.at = "start" /\ f.type = 0
        /\ f.hires > 0 => /\ WorkerTypes # << >>
                          /\ Cardinality(workers) + f.hires <= MaxWorkers
  BY ScaleUp
<1>2. GoesTo(f, calls'[c])
  BY <1>1, GoingOn DEF IInv
<1>3. ready /\ UNCHANGED <<workers, profile, status>> /\ Turn(c)
  BY DEF AdjustCapacity, Turn
<1>4. Marks(c)
  BY <1>2, <1>3, LoopMarks, SameMarks
<1>5. Staffs(c)
  <2> SUFFICES ASSUME Solo(c), Steady PROVE IF ready' THEN Steady' ELSE Filling'
    BY <1>3 DEF Staffs
  <2>1. f.hires \in Nat /\ Cardinality(workers) \in Nat
    BY Counts DEF Frame, IInv
  <2>2. Cardinality(workers) + f.hires <= MaxWorkers
    BY <1>1, <2>1 DEF Steady
  <2> QED BY <1>1, <1>2, <1>3, <2>2, LoopStaffs DEF SameCrew
<1> QED BY <1>3, <1>4, <1>5

LEMMA ReceiveGoalStaffs ==
    ASSUME IInv, Orderly, NEW c \in Call, NEW g \in Goal, ReceiveGoal(c, g)
    PROVE  Turn(c) /\ Marks(c) /\ Staffs(c)
<1>1. /\ UNCHANGED <<workers, profile, status, ready>>
      /\ \E f \in Frame :
           /\ Moves(c, f) /\ f.hires = 0
           /\ \/ f = Free
              \/ MayHire /\ f.op = "receiveGoal" /\ f.at = "createWorker" /\ f.type = 0
  BY Receiving
<1>2. /\ calls'[c].hires = 0
      /\ \/ calls'[c] = Free
         \/ /\ MayHire /\ calls'[c].op = "receiveGoal"
            /\ calls'[c].at = "createWorker" /\ calls'[c].type = 0
  BY <1>1, Moving DEF IInv
<1>3. Turn(c) /\ calls[c] = Free
  BY DEF ReceiveGoal, Turn
<1>4. Marks(c)
  BY <1>1, <1>2, FreeFrame, SameMarks
<1>5. Staffs(c)
  <2> SUFFICES ASSUME Solo(c), IF ready THEN Steady ELSE Filling
               PROVE  IF ready' THEN Steady' ELSE Filling'
    BY DEF Staffs
  <2>1. ready
    BY <1>3, OnlyInitialize
  <2>2. Cardinality(workers) \in Nat /\ MaxWorkers \in Nat
    BY Counts, DepartmentAssumption DEF IInv
  <2>3. Checked(calls'[c])
    BY <1>2, <2>2 DEF Checked, MayHire, Open, Free, NewCall, Hiring
  <2> QED BY <1>1, <2>1, <2>3, SteadyStays DEF SameCrew
<1> QED BY <1>3, <1>4, <1>5

LEMMA FireStaffs ==
    ASSUME IInv, Orderly, NEW c \in Call, NEW w \in WorkerId, Fire(c, w)
    PROVE  Turn(c) /\ Marks(c) /\ Staffs(c)
<1> DEFINE f == [NewCall("fire") EXCEPT !.at = "terminate", !.worker = w]
<1>1. f \in Frame /\ f.at = "terminate" /\ f.op = "fire"
  <2>1. 0 \in 0 .. Len(WorkerTypes)
    BY DepartmentAssumption, LenProperties
  <2> QED BY <2>1 DEF NewCall, Frame
<1>2. Moves(c, f) /\ UNCHANGED <<workers, profile, status, ready>> /\ calls[c] = Free
  BY DEF Fire, Moves
<1> HIDE DEF f
<1>3. calls'[c] = f
  BY <1>1, <1>2, Moving DEF IInv
<1>4. Turn(c)
  BY DEF Fire, Turn
<1>5. Marks(c)
  BY <1>1, <1>2, <1>3, SameMarks
<1>6. Staffs(c)
  <2> SUFFICES ASSUME Solo(c), IF ready THEN Steady ELSE Filling
               PROVE  IF ready' THEN Steady' ELSE Filling'
    BY DEF Staffs
  <2>1. ready
    BY <1>2, OnlyInitialize
  <2>2. Checked(calls'[c])
    BY <1>1, <1>3 DEF Checked, Hiring
  <2> QED BY <1>2, <2>1, <2>2, SteadyStays DEF SameCrew
<1> QED BY <1>4, <1>5, <1>6

LEMMA GoalAcceptedStaffs ==
    ASSUME IInv, Orderly, NEW c \in Call, GoalAccepted(c)
    PROVE  Turn(c) /\ Marks(c) /\ Staffs(c)
<1>1. /\ Moves(c, Free) /\ calls[c].at = "acceptGoal"
      /\ UNCHANGED <<workers, profile, status, ready, overlapped>>
  BY DEF GoalAccepted, Moves
<1>2. calls'[c] = Free
  BY <1>1, FreeFrame, Moving DEF IInv
<1>3. Turn(c)
  BY <1>1, FreeFrame DEF Turn
<1>4. Marks(c)
  BY <1>1, <1>2, FreeFrame, SameMarks
<1>5. Staffs(c)
  <2> SUFFICES ASSUME Solo(c), IF ready THEN Steady ELSE Filling
               PROVE  IF ready' THEN Steady' ELSE Filling'
    BY DEF Staffs
  <2>1. ready
    BY <1>1, OnlyInitialize DEF Hiring
  <2>2. Checked(calls'[c])
    BY <1>2 DEF Checked, Hiring, Free, NewCall
  <2> QED BY <1>1, <2>1, <2>2, SteadyStays DEF SameCrew
<1> QED BY <1>3, <1>4, <1>5

\* Somebody has left: nothing is said of the size from then on.
LEMMA FireEndsStaffs ==
    ASSUME IInv, Orderly, NEW c \in Call, FireEnds(c)
    PROVE  Turn(c) /\ Marks(c) /\ Staffs(c)
<1> DEFINE w == calls[c].worker
<1>1. /\ Moves(c, Free) /\ calls[c].at = "terminate" /\ UNCHANGED <<profile, overlapped>>
      /\ status' = [status EXCEPT ![w] = "terminated"]
  BY DEF FireEnds, Moves
<1>2. w \in Hired /\ w \in WorkerId
  BY <1>1 DEF IInv, FrameInv, Hired
<1>3. Hired' = Hired
  BY <1>1 DEF Hired
<1>4. Terminated' = Terminated \cup {w}
  BY <1>1, <1>2 DEF Terminated, IInv, Workforce
<1>5. calls'[c] = Free
  BY <1>1, FreeFrame, Moving DEF IInv
<1>6. Turn(c)
  BY <1>1, FreeFrame DEF Turn
<1>7. Marks(c)
  BY <1>2, <1>3, <1>4, <1>5, FreeFrame DEF Marks, Orderly
<1>8. Staffs(c)
  BY <1>4 DEF Staffs
<1> QED BY <1>6, <1>7, <1>8

\* A hire fills a post, or takes the place that was checked.
LEMMA WorkerCreatedStaffs ==
    ASSUME IInv, Orderly, NEW c \in Call, WorkerCreated(c)
    PROVE  Turn(c) /\ Marks(c) /\ Staffs(c)
<1>0. PICK r : r = calls[c].role
  OBVIOUS
<1>1. PICK w \in WorkerId, f \in Frame :
        /\ Joins(w, calls[c].role) /\ w \notin Hired /\ Hired' = Hired \cup {w}
        /\ workers' = workers \cup {w} /\ status' = [status EXCEPT ![w] = "onboarding"]
        /\ Moves(c, f) /\ f.at = "onboard" /\ f.worker = w /\ f.op = calls[c].op
        /\ f.hires = calls[c].hires /\ f.type = calls[c].type
  BY Creating
<1>2. /\ calls[c].at = "createWorker" /\ calls[c] \in Frame /\ r \in Role
      /\ UNCHANGED <<ready, overlapped>>
  BY <1>0 DEF IInv, Workforce, FrameInv, WorkerCreated
<1>3. calls'[c] = f
  BY <1>1, Moving DEF IInv
<1>4. Turn(c)
  BY <1>2, FreeFrame DEF Turn
<1>5. status'[w] = "onboarding" /\ \A v \in WorkerId : v # w => status'[v] = status[v]
  BY <1>1 DEF IInv, Workforce
<1>6. Marks(c)
  <2>1. Terminated \subseteq Hired
    BY DEF Orderly
  <2>2. Terminated' = Terminated
    BY <1>1, <1>5, <2>1 DEF Terminated
  <2> QED BY <1>1, <1>3, <1>5, <2>1, <2>2 DEF Marks
<1>7. profile'[w].role = r /\ \A v \in workers : v # w /\ profile'[v] = profile[v]
  <2>1. Grows /\ profile'[w].role = r
    BY <1>0, <1>1, Joining DEF IInv
  <2> QED BY <1>1, <2>1 DEF Grows, IInv, Workforce
<1>8. IsFiniteSet(workers) /\ Cardinality(workers) \in Nat /\ w \notin workers
  BY <1>7, Counts DEF IInv
<1>9. Cardinality(workers') = Cardinality(workers) + 1
  BY <1>1, <1>8, FS_AddElement
<1>10. Headcount(r)' = Headcount(r) + 1
  <2> DEFINE S == {v \in workers : profile[v].role = r}
             T == {v \in workers' : profile'[v].role = r}
  <2>1. T = S \cup {w} /\ w \notin S
    BY <1>1, <1>7, <1>8
  <2>2. IsFiniteSet(S)
    BY <1>8, FS_Subset
  <2>3. Cardinality(T) = Cardinality(S) + 1
    <3> HIDE DEF S, T
    <3> QED BY <2>1, <2>2, FS_AddElement
  <2> QED BY <2>3 DEF Headcount
<1>11. ASSUME NEW q, q # r PROVE Headcount(q)' = Headcount(q)
  <2>1. {v \in workers' : profile'[v].role = q} = {v \in workers : profile[v].role = q}
    BY <1>1, <1>7, <1>8, <1>11
  <2> QED BY <2>1 DEF Headcount
<1>12. \A k \in Types : /\ Shortage(k) \in Int /\ WorkerTypes[k] \in Role
                        /\ WorkerTypes[k] = r => Shortage(k)' = Shortage(k) - 1
                        /\ WorkerTypes[k] # r => Shortage(k)' = Shortage(k)
  <2> TAKE k \in Types
  <2>1. /\ Shortage(k) \in Int /\ WorkerTypes[k] \in Role
        /\ MinCount[WorkerTypes[k]] \in Nat /\ Headcount(WorkerTypes[k]) \in Nat
    BY Counts, DepartmentAssumption DEF IInv
  <2>2. /\ Shortage(k) = MinCount[WorkerTypes[k]] - Headcount(WorkerTypes[k])
        /\ Shortage(k)' = MinCount[WorkerTypes[k]] - Headcount(WorkerTypes[k])'
    BY DEF Shortage
  <2>3. CASE WorkerTypes[k] = r
    BY <1>10, <2>1, <2>2, <2>3
  <2>4. CASE WorkerTypes[k] # r
    BY <1>11, <2>1, <2>2, <2>4
  <2> QED BY <2>1, <2>3, <2>4
<1>13. calls[c].hires \in Nat /\ Open(calls[c]) = calls[c].hires + 1 /\ Open(f) = f.hires
  BY <1>1, <1>2 DEF Open, Frame
<1>14. Staffs(c)
  <2> SUFFICES ASSUME Solo(c), IF ready THEN Steady ELSE Filling
               PROVE  IF ready' THEN Steady' ELSE Filling'
    BY DEF Staffs
  <2>1. CASE ready
    <3>1. /\ calls[c].op # "initialize" /\ calls[c].type = 0
          /\ Cardinality(workers) + calls[c].hires + 1 <= MaxWorkers
      BY <1>2, <1>8, <1>13, <2>1 DEF Steady, Checked, Hiring
    <3>2. Filled'
      BY <1>12, <2>1 DEF Steady, Filled
    <3>3. \A d \in Call : Checked(calls[d])'
      <4> TAKE d \in Call
      <4>1. CASE d = c
        BY <1>1, <1>3, <1>8, <1>9, <1>13, <3>1, <4>1 DEF Checked, Open
      <4>2. CASE d # c
        BY <4>2 DEF Solo, Checked, Free, NewCall, Hiring
      <4> QED BY <4>1, <4>2
    <3>4. Cardinality(workers') <= MaxWorkers
      BY <1>8, <1>9, <1>13, <3>1, DepartmentAssumption
    <3> QED BY <1>2, <2>1, <3>2, <3>3, <3>4 DEF Steady
  <2>2. CASE ~ready
    <3>0. PICK k : k = calls[c].type
      OBVIOUS
    <3>1. WithinPosts /\ Fills(calls[c])
      BY <2>2, OnlyInitialize DEF Filling
    <3>2. /\ calls[c].op = "initialize" /\ \A j \in Types : j < k => Shortage(j) <= 0
          /\ k > 0 /\ Shortage(k) = calls[c].hires + 1 /\ r = WorkerTypes[k]
      BY <1>0, <1>2, <1>13, <3>0, <3>1 DEF Fills, Frame
    <3>3. k \in Types
      BY <1>2, <3>0, <3>2, Counts DEF Frame, Types, IInv
    <3>4. Headcount(r) < MinCount[r] /\ Headcount(r) \in Nat /\ MinCount[r] \in Nat
      <4>1. Shortage(k) = MinCount[r] - Headcount(r)
        BY <3>2 DEF Shortage
      <4>2. Headcount(r) \in Nat /\ MinCount[r] \in Nat
        BY <1>2, Counts, DepartmentAssumption DEF IInv
      <4> QED BY <1>13, <3>2, <4>1, <4>2
    <3>5. \A v \in workers' : profile'[v].role \in Elements(WorkerTypes)
      <4>1. r \in Elements(WorkerTypes)
        BY <3>2, <3>3, DepartmentAssumption, LenProperties DEF Elements, Types
      <4> QED BY <1>1, <1>7, <3>1, <4>1 DEF WithinPosts
    <3>6. \A q \in Role : Headcount(q)' <= MinCount[q]
      <4> TAKE q \in Role
      <4>1. CASE q = r
        BY <1>10, <3>4, <4>1
      <4>2. CASE q # r
        BY <1>11, <3>1, <4>2 DEF WithinPosts
      <4> QED BY <4>1, <4>2
    <3>7. Shortage(k)' = calls[c].hires
      BY <1>12, <1>13, <3>2, <3>3
    <3>8. \A j \in Types : j < k => Shortage(j)' <= 0
      BY <1>12, <3>2
    <3>9. f.type = k
      BY <1>1, <3>0
    <3>10. Fills(calls[c])'
      BY <1>1, <1>3, <1>13, <3>2, <3>7, <3>8, <3>9 DEF Fills, Hiring, Open
    <3> QED BY <1>2, <2>2, <3>5, <3>6, <3>10 DEF Filling, WithinPosts
  <2> QED BY <2>1, <2>2 DEF IInv, Workforce
<1> QED BY <1>4, <1>6, <1>14

\* A call that goes on waiting for its worker has the same hires to make.
LEMMA AdvancingStaffs ==
    ASSUME IInv, NEW c \in Call, NEW p \in {"acceptPending", "acceptGoal"},
           calls' = [calls EXCEPT ![c].at = p],
           calls[c].at \in {"onboard", "acceptPending"},
           p = "acceptGoal" => calls[c].op = "receiveGoal",
           SameCrew, UNCHANGED ready
    PROVE  Staffs(c)
<1>1. calls'[c] = [calls[c] EXCEPT !.at = p] /\ calls[c] \in Frame
  BY Advancing DEF IInv, Workforce
<1>2. /\ calls'[c].at = p /\ calls'[c].op = calls[c].op /\ calls'[c].type = calls[c].type
      /\ calls'[c].hires = calls[c].hires /\ calls[c].hires \in Nat
  BY <1>1 DEF Frame
<1>3. Open(calls'[c]) = Open(calls[c]) /\ calls[c].at \in Hiring
  BY <1>2 DEF Open, Hiring
<1> SUFFICES ASSUME Solo(c), IF ready THEN Steady ELSE Filling
             PROVE  IF ready' THEN Steady' ELSE Filling'
  BY DEF Staffs
<1>4. CASE ready
  <2>1. Checked(calls'[c])
    BY <1>2, <1>3, <1>4 DEF Steady, Checked
  <2> QED BY <1>4, <2>1, SteadyStays
<1>5. CASE ~ready
  <2>1. Filling /\ Fills(calls[c])
    BY <1>5, OnlyInitialize
  <2>2. p = "acceptPending"
    BY <2>1 DEF Fills
  <2>3. Fills(calls'[c])
    BY <1>2, <1>3, <2>1, <2>2 DEF Fills, Hiring
  <2> QED BY <1>5, <2>1, <2>3, FillingStays
<1> QED BY <1>4, <1>5 DEF IInv, Workforce

\* A call that goes on with its loop.
LEMMA LoopingStaffs ==
    ASSUME IInv, NEW c \in Call, GoesTo(calls[c], calls'[c]), SameCrew,
           calls[c].at \in {"onboard", "acceptPending"}
    PROVE  Staffs(c)
<1>1. calls[c] \in Frame /\ Open(calls[c]) = calls[c].hires /\ calls[c].at \in Hiring
  BY DEF IInv, Workforce, Frame, Open, Hiring
<1> SUFFICES ASSUME Solo(c), IF ready THEN Steady ELSE Filling
             PROVE  IF ready' THEN Steady' ELSE Filling'
  BY DEF Staffs
<1>2. ready => /\ Steady /\ calls[c].op # "initialize" /\ calls[c].type = 0
               /\ Cardinality(workers) + calls[c].hires <= MaxWorkers
  BY <1>1 DEF Steady, Checked
<1>3. ~ready => Filling /\ Fills(calls[c])
  BY OnlyInitialize
<1> QED BY <1>1, <1>2, <1>3, LoopStaffs

LEMMA OnboardedStaffs ==
    ASSUME IInv, Orderly, NEW c \in Call, Onboarded(c)
    PROVE  Turn(c) /\ Marks(c) /\ Staffs(c)
<1> DEFINE w == calls[c].worker
<1>1. /\ calls[c].at = "onboard" /\ calls[c] \in Frame /\ FrameInv(c)
      /\ UNCHANGED <<workers, profile, received, overlapped>>
  BY DEF IInv, Workforce, Onboarded
<1>2. w \in Hired /\ w \in WorkerId
  BY <1>1 DEF FrameInv, Hired
<1>3. SameCrew /\ Hired' = Hired
  BY <1>1 DEF SameCrew, Hired
<1>4. Turn(c)
  BY <1>1, FreeFrame DEF Turn
<1>5. \/ /\ status' = [status EXCEPT ![w] = "working"] /\ UNCHANGED ready
         /\ \E p \in {"acceptPending", "acceptGoal"} :
              /\ calls' = [calls EXCEPT ![c].at = p]
              /\ p = "acceptGoal" => calls[c].op = "receiveGoal"
      \/ /\ status' = [status EXCEPT ![w] = "idle"]
         /\ GoOn(c, calls[c]) /\ calls[c].op # "receiveGoal"
  BY DEF Onboarded
<1>6. GoOn(c, calls[c]) /\ calls[c].op # "receiveGoal" => GoesTo(calls[c], calls'[c])
  BY <1>1, GoingOn DEF FrameInv, IInv
<1>7. Staffs(c)
  BY <1>1, <1>3, <1>5, <1>6, AdvancingStaffs, LoopingStaffs
<1>8. calls'[c].at # "onboard"
  <2>1. ASSUME NEW p \in {"acceptPending", "acceptGoal"},
               calls' = [calls EXCEPT ![c].at = p]
        PROVE  calls'[c].at # "onboard"
    <3>1. calls'[c] = [calls[c] EXCEPT !.at = p]
      BY <2>1, Advancing DEF IInv
    <3> QED BY <1>1, <3>1 DEF Frame
  <2> QED BY <1>5, <1>6, <2>1, LoopMarks
<1>9. Stay /\ \A v \in WorkerId : v # w => status'[v] = status[v]
  BY <1>2, <1>5, Overwritten DEF IInv, Workforce, Status
<1>10. Terminated' \subseteq Hired'
  BY <1>3, <1>9, StayMarks
<1>11. ~overlapped' => Terminated \subseteq Terminated'
  <2>1. ~overlapped' => status[w] = "onboarding"
    BY <1>1 DEF Orderly
  <2> QED BY <1>9, <2>1 DEF Terminated
<1> QED BY <1>4, <1>7, <1>8, <1>10, <1>11 DEF Marks

LEMMA PendingAcceptedStaffs ==
    ASSUME IInv, Orderly, NEW c \in Call, PendingAccepted(c)
    PROVE  Turn(c) /\ Marks(c) /\ Staffs(c)
<1> DEFINE w == calls[c].worker
<1>1. /\ calls[c].at = "acceptPending" /\ calls[c] \in Frame /\ FrameInv(c)
      /\ UNCHANGED <<workers, profile, pendingGoals, received, overlapped>>
  BY DEF IInv, Workforce, PendingAccepted
<1>2. w \in WorkerId /\ SameCrew /\ Hired' = Hired
  BY <1>1 DEF FrameInv, Hired, SameCrew
<1>3. Turn(c)
  BY <1>1, FreeFrame DEF Turn
<1>4. CASE /\ calls[c].op = "receiveGoal" /\ Accept(w, calls[c].goal)
           /\ calls' = [calls EXCEPT ![c].at = "acceptGoal"] /\ UNCHANGED ready
  <2>1. Staffs(c)
    BY <1>1, <1>2, <1>4, AdvancingStaffs
  <2>2. calls'[c].at = "acceptGoal"
    <3>1. calls'[c] = [calls[c] EXCEPT !.at = "acceptGoal"]
      BY <1>4, Advancing DEF IInv
    <3> QED BY <1>1, <3>1 DEF Frame
  <2>3. Terminated' \subseteq Hired'
    BY <1>2, <1>4, Accepting, StayMarks DEF IInv
  <2>4. Terminated \subseteq Terminated'
    BY <1>2, <1>4 DEF Accept, Terminated, IInv, Workforce
  <2> QED BY <1>3, <2>1, <2>2, <2>3, <2>4 DEF Marks
<1>5. CASE calls[c].op # "receiveGoal" /\ GoOn(c, calls[c]) /\ UNCHANGED <<held, status>>
  <2>1. GoesTo(calls[c], calls'[c])
    BY <1>1, <1>5, GoingOn DEF FrameInv, IInv
  <2> QED BY <1>1, <1>2, <1>3, <1>5, <2>1, LoopingStaffs, LoopMarks, SameMarks
<1> QED BY <1>4, <1>5 DEF PendingAccepted, HireReturns

\* The limit holds for as long as calls do not overlap and nobody has left.
THEOREM RoomForEveryone == Spec => []WithinMaxWorkers
<1>1. Init => Orderly /\ Staffed
  <2> SUFFICES ASSUME Init PROVE Orderly /\ Staffed
    OBVIOUS
  <2>1. PICK c \in Call :
          calls = [d \in Call |-> IF d = c THEN NewCall("initialize") ELSE Free]
    BY DEF Init
  <2>2. Orderly
    BY <2>1 DEF Init, Orderly, Terminated, NewCall, Free, None
  <2>3. \A r : Headcount(r) = 0
    <3> TAKE r
    <3>1. {w \in workers : profile[w].role = r} = {}
      BY DEF Init
    <3> QED BY <3>1, FS_EmptySet DEF Headcount
  <2>4. WithinPosts
    BY <2>3, DepartmentAssumption DEF Init, WithinPosts
  <2>5. Fills(calls[c])
    <3>1. /\ calls[c].op = "initialize" /\ calls[c].at = "start"
          /\ calls[c].type = 0 /\ calls[c].hires = 0
      BY <2>1 DEF NewCall
    <3> QED BY <3>1 DEF Fills, Hiring, Open, Types
  <2> QED BY <2>2, <2>4, <2>5 DEF Init, Staffed, Filling
<1>2. IInv /\ Orderly /\ Staffed /\ [Next]_vars => Orderly' /\ Staffed'
  <2> SUFFICES ASSUME IInv, Orderly, Staffed, [Next]_vars PROVE Orderly' /\ Staffed'
    OBVIOUS
  <2>1. CASE UNCHANGED vars
    <3>1. /\ Hired' = Hired /\ Terminated' = Terminated /\ Steady' = Steady
          /\ Filling' = Filling
      BY <2>1 DEF vars, Hired, Terminated, Steady, Filling, Filled, Checked, Fills,
                  WithinPosts, Headcount, Shortage
    <3> QED BY <2>1, <3>1 DEF vars, Orderly, Staffed
  <2>2. ASSUME NEW c \in Call, Resume(c) PROVE Effect(c) /\ Turn(c) /\ Marks(c) /\ Staffs(c)
    <3>1. Effect(c)
      BY <2>2, ResumeEffect
    <3> QED BY <2>2, <3>1, InitializeStaffs, WorkerCreatedStaffs, OnboardedStaffs,
               PendingAcceptedStaffs, GoalAcceptedStaffs, FireEndsStaffs DEF Resume
  <2>3. CASE Next
    BY <2>2, <2>3, StaffedStays, ReceiveGoalEffect, ReceiveGoalStaffs,
       AdjustCapacityEffect, AdjustCapacityStaffs, FireEffect, FireStaffs DEF Next
  <2> QED BY <2>1, <2>3
<1>3. IInv /\ Orderly /\ Staffed => WithinMaxWorkers
  BY EveryoneHasAPost DEF IInv, Ledger, Staffed, Steady, Filling, WithinMaxWorkers
<1> QED BY <1>1, <1>2, <1>3, Inductive, PTL DEF Spec
=============================================================================
