--------------------------- MODULE EscalationProofs ---------------------------
(***************************************************************************)
(* Proofs about Escalation, for any workers, any number of options and any *)
(* order of decisions, promotions and escalations.  What a worker takes    *)
(* alone has the least risk: within its autonomy the multipliers differ so *)
(* little that the weights of the risks decide.                            *)
(***************************************************************************)
EXTENDS Escalation, SequenceTheorems, WellFoundedInduction, TLAPS

\* A set of numbers has a smallest.
LEMMA Smallest ==
    ASSUME NEW S, S \subseteq Nat, S # {}
    PROVE  \E n \in S : \A m \in S : n <= m
<1>1. PICK n \in S : \A m \in S : <<m, n>> \notin OpToRel(<, Nat)
  BY NatLessThanWellFounded, WFMin
<1>2. ASSUME NEW m \in S PROVE n <= m
  <2>1. ~(m < n)
    BY <1>1, <1>2 DEF OpToRel
  <2> QED BY <2>1
<1> QED BY <1>2

\* A set of numbers with a bound has a largest.
LEMMA Largest ==
    ASSUME NEW b \in Nat, NEW S, S \subseteq 0 .. b, S # {}
    PROVE  \E n \in S : \A m \in S : m <= n
<1>1. PICK k \in {b - n : n \in S} : \A m \in {b - n : n \in S} : k <= m
  <2>1. {b - n : n \in S} \subseteq Nat /\ {b - n : n \in S} # {}
    OBVIOUS
  <2> QED BY <2>1, Smallest
<1>2. PICK n \in S : k = b - n
  OBVIOUS
<1>3. \A m \in S : m <= n
  BY <1>1, <1>2
<1> QED BY <1>3

\* So among finitely many there is a first of the largest.
LEMMA FirstLargest ==
    ASSUME NEW b \in Nat, NEW n \in Nat \ {0}, NEW f \in [1 .. n -> 0 .. b]
    PROVE  \E k \in 1 .. n : \A j \in 1 .. n :
                f[k] > f[j] \/ (f[k] = f[j] /\ k <= j)
<1>1. PICK i \in 1 .. n : \A j \in 1 .. n : f[j] <= f[i]
  <2> DEFINE S == {f[j] : j \in 1 .. n}
  <2>1. 1 \in 1 .. n
    OBVIOUS
  <2>2. S \subseteq 0 .. b /\ S # {}
    BY <2>1
  <2>3. PICK m \in S : \A r \in S : r <= m
    BY <2>2, Largest
  <2> QED BY <2>3
<1> DEFINE T == {j \in 1 .. n : f[j] = f[i]}
<1>2. PICK k \in T : \A j \in T : k <= j
  <2>1. T \subseteq Nat /\ T # {}
    OBVIOUS
  <2> QED BY <2>1, Smallest
<1>3. ASSUME NEW j \in 1 .. n PROVE f[k] > f[j] \/ (f[k] = f[j] /\ k <= j)
  <2>1. f[k] = f[i] /\ f[j] <= f[i] /\ f[i] \in Nat /\ f[j] \in Nat
    BY <1>1
  <2>2. CASE f[j] = f[i]
    BY <1>2, <2>1, <2>2
  <2>3. CASE f[j] # f[i]
    BY <2>1, <2>3
  <2> QED BY <2>2, <2>3
<1> QED BY <1>3

LEMMA NonEmpty ==
    ASSUME NEW S, NEW s \in Seq(S), s # << >>
    PROVE  /\ Len(s) \in Nat \ {0} /\ DOMAIN s = 1 .. Len(s) /\ 1 \in DOMAIN s
           /\ \A i \in DOMAIN s : s[i] \in S
<1>1. Len(s) \in Nat \ {0}
  BY EmptySeq
<1>2. DOMAIN s = 1 .. Len(s) /\ \A i \in DOMAIN s : s[i] \in S
  BY LenProperties, ElementOfSeq
<1>3. 1 \in 1 .. Len(s)
  BY <1>1
<1> QED BY <1>1, <1>2, <1>3

-----------------------------------------------------------------------------
\* The score of an option; within the autonomy it tells the risks apart.
LEMMA Scores ==
    ASSUME NEW level \in AutonomyLevel, NEW o \in Option
    PROVE  /\ Score(level, o) \in 0 .. 100
           /\ riskWeight(o.risk) \in 4 .. 10
           /\ o.impactLevel <= level =>
                /\ o.risk = "low" => Score(level, o) >= 90
                /\ o.risk = "medium" => Score(level, o) \in 63 .. 70
                /\ o.risk = "high" => Score(level, o) \in 36 .. 40
<1>1. o.risk \in Risk /\ o.impactLevel \in Impact
  BY DEF Option
<1>2. /\ getAutonomyMultiplier(level, o.impactLevel) \in 0 .. 10
      /\ o.impactLevel <= level =>
            getAutonomyMultiplier(level, o.impactLevel) \in 9 .. 10
  <2>1. CASE level = 1
    BY <1>1, <2>1 DEF Impact, getAutonomyMultiplier
  <2>2. CASE level = 2
    BY <1>1, <2>2 DEF Impact, getAutonomyMultiplier
  <2>3. CASE level = 3
    BY <1>1, <2>3 DEF Impact, getAutonomyMultiplier
  <2>4. CASE level = 4
    BY <1>1, <2>4 DEF Impact, getAutonomyMultiplier
  <2> QED BY <2>1, <2>2, <2>3, <2>4 DEF AutonomyLevel
<1> DEFINE m == getAutonomyMultiplier(level, o.impactLevel)
<1>3. Score(level, o) = riskWeight(o.risk) * m
  BY DEF Score
<1> HIDE DEF m
<1>4. CASE o.risk = "low"
  <2>1. riskWeight(o.risk) = 10
    BY <1>4 DEF riskWeight
  <2> QED BY <1>2, <1>3, <1>4, <2>1 DEF m
<1>5. CASE o.risk = "medium"
  <2>1. riskWeight(o.risk) = 7
    BY <1>5 DEF riskWeight
  <2> QED BY <1>2, <1>3, <1>5, <2>1 DEF m
<1>6. CASE o.risk = "high"
  <2>1. riskWeight(o.risk) = 4
    BY <1>6 DEF riskWeight
  <2> QED BY <1>2, <1>3, <1>6, <2>1 DEF m
<1> QED BY <1>1, <1>4, <1>5, <1>6 DEF Risk

\* evaluate finds an option of the highest score.
LEMMA BestIsBest ==
    ASSUME NEW level \in AutonomyLevel, NEW options \in Seq(Option), options # << >>
    PROVE  /\ Best(level, options) \in DOMAIN options
           /\ \A j \in DOMAIN options :
                Score(level, options[j]) <= Score(level, options[Best(level, options)])
<1> DEFINE n == Len(options)
           f == [i \in 1 .. n |-> Score(level, options[i])]
<1>1. n \in Nat \ {0} /\ DOMAIN options = 1 .. n /\ \A i \in 1 .. n : options[i] \in Option
  BY NonEmpty
<1>2. f \in [1 .. n -> 0 .. 100]
  BY <1>1, Scores
<1>3. PICK k \in 1 .. n : \A j \in 1 .. n : f[k] > f[j] \/ (f[k] = f[j] /\ k <= j)
  BY <1>1, <1>2, FirstLargest
<1>4. \A j \in DOMAIN options :
        \/ Score(level, options[k]) > Score(level, options[j])
        \/ Score(level, options[k]) = Score(level, options[j]) /\ k <= j
  BY <1>1, <1>3
<1> DEFINE best == Best(level, options)
<1>5. /\ best \in DOMAIN options
      /\ \A j \in DOMAIN options :
            \/ Score(level, options[best]) > Score(level, options[j])
            \/ Score(level, options[best]) = Score(level, options[j]) /\ best <= j
  BY <1>1, <1>4 DEF Best
<1>6. ASSUME NEW j \in DOMAIN options PROVE Score(level, options[j]) \in Nat
  <2>1. Score(level, options[j]) \in 0 .. 100
    BY <1>1, Scores
  <2>2. \A x \in 0 .. 100 : x \in Nat
    OBVIOUS
  <2> QED BY <2>1, <2>2
<1> HIDE DEF best
<1>7. ASSUME NEW j \in DOMAIN options
      PROVE  Score(level, options[j]) <= Score(level, options[best])
  BY <1>5, <1>6
<1> QED BY <1>5, <1>7 DEF best

\* Among options within the autonomy the best one has the least risk.
LEMMA BestHasLeastRisk ==
    ASSUME NEW level \in AutonomyLevel, NEW options \in Seq(Option), options # << >>,
           \A i \in DOMAIN options : options[i].impactLevel <= level
    PROVE  LET chosen == options[Best(level, options)].risk
           IN  \A i \in DOMAIN options :
                    \/ chosen \in {"low", options[i].risk}
                    \/ options[i].risk = "high"
<1> DEFINE b == Best(level, options)
<1>1. b \in DOMAIN options /\ \A i \in DOMAIN options : options[i] \in Option
  BY BestIsBest, NonEmpty
<1> SUFFICES ASSUME NEW i \in DOMAIN options
             PROVE  options[b].risk \in {"low", options[i].risk} \/ options[i].risk = "high"
  OBVIOUS
<1>2. Score(level, options[i]) <= Score(level, options[b])
  BY BestIsBest
<1>3. options[i].risk \in Risk /\ options[b].risk \in Risk
  BY <1>1 DEF Option
<1>4. options[i].impactLevel <= level /\ options[b].impactLevel <= level
  BY <1>1
<1>5. /\ Score(level, options[i]) \in 0 .. 100
      /\ options[i].risk = "low" => Score(level, options[i]) >= 90
      /\ options[i].risk = "medium" => Score(level, options[i]) \in 63 .. 70
  BY <1>1, <1>4, Scores
<1>6. /\ Score(level, options[b]) \in 0 .. 100
      /\ options[b].risk = "medium" => Score(level, options[b]) \in 63 .. 70
      /\ options[b].risk = "high" => Score(level, options[b]) \in 36 .. 40
  BY <1>1, <1>4, Scores
<1> DEFINE si == Score(level, options[i])
           sb == Score(level, options[b])
<1>7. /\ si <= sb /\ si \in 0 .. 100 /\ sb \in 0 .. 100
      /\ options[i].risk = "low" => si >= 90
      /\ options[i].risk = "medium" => si >= 63
      /\ options[b].risk = "medium" => sb <= 70
      /\ options[b].risk = "high" => sb <= 40
  BY <1>2, <1>5, <1>6
<1> HIDE DEF si, sb, b
<1>8. CASE options[i].risk = "low"
  BY <1>3, <1>7, <1>8 DEF Risk
<1>9. CASE options[i].risk = "medium"
  BY <1>3, <1>7, <1>9 DEF Risk
<1> QED BY <1>3, <1>8, <1>9 DEF Risk

\* The confidence is a percentage.
LEMMA ConfidenceRange ==
    ASSUME NEW level \in AutonomyLevel, NEW options \in Seq(Option), options # << >>
    PROVE  Confidence(level, options) \in 0 .. 95
<1> DEFINE best == Best(level, options)
           others == {Score(level, options[j]) : j \in DOMAIN options \ {best}}
           weight == riskWeight(options[best].risk)
           second == CHOOSE s \in others \cup {0} : \A r \in others : r <= s
           top == Score(level, options[best])
           sum == 50 + top - second + 3 * weight
<1>1. best \in DOMAIN options /\ \A i \in DOMAIN options : options[i] \in Option
  BY BestIsBest, NonEmpty
<1>2. others \subseteq 0 .. 100 /\ top \in 0 .. 100 /\ \A r \in others : r <= top
  BY <1>1, Scores, BestIsBest
<1>3. weight \in 4 .. 10
  BY <1>1, Scores
<1>4. Confidence(level, options) = IF sum < 95 THEN sum ELSE 95
  BY DEF Confidence
<1> HIDE DEF best, others, top, weight
<1>5. PICK s \in others \cup {0} : \A r \in others \cup {0} : r <= s
  <2>1. others \cup {0} \subseteq 0 .. 100 /\ others \cup {0} # {}
    BY <1>2
  <2> QED BY <2>1, Largest
<1>6. second \in others \cup {0}
  BY <1>5
<1> HIDE DEF second
<1>7. second \in 0 .. 100 /\ second <= top
  BY <1>2, <1>6
<1> QED BY <1>2, <1>3, <1>4, <1>7

\* Between options within the autonomy that are all of high risk the lead is
\* too small for the bar of 0.7.
LEMMA HighRiskIsUnsure ==
    ASSUME NEW level \in AutonomyLevel, NEW options \in Seq(Option), options # << >>,
           \A i \in DOMAIN options : options[i].impactLevel <= level,
           options[Best(level, options)].risk = "high", Len(options) # 1
    PROVE  Confidence(level, options) < 70
<1> DEFINE best == Best(level, options)
           others == {Score(level, options[j]) : j \in DOMAIN options \ {best}}
           weight == riskWeight(options[best].risk)
           second == CHOOSE s \in others \cup {0} : \A r \in others : r <= s
           top == Score(level, options[best])
           sum == 50 + top - second + 3 * weight
<1>1. /\ best \in DOMAIN options /\ \A i \in DOMAIN options : options[i] \in Option
      /\ DOMAIN options = 1 .. Len(options) /\ Len(options) \in Nat
  BY BestIsBest, NonEmpty
<1>2. weight = 4
  BY DEF riskWeight
<1>3. top \in 36 .. 40
  BY <1>1, Scores
<1>4. ASSUME NEW j \in DOMAIN options PROVE Score(level, options[j]) \in 36 .. 40
  <2>1. options[j].risk = "high"
    BY BestHasLeastRisk
  <2> QED BY <1>1, <2>1, Scores
<1>5. PICK j \in DOMAIN options : j # best
  <2>1. Len(options) >= 2 /\ 1 \in DOMAIN options /\ 2 \in DOMAIN options
    BY <1>1
  <2> QED BY <2>1
<1>6. others \subseteq 36 .. 40 /\ others # {}
  BY <1>4, <1>5
<1>7. Confidence(level, options) = IF sum < 95 THEN sum ELSE 95
  BY DEF Confidence
<1> HIDE DEF best, others, top, weight
<1>8. PICK s \in others : \A r \in others : r <= s
  <2>1. others \subseteq 0 .. 40
    BY <1>6
  <2> QED BY <1>6, <2>1, Largest
<1>9. second \in others \cup {0} /\ \A r \in others : r <= second
  BY <1>8
<1> HIDE DEF second
<1>10. second \in 36 .. 40
  BY <1>6, <1>8, <1>9
<1> QED BY <1>2, <1>3, <1>7, <1>10

\* No option exceeds the highest impact.
LEMMA HighestImpact ==
    ASSUME NEW options \in Seq(Option), options # << >>
    PROVE  /\ highestImpact(options) \in Impact
           /\ \A i \in DOMAIN options : options[i].impactLevel <= highestImpact(options)
<1> DEFINE S == {options[i].impactLevel : i \in DOMAIN options}
<1>1. S \subseteq Impact /\ S # {}
  <2>1. 1 \in DOMAIN options /\ \A i \in DOMAIN options : options[i] \in Option
    BY NonEmpty
  <2>2. \A i \in DOMAIN options : options[i].impactLevel \in Impact
    BY <2>1 DEF Option
  <2> QED BY <2>1, <2>2
<1>2. PICK n \in S : \A m \in S : m <= n
  <2>1. S \subseteq 0 .. 5
    BY <1>1 DEF Impact
  <2> QED BY <1>1, <2>1, Largest
<1>3. highestImpact(options) \in S
         /\ \A i \in DOMAIN options : options[i].impactLevel <= highestImpact(options)
  BY <1>2 DEF highestImpact
<1> QED BY <1>1, <1>3

-----------------------------------------------------------------------------
Options == Seq(Option)
Percent == 0 .. 95
Level == 0 .. 4

Call == [at : {"idle", "evaluated", "communicate", "made"}, options : Options,
         chosen : Nat, confidence : Percent, level : Level, checked : Level,
         escalated : BOOLEAN]

Mail == {NoMail} \cup [type : {"escalation"}, from : Worker,
                       escalation : [workerId : Worker, escalationId : Nat]]

Typed == /\ managerId \in [Worker -> Manager] /\ seniority \in [Worker -> Seniority]
         /\ autonomyLevel \in [Worker -> AutonomyLevel]
         /\ engineLevel \in [Worker -> AutonomyLevel]
         /\ call \in [Worker -> Call]
         /\ pendingEscalations \in [Worker -> Seq(BOOLEAN)]
         /\ mail \in [Worker -> Mail]
         /\ \A w \in Worker : mail[w] # NoMail => call[w].at = "communicate"

\* What a call has decided, and what it has checked.
Decided(c) ==
  /\ c.options = << >> => c.chosen = 0
  /\ c.options # << >> =>
    /\ c.level \in AutonomyLevel /\ c.chosen = Best(c.level, c.options)
    /\ c.confidence = Confidence(c.level, c.options)
    /\ c.at = "communicate" => c.escalated
    /\ c.at = "made" /\ ~c.escalated =>
            /\ c.confidence >= 70
            /\ \A i \in DOMAIN c.options : c.options[i].impactLevel <= c.checked

IInv == /\ Typed
        /\ \A w \in Worker : Decided(call[w])
        /\ AutonomyKeepsUp

LEMMA IdleCall == Idle \in Call /\ Decided(Idle)
<1>1. << >> \in Options /\ 0 \in Percent /\ 0 \in Level
  BY DEF Options, Percent, Level
<1> QED BY <1>1 DEF Idle, Call, Decided

\* A call that goes on as f, escalated or not.
LEMMA EscalateStep ==
    ASSUME IInv, NEW w \in Worker, NEW f \in Call, escalate(w, f),
           mail[w] = NoMail, f.options # << >> => f.escalated, Decided(f),
           UNCHANGED <<managerId, seniority, autonomyLevel, engineLevel>>
    PROVE  IInv'
<1> USE DEF IInv
<1>1. /\ call \in [Worker -> Call] /\ pendingEscalations \in [Worker -> Seq(BOOLEAN)]
      /\ mail \in [Worker -> Mail]
  BY DEF Typed
<1>2. PICK at \in {"made", "communicate"} :
        /\ call' = [call EXCEPT ![w] = [f EXCEPT !.at = at]]
        /\ \A v \in Worker \ {w} : mail'[v] = mail[v]
        /\ at = "made" => mail' = mail
        /\ pendingEscalations' \in [Worker -> Seq(BOOLEAN)]
        /\ mail' \in [Worker -> Mail]
  <2>1. CASE managerId[w] = "none"
    BY <1>1, <2>1 DEF escalate
  <2>2. CASE managerId[w] # "none"
    <3>1. Append(pendingEscalations[w], FALSE) \in Seq(BOOLEAN)
      BY <1>1
    <3>2. pendingEscalations' = [pendingEscalations EXCEPT ![w] = Append(@, FALSE)]
      BY <2>2 DEF escalate
    <3>3. pendingEscalations' \in [Worker -> Seq(BOOLEAN)]
      BY <1>1, <3>1, <3>2
    <3> DEFINE message == [type |-> "escalation", from |-> w,
                 escalation |-> [workerId |-> w,
                                 escalationId |-> Len(pendingEscalations[w]) + 1]]
    <3>4. /\ call' = [call EXCEPT ![w] = [f EXCEPT !.at = "communicate"]]
          /\ mail' = [mail EXCEPT ![w] = message]
      BY <2>2 DEF escalate
    <3>5. message \in Mail
      <4>1. Len(pendingEscalations[w]) + 1 \in Nat
        BY <1>1
      <4> QED BY <4>1 DEF Mail
    <3> HIDE DEF message
    <3>6. mail' \in [Worker -> Mail] /\ \A v \in Worker \ {w} : mail'[v] = mail[v]
      BY <1>1, <3>4, <3>5
    <3> QED BY <3>3, <3>4, <3>6
  <2> QED BY <2>1, <2>2
<1> DEFINE g == [f EXCEPT !.at = at]
<1>3. g \in Call /\ g.at = at /\ Decided(g)
  BY DEF Call, Decided
<1> HIDE DEF g
<1>4. /\ call' \in [Worker -> Call] /\ call'[w] = g
      /\ \A v \in Worker \ {w} : call'[v] = call[v]
  BY <1>1, <1>2, <1>3 DEF g
<1>5. Typed'
  <2>1. ASSUME NEW v \in Worker, mail'[v] # NoMail PROVE call'[v].at = "communicate"
    <3>1. CASE v = w
      BY <1>2, <1>3, <1>4, <2>1, <3>1
    <3>2. CASE v # w
      BY <1>2, <1>4, <2>1, <3>2 DEF Typed
    <3> QED BY <3>1, <3>2
  <2> QED BY <1>2, <1>4, <2>1 DEF Typed
<1>6. \A v \in Worker : Decided(call'[v])
  BY <1>3, <1>4
<1>7. AutonomyKeepsUp'
  BY DEF AutonomyKeepsUp
<1> QED BY <1>5, <1>6, <1>7 DEF Decided

\* No other action makes an unsafe decision, or leaves a level behind.
LEMMA Inductive == Spec => []IInv
<1>1. Init => IInv
  <2> SUFFICES ASSUME Init PROVE IInv
    OBVIOUS
  <2>1. \A s \in Seniority : AutonomyFor(s) \in AutonomyLevel
    BY DEF Seniority, AutonomyLevel, AutonomyFor
  <2>2. Idle \in Call
    BY IdleCall
  <2>3. Typed
    BY <2>1, <2>2 DEF Init, Typed, Mail
  <2>4. \A w \in Worker : Decided(call[w])
    BY DEF Init, Decided, Idle
  <2>5. AutonomyKeepsUp
    <3> SUFFICES ASSUME NEW w \in Worker
                 PROVE  /\ engineLevel[w] = autonomyLevel[w]
                        /\ autonomyLevel[w] >= AutonomyFor(seniority[w])
      BY DEF AutonomyKeepsUp
    <3>1. /\ engineLevel[w] = AutonomyFor(seniority[w])
          /\ autonomyLevel[w] = AutonomyFor(seniority[w])
          /\ autonomyLevel[w] \in AutonomyLevel
      BY <2>3 DEF Init, Typed
    <3> QED BY <3>1 DEF AutonomyLevel
  <2> QED BY <2>3, <2>4, <2>5 DEF IInv
<1>2. IInv /\ [Next]_vars => IInv'
  <2> SUFFICES ASSUME IInv, [Next]_vars PROVE IInv'
    OBVIOUS
  <2>typed. /\ managerId \in [Worker -> Manager] /\ seniority \in [Worker -> Seniority]
            /\ autonomyLevel \in [Worker -> AutonomyLevel]
            /\ engineLevel \in [Worker -> AutonomyLevel]
            /\ call \in [Worker -> Call] /\ mail \in [Worker -> Mail]
            /\ pendingEscalations \in [Worker -> Seq(BOOLEAN)]
            /\ \A w \in Worker : mail[w] # NoMail => call[w].at = "communicate"
            /\ \A w \in Worker : Decided(call[w]) /\ call[w] \in Call
    BY DEF IInv, Typed
  <2>1. ASSUME NEW w \in Worker, NEW n \in 1 .. MaxOptions,
               NEW options \in [1 .. n -> Option], Decide(w, options)
        PROVE  IInv'
    <3>1. options \in Seq(Option) /\ options # << >>
      BY <2>1 DEF Decide
    <3>2. engineLevel[w] \in AutonomyLevel
      BY <2>typed
    <3> DEFINE c == [Idle EXCEPT !.at = "evaluated", !.options = options,
                         !.chosen = Best(engineLevel[w], options),
                         !.confidence = Confidence(engineLevel[w], options),
                         !.level = engineLevel[w]]
    <3>3. Best(engineLevel[w], options) \in Nat
      BY <3>1, <3>2, BestIsBest, NonEmpty
    <3>4. Confidence(engineLevel[w], options) \in 0 .. 95
      BY <3>1, <3>2, ConfidenceRange
    <3>5. c \in Call
      <4>1. /\ options \in Options /\ Confidence(engineLevel[w], options) \in Percent
            /\ engineLevel[w] \in Level
        BY <3>1, <3>2, <3>4 DEF Options, Percent, Level, AutonomyLevel
      <4> QED BY <3>3, <4>1, IdleCall DEF Idle, Call
    <3>6. Decided(c) /\ c.at = "evaluated"
      BY <3>1, <3>2 DEF Idle, Decided
    <3>7. call' = [call EXCEPT ![w] = c] /\ call[w] = Idle
      BY <2>1 DEF Decide
    <3> HIDE DEF c
    <3>8. \A v \in Worker : mail'[v] # NoMail => call'[v].at = "communicate"
      <4>1. mail[w] = NoMail
        BY <2>typed, <3>7 DEF Idle
      <4> QED BY <2>1, <2>typed, <3>5, <3>7, <4>1 DEF Decide
    <3>9. Typed'
      BY <2>1, <2>typed, <3>5, <3>7, <3>8 DEF Decide, Typed
    <3>10. \A v \in Worker : Decided(call'[v])
      BY <2>typed, <3>6, <3>7
    <3>11. AutonomyKeepsUp'
      BY <2>1 DEF Decide, AutonomyKeepsUp, IInv
    <3> QED BY <3>9, <3>10, <3>11 DEF IInv, Decided
  <2>2. ASSUME NEW w \in Worker, Checked(w) PROVE IInv'
    <3> DEFINE f == [call[w] EXCEPT !.checked = autonomyLevel[w]]
    <3>1. /\ call[w] \in Call /\ Decided(call[w]) /\ call[w].at = "evaluated"
          /\ autonomyLevel[w] \in AutonomyLevel
      BY <2>2, <2>typed DEF Checked
    <3>2. f \in Call /\ f.at = "evaluated" /\ f.checked = autonomyLevel[w]
          /\ f.options = call[w].options /\ f.confidence = call[w].confidence
          /\ Decided(f)
      <4>1. autonomyLevel[w] \in Level
        BY <3>1 DEF Level, AutonomyLevel
      <4>2. f \in Call /\ f.checked = autonomyLevel[w]
            /\ f = [call[w] EXCEPT !.checked = autonomyLevel[w]]
        BY <3>1, <4>1 DEF Call
      <4>3. /\ f.at = "evaluated" /\ f.options = call[w].options
            /\ f.chosen = call[w].chosen /\ f.level = call[w].level
            /\ f.confidence = call[w].confidence
        BY <3>1, <4>2 DEF Call
      <4> HIDE DEF f
      <4> QED BY <3>1, <4>2, <4>3 DEF Decided
    <3>3. mail[w] = NoMail
      BY <2>typed, <3>1
    <3>4. CASE MustEscalate(w)
      <4> DEFINE g == [f EXCEPT !.escalated = TRUE]
      <4>1. escalate(w, g)
        BY <2>2, <3>4 DEF Checked
      <4>2. g \in Call /\ g.escalated /\ Decided(g)
        BY <3>2 DEF Call, Decided
      <4>3. UNCHANGED <<managerId, seniority, autonomyLevel, engineLevel>>
        BY <2>2 DEF Checked
      <4> HIDE DEF g
      <4> QED BY <3>3, <4>1, <4>2, <4>3, EscalateStep
    <3>5. CASE ~MustEscalate(w)
      <4> DEFINE g == [f EXCEPT !.at = "made"]
      <4>1. /\ call' = [call EXCEPT ![w] = g] /\ UNCHANGED <<pendingEscalations, mail>>
            /\ UNCHANGED <<managerId, seniority, autonomyLevel, engineLevel>>
        BY <2>2, <3>5 DEF Checked
      <4>conf. f.confidence >= 70
        <5>1. f.confidence \in 0 .. 95 /\ ~(f.confidence < 70)
          BY <3>2, <3>5 DEF MustEscalate, Call, Percent
        <5> QED BY <5>1
      <4>2. f.options # << >> => \A i \in DOMAIN f.options :
                                    f.options[i].impactLevel <= f.checked
        <5> SUFFICES ASSUME f.options # << >>, NEW i \in DOMAIN f.options
                     PROVE  f.options[i].impactLevel <= f.checked
          OBVIOUS
        <5>1. highestImpact(f.options) <= autonomyLevel[w]
          BY <3>2, <3>5 DEF MustEscalate, canDecideAutonomously
        <5>2. f.options \in Seq(Option)
          BY <3>2 DEF Call, Options
        <5>3. /\ highestImpact(f.options) \in Impact
              /\ f.options[i].impactLevel <= highestImpact(f.options)
          BY <5>2, HighestImpact
        <5>4. f.options[i].impactLevel \in Impact
          <6>1. f.options[i] \in Option
            BY <5>2, NonEmpty
          <6> QED BY <6>1 DEF Option
        <5> QED BY <3>1, <3>2, <5>1, <5>3, <5>4 DEF Impact, AutonomyLevel
      <4>3. g \in Call /\ Decided(g)
        BY <3>2, <4>conf, <4>2 DEF Call, Decided
      <4> HIDE DEF g
      <4>4. Typed'
        BY <2>typed, <3>3, <4>1, <4>3 DEF Typed
      <4>5. \A v \in Worker : Decided(call'[v])
        BY <2>typed, <4>1, <4>3
      <4>6. AutonomyKeepsUp'
        BY <4>1 DEF AutonomyKeepsUp, IInv
      <4> QED BY <4>4, <4>5, <4>6 DEF IInv, Decided
    <3> QED BY <3>4, <3>5
  <2>3. ASSUME NEW w \in Worker, Blocked(w) PROVE IInv'
    <3>1. Idle \in Call /\ Idle.options = << >> /\ Idle.at = "idle" /\ Decided(Idle)
      BY IdleCall DEF Idle
    <3>2. mail[w] = NoMail
      BY <2>3, <2>typed, <3>1 DEF Blocked
    <3> QED BY <2>3, <3>1, <3>2, EscalateStep DEF Blocked
  <2>4. ASSUME NEW w \in Worker, Communicated(w) \/ Return(w) PROVE IInv'
    <3> DEFINE g == [call[w] EXCEPT !.at = "made"]
    <3>1. Idle \in Call /\ Decided(Idle)
      BY IdleCall
    <3>2. call[w].at = "communicate" => g \in Call /\ Decided(g)
      BY <2>typed DEF Call, Decided
    <3>3. /\ \/ call[w].at = "communicate" /\ call' = [call EXCEPT ![w] = g]
             \/ call' = [call EXCEPT ![w] = Idle]
          /\ mail[w] = NoMail
          /\ UNCHANGED <<managerId, seniority, autonomyLevel, engineLevel,
                         pendingEscalations, mail>>
      BY <2>4, <2>typed DEF Communicated, Return
    <3> HIDE DEF g
    <3>4. PICK c \in Call : Decided(c) /\ call' = [call EXCEPT ![w] = c]
      BY <3>1, <3>2, <3>3
    <3>5. Typed'
      BY <2>typed, <3>3, <3>4 DEF Typed
    <3>6. \A v \in Worker : Decided(call'[v])
      BY <2>typed, <3>4
    <3>7. AutonomyKeepsUp'
      BY <3>3 DEF AutonomyKeepsUp, IInv
    <3> QED BY <3>5, <3>6, <3>7 DEF IInv, Decided
  <2>5. ASSUME NEW w \in Worker, CEOAnswers(w) \/ CTOIgnores(w) PROVE IInv'
    <3>1. mail' = [mail EXCEPT ![w] = NoMail]
          /\ UNCHANGED <<managerId, seniority, autonomyLevel, engineLevel, call>>
      BY <2>5 DEF CEOAnswers, CTOIgnores
    <3>2. pendingEscalations' \in [Worker -> Seq(BOOLEAN)]
      <4>1. CASE pendingEscalations' = pendingEscalations
        BY <2>typed, <4>1
      <4>2. CASE CEOAnswers(w)
        <5> DEFINE p(v) == [i \in DOMAIN pendingEscalations[v] |->
                   \/ pendingEscalations[v][i]
                   \/ v = Field(mail[w], "workerId") /\ i = Field(mail[w], "escalationId")]
        <5>1. ASSUME NEW v \in Worker PROVE p(v) \in Seq(BOOLEAN)
          <6>1. /\ pendingEscalations[v] \in Seq(BOOLEAN)
                /\ DOMAIN pendingEscalations[v] = 1 .. Len(pendingEscalations[v])
                /\ Len(pendingEscalations[v]) \in Nat
            BY <2>typed
          <6>2. p(v) \in [1 .. Len(pendingEscalations[v]) -> BOOLEAN]
            BY <6>1
          <6> HIDE DEF p
          <6> QED BY <6>1, <6>2
        <5>2. pendingEscalations' = [v \in Worker |-> p(v)]
          BY <4>2 DEF CEOAnswers
        <5> HIDE DEF p
        <5> QED BY <5>1, <5>2
      <4> QED BY <2>5, <4>1, <4>2 DEF CTOIgnores
    <3>3. Typed'
      BY <2>typed, <3>1, <3>2 DEF Typed, Mail
    <3>4. AutonomyKeepsUp'
      BY <3>1 DEF AutonomyKeepsUp, IInv
    <3> QED BY <2>typed, <3>1, <3>3, <3>4 DEF IInv, Decided
  <2>6. ASSUME NEW w \in Worker, Promote(w) \/ Improve(w) PROVE IInv'
    <3>1. /\ autonomyLevel' = [autonomyLevel EXCEPT
                                    ![w] = IF @ < 4 THEN @ + 1 ELSE @]
          /\ engineLevel' = [engineLevel EXCEPT ![w] = autonomyLevel'[w]]
          /\ UNCHANGED <<managerId, call, pendingEscalations, mail>>
          /\ \/ seniority' = seniority
             \/ seniority[w] < 5 /\ seniority' = [seniority EXCEPT ![w] = @ + 1]
      BY <2>6 DEF Promote, Improve, upgradeAutonomy
    <3> DEFINE up == IF autonomyLevel[w] < 4 THEN autonomyLevel[w] + 1
                                             ELSE autonomyLevel[w]
    <3>2. autonomyLevel'[w] = up /\ up \in AutonomyLevel
      BY <2>typed, <3>1 DEF AutonomyLevel
    <3>3. \A v \in Worker \ {w} : /\ autonomyLevel'[v] = autonomyLevel[v]
                                  /\ engineLevel'[v] = engineLevel[v]
                                  /\ seniority'[v] = seniority[v]
      BY <2>typed, <3>1
    <3>4. engineLevel'[w] = up
      BY <2>typed, <3>1, <3>2
    <3>5. Typed'
      <4>1. autonomyLevel' \in [Worker -> AutonomyLevel]
        BY <2>typed, <3>1, <3>2
      <4>2. engineLevel' \in [Worker -> AutonomyLevel]
        BY <2>typed, <3>1, <3>2
      <4>3. seniority' \in [Worker -> Seniority]
        <5>1. seniority[w] \in Seniority
          BY <2>typed
        <5>2. seniority[w] < 5 => seniority[w] + 1 \in Seniority
          BY <5>1 DEF Seniority
        <5> QED BY <2>typed, <3>1, <5>2
      <4> QED BY <2>typed, <3>1, <4>1, <4>2, <4>3 DEF Typed
    <3>6. AutonomyKeepsUp'
      <4>1. seniority[w] \in 1 .. 5 /\ autonomyLevel[w] \in 1 .. 4
            /\ autonomyLevel[w] >= AutonomyFor(seniority[w])
        BY <2>typed DEF IInv, AutonomyKeepsUp, Seniority, AutonomyLevel
      <4>2. seniority'[w] = seniority[w]
            \/ (seniority[w] < 5 /\ seniority'[w] = seniority[w] + 1)
        BY <2>typed, <3>1
      <4>3. up >= AutonomyFor(seniority'[w])
        BY <4>1, <4>2 DEF AutonomyFor
      <4> QED BY <3>2, <3>3, <3>4, <4>3 DEF IInv, AutonomyKeepsUp
    <3> QED BY <2>typed, <3>1, <3>5, <3>6 DEF IInv, Decided
  <2>7. CASE UNCHANGED vars
    BY <2>7 DEF vars, IInv, Typed, Decided, AutonomyKeepsUp
  <2> QED BY <2>1, <2>2, <2>3, <2>4, <2>5, <2>6, <2>7 DEF Next
<1> QED BY <1>1, <1>2, PTL DEF Spec

-----------------------------------------------------------------------------
\* The state is always well formed, a confidence a percentage.
THEOREM TypeCorrect == Spec => []TypeOK
<1>1. ASSUME IInv PROVE TypeOK
  <2>1. ASSUME NEW w \in Worker PROVE call[w].chosen \in 0 .. Len(call[w].options)
    <3>1. /\ call[w].options \in Seq(Option) /\ Decided(call[w])
          /\ Len(call[w].options) \in Nat
      BY <1>1 DEF IInv, Typed, Call, Options
    <3>2. CASE call[w].options = << >>
      BY <3>1, <3>2 DEF Decided
    <3>3. CASE call[w].options # << >>
      <4>1. call[w].chosen \in DOMAIN call[w].options
        BY <3>1, <3>3, BestIsBest DEF Decided
      <4> QED BY <3>1, <3>3, <4>1, NonEmpty
    <3> QED BY <3>2, <3>3
  <2>2. ASSUME NEW w \in Worker
        PROVE  /\ call[w].at \in {"idle", "evaluated", "communicate", "made"}
               /\ call[w].confidence \in 0 .. 95
    BY <1>1 DEF IInv, Typed, Call, Percent
  <2> QED BY <1>1, <2>1, <2>2 DEF IInv, Typed, TypeOK
<1> QED BY <1>1, Inductive, PTL

\* A decision a worker takes alone has the least risk of its options.
THEOREM AloneTheLeastRisk == Spec => []LeastRiskAlone
<1>1. ASSUME IInv PROVE LeastRiskAlone
  <2> SUFFICES ASSUME NEW w \in Worker, call[w].at = "made", call[w].options # << >>,
                      ~call[w].escalated, call[w].level = call[w].checked
               PROVE  LET chosen == call[w].options[call[w].chosen].risk
                      IN  /\ \A i \in DOMAIN call[w].options :
                                \/ chosen \in {"low", call[w].options[i].risk}
                                \/ call[w].options[i].risk = "high"
                          /\ chosen = "high" => Len(call[w].options) = 1
    BY DEF LeastRiskAlone
  <2>1. call[w] \in Call /\ Decided(call[w])
    BY <1>1 DEF IInv, Typed
  <2>2. call[w].options \in Seq(Option)
    BY <2>1 DEF Call, Options
  <2>3. /\ call[w].level \in AutonomyLevel
        /\ call[w].chosen = Best(call[w].level, call[w].options)
        /\ \A i \in DOMAIN call[w].options : call[w].options[i].impactLevel <= call[w].level
        /\ call[w].confidence = Confidence(call[w].level, call[w].options)
        /\ call[w].confidence >= 70
    BY <2>1 DEF Decided
  <2>4. ASSUME call[w].options[call[w].chosen].risk = "high" PROVE Len(call[w].options) = 1
    <3>1. call[w].confidence \in 0 .. 95
      BY <2>1 DEF Call, Percent
    <3>2. Len(call[w].options) # 1 => Confidence(call[w].level, call[w].options) < 70
      BY <2>2, <2>3, <2>4, HighRiskIsUnsure
    <3> DEFINE c == call[w].confidence
    <3>3. c \in 0 .. 95 /\ c >= 70 /\ (Len(call[w].options) # 1 => c < 70)
      BY <2>3, <3>1, <3>2
    <3> HIDE DEF c
    <3> QED BY <3>3
  <2> QED BY <2>2, <2>3, <2>4, BestHasLeastRisk
<1> QED BY <1>1, Inductive, PTL

\* Decision engine and profile agree on a worker's autonomy, which never falls
\* behind its seniority.
THEOREM LevelsAgree == Spec => []AutonomyKeepsUp
<1>1. IInv => AutonomyKeepsUp
  BY DEF IInv
<1> QED BY <1>1, Inductive, PTL
=============================================================================
