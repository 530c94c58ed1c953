------------------------------ MODULE Escalation ------------------------------
(***************************************************************************)
(* Decisions and who takes them: a worker evaluates its options            *)
(* (DecisionEngine), takes the decision alone when its autonomy and the    *)
(* confidence allow it, or escalates it to its manager, as it escalates    *)
(* work that is blocked; the CEO decides and answers.  Meanwhile the       *)
(* worker may be promoted.  An action is a stretch between two awaits.     *)
(*                                                                         *)
(* Levels are positions in the ladders of the code; scores and confidence  *)
(* are in hundredths.  What an escalation does to the goal it is about is  *)
(* BaseWorker's subject.  Left out: the "escalated" listener of Department, *)
(* which looks for the head among the workers, where it never is.          *)
(***************************************************************************)
EXTENDS Integers, Sequences

CONSTANTS Worker,
          Manager,         \* who a worker may report to: "ceo", "cto", "none"
          MaxOptions,      \* bound: options of a decision
          MaxEscalations   \* bound: escalations of a worker

ASSUME EscalationAssumption ==
    /\ Manager \subseteq {"ceo", "cto", "none"}
    /\ MaxOptions \in Nat /\ MaxEscalations \in Nat

AutonomyLevel == 1 .. 4   \* supervised, guided, independent, executive
Seniority == 1 .. 5       \* junior, mid, senior, principal, executive
Impact == 1 .. 5          \* trivial, minor, moderate, major, critical
Risk == {"low", "medium", "high"}
Option == [risk : Risk, impactLevel : Impact]

\* profile.autonomyLevel as hire sets it from the seniority.
AutonomyFor(seniority) == IF seniority < 4 THEN seniority ELSE 4

VARIABLES managerId,          \* worker -> its manager
          seniority, autonomyLevel,
          engineLevel,        \* worker -> DecisionEngine.autonomyLevel
          call,               \* worker -> its call of decide or of escalate
          pendingEscalations, \* worker -> for each escalation: resolved or not
          mail                \* worker -> its message in its manager's handler

vars == <<managerId, seniority, autonomyLevel, engineLevel, call,
          pendingEscalations, mail>>

Idle == [at |-> "idle", options |-> << >>, chosen |-> 0, confidence |-> 0,
         level |-> 0, checked |-> 0, escalated |-> FALSE]
NoMail == [type |-> "none"]

Init == /\ managerId \in [Worker -> Manager]
        /\ seniority \in [Worker -> Seniority]
        /\ autonomyLevel = [w \in Worker |-> AutonomyFor(seniority[w])]
        /\ engineLevel = autonomyLevel
        /\ call = [w \in Worker |-> Idle]
        /\ pendingEscalations = [w \in Worker |-> << >>]
        /\ mail = [w \in Worker |-> NoMail]

-----------------------------------------------------------------------------
(* DecisionEngine                                                          *)

\* Weights with the extremes exchanged.
riskWeight_Reversed(risk) == CASE risk = "low" -> 4 [] risk = "medium" -> 7
                               [] risk = "high" -> 10

riskWeight(risk) == CASE risk = "low" -> 10 [] risk = "medium" -> 7
                      [] risk = "high" -> 4

getAutonomyMultiplier(level, impact) ==
    << << 9,  5,  2, 0, 0>>,
       <<10,  9,  5, 2, 0>>,
       <<10, 10,  9, 5, 2>>,
       <<10, 10, 10, 9, 7>> >>[level][impact]

Score(level, o) == riskWeight(o.risk) * getAutonomyMultiplier(level, o.impactLevel)

\* The first of the options with the highest score.
Best(level, options) ==
    CHOOSE i \in DOMAIN options : \A j \in DOMAIN options :
        \/ Score(level, options[i]) > Score(level, options[j])
        \/ Score(level, options[i]) = Score(level, options[j]) /\ i <= j

\* A confidence without its cap.
Confidence_Uncapped(level, options) ==
    LET best == Best(level, options)
        others == {Score(level, options[j]) : j \in DOMAIN options \ {best}}
        second == CHOOSE s \in others \cup {0} : \A r \in others : r <= s
    IN  50 + Score(level, options[best]) - second + 3 * riskWeight(options[best].risk)

\* Half, plus the lead over the second best, plus a share for low risk.
Confidence(level, options) ==
    LET best == Best(level, options)
        others == {Score(level, options[j]) : j \in DOMAIN options \ {best}}
        second == CHOOSE s \in others \cup {0} : \A r \in others : r <= s
        sum == 50 + Score(level, options[best]) - second
                  + 3 * riskWeight(options[best].risk)
    IN  IF sum < 95 THEN sum ELSE 95

-----------------------------------------------------------------------------
(* BaseWorker                                                              *)

canDecideAutonomously(w, impact) == impact <= autonomyLevel[w]

highestImpact(options) ==
    CHOOSE m \in {options[i].impactLevel : i \in DOMAIN options} :
        \A i \in DOMAIN options : options[i].impactLevel <= m

\* decide up to its first await, with evaluate; without an option that throws.
Decide(w, options) ==
    /\ call[w] = Idle /\ options # << >>
    /\ call' = [call EXCEPT ![w] =
            [Idle EXCEPT !.at = "evaluated", !.options = options,
                         !.chosen = Best(engineLevel[w], options),
                         !.confidence = Confidence(engineLevel[w], options),
                         !.level = engineLevel[w]]]
    /\ UNCHANGED <<managerId, seniority, autonomyLevel, engineLevel,
                   pendingEscalations, mail>>

MustEscalate(w) ==
    \/ ~canDecideAutonomously(w, highestImpact(call[w].options))
    \/ call[w].confidence < 70

\* escalate, from a call that goes on as f: nobody is told of what has no
\* manager; otherwise the message is published and its handler awaited.
escalate(w, f) ==
    IF managerId[w] = "none"
    THEN /\ call' = [call EXCEPT ![w] = [f EXCEPT !.at = "made"]]
         /\ UNCHANGED <<pendingEscalations, mail>>
    ELSE /\ Len(pendingEscalations[w]) < MaxEscalations
         /\ call' = [call EXCEPT ![w] = [f EXCEPT !.at = "communicate"]]
         /\ pendingEscalations' = [pendingEscalations EXCEPT ![w] = Append(@, FALSE)]
         /\ mail' = [mail EXCEPT ![w] =
                [type |-> "escalation", from |-> w,
                 escalation |-> [workerId |-> w,
                                 escalationId |-> Len(pendingEscalations[w]) + 1]]]

\* The check after the await, against the autonomy of the moment.
Checked(w) ==
    /\ call[w].at = "evaluated"
    /\ LET f == [call[w] EXCEPT !.checked = autonomyLevel[w]]
       IN  IF MustEscalate(w)
           THEN escalate(w, [f EXCEPT !.escalated = TRUE])
           ELSE /\ call' = [call EXCEPT ![w] = [f EXCEPT !.at = "made"]]
                /\ UNCHANGED <<pendingEscalations, mail>>
    /\ UNCHANGED <<managerId, seniority, autonomyLevel, engineLevel>>

\* executeGoal escalates work it cannot do.
Blocked(w) == /\ call[w] = Idle
              /\ escalate(w, Idle)
              /\ UNCHANGED <<managerId, seniority, autonomyLevel, engineLevel>>

\* The manager's handler has settled, and communicate with it.
Communicated(w) ==
    /\ call[w].at = "communicate" /\ mail[w] = NoMail
    /\ call' = [call EXCEPT ![w].at = "made"]
    /\ UNCHANGED <<managerId, seniority, autonomyLevel, engineLevel,
                   pendingEscalations, mail>>

\* decide returns its decision, or escalate.
Return(w) == /\ call[w].at = "made"
             /\ call' = [call EXCEPT ![w] = Idle]
             /\ UNCHANGED <<managerId, seniority, autonomyLevel, engineLevel,
                            pendingEscalations, mail>>

-----------------------------------------------------------------------------
(* The executives                                                          *)

\* What message[field] is in JavaScript.
Field(message, field) == IF field \in DOMAIN message THEN message[field] ELSE "undefined"

\* CEO.handleExecutiveEscalation reads the message itself.  Its options are
\* fixed and it always approves; the answer goes to the topic of its addressee,
\* whose handler, if there is one, resolves the escalation it names.
CEOAnswers(w) ==
    /\ managerId[w] = "ceo" /\ mail[w] # NoMail
    /\ LET addressee == Field(mail[w], "workerId")
           id == Field(mail[w], "escalationId")
       IN  pendingEscalations' = [v \in Worker |->
               [i \in DOMAIN pendingEscalations[v] |->
                   pendingEscalations[v][i] \/ (v = addressee /\ i = id)]]
    /\ mail' = [mail EXCEPT ![w] = NoMail]
    /\ UNCHANGED <<managerId, seniority, autonomyLevel, engineLevel, call>>

\* The CTO knows technical_escalation, not escalation.
CTOIgnores(w) ==
    /\ managerId[w] = "cto" /\ mail[w] # NoMail
    /\ mail' = [mail EXCEPT ![w] = NoMail]
    /\ UNCHANGED <<managerId, seniority, autonomyLevel, engineLevel, call,
                   pendingEscalations>>

\* An upgrade that the decision engine is not told of.
upgradeAutonomy_ProfileOnly(w) ==
    /\ autonomyLevel' = [autonomyLevel EXCEPT ![w] = IF @ < 4 THEN @ + 1 ELSE @]
    /\ UNCHANGED engineLevel

upgradeAutonomy(w) ==
    /\ autonomyLevel' = [autonomyLevel EXCEPT ![w] = IF @ < 4 THEN @ + 1 ELSE @]
    /\ engineLevel' = [engineLevel EXCEPT ![w] = autonomyLevel'[w]]

\* Department.promote: at the top of the ladder nothing changes.
Promote(w) == /\ seniority[w] < 5
              /\ seniority' = [seniority EXCEPT ![w] = @ + 1]
              /\ upgradeAutonomy(w)
              /\ UNCHANGED <<managerId, call, pendingEscalations, mail>>

\* runImprovementCycle, of a worker that is good and improving.
Improve(w) == /\ upgradeAutonomy(w)
              /\ UNCHANGED <<managerId, seniority, call, pendingEscalations, mail>>

-----------------------------------------------------------------------------
Next == \E w \in Worker :
            \/ Checked(w) \/ Blocked(w) \/ Communicated(w) \/ Return(w)
            \/ Promote(w) \/ Improve(w)
            \/ CEOAnswers(w) \/ CTOIgnores(w)
            \/ \E n \in 1 .. MaxOptions : \E options \in [1 .. n -> Option] :
                    Decide(w, options)

Spec == Init /\ [][Next]_vars

\* Awaits end: handlers run and the calls that wait for them go on.
FairSpec == /\ Spec
            /\ \A w \in Worker : /\ WF_vars(Checked(w)) /\ WF_vars(Communicated(w))
                                 /\ WF_vars(CEOAnswers(w)) /\ WF_vars(CTOIgnores(w))

-----------------------------------------------------------------------------
\* Calls and escalations are well formed, and a message waits only for a call
\* that waits for it.
TypeOK ==
    /\ managerId \in [Worker -> Manager] /\ seniority \in [Worker -> Seniority]
    /\ autonomyLevel \in [Worker -> AutonomyLevel]
    /\ engineLevel \in [Worker -> AutonomyLevel]
    /\ \A w \in Worker :
         /\ call[w].at \in {"idle", "evaluated", "communicate", "made"}
         /\ call[w].chosen \in 0 .. Len(call[w].options)
         /\ call[w].confidence \in 0 .. 95
         /\ pendingEscalations[w] \in Seq(BOOLEAN)
         /\ mail[w] # NoMail => call[w].at = "communicate"

\* A decision a worker takes alone chooses an option of the least risk there
\* is, and one of high risk only for want of another: the scores of evaluate,
\* the bar of 0.7 and the autonomy matrix together never trade risk for
\* impact, unless the autonomy changed in the await between evaluate and the
\* check (decide, DecisionEngine.evaluate).
LeastRiskAlone ==
    \A w \in Worker :
        call[w].at = "made" /\ call[w].options # << >> /\ ~call[w].escalated
          /\ call[w].level = call[w].checked =>
            LET chosen == call[w].options[call[w].chosen].risk
            IN  /\ \A i \in DOMAIN call[w].options :
                      \/ chosen \in {"low", call[w].options[i].risk}
                      \/ call[w].options[i].risk = "high"
                /\ chosen = "high" => Len(call[w].options) = 1

\* The level the decision engine scores with is the worker's own, and never
\* below what its seniority earns a newcomer, whatever promotions and
\* improvement cycles came before (promote, upgradeAutonomy, hire).
AutonomyKeepsUp ==
    \A w \in Worker : /\ engineLevel[w] = autonomyLevel[w]
                      /\ autonomyLevel[w] >= AutonomyFor(seniority[w])

\* "Respond to escalator" (CEO.ts): an escalation to the CEO is answered.
EscalationAnswered ==
    \A w \in Worker : \A i \in 1 .. MaxEscalations :
        managerId[w] = "ceo" /\ i \in DOMAIN pendingEscalations[w]
            ~> i \in DOMAIN pendingEscalations[w] /\ pendingEscalations[w][i]
=============================================================================
