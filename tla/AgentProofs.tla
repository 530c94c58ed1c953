----------------------------- MODULE AgentProofs -----------------------------
(***************************************************************************)
(* Proofs about Agent, for any tools, budgets, requests and responses.     *)
(* The invariant follows one invocation from await to await: what has been *)
(* logged and whether the tool has run, at each place where a port may     *)
(* reject.                                                                 *)
(* The second half is about assembleContext, which is functions on         *)
(* sequences: what the loop over the sorted sources has selected, and that *)
(* the sort keeps them all.                                                *)
(* The last section proves that tool calls end, from what it assumes of the *)
(* ports and the orchestrator.                                             *)
(***************************************************************************)
EXTENDS Agent, SequenceTheorems, FiniteSetTheorems, WellFoundedInduction, TLAPS

At == {"validate", "sanitizeInput", "resolve", "execute", "sanitizeOutput",
       "logDenied", "logSuccess", "logError", "returned"}
Reply == {"none", "ok", "denied", "notFound", "failed", "rejected"}
Audit == Seq(BOOLEAN)

Typed == /\ state \in AgentState
         /\ inv \in [at : At, tool : Tool \cup {NoTool}, allowed : BOOLEAN,
                     ran : BOOLEAN, reply : Reply]
         /\ audit \in Audit

ContextTyped == /\ DOMAIN ctx = DOMAIN NoContext
                /\ ctx.at \in {"workingStore", "embed", "retrieval", "returned"}
                /\ ctx.reply \in {"none", "ok", "rejected"}
                /\ ctx.at # "returned" => ctx.reply = "none"
                /\ ctx.at \in {"embed", "retrieval"} => ctx.working \in Nat

Numbers == tokensUsed \in Nat /\ inFlight \in 0 .. MaxInFlight

\* How far an invocation has come, and what it has left behind.
Progress ==
    /\ inv.at # "returned" \/ state \in {"tool_waiting", "retrying"} =>
            inv.tool \in AllowedTools
    /\ inv.at \in {"sanitizeInput", "resolve", "execute"} => inv.allowed
    /\ inv.at = "execute" => inv.tool \in Registered
    /\ inv.at \in {"validate", "sanitizeInput", "resolve", "execute", "logDenied"} =>
            ~inv.ran
    /\ inv.at \in {"sanitizeOutput", "logSuccess"} => inv.ran
    /\ inv.at \notin {"logError", "returned"} => audit = << >>
    /\ inv.at = "returned" /\ inv.reply \in {"none", "notFound"} => ~inv.ran

IInv == Typed /\ ContextTyped /\ Numbers /\ Progress /\ AnswerMatchesRecord
              /\ OvershootIsBounded /\ ContextWithinBudget

-----------------------------------------------------------------------------
\* What is not in the program's transition table does not happen.
LEMMA TransitionTyped ==
    ASSUME Typed, NEW e, transition(e)
    PROVE  state' \in AgentState
BY DEF transition

LEMMA Logged ==
    ASSUME NEW a \in Audit, NEW flag \in BOOLEAN
    PROVE  /\ Append(a, flag) \in Audit /\ Append(a, flag) # << >>
           /\ Append(a, flag)[Len(Append(a, flag))] = flag
           /\ a = << >> => Append(a, flag) = <<flag>>
<1>1. a \in Seq(BOOLEAN)
  BY DEF Audit
<1>2. /\ Append(a, flag) \in Seq(BOOLEAN) /\ Append(a, flag) # << >>
      /\ Len(Append(a, flag)) = Len(a) + 1
      /\ Append(a, flag)[Len(a) + 1] = flag
  BY <1>1, AppendProperties
<1>3. Append(<< >>, flag) = <<flag>>
  OBVIOUS
<1> QED BY <1>2, <1>3 DEF Audit

\* A step of an invocation, whatever the port it waits for does.
LEMMA InvokeKeeps ==
    ASSUME Typed, Progress, AnswerMatchesRecord, InvokeStep, state' = state
    PROVE  Typed' /\ Progress' /\ AnswerMatchesRecord'
<1> USE DEF Typed, Progress, AnswerMatchesRecord, At, Reply, Goto, Return
<1>1. CASE Validate
  BY <1>1 DEF Validate
<1>2. CASE SanitizeInput
  BY <1>2 DEF SanitizeInput
<1>3. CASE Resolve
  BY <1>3 DEF Resolve
<1>4. CASE Execute
  BY <1>4 DEF Execute
<1>5. CASE SanitizeOutput
  BY <1>5 DEF SanitizeOutput
<1>6. CASE LogDenied
  <2>1. Append(audit, FALSE) \in Audit /\ Append(audit, FALSE) = <<FALSE>>
    BY <1>6, Logged DEF LogDenied
  <2> QED BY <1>6, <2>1 DEF LogDenied, Log
<1>7. CASE LogSuccess
  <2>1. /\ inv.ran /\ audit = << >> /\ inv.tool \in AllowedTools \cap Registered
        /\ inv.allowed
    BY <1>7 DEF LogSuccess
  <2>2. Append(audit, TRUE) \in Audit /\ Append(audit, TRUE) = <<TRUE>>
    BY <2>1, Logged
  <2>3. CASE inv' = [inv EXCEPT !.at = "returned", !.reply = "ok"] /\ audit' = <<TRUE>>
    <3>1. inv'.at = "returned" /\ inv'.reply = "ok" /\ inv'.ran = inv.ran
          /\ inv'.tool = inv.tool /\ inv'.allowed = inv.allowed
      BY <2>3
    <3>2. audit' \in Audit /\ audit' # << >>
      BY <2>2, <2>3
    <3> QED BY <2>1, <2>3, <3>1, <3>2
  <2>4. CASE inv' = [inv EXCEPT !.at = "logError"] /\ audit' \in Audit
    BY <2>1, <2>4
  <2> QED BY <1>7, <2>2, <2>3, <2>4 DEF LogSuccess, Log
<1>8. CASE LogError
  <2>1. /\ Append(audit, FALSE) \in Audit /\ Append(audit, FALSE) # << >>
        /\ Append(audit, FALSE)[Len(Append(audit, FALSE))] = FALSE
    BY Logged
  <2> QED BY <1>8, <2>1 DEF LogError, Log
<1> QED BY <1>1, <1>2, <1>3, <1>4, <1>5, <1>6, <1>7, <1>8 DEF InvokeStep

\* The orchestrator begins an invocation, only of a tool the agent declares.
LEMMA InvokeBegins ==
    ASSUME Typed, Progress, AnswerMatchesRecord, NEW t \in AllowedTools,
           NEW e, transition(e), invoke(t)
    PROVE  Typed' /\ Progress' /\ AnswerMatchesRecord'
<1>1. t \in Tool /\ state' \in AgentState /\ << >> \in Audit
  BY AgentAssumption, TransitionTyped DEF Audit
<1>2. inv' = [NoInvocation EXCEPT !.at = "validate", !.tool = t] /\ audit' = << >>
  BY DEF invoke
<1>3. /\ inv'.at = "validate" /\ inv'.tool = t /\ inv'.ran = FALSE
      /\ inv' \in [at : At, tool : Tool \cup {NoTool}, allowed : BOOLEAN,
                   ran : BOOLEAN, reply : Reply]
  BY <1>1, <1>2 DEF NoInvocation, At, Reply
<1> QED BY <1>1, <1>2, <1>3 DEF Typed, Progress, AnswerMatchesRecord

\* Events that leave the invocation alone.
LEMMA EventKeeps ==
    ASSUME Typed, Progress, AnswerMatchesRecord, NEW e, transition(e),
           e \notin {"TOOL_CALL", "RETRY"}, UNCHANGED <<inv, audit>>
    PROVE  Typed' /\ Progress' /\ AnswerMatchesRecord'
<1>1. state' \in AgentState
  BY TransitionTyped
<1>2. state' \in {"tool_waiting", "retrying"} => state \in {"tool_waiting", "retrying"}
  BY DEF transition, AGENT_TRANSITIONS
<1> QED BY <1>1, <1>2 DEF Typed, Progress, AnswerMatchesRecord

-----------------------------------------------------------------------------
LEMMA Times ==
    ASSUME NEW m \in Nat, NEW i \in Nat, NEW k \in Nat, i <= k
    PROVE  i * m \in Nat /\ k * m \in Nat /\ i * m <= k * m
<1>1. PICK d \in Nat : k = i + d
  <2>1. k - i \in Nat /\ k = i + (k - i)
    OBVIOUS
  <2> QED BY <2>1
<1>2. k * m = i * m + d * m
  BY <1>1
<1>3. i * m \in Nat /\ k * m \in Nat /\ d * m \in Nat
  OBVIOUS
<1> QED BY <1>2, <1>3

\* A completion is counted as a whole response before it is asked for.
LEMMA CompletionsKeep ==
    ASSUME Numbers, OvershootIsBounded,
           \/ Completed
           \/ \E n \in Requests : Complete(n)
    PROVE  Numbers' /\ OvershootIsBounded'
<1>1. /\ tokensUsed \in Nat /\ inFlight \in Nat /\ inFlight <= MaxInFlight
      /\ MaxResponse \in Nat /\ MaxInFlight \in Nat /\ TaskBudget \in Nat
      /\ Requests \subseteq Nat
  BY AgentAssumption DEF Numbers
<1>2. CASE Completed
  <2>1. PICK n \in 0 .. MaxResponse : tokensUsed' = tokensUsed + n
    BY <1>2 DEF Completed
  <2>2. inFlight > 0 /\ inFlight' = inFlight - 1
    BY <1>2 DEF Completed
  <2>3. inFlight' * MaxResponse = inFlight * MaxResponse - MaxResponse
    BY <1>1, <2>2
  <2> DEFINE a == inFlight * MaxResponse
             b == inFlight' * MaxResponse
             c == MaxInFlight * MaxResponse
  <2>4. a \in Nat /\ b \in Int /\ c \in Nat /\ b = a - MaxResponse
    BY <1>1, <2>2, <2>3
  <2> HIDE DEF a, b, c
  <2>5. ASSUME NEW least \in Requests, \A n2 \in Requests : least <= n2
        PROVE  tokensUsed' + b <= TaskBudget - least + c
    <3>1. tokensUsed + a <= TaskBudget - least + c
      BY <2>2, <2>5 DEF OvershootIsBounded, a, c
    <3>2. least \in Nat
      BY <1>1
    <3> QED BY <1>1, <2>1, <2>4, <3>1, <3>2
  <2>6. Numbers'
    BY <1>1, <2>1, <2>2 DEF Numbers
  <2> QED BY <2>5, <2>6 DEF OvershootIsBounded, b, c
<1>3. ASSUME NEW n \in Requests, Complete(n)
      PROVE  Numbers' /\ OvershootIsBounded'
  <2>1. /\ tokensUsed + n <= TaskBudget /\ inFlight < MaxInFlight
        /\ inFlight' = inFlight + 1 /\ tokensUsed' = tokensUsed
    BY <1>3 DEF Complete, MayComplete
  <2>2. inFlight' \in Nat /\ inFlight' <= MaxInFlight
    BY <1>1, <2>1
  <2>3. inFlight' * MaxResponse <= MaxInFlight * MaxResponse
    BY <1>1, <2>2, Times
  <2> DEFINE b == inFlight' * MaxResponse
             c == MaxInFlight * MaxResponse
  <2>4. b \in Nat /\ c \in Nat /\ b <= c
    BY <1>1, <2>2, Times
  <2> HIDE DEF b, c
  <2>5. ASSUME NEW least \in Requests, \A n2 \in Requests : least <= n2
        PROVE  tokensUsed' + b <= TaskBudget - least + c
    <3>1. least \in Nat /\ n \in Nat /\ least <= n
      BY <1>1, <2>5
    <3> QED BY <1>1, <2>1, <2>4, <3>1
  <2>6. Numbers'
    BY <1>1, <2>1, <2>2 DEF Numbers
  <2> QED BY <2>5, <2>6 DEF OvershootIsBounded, b, c
<1> QED BY <1>2, <1>3

-----------------------------------------------------------------------------
(* Induction over a bounded range, from the well-foundedness of < on the    *)
(* naturals: the library's induction theorems take an operator, these take  *)
(* the set of the numbers at which a fact holds.                            *)

\* A set of naturals has a least element.
LEMMA Least ==
    ASSUME NEW T, T \subseteq Nat, T # {}
    PROVE  \E n \in T : \A m \in T : n <= m
<1> DEFINE R == OpToRel(<, Nat)
<1>1. \A x, y \in Nat : <<x, y>> \in R <=> x < y
  BY DEF OpToRel
<1>2. IsWellFoundedOn(R, Nat)
  BY NatLessThanWellFounded
<1> HIDE DEF R
<1>3. PICK n \in T : \A m \in T : ~(<<m, n>> \in R)
  BY <1>2, WFMin
<1>4. \A m \in T : m \in Nat /\ n \in Nat /\ ~(m < n)
  BY <1>1, <1>3
<1> QED BY <1>4

\* What holds at 0, and at n + 1 if at n, holds at all numbers up to N.
LEMMA Induct ==
    ASSUME NEW N \in Nat, NEW T, T \subseteq 0 .. N, 0 \in T,
           \A n \in 0 .. N - 1 : n \in T => n + 1 \in T
    PROVE  T = 0 .. N
<1> SUFFICES ASSUME NEW k \in 0 .. N, k \notin T PROVE FALSE
  OBVIOUS
<1> DEFINE U == {n \in 0 .. N : n \notin T}
<1>1. U \subseteq Nat /\ k \in U
  OBVIOUS
<1> HIDE DEF U
<1>2. PICK n \in U : \A m \in U : n <= m
  BY <1>1, Least
<1> QED BY <1>2 DEF U

\* f is what a loop of N turns computes: b at first, then step of the last value.
Unrolled(f, N, b, step) == f[0] = b /\ \A i \in 1 .. N : f[i] = step[<<f[i - 1], i>>]

\* There is such an f for every step: a loop can be defined by recursion.
LEMMA Unroll ==
    ASSUME NEW N \in Nat, NEW A, NEW b \in A, NEW step \in [A \X (1 .. N) -> A]
    PROVE  \E f \in [0 .. N -> A] : Unrolled(f, N, b, step)
<1> DEFINE F(n, f) == /\ f \in [0 .. n -> A] /\ f[0] = b
                      /\ \A i \in 1 .. n : f[i] = step[<<f[i - 1], i>>]
           T == {n \in 0 .. N : \E f : F(n, f)}
<1>1. 0 \in T
  <2> DEFINE g == [i \in 0 .. 0 |-> b]
  <2>1. g \in [0 .. 0 -> A] /\ g[0] = b /\ 1 .. 0 = {}
    OBVIOUS
  <2>2. F(0, g)
    BY <2>1
  <2> HIDE DEF F, g
  <2> QED BY <2>2
<1>2. ASSUME NEW n \in 0 .. N - 1, n \in T PROVE n + 1 \in T
  <2>1. PICK f : F(n, f)
    BY <1>2
  <2> DEFINE g == [i \in 0 .. n + 1 |-> IF i = n + 1 THEN step[<<f[n], i>>] ELSE f[i]]
  <2>2. f[n] \in A /\ step[<<f[n], n + 1>>] \in A
    BY <2>1
  <2>3. g \in [0 .. n + 1 -> A] /\ g[0] = b
    BY <2>1, <2>2
  <2>4. ASSUME NEW i \in 1 .. n + 1 PROVE g[i] = step[<<g[i - 1], i>>]
    <3>1. CASE i = n + 1
      BY <3>1
    <3>2. CASE i # n + 1
      BY <2>1, <3>2
    <3> QED BY <3>1, <3>2
  <2>5. F(n + 1, g)
    BY <2>3, <2>4
  <2> HIDE DEF F, g
  <2> QED BY <2>5
<1>3. T \subseteq 0 .. N
  OBVIOUS
<1> HIDE DEF T
<1>4. T = 0 .. N
  BY <1>1, <1>2, <1>3, Induct
<1>5. PICK f : F(N, f)
  BY <1>4 DEF T
<1> QED BY <1>5 DEF Unrolled

-----------------------------------------------------------------------------
(* The context: counting, selecting and sorting sources                     *)

Tier == {"episodic", "semantic", "procedural"}
Source == [tier : Tier, sourceId : SourceId, relevance : Nat, tokens : Nat]

\* countTokens, source by source.
LEMMA SumsUnrolled ==
    ASSUME NEW s \in Seq(Source)
    PROVE  /\ Sums(s) \in [0 .. Len(s) -> Nat] /\ Sums(s)[0] = 0
           /\ \A i \in 1 .. Len(s) : Sums(s)[i] = Sums(s)[i - 1] + s[i].tokens
<1> DEFINE N == Len(s)
           step == [p \in Nat \X (1 .. N) |-> p[1] + s[p[2]].tokens]
           Sum(f) == f = [i \in 0 .. N |-> IF i = 0 THEN 0 ELSE f[i - 1] + s[i].tokens]
<1>1. N \in Nat /\ \A i \in 1 .. N : s[i].tokens \in Nat
  <2>1. N \in Nat /\ \A i \in 1 .. N : s[i] \in Source
    BY LenProperties, ElementOfSeq
  <2> QED BY <2>1 DEF Source
<1>2. step \in [Nat \X (1 .. N) -> Nat]
  BY <1>1
<1>3. \A n \in Nat : \A i \in 1 .. N : step[<<n, i>>] = n + s[i].tokens
  OBVIOUS
<1> HIDE DEF step, N
<1>4. PICK f \in [0 .. N -> Nat] : Unrolled(f, N, 0, step)
  BY <1>1, <1>2, Unroll
<1>5. \A i \in 1 .. N : i - 1 \in 0 .. N /\ f[i - 1] \in Nat
  BY <1>1, <1>4
<1>6. \A i \in 0 .. N : f[i] = IF i = 0 THEN 0 ELSE f[i - 1] + s[i].tokens
  <2>1. ASSUME NEW i \in 1 .. N PROVE f[i] = f[i - 1] + s[i].tokens
    BY <1>3, <1>4, <1>5 DEF Unrolled
  <2>2. \A i \in 0 .. N : i = 0 \/ i \in 1 .. N
    BY <1>1
  <2> QED BY <1>4, <2>1, <2>2 DEF Unrolled
<1>7. Sum(f)
  BY <1>4, <1>6
<1>8. Sums(s) = CHOOSE g : Sum(g)
  BY DEF Sums, N
<1>9. Sum(Sums(s))
  BY <1>7, <1>8
<1>a. Sums(s) \in [0 .. N -> Nat]
  <2> DEFINE g == Sums(s)
             T == {i \in 0 .. N : g[i] \in Nat}
  <2>1. g = [i \in 0 .. N |-> g[i]] /\ g[0] = 0
    BY <1>1, <1>9
  <2>2. \A i \in 1 .. N : g[i] = g[i - 1] + s[i].tokens
    BY <1>1, <1>9
  <2>3. T \subseteq 0 .. N /\ 0 \in T
    BY <1>1, <2>1
  <2>4. ASSUME NEW n \in 0 .. N - 1, n \in T PROVE n + 1 \in T
    <3>1. n + 1 \in 1 .. N /\ n + 1 \in 0 .. N /\ (n + 1) - 1 = n
      BY <1>1
    <3>2. g[n + 1] = g[n] + s[n + 1].tokens
      BY <2>2, <3>1
    <3> QED BY <1>1, <2>4, <3>1, <3>2
  <2> HIDE DEF T, g
  <2>5. T = 0 .. N
    BY <1>1, <2>3, <2>4, Induct
  <2> QED BY <2>1, <2>5 DEF T, g
<1> QED BY <1>1, <1>9, <1>a DEF N

\* Sequences that agree up to n have the same sum there.
LEMMA SumsAgree ==
    ASSUME NEW s \in Seq(Source), NEW t \in Seq(Source),
           NEW n \in Nat, n <= Len(s), n <= Len(t), \A i \in 1 .. n : s[i] = t[i]
    PROVE  Sums(s)[n] = Sums(t)[n]
<1> DEFINE f == Sums(s)
           g == Sums(t)
           T == {i \in 0 .. n : f[i] = g[i]}
<1>1. Len(s) \in Nat /\ Len(t) \in Nat
  OBVIOUS
<1>2. /\ f \in [0 .. Len(s) -> Nat] /\ f[0] = 0
      /\ \A i \in 1 .. Len(s) : f[i] = f[i - 1] + s[i].tokens
  BY SumsUnrolled
<1>3. /\ g \in [0 .. Len(t) -> Nat] /\ g[0] = 0
      /\ \A i \in 1 .. Len(t) : g[i] = g[i - 1] + t[i].tokens
  BY SumsUnrolled
<1> HIDE DEF f, g
<1>4. T \subseteq 0 .. n /\ 0 \in T
  BY <1>2, <1>3
<1>5. ASSUME NEW i \in 0 .. n - 1, i \in T PROVE i + 1 \in T
  <2>1. /\ i + 1 \in 1 .. Len(s) /\ i + 1 \in 1 .. Len(t) /\ i + 1 \in 0 .. n
        /\ i + 1 \in 1 .. n /\ (i + 1) - 1 = i
    BY <1>1
  <2>2. f[i + 1] = f[i] + s[i + 1].tokens /\ g[i + 1] = g[i] + t[i + 1].tokens
    BY <1>2, <1>3, <2>1
  <2> QED BY <1>5, <2>1, <2>2
<1> HIDE DEF T
<1>6. T = 0 .. n
  BY <1>4, <1>5, Induct
<1>7. n \in T
  BY <1>6
<1> QED BY <1>7 DEF T, f, g

\* One source more counts its tokens more.
LEMMA CountAppend ==
    ASSUME NEW s \in Seq(Source), NEW x \in Source
    PROVE  /\ countTokens(s) \in Nat
           /\ countTokens(Append(s, x)) = countTokens(s) + x.tokens
<1>1. /\ Append(s, x) \in Seq(Source) /\ Len(Append(s, x)) = Len(s) + 1
      /\ \A i \in 1 .. Len(s) : Append(s, x)[i] = s[i]
      /\ Append(s, x)[Len(s) + 1] = x /\ Len(s) \in Nat
  BY AppendProperties, LenProperties
<1>2. Sums(Append(s, x))[Len(s)] = Sums(s)[Len(s)]
  <2> DEFINE t == Append(s, x)
  <2>1. /\ t \in Seq(Source) /\ Len(s) \in Nat /\ Len(s) <= Len(t)
        /\ Len(s) <= Len(s) /\ \A i \in 1 .. Len(s) : t[i] = s[i]
    BY <1>1
  <2> HIDE DEF t
  <2>2. Sums(t)[Len(s)] = Sums(s)[Len(s)]
    BY <2>1, SumsAgree
  <2> QED BY <2>2 DEF t
<1>3. Sums(s)[Len(s)] \in Nat
  BY <1>1, SumsUnrolled
<1>4. \A i \in 1 .. Len(Append(s, x)) :
          Sums(Append(s, x))[i] = Sums(Append(s, x))[i - 1] + Append(s, x)[i].tokens
  BY <1>1, SumsUnrolled
<1>5. Len(s) + 1 \in 1 .. Len(Append(s, x)) /\ (Len(s) + 1) - 1 = Len(s)
  BY <1>1
<1>6. Sums(Append(s, x))[Len(s) + 1] = Sums(Append(s, x))[Len(s)] + x.tokens
  BY <1>1, <1>4, <1>5
<1> QED BY <1>1, <1>2, <1>3, <1>6 DEF countTokens

\* Nothing counts nothing.
LEMMA CountNone == countTokens(<< >>) = 0
<1>1. << >> \in Seq(Source) /\ Len(<< >>) = 0
  OBVIOUS
<1> QED BY <1>1, SumsUnrolled DEF countTokens

\* What the loop of selectWithinBudget carries from turn to turn.
Selection == [selected : Seq(Source), used : Nat]

\* One turn of the loop gives a selection again.
LEMMA ConsideredTyped ==
    ASSUME NEW l \in Selection, NEW x \in Source, NEW budget
    PROVE  Considered(l, x, budget) \in Selection
<1>1. Append(l.selected, x) \in Seq(Source) /\ l.used + x.tokens \in Nat
  BY AppendProperties DEF Selection, Source
<1> QED BY <1>1 DEF Considered, Selection

\* The loop of selectWithinBudget, turn by turn.
LEMMA SelectionsUnrolled ==
    ASSUME NEW s \in Seq(Source), NEW budget
    PROVE  /\ Selections(s, budget) \in [0 .. Len(s) -> Selection]
           /\ Selections(s, budget)[0] = [selected |-> << >>, used |-> 0]
           /\ \A i \in 1 .. Len(s) : Selections(s, budget)[i]
                  = Considered(Selections(s, budget)[i - 1], s[i], budget)
<1> DEFINE N == Len(s)
           b == [selected |-> << >>, used |-> 0]
           step == [p \in Selection \X (1 .. N) |-> Considered(p[1], s[p[2]], budget)]
           Loop(f) == f = [i \in 0 .. N |-> IF i = 0 THEN b
                                            ELSE Considered(f[i - 1], s[i], budget)]
<1>1. N \in Nat /\ \A i \in 1 .. N : s[i] \in Source
  BY LenProperties, ElementOfSeq
<1>2. step \in [Selection \X (1 .. N) -> Selection]
  <2>1. \A p \in Selection \X (1 .. N) : p[1] \in Selection /\ s[p[2]] \in Source
    BY <1>1
  <2>2. \A p \in Selection \X (1 .. N) : Considered(p[1], s[p[2]], budget) \in Selection
    BY <2>1, ConsideredTyped
  <2> QED BY <2>2
<1>3. \A l \in Selection : \A i \in 1 .. N : step[<<l, i>>] = Considered(l, s[i], budget)
  OBVIOUS
<1>b. b \in Selection
  BY DEF Selection
<1>8. Selections(s, budget) = CHOOSE f : Loop(f)
  BY DEF Selections
<1> HIDE DEF step, N, b
<1>4. PICK f \in [0 .. N -> Selection] : Unrolled(f, N, b, step)
  BY <1>1, <1>2, <1>b, Unroll
<1>5. \A i \in 0 .. N : f[i] = IF i = 0 THEN b ELSE Considered(f[i - 1], s[i], budget)
  <2>1. ASSUME NEW i \in 1 .. N PROVE f[i] = Considered(f[i - 1], s[i], budget)
    <3>1. f[i - 1] \in Selection
      BY <1>1, <1>4
    <3> QED BY <1>3, <1>4, <3>1 DEF Unrolled
  <2>2. \A i \in 0 .. N : i = 0 \/ i \in 1 .. N
    BY <1>1
  <2> QED BY <1>4, <2>1, <2>2 DEF Unrolled
<1>6. Loop(f)
  BY <1>4, <1>5
<1>7. Loop(Selections(s, budget))
  BY <1>6, <1>8
<1>c. /\ Selections(s, budget)[0] = b
      /\ \A i \in 1 .. N : Selections(s, budget)[i]
                = Considered(Selections(s, budget)[i - 1], s[i], budget)
  <2> DEFINE g == Selections(s, budget)
  <2>1. g = [i \in 0 .. N |-> IF i = 0 THEN b ELSE Considered(g[i - 1], s[i], budget)]
    BY <1>7
  <2> HIDE DEF g
  <2>2. \A i \in 1 .. N : i \in 0 .. N /\ i # 0
    BY <1>1
  <2>3. g[0] = b /\ \A i \in 1 .. N : g[i] = Considered(g[i - 1], s[i], budget)
    BY <1>1, <2>1, <2>2
  <2> QED BY <2>3 DEF g
<1>9. Selections(s, budget) \in [0 .. N -> Selection]
  <2> DEFINE g == Selections(s, budget)
             T == {i \in 0 .. N : g[i] \in Selection}
  <2>1. g = [i \in 0 .. N |-> g[i]] /\ g[0] = b
    BY <1>1, <1>7
  <2>2. \A i \in 1 .. N : g[i] = Considered(g[i - 1], s[i], budget)
    BY <1>c
  <2>3. T \subseteq 0 .. N /\ 0 \in T
    BY <1>1, <1>b, <2>1
  <2>4. ASSUME NEW n \in 0 .. N - 1, n \in T PROVE n + 1 \in T
    <3>1. n + 1 \in 1 .. N /\ n + 1 \in 0 .. N /\ (n + 1) - 1 = n
      BY <1>1
    <3>2. g[n + 1] = Considered(g[n], s[n + 1], budget)
      BY <2>2, <3>1
    <3> QED BY <1>1, <2>4, <3>1, <3>2, ConsideredTyped
  <2> HIDE DEF T, g
  <2>5. T = 0 .. N
    BY <1>1, <2>3, <2>4, Induct
  <2> QED BY <2>1, <2>5 DEF T, g
<1> QED BY <1>9, <1>c DEF N, b

Chosen(x, selected) == \E k \in 1 .. Len(selected) : selected[k] = x

\* x did not fit beside the first n that were selected, no less relevant.
NoRoom(x, selected, budget) ==
    \E n \in 0 .. Len(selected) :
        /\ \A i \in 1 .. n : selected[i].relevance >= x.relevance
        /\ countTokens(SubSeq(selected, 1, n)) + x.tokens > budget

\* The loop's invariant: what l has selected of the first d sources of s.
Packed(l, s, d, budget) ==
    /\ l.used = countTokens(l.selected)
    /\ l.used <= budget \/ l.selected = << >>
    /\ Len(l.selected) <= d
    /\ \A k \in 1 .. Len(l.selected) : \E j \in 1 .. d : l.selected[k] = s[j]
    /\ \A j \in 1 .. d : Chosen(s[j], l.selected) \/ NoRoom(s[j], l.selected, budget)
    /\ Len(l.selected) = d <=> \A j \in 1 .. d : Chosen(s[j], l.selected)

\* No source occurs twice, and the most relevant come first.
Distinct(s) == \A i, j \in 1 .. Len(s) : s[i] = s[j] => i = j
Descending(s) == \A i, j \in 1 .. Len(s) : i < j => s[i].relevance >= s[j].relevance

\* What did not fit still does not when more is selected.
LEMMA StillNoRoom ==
    ASSUME NEW sel \in Seq(Source), NEW x \in Source, NEW y \in Source, NEW budget,
           NoRoom(x, sel, budget)
    PROVE  NoRoom(x, Append(sel, y), budget)
<1> DEFINE new == Append(sel, y)
<1>1. PICK n \in 0 .. Len(sel) :
             /\ \A i \in 1 .. n : sel[i].relevance >= x.relevance
             /\ countTokens(SubSeq(sel, 1, n)) + x.tokens > budget
  BY DEF NoRoom
<1>2. /\ new \in Seq(Source) /\ Len(new) = Len(sel) + 1 /\ Len(sel) \in Nat
      /\ \A i \in 1 .. Len(sel) : new[i] = sel[i]
  BY AppendProperties, LenProperties
<1> HIDE DEF new
<1>3. SubSeq(new, 1, n) = SubSeq(sel, 1, n)
  BY <1>2
<1>4. \A i \in 1 .. n : new[i].relevance >= x.relevance
  BY <1>1, <1>2
<1>5. n \in 0 .. Len(new)
  BY <1>2
<1> QED BY <1>1, <1>3, <1>4, <1>5 DEF NoRoom, new

\* Each turn of the loop keeps its invariant.
LEMMA TurnKeepsPacked ==
    ASSUME NEW s \in Seq(Source), Distinct(s), Descending(s), NEW budget \in Int,
           NEW d \in 0 .. Len(s) - 1, NEW l \in Selection, Packed(l, s, d, budget)
    PROVE  Packed(Considered(l, s[d + 1], budget), s, d + 1, budget)
<1> DEFINE x == s[d + 1]
           sel == l.selected
<1>1. Len(s) \in Nat /\ d + 1 \in 1 .. Len(s) /\ \A j \in 1 .. Len(s) : s[j] \in Source
  BY LenProperties, ElementOfSeq
<1>2. sel \in Seq(Source) /\ Len(sel) \in Nat /\ x \in Source
  BY <1>1, LenProperties DEF Selection
<1>3. \A j \in 1 .. d : j \in 1 .. Len(s) /\ j # d + 1
  BY <1>1
<1>4. \A j \in 1 .. d : s[j] # x /\ s[j].relevance >= x.relevance
  BY <1>1, <1>3 DEF Distinct, Descending
<1>5. ~Chosen(x, sel)
  BY <1>4 DEF Packed, Chosen
<1>6. \A j \in 1 .. d + 1 : j \in 1 .. d \/ j = d + 1
  BY <1>1
<1>7. x.tokens \in Nat /\ x.relevance \in Nat
  BY <1>2 DEF Source
<1>8. CASE l.used + x.tokens <= budget
  <2> DEFINE new == Append(sel, x)
             m == [selected |-> new, used |-> l.used + x.tokens]
  <2>1. Considered(l, x, budget) = m
    BY <1>8 DEF Considered
  <2>2. /\ new \in Seq(Source) /\ Len(new) = Len(sel) + 1
        /\ \A i \in 1 .. Len(sel) : new[i] = sel[i]
        /\ new[Len(sel) + 1] = x
    BY <1>2, AppendProperties
  <2>3. countTokens(new) = countTokens(sel) + x.tokens
    BY <1>2, CountAppend
  <2>4. \A j \in 1 .. d : NoRoom(s[j], sel, budget) => NoRoom(s[j], new, budget)
    BY <1>1, <1>2, <1>3, StillNoRoom
  <2> HIDE DEF new
  <2>5. \A k \in 1 .. Len(new) : k \in 1 .. Len(sel) \/ k = Len(sel) + 1
    BY <1>2, <2>2
  <2>6. Chosen(x, new)
    BY <1>2, <2>2 DEF Chosen
  <2>7. \A j \in 1 .. d : Chosen(s[j], new) <=> Chosen(s[j], sel)
    <3> SUFFICES ASSUME NEW j \in 1 .. d PROVE Chosen(s[j], new) <=> Chosen(s[j], sel)
      OBVIOUS
    <3>1. ASSUME NEW k \in 1 .. Len(new), new[k] = s[j] PROVE Chosen(s[j], sel)
      <4>1. k \in 1 .. Len(sel)
        BY <1>4, <2>2, <2>5, <3>1
      <4> QED BY <2>2, <3>1, <4>1 DEF Chosen
    <3>2. ASSUME NEW k \in 1 .. Len(sel), sel[k] = s[j] PROVE Chosen(s[j], new)
      <4>1. k \in 1 .. Len(new) /\ new[k] = s[j]
        BY <1>2, <2>2, <3>2
      <4> QED BY <4>1 DEF Chosen
    <3> QED BY <3>1, <3>2 DEF Chosen
  <2>8. m.used = countTokens(m.selected) /\ m.used <= budget /\ Len(new) <= d + 1
    BY <1>2, <1>8, <2>2, <2>3 DEF Packed
  <2>9. \A k \in 1 .. Len(new) : \E j \in 1 .. d + 1 : new[k] = s[j]
    <3>1. ASSUME NEW k \in 1 .. Len(sel) PROVE \E j \in 1 .. d + 1 : new[k] = s[j]
      <4>1. PICK j \in 1 .. d : sel[k] = s[j]
        BY DEF Packed
      <4>2. j \in 1 .. d + 1 /\ new[k] = s[j]
        BY <1>1, <2>2, <4>1
      <4> QED BY <4>2
    <3>2. d + 1 \in 1 .. d + 1
      BY <1>1
    <3> QED BY <2>2, <2>5, <3>1, <3>2
  <2>a. \A j \in 1 .. d + 1 : Chosen(s[j], new) \/ NoRoom(s[j], new, budget)
    BY <1>6, <2>4, <2>6, <2>7 DEF Packed
  <2>b. Len(new) = d + 1 <=> \A j \in 1 .. d + 1 : Chosen(s[j], new)
    <3>1. (\A j \in 1 .. d + 1 : Chosen(s[j], new)) <=> \A j \in 1 .. d : Chosen(s[j], sel)
      BY <1>1, <1>6, <2>6, <2>7
    <3>2. Len(new) = d + 1 <=> Len(sel) = d
      BY <1>1, <1>2, <2>2
    <3> QED BY <3>1, <3>2 DEF Packed
  <2>c. Packed(m, s, d + 1, budget)
    BY <2>8, <2>9, <2>a, <2>b DEF Packed
  <2> QED BY <2>1, <2>c
<1>9. CASE ~(l.used + x.tokens <= budget)
  <2>1. Considered(l, x, budget) = l
    BY <1>9 DEF Considered
  <2>2. NoRoom(x, sel, budget)
    <3>1. SubSeq(sel, 1, Len(sel)) = sel
      BY <1>2, SubSeqFull
    <3>2. \A i \in 1 .. Len(sel) : sel[i].relevance >= x.relevance
      BY <1>4 DEF Packed
    <3>3. countTokens(sel) \in Nat /\ l.used = countTokens(sel)
      BY <1>2, CountAppend DEF Packed
    <3>4. countTokens(SubSeq(sel, 1, Len(sel))) + x.tokens > budget
      <4>1. ASSUME NEW u \in Nat, NEW v \in Nat, ~(u + v <= budget) PROVE u + v > budget
        BY <4>1
      <4> QED BY <1>7, <1>9, <3>1, <3>3, <4>1
    <3> QED BY <1>2, <3>2, <3>4 DEF NoRoom
  <2>3. Len(sel) <= d + 1 /\ Len(sel) # d + 1
    BY <1>1, <1>2 DEF Packed
  <2>4. \A j \in 1 .. d + 1 : Chosen(s[j], sel) \/ NoRoom(s[j], sel, budget)
    BY <1>6, <2>2 DEF Packed
  <2>5. Len(sel) = d + 1 <=> \A j \in 1 .. d + 1 : Chosen(s[j], sel)
    BY <1>1, <1>5, <2>3
  <2>6. \A k \in 1 .. Len(sel) : \E j \in 1 .. d + 1 : sel[k] = s[j]
    <3>1. \A j \in 1 .. d : j \in 1 .. d + 1
      BY <1>1
    <3> QED BY <3>1 DEF Packed
  <2>7. Packed(l, s, d + 1, budget)
    BY <2>3, <2>4, <2>5, <2>6 DEF Packed
  <2> QED BY <2>1, <2>7
<1> QED BY <1>8, <1>9

\* So it holds when the loop ends.
LEMMA LoopPacks ==
    ASSUME NEW s \in Seq(Source), Distinct(s), Descending(s), NEW budget \in Int
    PROVE  /\ Selections(s, budget)[Len(s)] \in Selection
           /\ Packed(Selections(s, budget)[Len(s)], s, Len(s), budget)
<1> DEFINE g == Selections(s, budget)
           N == Len(s)
           T == {d \in 0 .. N : Packed(g[d], s, d, budget)}
<1>1. N \in Nat
  OBVIOUS
<1>2. /\ g \in [0 .. N -> Selection] /\ g[0] = [selected |-> << >>, used |-> 0]
      /\ \A i \in 1 .. N : g[i] = Considered(g[i - 1], s[i], budget)
  BY SelectionsUnrolled
<1> HIDE DEF g
<1>3. Packed(g[0], s, 0, budget)
  BY <1>2, CountNone DEF Packed
<1>4. ASSUME NEW d \in 0 .. N - 1, d \in T PROVE d + 1 \in T
  <2>1. d + 1 \in 1 .. N /\ d + 1 \in 0 .. N /\ (d + 1) - 1 = d /\ d \in 0 .. N
    BY <1>1
  <2>2. g[d + 1] = Considered(g[d], s[d + 1], budget) /\ g[d] \in Selection
    BY <1>2, <2>1
  <2>3. Packed(g[d + 1], s, d + 1, budget)
    BY <1>4, <2>2, TurnKeepsPacked
  <2> QED BY <2>1, <2>3
<1>5. T \subseteq 0 .. N /\ 0 \in T
  BY <1>1, <1>3
<1> HIDE DEF T, N
<1>6. T = 0 .. N
  BY <1>1, <1>4, <1>5, Induct
<1>7. N \in T /\ N \in 0 .. N
  BY <1>1, <1>6
<1> QED BY <1>2, <1>7 DEF T, g, N

\* The order of ByRelevance and the place of source i in it.
Before(s, i, j) == \/ s[i].relevance > s[j].relevance
                   \/ s[i].relevance = s[j].relevance /\ i < j
Ahead(s, i) == {j \in DOMAIN s : Before(s, j, i)}
Place(s, i) == 1 + Cardinality(Ahead(s, i))

\* A source has a place among the others.
LEMMA PlaceTyped ==
    ASSUME NEW s \in Seq(Source), NEW i \in 1 .. Len(s)
    PROVE  /\ IsFiniteSet(Ahead(s, i)) /\ Cardinality(Ahead(s, i)) \in Nat
           /\ i \notin Ahead(s, i) /\ Place(s, i) \in 1 .. Len(s)
           /\ s[i].relevance \in Nat
<1> DEFINE N == Len(s)
           A == Ahead(s, i)
<1>1. N \in Nat /\ DOMAIN s = 1 .. N
  OBVIOUS
<1>2. s[i].relevance \in Nat
  <2>1. s[i] \in Source
    BY ElementOfSeq
  <2> QED BY <2>1 DEF Source
<1>3. A \subseteq 1 .. N /\ i \notin A
  BY <1>1, <1>2 DEF Ahead, Before
<1> HIDE DEF A, N
<1>4. IsFiniteSet(1 .. N) /\ Cardinality(1 .. N) = N
  BY <1>1, FS_Interval
<1>5. /\ IsFiniteSet(A) /\ Cardinality(A) <= N
      /\ Cardinality(1 .. N) = Cardinality(A) => 1 .. N = A
  BY <1>3, <1>4, FS_Subset
<1>6. Cardinality(A) \in Nat
  BY <1>5, FS_CardinalityType
<1>7. Cardinality(A) # N
  BY <1>3, <1>4, <1>5 DEF N
<1>8. 1 + Cardinality(A) \in 1 .. N
  BY <1>1, <1>5, <1>6, <1>7
<1> QED BY <1>2, <1>3, <1>5, <1>6, <1>8 DEF A, N, Place

\* The order is total, so no two sources have the same place.
LEMMA PlacesDiffer ==
    ASSUME NEW s \in Seq(Source), NEW i \in 1 .. Len(s), NEW j \in 1 .. Len(s), i # j
    PROVE  /\ Before(s, i, j) \/ Before(s, j, i)
           /\ Before(s, i, j) => Place(s, i) < Place(s, j)
<1>1. Before(s, i, j) \/ Before(s, j, i)
  <2>1. s[i].relevance \in Nat /\ s[j].relevance \in Nat
    BY PlaceTyped
  <2>2. i \in Int /\ j \in Int
    OBVIOUS
  <2> QED BY <2>1, <2>2 DEF Before
<1>2. ASSUME Before(s, i, j) PROVE Place(s, i) < Place(s, j)
  <2> DEFINE A == Ahead(s, i)
             B == Ahead(s, j)
  <2>1. DOMAIN s = 1 .. Len(s) /\ \A k \in 1 .. Len(s) : s[k].relevance \in Nat
    BY PlaceTyped
  <2>2. A \subseteq B /\ i \in B
    BY <1>2, <2>1 DEF Ahead, Before
  <2>3. IsFiniteSet(B) /\ Cardinality(B) \in Nat /\ Cardinality(A) \in Nat /\ i \notin A
    BY PlaceTyped
  <2> HIDE DEF A, B
  <2>4. Cardinality(A) <= Cardinality(B) /\ (Cardinality(B) = Cardinality(A) => B = A)
    BY <2>2, <2>3, FS_Subset
  <2>5. Cardinality(A) < Cardinality(B)
    BY <2>2, <2>3, <2>4
  <2> QED BY <2>3, <2>5 DEF A, B, Place
<1> QED BY <1>1, <1>2

\* sort permutes: each place has its source, and each source its place.
LEMMA PlacesTaken ==
    ASSUME NEW s \in Seq(Source)
    PROVE  /\ \A i \in 1 .. Len(s) : Place(s, i) \in 1 .. Len(s)
           /\ \A k \in 1 .. Len(s) : \E i \in 1 .. Len(s) : Place(s, i) = k
           /\ \A i, j \in 1 .. Len(s) : Place(s, i) = Place(s, j) => i = j
<1> DEFINE N == Len(s)
           p == [i \in 1 .. N |-> Place(s, i)]
<1>1. N \in Nat
  OBVIOUS
<1>2. \A i \in 1 .. N : Place(s, i) \in 1 .. N
  BY PlaceTyped
<1>3. ASSUME NEW i \in 1 .. N, NEW j \in 1 .. N, Place(s, i) = Place(s, j) PROVE i = j
  <2> SUFFICES ASSUME i # j PROVE FALSE
    OBVIOUS
  <2>1. /\ Before(s, i, j) \/ Before(s, j, i)
        /\ Before(s, i, j) => Place(s, i) < Place(s, j)
        /\ Before(s, j, i) => Place(s, j) < Place(s, i)
    BY PlacesDiffer
  <2>2. Place(s, i) \in Int /\ Place(s, j) \in Int
    BY <1>1, <1>2
  <2> QED BY <1>3, <2>1, <2>2
<1>4. p \in [1 .. N -> 1 .. N] /\ \A i, j \in 1 .. N : p[i] = p[j] => i = j
  BY <1>2, <1>3
<1>5. \A i \in 1 .. N : p[i] = Place(s, i)
  OBVIOUS
<1> HIDE DEF p, N
<1>6. IsFiniteSet(1 .. N)
  BY <1>1, FS_Interval
<1>7. p \in Injection(1 .. N, 1 .. N)
  BY <1>4 DEF Injection, IsInjective
<1>8. p \in Surjection(1 .. N, 1 .. N)
  BY <1>6, <1>7, FS_Injection
<1>9. \A k \in 1 .. N : \E i \in 1 .. N : p[i] = k
  BY <1>8 DEF Surjection
<1> QED BY <1>2, <1>3, <1>5, <1>9 DEF N

\* sort gives the same sources, each once, by descending relevance.
LEMMA SortPermutes ==
    ASSUME NEW s \in Seq(Source), Distinct(s)
    PROVE  /\ ByRelevance(s) \in Seq(Source) /\ Len(ByRelevance(s)) = Len(s)
           /\ Distinct(ByRelevance(s)) /\ Descending(ByRelevance(s))
           /\ ToSet(ByRelevance(s)) = ToSet(s)
<1> DEFINE N == Len(s)
           at(k) == CHOOSE i \in 1 .. N : Place(s, i) = k
           r == [k \in 1 .. N |-> s[at(k)]]
<1>1. N \in Nat /\ DOMAIN s = 1 .. N /\ \A i \in 1 .. N : s[i] \in Source
  BY LenProperties, ElementOfSeq
<1>2. ByRelevance(s) = r
  BY <1>1 DEF ByRelevance, Place, Ahead, Before
<1>3. /\ \A i \in 1 .. N : Place(s, i) \in 1 .. N
      /\ \A k \in 1 .. N : \E i \in 1 .. N : Place(s, i) = k
      /\ \A i, j \in 1 .. N : Place(s, i) = Place(s, j) => i = j
  BY PlacesTaken
<1>4. \A k \in 1 .. N : at(k) \in 1 .. N /\ Place(s, at(k)) = k
  BY <1>3
<1>5. \A i \in 1 .. N : at(Place(s, i)) = i
  BY <1>3, <1>4
<1> HIDE DEF at
<1>6. r \in Seq(Source) /\ Len(r) = N /\ DOMAIN r = 1 .. N
  BY <1>1, <1>4
<1>7. \A k \in 1 .. N : r[k] = s[at(k)]
  OBVIOUS
<1> HIDE DEF r, N
<1>8. Distinct(r)
  <2> SUFFICES ASSUME NEW k \in 1 .. N, NEW m \in 1 .. N, r[k] = r[m] PROVE k = m
    BY <1>6 DEF Distinct
  <2>1. at(k) = at(m)
    BY <1>4, <1>7 DEF Distinct, N
  <2> QED BY <1>4, <2>1
<1>9. Descending(r)
  <2> SUFFICES ASSUME NEW k \in 1 .. N, NEW m \in 1 .. N, k < m
               PROVE  r[k].relevance >= r[m].relevance
    BY <1>6 DEF Descending
  <2>1. /\ at(k) \in 1 .. N /\ at(m) \in 1 .. N /\ Place(s, at(k)) = k /\ Place(s, at(m)) = m
    BY <1>4
  <2>2. at(k) # at(m)
    BY <1>1, <2>1
  <2>3. Before(s, at(k), at(m))
    <3>1. Before(s, at(m), at(k)) => m < k
      BY <2>1, <2>2, PlacesDiffer DEF N
    <3>2. Before(s, at(k), at(m)) \/ Before(s, at(m), at(k))
      BY <2>1, <2>2, PlacesDiffer DEF N
    <3> QED BY <1>1, <3>1, <3>2
  <2>4. s[at(k)].relevance \in Nat /\ s[at(m)].relevance \in Nat
    BY <1>1, <2>1 DEF Source
  <2> QED BY <1>7, <2>3, <2>4 DEF Before
<1>a. ToSet(r) = ToSet(s)
  <2>1. \A k \in 1 .. N : \E i \in 1 .. N : r[k] = s[i]
    BY <1>4, <1>7
  <2>2. \A i \in 1 .. N : \E k \in 1 .. N : r[k] = s[i]
    BY <1>3, <1>5, <1>7
  <2>3. ToSet(r) = {r[k] : k \in 1 .. N} /\ ToSet(s) = {s[i] : i \in 1 .. N}
    BY <1>1, <1>6 DEF ToSet
  <2> QED BY <2>1, <2>2, <2>3
<1> QED BY <1>2, <1>6, <1>8, <1>9, <1>a DEF N

\* What selectWithinBudget returns, for any sources and any budget.
LEMMA SelectionPacked ==
    ASSUME NEW s \in Seq(Source), Distinct(s), NEW budget \in Int,
           NEW sel, sel = selectWithinBudget(s, budget)
    PROVE  /\ sel \in Seq(Source)
           /\ countTokens(sel) <= budget \/ sel = << >>
           /\ Len(sel) < Len(s) <=> ToSet(s) \ ToSet(sel) # {}
           /\ \A x \in ToSet(s) \ ToSet(sel) : NoRoom(x, sel, budget)
<1> DEFINE r == ByRelevance(s)
           N == Len(s)
           l == Selections(r, budget)[N]
<1>1. /\ r \in Seq(Source) /\ Len(r) = N /\ Distinct(r) /\ Descending(r)
      /\ ToSet(r) = ToSet(s) /\ N \in Nat
  BY SortPermutes
<1>2. sel = l.selected
  BY DEF selectWithinBudget
<1> HIDE DEF r
<1>3. l \in Selection /\ Packed(l, r, N, budget)
  BY <1>1, LoopPacks
<1> HIDE DEF l, N
<1>4. sel \in Seq(Source) /\ Len(sel) \in Nat
  BY <1>2, <1>3, LenProperties DEF Selection
<1>5. countTokens(sel) <= budget \/ sel = << >>
  BY <1>2, <1>3 DEF Packed
<1>6. \A x : x \in ToSet(s) <=> \E j \in 1 .. N : r[j] = x
  BY <1>1, LenProperties DEF ToSet
<1>7. \A x : x \in ToSet(sel) <=> Chosen(x, sel)
  BY <1>4, LenProperties DEF ToSet, Chosen
<1>8. \A j \in 1 .. N : Chosen(r[j], sel) \/ NoRoom(r[j], sel, budget)
  BY <1>2, <1>3 DEF Packed
<1>9. Len(sel) <= N /\ (Len(sel) = N <=> \A j \in 1 .. N : Chosen(r[j], sel))
  BY <1>2, <1>3 DEF Packed
<1>a. Len(sel) < N <=> \E j \in 1 .. N : ~Chosen(r[j], sel)
  BY <1>1, <1>4, <1>9
<1>b. (\E j \in 1 .. N : ~Chosen(r[j], sel)) <=> ToSet(s) \ ToSet(sel) # {}
  BY <1>6, <1>7
<1> QED BY <1>4, <1>5, <1>6, <1>7, <1>8, <1>a, <1>b DEF N

\* Sources of certain tiers, told apart.
Apart(s, tiers) == /\ s \in Seq(Source) /\ Distinct(s)
                   /\ \A i \in 1 .. Len(s) : s[i].tier \in tiers

\* What one tier returned is told apart by its ids, and tiers by their names.
LEMMA BuiltApart ==
    ASSUME NEW found \in Results \cup {<< >>}, NEW tier \in Tier
    PROVE  Apart(Built(tier, found), {tier})
<1> DEFINE b == Built(tier, found)
<1>1. /\ found \in Seq(Entry)
      /\ \A i, j \in DOMAIN found : found[i].sourceId = found[j].sourceId => i = j
  <2>1. CASE found \in Results
    BY <2>1, ContextAssumption
  <2>2. CASE found = << >>
    BY <2>2
  <2> QED BY <2>1, <2>2
<1>2. /\ Len(found) \in Nat /\ DOMAIN found = 1 .. Len(found)
      /\ \A i \in 1 .. Len(found) : found[i] \in Entry
  BY <1>1, LenProperties, ElementOfSeq
<1> HIDE DEF b
<1>3. ASSUME NEW i \in 1 .. Len(found)
      PROVE  /\ b[i] \in Source /\ b[i].tier = tier
             /\ b[i].sourceId = found[i].sourceId
  <2>1. b[i] = [tier |-> tier, sourceId |-> found[i].sourceId,
                relevance |-> found[i].relevance, tokens |-> found[i].tokens]
    BY <1>2 DEF Built, b
  <2>2. found[i] \in Entry
    BY <1>2
  <2> QED BY <2>1, <2>2 DEF Source, Entry
<1>4. b = [i \in 1 .. Len(found) |-> b[i]]
  BY <1>2 DEF Built, b
<1>5. b \in Seq(Source) /\ Len(b) = Len(found)
  BY <1>2, <1>3, <1>4
<1>6. Distinct(b)
  BY <1>1, <1>2, <1>3, <1>5 DEF Distinct
<1> QED BY <1>3, <1>5, <1>6 DEF Apart, b

\* Joining the results of different tiers tells them apart too.
LEMMA JoinedApart ==
    ASSUME NEW s, NEW t, NEW S, NEW T, Apart(s, S), Apart(t, T), S \cap T = {}
    PROVE  Apart(s \o t, S \cup T)
<1> DEFINE b == s \o t
           m == Len(s)
           n == Len(t)
<1>1. s \in Seq(Source) /\ t \in Seq(Source)
  BY DEF Apart
<1>2. /\ b \in Seq(Source) /\ Len(b) = m + n /\ m \in Nat /\ n \in Nat
      /\ \A k \in 1 .. m + n : b[k] = IF k <= m THEN s[k] ELSE t[k - m]
  BY <1>1, ConcatProperties, LenProperties
<1> HIDE DEF b
<1> DEFINE First(k) == k \in 1 .. m /\ b[k] = s[k] /\ b[k].tier \in S
           Second(k) == k - m \in 1 .. n /\ b[k] = t[k - m] /\ b[k].tier \in T
<1>3. \A k \in 1 .. m + n : First(k) \/ Second(k)
  BY <1>2 DEF Apart
<1>4. ASSUME NEW k \in 1 .. m + n, NEW h \in 1 .. m + n, b[k] = b[h] PROVE k = h
  <2>1. First(k) /\ First(h) => k = h
    BY <1>4 DEF Apart, Distinct
  <2>2. ASSUME Second(k), Second(h) PROVE k = h
    <3>1. k - m = h - m
      BY <1>4, <2>2 DEF Apart, Distinct
    <3> QED BY <1>2, <3>1
  <2>3. ~(First(k) /\ Second(h)) /\ ~(Second(k) /\ First(h))
    <3>1. b[k].tier = b[h].tier
      BY <1>4
    <3>2. \A x : ~(x \in S /\ x \in T)
      OBVIOUS
    <3> QED BY <3>1, <3>2
  <2> HIDE DEF First, Second
  <2> QED BY <1>3, <2>1, <2>2, <2>3
<1> HIDE DEF First, Second
<1> HIDE DEF m, n
<1>5. Distinct(b)
  BY <1>2, <1>4 DEF Distinct
<1>6. \A k \in 1 .. Len(b) : b[k].tier \in S \cup T
  BY <1>2, <1>3 DEF First, Second
<1> QED BY <1>2, <1>5, <1>6 DEF Apart, b

\* Retrieved packs the bundle, whatever the searches return.
LEMMA BundlePacked ==
    ASSUME ContextTyped, Retrieved
    PROVE  ContextWithinBudget'
<1> DEFINE w == ctx.working
           budget == TokenBudget - w
<1>0. PICK found \in [1 .. 3 -> Results \cup {<< >>}] : \E s, sel :
             /\ s = Built("episodic", found[1]) \o Built("semantic", found[2])
                                                 \o Built("procedural", found[3])
             /\ sel = selectWithinBudget(s, budget)
             /\ ctx' = [ctx EXCEPT !.at = "returned", !.sources = s, !.selected = sel,
                           !.total = w + countTokens(sel),
                           !.truncated = Len(sel) < Len(s), !.reply = "ok"]
  BY DEF Retrieved
<1>1. PICK s, sel :
             /\ s = Built("episodic", found[1]) \o Built("semantic", found[2])
                                                 \o Built("procedural", found[3])
             /\ sel = selectWithinBudget(s, budget)
             /\ ctx' = [ctx EXCEPT !.at = "returned", !.sources = s, !.selected = sel,
                           !.total = w + countTokens(sel),
                           !.truncated = Len(sel) < Len(s), !.reply = "ok"]
  BY <1>0
<1>2. Apart(s, {"episodic", "semantic", "procedural"})
  <2>1. /\ Apart(Built("episodic", found[1]), {"episodic"})
        /\ Apart(Built("semantic", found[2]), {"semantic"})
        /\ Apart(Built("procedural", found[3]), {"procedural"})
    <3>1. \A k \in 1 .. 3 : \A tier \in Tier : Apart(Built(tier, found[k]), {tier})
      <4> SUFFICES ASSUME NEW k \in 1 .. 3, NEW tier \in Tier
                   PROVE  Apart(Built(tier, found[k]), {tier})
        OBVIOUS
      <4>1. found[k] \in Results \cup {<< >>}
        OBVIOUS
      <4> QED BY <4>1, BuiltApart
    <3>2. 1 \in 1 .. 3 /\ 2 \in 1 .. 3 /\ 3 \in 1 .. 3
      OBVIOUS
    <3>3. "episodic" \in Tier /\ "semantic" \in Tier /\ "procedural" \in Tier
      BY DEF Tier
    <3> QED BY <3>1, <3>2, <3>3
  <2>2. Apart(Built("episodic", found[1]) \o Built("semantic", found[2]),
              {"episodic"} \cup {"semantic"})
    <3>1. {"episodic"} \cap {"semantic"} = {}
      OBVIOUS
    <3> QED BY <2>1, <3>1, JoinedApart
  <2>3. Apart(s, ({"episodic"} \cup {"semantic"}) \cup {"procedural"})
    <3>1. ({"episodic"} \cup {"semantic"}) \cap {"procedural"} = {}
      OBVIOUS
    <3> QED BY <1>1, <2>1, <2>2, <3>1, JoinedApart
  <2>4. ({"episodic"} \cup {"semantic"}) \cup {"procedural"}
            = {"episodic", "semantic", "procedural"}
    OBVIOUS
  <2> QED BY <2>3, <2>4
<1>3. s \in Seq(Source) /\ Distinct(s)
  BY <1>2 DEF Apart
<1>4. w \in Nat /\ budget \in Int /\ TokenBudget \in Nat
  BY ContextAssumption DEF ContextTyped, Retrieved
<1>5. /\ sel \in Seq(Source)
      /\ countTokens(sel) <= budget \/ sel = << >>
      /\ Len(sel) < Len(s) <=> ToSet(s) \ ToSet(sel) # {}
      /\ \A x \in ToSet(s) \ ToSet(sel) : NoRoom(x, sel, budget)
  BY <1>1, <1>3, <1>4, SelectionPacked
<1>6. /\ ctx'.sources = s /\ ctx'.selected = sel /\ ctx'.total = w + countTokens(sel)
      /\ ctx'.truncated = (Len(sel) < Len(s)) /\ ctx'.working = w
  BY <1>1 DEF ContextTyped, NoContext
<1>7. ctx'.total <= TokenBudget \/ ctx'.total = w
  BY <1>4, <1>5, <1>6, CountAppend, CountNone
<1> HIDE DEF w
<1>8. \A x \in ToSet(s) \ ToSet(sel) : \E n \in 0 .. Len(sel) :
          /\ \A i \in 1 .. n : sel[i].relevance >= x.relevance
          /\ countTokens(SubSeq(sel, 1, n)) + x.tokens > budget
  BY <1>5 DEF NoRoom
<1> QED BY <1>5, <1>6, <1>7, <1>8 DEF ContextWithinBudget

-----------------------------------------------------------------------------
(* The invariant                                                            *)

\* IInv holds at first and every step keeps it.
LEMMA Inductive == Spec => []IInv
<1>1. Init => IInv
  <2> SUFFICES ASSUME Init PROVE IInv
    OBVIOUS
  <2>1. Typed /\ Progress /\ AnswerMatchesRecord
    BY DEF Init, NoInvocation, Typed, At, Reply, Audit, AgentState, Progress,
           AnswerMatchesRecord
  <2>2. ContextTyped /\ ContextWithinBudget
    BY DEF Init, ContextTyped, ContextWithinBudget, NoContext
  <2>3. Numbers /\ OvershootIsBounded
    BY AgentAssumption DEF Init, Numbers, OvershootIsBounded
  <2> QED BY <2>1, <2>2, <2>3 DEF IInv
<1>2. IInv /\ [Next]_vars => IInv'
  <2> SUFFICES ASSUME IInv, [Next]_vars PROVE IInv'
    OBVIOUS
  <2> USE DEF IInv
  <2>same. ASSUME UNCHANGED agentVars PROVE Numbers' /\ OvershootIsBounded'
    BY <2>same DEF agentVars, Numbers, OvershootIsBounded
  <2>ctx. ASSUME UNCHANGED ctx PROVE ContextTyped' /\ ContextWithinBudget'
    BY <2>ctx DEF ContextTyped, ContextWithinBudget
  <2>inv. ASSUME UNCHANGED <<state, inv, audit>>
          PROVE  Typed' /\ Progress' /\ AnswerMatchesRecord'
    BY <2>inv DEF Typed, Progress, AnswerMatchesRecord
  <2>1. CASE AssignTask
    <3>1. state' = "loading_context" /\ inv' = NoInvocation /\ audit' = << >>
      BY <2>1 DEF AssignTask, transition, AGENT_TRANSITIONS
    <3>2. Typed' /\ Progress' /\ AnswerMatchesRecord'
      BY <3>1 DEF NoInvocation, Typed, At, Reply, Audit, AgentState, Progress,
                  AnswerMatchesRecord
    <3>3. ContextTyped' /\ ContextWithinBudget'
      BY <2>1 DEF AssignTask, assembleContext, ContextTyped, ContextWithinBudget, NoContext
    <3>4. Numbers' /\ OvershootIsBounded'
      BY <2>1, AgentAssumption DEF AssignTask, Numbers, OvershootIsBounded
    <3> QED BY <3>2, <3>3, <3>4
  <2>2. CASE ContextReady
    <3>1. \E e : transition(e) /\ e \notin {"TOOL_CALL", "RETRY"}
      BY <2>2 DEF ContextReady
    <3>2. ContextTyped' /\ ContextWithinBudget'
      BY <2>2 DEF ContextReady, ContextTyped, ContextWithinBudget, NoContext
    <3>3. UNCHANGED <<inv, audit>> /\ UNCHANGED agentVars
      BY <2>2 DEF ContextReady
    <3> QED BY <2>same, <3>1, <3>2, <3>3, EventKeeps
  <2>3. ASSUME NEW t \in Tool, CallTool(t) PROVE IInv'
    BY <2>3, <2>same, <2>ctx, InvokeBegins DEF CallTool
  <2>4. CASE Retry
    <3>1. inv.tool \in AllowedTools
      BY <2>4 DEF Retry, transition, AGENT_TRANSITIONS, Progress
    <3> QED BY <2>4, <2>same, <2>ctx, <3>1, InvokeBegins DEF Retry
  <2>5. CASE ToolAnswered \/ Event
    <3>1. \E e : transition(e) /\ e \notin {"TOOL_CALL", "RETRY"}
      BY <2>5 DEF ToolAnswered, Event
    <3>2. UNCHANGED <<inv, audit>> /\ UNCHANGED agentVars /\ UNCHANGED ctx
      BY <2>5 DEF ToolAnswered, Event
    <3> QED BY <2>same, <2>ctx, <3>1, <3>2, EventKeeps
  <2>6. CASE Completed \/ \E n \in Requests : Complete(n)
    <3>1. UNCHANGED <<state, inv, audit>> /\ UNCHANGED ctx
      BY <2>6 DEF Completed, Complete
    <3> QED BY <2>6, <2>ctx, <2>inv, <3>1, CompletionsKeep
  <2>7. CASE ContextStep /\ UNCHANGED <<state, inv, audit, agentVars>>
    <3>1. ContextTyped' /\ ContextWithinBudget'
      <4>1. CASE WorkingMemoryRead
        <5>1. CASE ctx' = Rejected
          BY <5>1 DEF ContextTyped, ContextWithinBudget, Rejected, NoContext
        <5>2. ASSUME NEW n \in WorkingTokens,
                     ctx' = [ctx EXCEPT !.at = "embed", !.working = n]
              PROVE  ContextTyped' /\ ContextWithinBudget'
          <6>1. n \in Nat /\ ctx.reply = "none"
            BY <4>1, ContextAssumption DEF WorkingMemoryRead, ContextTyped
          <6>2. /\ DOMAIN ctx' = DOMAIN ctx /\ ctx'.at = "embed" /\ ctx'.working = n
                /\ ctx'.reply = ctx.reply
            BY <5>2 DEF ContextTyped, NoContext
          <6> QED BY <6>1, <6>2 DEF ContextTyped, ContextWithinBudget
        <5> QED BY <4>1, <5>1, <5>2 DEF WorkingMemoryRead
      <4>2. CASE Embedded
        BY <4>2 DEF Embedded, ContextTyped, ContextWithinBudget, Rejected, NoContext
      <4>3. CASE Retrieved
        <5>1. ContextTyped'
          BY <4>3 DEF Retrieved, ContextTyped, NoContext
        <5> QED BY <4>3, <5>1, BundlePacked
      <4> QED BY <2>7, <4>1, <4>2, <4>3 DEF ContextStep
    <3> QED BY <2>7, <2>same, <2>inv, <3>1
  <2>8. CASE InvokeStep /\ UNCHANGED <<state, ctx, agentVars>>
    BY <2>8, <2>same, <2>ctx, InvokeKeeps
  <2>9. CASE UNCHANGED vars
    BY <2>9, <2>same, <2>ctx, <2>inv DEF vars, agentVars
  <2> QED BY <2>1, <2>2, <2>3, <2>4, <2>5, <2>6, <2>7, <2>8, <2>9 DEF Next
<1> QED BY <1>1, <1>2, PTL DEF Spec

-----------------------------------------------------------------------------
\* The agent, its invocation and its context are always well formed.
THEOREM TypeCorrect == FairSpec => []TypeOK
<1>1. IInv => TypeOK
  BY DEF IInv, Typed, ContextTyped, Numbers, At, Reply, Audit, TypeOK
<1> QED BY <1>1, Inductive, PTL DEF FairSpec

\* Whatever the ports do, invoke's answer agrees with the log and the effect.
THEOREM AnswersMatch == FairSpec => []AnswerMatchesRecord
<1>1. IInv => AnswerMatchesRecord
  BY DEF IInv
<1> QED BY <1>1, Inductive, PTL DEF FairSpec

\* For any budget and any number of concurrent completions, the overshoot is
\* bounded by what they can return.
THEOREM OvershootBounded == FairSpec => []OvershootIsBounded
<1>1. IInv => OvershootIsBounded
  BY DEF IInv
<1> QED BY <1>1, Inductive, PTL DEF FairSpec

\* For any budget, any working memory and any results of the searches, a bundle
\* keeps to the token budget, leaves out only what did not fit beside what is
\* no less relevant, and says so.
THEOREM BundlesKeepToBudget == FairSpec => []ContextWithinBudget
<1>1. IInv => ContextWithinBudget
  BY DEF IInv
<1> QED BY <1>1, Inductive, PTL DEF FairSpec

-----------------------------------------------------------------------------
(* Tool calls end                                                           *)

\* The places of an invocation that has at most n awaits before it returns:
\* one call passes at most seven, whatever rejects on the way.
Within(n) ==
    \/ inv.at = "returned"
    \/ n >= 1 /\ inv.at = "logError"
    \/ n >= 2 /\ inv.at \in {"logSuccess", "logDenied"}
    \/ n >= 3 /\ inv.at = "sanitizeOutput"
    \/ n >= 4 /\ inv.at = "execute"
    \/ n >= 5 /\ inv.at = "resolve"
    \/ n >= 6 /\ inv.at = "sanitizeInput"
    \/ n >= 7 /\ inv.at = "validate"

Port == InvokeStep /\ UNCHANGED <<state, ctx, agentVars>>
Waiting == state = "tool_waiting"

\* The awaits of an invocation end: it returns, or a port answers, again and
\* again.  (Weak fairness of Port, with the condition under which an invocation
\* waits for a port in the place of ENABLED.)
PortsAnswer == []<>(inv.at = "returned") \/ []<><<Port>>_vars

\* The orchestrator passes an answer on to the state machine that waits for it.
AnswersPassedOn == []<>~(inv.at = "returned" /\ Waiting) \/ []<><<ToolAnswered>>_vars

\* Every invocation is within seven awaits of its end, ...
LEMMA WithinSeven ==
    ASSUME Typed
    PROVE  /\ Within(7)
           /\ \A n \in 1 .. 7 : inv.at = "returned" => Within(n - 1)
           /\ Within(0) => inv.at = "returned"
BY DEF Typed, At, Within

\* A port moves an invocation on by one await or more.
LEMMA PortMoves ==
    ASSUME Typed, InvokeStep
    PROVE  \/ inv.at = "validate" /\ inv'.at \in {"sanitizeInput", "logDenied", "logError"}
           \/ inv.at = "sanitizeInput" /\ inv'.at \in {"resolve", "logError"}
           \/ inv.at = "resolve" /\ inv'.at \in {"execute", "returned", "logError"}
           \/ inv.at = "execute" /\ inv'.at \in {"sanitizeOutput", "logError"}
           \/ inv.at = "sanitizeOutput" /\ inv'.at \in {"logSuccess", "logError"}
           \/ inv.at \in {"logDenied", "logSuccess"} /\ inv'.at \in {"returned", "logError"}
           \/ inv.at = "logError" /\ inv'.at = "returned"
<1> USE DEF Typed, Goto, Return
<1>1. CASE Validate
  BY <1>1 DEF Validate
<1>2. CASE SanitizeInput
  BY <1>2 DEF SanitizeInput
<1>3. CASE Resolve
  BY <1>3 DEF Resolve
<1>4. CASE Execute
  BY <1>4 DEF Execute
<1>5. CASE SanitizeOutput
  BY <1>5 DEF SanitizeOutput
<1>6. CASE LogDenied \/ LogSuccess \/ LogError
  BY <1>6 DEF LogDenied, LogSuccess, LogError, Log
<1> QED BY <1>1, <1>2, <1>3, <1>4, <1>5, <1>6 DEF InvokeStep

\* ... every answer of a port takes it on, ...
LEMMA PortsAdvance ==
    ASSUME Typed, NEW n \in 1 .. 7, Within(n), Port
    PROVE  Within(n - 1)'
BY PortMoves DEF Port, Within

\* ... and while the agent waits for it nobody else moves it.
LEMMA NeverBack ==
    ASSUME Typed, Waiting, NEW n \in 0 .. 7, Within(n), [Next]_vars
    PROVE  Within(n)' \/ ~Waiting'
<1>1. CASE InvokeStep
  BY <1>1, PortMoves DEF Within
<1>2. CASE UNCHANGED inv
  BY <1>2 DEF Within
<1>3. ASSUME NEW t \in Tool, CallTool(t) PROVE FALSE
  BY <1>3 DEF CallTool, transition, AGENT_TRANSITIONS, Waiting
<1>4. ASSUME AssignTask \/ Retry PROVE FALSE
  BY <1>4 DEF AssignTask, Retry, transition, AGENT_TRANSITIONS, Waiting
<1>5. CASE \/ ContextReady \/ ToolAnswered \/ Event \/ Completed
           \/ \E m \in Requests : Complete(m)
           \/ ContextStep /\ UNCHANGED <<state, inv, audit, agentVars>>
           \/ UNCHANGED vars
  BY <1>2, <1>5 DEF ContextReady, ToolAnswered, Event, Completed, Complete, vars
<1> QED BY <1>1, <1>3, <1>4, <1>5 DEF Next

\* A fair port takes an invocation the agent waits for from any place to the end.
LEMMA InvocationsReturn ==
    Spec /\ PortsAnswer => [](Waiting => <>((Waiting /\ inv.at = "returned") \/ ~Waiting))
<1>8. IInv => Typed
  BY DEF IInv
<1>0. Typed => Within(7)
  BY WithinSeven
<1>1. Spec /\ PortsAnswer => [](Waiting /\ Within(1) => <>((Waiting /\ Within(0)) \/ ~Waiting))
  <2>1. Typed /\ Waiting /\ Within(1) /\ [Next]_vars => Within(1)' \/ ~Waiting'
    BY NeverBack
  <2>2. Typed /\ Within(1) /\ <<Port>>_vars => Within(0)'
    BY PortsAdvance
  <2>3. inv.at = "returned" => Within(0)
    BY DEF Within
  <2> QED BY <1>8, <2>1, <2>2, <2>3, Inductive, PTL DEF Spec, PortsAnswer
<1>2. Spec /\ PortsAnswer => [](Waiting /\ Within(2) => <>((Waiting /\ Within(1)) \/ ~Waiting))
  <2>1. Typed /\ Waiting /\ Within(2) /\ [Next]_vars => Within(2)' \/ ~Waiting'
    BY NeverBack
  <2>2. Typed /\ Within(2) /\ <<Port>>_vars => Within(1)'
    BY PortsAdvance
  <2>3. inv.at = "returned" => Within(1)
    BY DEF Within
  <2> QED BY <1>8, <2>1, <2>2, <2>3, Inductive, PTL DEF Spec, PortsAnswer
<1>3. Spec /\ PortsAnswer => [](Waiting /\ Within(3) => <>((Waiting /\ Within(2)) \/ ~Waiting))
  <2>1. Typed /\ Waiting /\ Within(3) /\ [Next]_vars => Within(3)' \/ ~Waiting'
    BY NeverBack
  <2>2. Typed /\ Within(3) /\ <<Port>>_vars => Within(2)'
    BY PortsAdvance
  <2>3. inv.at = "returned" => Within(2)
    BY DEF Within
  <2> QED BY <1>8, <2>1, <2>2, <2>3, Inductive, PTL DEF Spec, PortsAnswer
<1>4. Spec /\ PortsAnswer => [](Waiting /\ Within(4) => <>((Waiting /\ Within(3)) \/ ~Waiting))
  <2>1. Typed /\ Waiting /\ Within(4) /\ [Next]_vars => Within(4)' \/ ~Waiting'
    BY NeverBack
  <2>2. Typed /\ Within(4) /\ <<Port>>_vars => Within(3)'
    BY PortsAdvance
  <2>3. inv.at = "returned" => Within(3)
    BY DEF Within
  <2> QED BY <1>8, <2>1, <2>2, <2>3, Inductive, PTL DEF Spec, PortsAnswer
<1>5. Spec /\ PortsAnswer => [](Waiting /\ Within(5) => <>((Waiting /\ Within(4)) \/ ~Waiting))
  <2>1. Typed /\ Waiting /\ Within(5) /\ [Next]_vars => Within(5)' \/ ~Waiting'
    BY NeverBack
  <2>2. Typed /\ Within(5) /\ <<Port>>_vars => Within(4)'
    BY PortsAdvance
  <2>3. inv.at = "returned" => Within(4)
    BY DEF Within
  <2> QED BY <1>8, <2>1, <2>2, <2>3, Inductive, PTL DEF Spec, PortsAnswer
<1>6. Spec /\ PortsAnswer => [](Waiting /\ Within(6) => <>((Waiting /\ Within(5)) \/ ~Waiting))
  <2>1. Typed /\ Waiting /\ Within(6) /\ [Next]_vars => Within(6)' \/ ~Waiting'
    BY NeverBack
  <2>2. Typed /\ Within(6) /\ <<Port>>_vars => Within(5)'
    BY PortsAdvance
  <2>3. inv.at = "returned" => Within(5)
    BY DEF Within
  <2> QED BY <1>8, <2>1, <2>2, <2>3, Inductive, PTL DEF Spec, PortsAnswer
<1>7. Spec /\ PortsAnswer => [](Waiting /\ Within(7) => <>((Waiting /\ Within(6)) \/ ~Waiting))
  <2>1. Typed /\ Waiting /\ Within(7) /\ [Next]_vars => Within(7)' \/ ~Waiting'
    BY NeverBack
  <2>2. Typed /\ Within(7) /\ <<Port>>_vars => Within(6)'
    BY PortsAdvance
  <2>3. inv.at = "returned" => Within(6)
    BY DEF Within
  <2> QED BY <1>8, <2>1, <2>2, <2>3, Inductive, PTL DEF Spec, PortsAnswer
<1>9. Within(0) <=> inv.at = "returned"
  BY DEF Within
<1> QED BY <1>0, <1>1, <1>2, <1>3, <1>4, <1>5, <1>6, <1>7, <1>8, <1>9, Inductive, PTL

\* Whatever the ports do as long as they answer or reject, an agent gets out of
\* tool_waiting.
THEOREM ToolCallsComeBack == Spec /\ PortsAnswer /\ AnswersPassedOn => ToolCallsEnd
<1>1. /\ Waiting <=> state = "tool_waiting"
      /\ ~Waiting <=> state # "tool_waiting"
  BY DEF Waiting
<1>2. Typed /\ Waiting /\ Within(0) /\ [Next]_vars => Within(0)' \/ ~Waiting'
  BY NeverBack, WithinSeven
<1>3. <<ToolAnswered>>_vars => ~Waiting'
  BY DEF ToolAnswered, transition, AGENT_TRANSITIONS, Waiting
<1>4. /\ Within(0) <=> inv.at = "returned"
      /\ IInv => Typed
  BY DEF Within, IInv
<1> QED BY <1>1, <1>2, <1>3, <1>4, InvocationsReturn, Inductive, PTL
        DEF Spec, AnswersPassedOn, ToolCallsEnd
=============================================================================
