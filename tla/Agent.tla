-------------------------------- MODULE Agent --------------------------------
(***************************************************************************)
(* An agent at work: its life cycle (AgentLifecycle), the context it is    *)
(* given (ContextAssembly), the tools it calls (ToolExecutor) and the      *)
(* completions it asks for through the Python SDK's proxies, which hold    *)
(* the tools it may name and its token budget.  An agent awaits its        *)
(* completions and may have several in flight.                             *)
(*                                                                         *)
(* The orchestrator that drives the state machine is not in the            *)
(* repository.  It is taken to do what the names of the events say: to     *)
(* send CONTEXT_LOADED or CONTEXT_FAILED when assembleContext resolves or  *)
(* rejects, to invoke the tool on TOOL_CALL and on RETRY, and to send      *)
(* TOOL_SUCCESS or TOOL_FAILURE by what invoke answers.  Everything else   *)
(* sends its events in any order.                                          *)
(***************************************************************************)
EXTENDS AgentLifecycle, ToolExecutor, ContextAssembly

CONSTANTS AllowedTools,   \* the tools the agent class declares
          TaskBudget,     \* task.token_budget
          Requests,       \* the max_tokens an agent asks for
          MaxResponse,    \* bound: tokens_used of a response
          MaxInFlight     \* bound: completions awaited at once

ASSUME AgentAssumption ==
    /\ AllowedTools \subseteq Tool /\ Requests \subseteq Nat
    /\ TaskBudget \in Nat /\ MaxResponse \in Nat /\ MaxInFlight \in Nat

VARIABLES tokensUsed,   \* LLMProxy._tokens_used
          inFlight      \* completions the router has not answered

agentVars == <<tokensUsed, inFlight>>
vars == <<state, inv, audit, ctx, tokensUsed, inFlight>>

Init == /\ state = "idle" /\ inv = NoInvocation /\ audit = << >> /\ ctx = NoContext
        /\ tokensUsed = 0 /\ inFlight = 0

-----------------------------------------------------------------------------
\* A budget check that forgets what the request may cost.
MayComplete_Spent(maxTokens) == tokensUsed <= TaskBudget

MayComplete(maxTokens) == tokensUsed + maxTokens <= TaskBudget

Running == ~isTerminal /\ state \notin {"idle", "loading_context"}

\* LLMProxy.complete up to its await; over budget it raises and nothing changes.
\* reflect is one more completion.
Complete(maxTokens) ==
    /\ Running /\ inFlight < MaxInFlight
    /\ MayComplete(maxTokens)
    /\ inFlight' = inFlight + 1
    /\ UNCHANGED <<state, inv, audit, ctx, tokensUsed>>

\* The router answers, with as many tokens as it used (the prompt counts, so
\* they may be more than were asked for), or raises and nothing is counted.
Completed == /\ inFlight > 0
             /\ inFlight' = inFlight - 1
             /\ \E n \in 0 .. MaxResponse : tokensUsed' = tokensUsed + n
             /\ UNCHANGED <<state, inv, audit, ctx>>

-----------------------------------------------------------------------------
(* The orchestrator                                                        *)

\* A task is served by a new agent object, with proxies of its own.
AssignTask == /\ transition("ASSIGN_TASK") /\ assembleContext
              /\ inv' = NoInvocation /\ audit' = << >>
              /\ tokensUsed' = 0 /\ inFlight' = 0

ContextReady == /\ ctx.at = "returned"
                /\ \/ ctx.reply = "ok" /\ transition("CONTEXT_LOADED")
                   \/ ctx.reply = "rejected" /\ transition("CONTEXT_FAILED")
                /\ ctx' = NoContext
                /\ UNCHANGED <<inv, audit, agentVars>>

\* ToolProxy refuses a tool the agent does not declare.
CallTool(t) == /\ t \in AllowedTools
               /\ transition("TOOL_CALL") /\ invoke(t)
               /\ UNCHANGED <<ctx, agentVars>>

Retry == /\ transition("RETRY") /\ invoke(inv.tool)
         /\ UNCHANGED <<ctx, agentVars>>

ToolAnswered == /\ inv.at = "returned"
                /\ \/ inv.reply = "ok" /\ transition("TOOL_SUCCESS")
                   \/ inv.reply # "ok" /\ transition("TOOL_FAILURE")
                /\ UNCHANGED <<inv, audit, ctx, agentVars>>

Event == /\ \E e \in AgentEvent \ {"ASSIGN_TASK", "CONTEXT_LOADED", "CONTEXT_FAILED",
                 "TOOL_CALL", "RETRY", "TOOL_SUCCESS", "TOOL_FAILURE"} : transition(e)
         /\ UNCHANGED <<inv, audit, ctx, agentVars>>

Next == \/ AssignTask \/ ContextReady \/ Retry \/ ToolAnswered \/ Event \/ Completed
        \/ \E t \in Tool : CallTool(t)
        \/ \E n \in Requests : Complete(n)
        \/ ContextStep /\ UNCHANGED <<state, inv, audit, agentVars>>
        \/ InvokeStep /\ UNCHANGED <<state, ctx, agentVars>>

Spec == Init /\ [][Next]_vars

\* Ports answer, and the orchestrator passes their answers on.
Fairness == /\ WF_vars(ContextStep /\ UNCHANGED <<state, inv, audit, agentVars>>)
            /\ WF_vars(InvokeStep /\ UNCHANGED <<state, ctx, agentVars>>)
            /\ WF_vars(ContextReady) /\ WF_vars(ToolAnswered)

FairSpec == Spec /\ Fairness

-----------------------------------------------------------------------------
TypeOK ==
    /\ state \in AgentState
    /\ inv \in [at : {"validate", "sanitizeInput", "resolve", "execute",
                      "sanitizeOutput", "logDenied", "logSuccess", "logError",
                      "returned"},
                tool : Tool \cup {NoTool}, allowed : BOOLEAN, ran : BOOLEAN,
                reply : {"none", "ok", "denied", "notFound", "failed", "rejected"}]
    /\ audit \in Seq(BOOLEAN)
    /\ ctx.at \in {"workingStore", "embed", "retrieval", "returned"}
    /\ ctx.reply \in {"none", "ok", "rejected"}
    /\ tokensUsed \in Nat /\ inFlight \in 0 .. MaxInFlight

\* What invoke answers agrees with the audit log and with what the tool did
\* (ToolExecutor.invoke and its catch branch): a success has run and is logged
\* as one, once; a failure is the last thing logged; a tool that ran without
\* any entry is never answered, invoke rejects; and no tool runs that is not
\* declared, registered and permitted.
AnswerMatchesRecord ==
    /\ inv.ran => inv.allowed /\ inv.tool \in AllowedTools \cap Registered
    /\ inv.at = "returned" =>
         /\ inv.reply = "ok" => inv.ran /\ audit = <<TRUE>>
         /\ inv.reply = "denied" => ~inv.ran /\ audit = <<FALSE>>
         /\ inv.reply = "failed" => audit # << >> /\ ~audit[Len(audit)]
         /\ inv.ran /\ audit = << >> => inv.reply = "rejected"

\* The tokens an agent uses exceed its budget by no more than its concurrent
\* completions can return, however they overlap (LLMProxy.complete checks
\* before its await and counts after it); one at a time, by one response.
OvershootIsBounded ==
    \A least \in Requests : (\A n \in Requests : least <= n) =>
        \/ tokensUsed + inFlight * MaxResponse
             <= TaskBudget - least + MaxInFlight * MaxResponse
        \/ tokensUsed = 0 /\ inFlight = 0

\* A tool call does not hang: whatever the ports do, the agent gets out of
\* tool_waiting (every path through invoke returns or rejects).
ToolCallsEnd == [](state = "tool_waiting" => <>(state # "tool_waiting"))
=============================================================================
