--------------------------- MODULE AgentLifecycle ---------------------------
(***************************************************************************)
(* AgentStateMachineRuntime of packages/orchestration: a table of          *)
(* transitions and the current state.  An event the table does not know in *)
(* the current state is refused and changes nothing, so that a refused     *)
(* event is a stuttering step here.  The recorded history is left out.     *)
(***************************************************************************)
VARIABLE state

AgentState == {"idle", "loading_context", "planning", "executing", "tool_waiting",
               "reflecting", "self_correcting", "retrying", "submitting",
               "awaiting_human", "error", "terminated"}

AGENT_TRANSITIONS == {
    <<"idle",            "ASSIGN_TASK",          "loading_context">>,
    <<"idle",            "TERMINATE",            "terminated">>,
    <<"loading_context", "CONTEXT_LOADED",       "planning">>,
    <<"loading_context", "CONTEXT_FAILED",       "error">>,
    <<"planning",        "PLAN_READY",           "executing">>,
    <<"planning",        "PLAN_AMBIGUOUS",       "awaiting_human">>,
    <<"planning",        "PLAN_FAILED",          "error">>,
    <<"executing",       "TOOL_CALL",            "tool_waiting">>,
    <<"executing",       "REFLECTION_TRIGGERED", "reflecting">>,
    <<"executing",       "OUTPUT_READY",         "submitting">>,
    <<"executing",       "TERMINATE",            "terminated">>,
    <<"tool_waiting",    "TOOL_SUCCESS",         "executing">>,
    <<"tool_waiting",    "TOOL_FAILURE",         "retrying">>,
    <<"reflecting",      "REFLECTION_PASS",      "executing">>,
    <<"reflecting",      "REFLECTION_FAIL",      "self_correcting">>,
    <<"self_correcting", "CORRECTION_APPLIED",   "executing">>,
    <<"self_correcting", "CORRECTION_FAILED",    "awaiting_human">>,
    <<"retrying",        "RETRY",                "tool_waiting">>,
    <<"retrying",        "MAX_RETRIES_EXCEEDED", "awaiting_human">>,
    <<"submitting",      "VERIFIED",             "idle">>,
    <<"submitting",      "VERIFICATION_FAILED",  "self_correcting">>,
    <<"submitting",      "ESCALATED",            "awaiting_human">>,
    <<"awaiting_human",  "HUMAN_RESOLVED",       "executing">>,
    <<"awaiting_human",  "HUMAN_ABORTED",        "terminated">>}

AgentEvent == {t[2] : t \in AGENT_TRANSITIONS}

\* A lookup whose result is not checked.
transition_Unchecked(e) ==
    state' = IF \E s \in AgentState : <<state, e, s>> \in AGENT_TRANSITIONS
             THEN CHOOSE s \in AgentState : <<state, e, s>> \in AGENT_TRANSITIONS
             ELSE "undefined"

\* The event is accepted; a refused one leaves the state alone.
transition(e) == \E s \in AgentState : /\ <<state, e, s>> \in AGENT_TRANSITIONS
                                       /\ state' = s

isTerminal == state \in {"error", "terminated"}
=============================================================================
