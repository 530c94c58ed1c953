---------------------------- MODULE ToolExecutor ----------------------------
(***************************************************************************)
(* ToolExecutor.invoke: permission, input sanitizing, resolution,          *)
(* execution, output sanitizing, audit.  Each layer is an await on a port; *)
(* a port may reject, which inside the try block leads to the catch        *)
(* branch, and that branch awaits the audit log as well.                   *)
(*                                                                         *)
(* The ports are not in the repository.  One that rejects may have done    *)
(* its work: a tool that reports an error may have had its effect, a       *)
(* logger that times out may have written the entry.                       *)
(***************************************************************************)
EXTENDS Sequences

CONSTANTS Tool, Registered   \* the tools the registry resolves

ASSUME RegisteredAssumption == Registered \subseteq Tool

VARIABLES inv,    \* the invocation: where it waits, what it did, its answer
          audit   \* the entries it wrote: the success flag of each

NoTool == "no tool"
NoInvocation == [at |-> "returned", tool |-> NoTool, allowed |-> FALSE,
                 ran |-> FALSE, reply |-> "none"]

Goto(at) == inv' = [inv EXCEPT !.at = at]
Return(reply) == inv' = [inv EXCEPT !.at = "returned", !.reply = reply]

invoke(t) == /\ inv.at = "returned"
             /\ inv' = [NoInvocation EXCEPT !.at = "validate", !.tool = t]
             /\ audit' = << >>

Validate == /\ inv.at = "validate"
            /\ \/ inv' = [inv EXCEPT !.at = "sanitizeInput", !.allowed = TRUE]
               \/ Goto("logDenied")
               \/ Goto("logError")
            /\ UNCHANGED audit

SanitizeInput == /\ inv.at = "sanitizeInput"
                 /\ Goto("resolve") \/ Goto("logError")
                 /\ UNCHANGED audit

\* A tool nobody registered is reported, and not logged.
Resolve == /\ inv.at = "resolve"
           /\ \/ inv.tool \in Registered /\ Goto("execute")
              \/ inv.tool \notin Registered /\ Return("notFound")
              \/ Goto("logError")
           /\ UNCHANGED audit

Execute == /\ inv.at = "execute"
           /\ \/ inv' = [inv EXCEPT !.at = "sanitizeOutput", !.ran = TRUE]
              \/ \E effect \in BOOLEAN :
                    inv' = [inv EXCEPT !.at = "logError", !.ran = effect]
           /\ UNCHANGED audit

SanitizeOutput == /\ inv.at = "sanitizeOutput"
                  /\ Goto("logSuccess") \/ Goto("logError")
                  /\ UNCHANGED audit

\* logInvocation resolves and invoke goes on as "resolved" says, or it
\* rejects, its entry written or not, as "rejected" says.
Log(success, resolved, rejected) ==
    \/ resolved /\ audit' = Append(audit, success)
    \/ rejected /\ audit' \in {audit, Append(audit, success)}

LogDenied == /\ inv.at = "logDenied"
             /\ Log(FALSE, Return("denied"), Goto("logError"))

LogSuccess == /\ inv.at = "logSuccess"
              /\ Log(TRUE, Return("ok"), Goto("logError"))

\* A catch branch that does not wait for the log.
LogError_NotAwaited ==
    /\ inv.at = "logError"
    /\ Log(FALSE, Return("failed"), Return("failed"))

\* A catch branch that starts over when the log rejects.
LogError_StartsOver ==
    /\ inv.at = "logError"
    /\ \/ Return("failed") /\ audit' = Append(audit, FALSE)
       \/ Goto("validate") /\ audit' = << >>

\* The catch branch: if its log rejects, so does invoke.
LogError == /\ inv.at = "logError"
            /\ Log(FALSE, Return("failed"), Return("rejected"))

InvokeStep == \/ Validate \/ SanitizeInput \/ Resolve \/ Execute
              \/ SanitizeOutput \/ LogDenied \/ LogSuccess \/ LogError
=============================================================================
