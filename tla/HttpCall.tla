------------------------------ MODULE HttpCall ------------------------------
(***************************************************************************)
(* What a caller of request_with_retry may rely on for one write request:  *)
(* the server executes it at most MaxExecutions times, a success is        *)
(* reported only after an execution, the answer never changes once given,  *)
(* and an answer comes.  Nothing ties a failure to "not executed", and     *)
(* executions may still happen after the answer.  HttpRetry implements     *)
(* this.                                                                   *)
(***************************************************************************)
EXTENDS Naturals

CONSTANT MaxExecutions  \* how often the request may take effect

VARIABLES
    executions,         \* how many times the server has executed the request
    answer              \* what the caller got: Pending, or one of Replies

callVars == <<executions, answer>>

Pending == "none"
Replies == {"success", "refused", "retryable", "raised"}

Init ==
    /\ executions = 0
    /\ answer = Pending

\* The server executes one of the transmitted requests, early or late.
Execute ==
    /\ executions < MaxExecutions
    /\ executions' = executions + 1
    /\ answer' = answer

\* The caller gets its answer.
Return(r) ==
    /\ answer = Pending
    /\ r = "success" => executions > 0
    /\ answer' = r
    /\ executions' = executions

Next == Execute \/ \E r \in Replies : Return(r)

Spec == Init /\ [][Next]_callVars /\ WF_callVars(\E r \in Replies : Return(r))
=============================================================================
