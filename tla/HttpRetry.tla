----------------------------- MODULE HttpRetry -----------------------------
(***************************************************************************)
(* request_with_retry (http.py): one write request sent up to MaxAttempts  *)
(* times over a network that loses, delays and reorders.  An attempt the   *)
(* client has given up on may still be executed later, even after the call *)
(* has returned: such requests are counted by stale.  Response codes are   *)
(* abstracted to three classes: success, refused (a 4xx but 429) and       *)
(* retryable (_RETRYABLE_STATUS).  Backoff lengths and logging are left    *)
(* out.                                                                    *)
(***************************************************************************)
EXTENDS Naturals

CONSTANT MaxAttempts    \* _MAX_ATTEMPTS

ASSUME MaxAttemptsAssumption == MaxAttempts \in Nat \ {0}

VARIABLES
    kind,           \* of request: the server refuses a second execution of
                    \* a unique one (a create), and repeats another (a mail)
    attempt,        \* the loop variable
    pc,             \* where the client is: send, wait, backoff, done
    cur,            \* the current attempt: none, flying, or its response
    stale,          \* abandoned attempts that the server may still execute
    applied,        \* how many times the server has executed the request
    reply           \* what request_with_retry returned or raised

vars == <<kind, attempt, pc, cur, stale, applied, reply>>

Responses == {"success", "refused", "retryable"}

Flying == IF cur = "flying" THEN 1 ELSE 0

Init ==
    /\ kind \in {"unique", "repeatable"}
    /\ attempt = 1
    /\ pc = "send"
    /\ cur = "none"
    /\ stale = 0
    /\ applied = 0
    /\ reply = "none"

\* client.request puts the attempt on the network.
Send ==
    /\ pc = "send"
    /\ pc' = "wait"
    /\ cur' = "flying"
    /\ UNCHANGED <<kind, attempt, stale, applied, reply>>

-----------------------------------------------------------------------------
\* The server.

Executable == kind = "unique" => applied = 0

\* The server answers the current attempt.  A retryable status (a gateway
\* error) says nothing of the execution: it has not happened, has happened,
\* or is still to come.
Serve ==
    /\ cur = "flying"
    /\ \/ /\ Executable
          /\ applied' = applied + 1
          /\ cur' \in {"success", "retryable"}
          /\ stale' = stale
       \/ /\ cur' \in {"refused", "retryable"}
          /\ UNCHANGED <<applied, stale>>
       \/ /\ cur' = "retryable"
          /\ stale' = stale + 1
          /\ applied' = applied
    /\ UNCHANGED <<kind, attempt, pc, reply>>

\* The server reaches an attempt the client no longer waits for.
ServeStale ==
    /\ stale > 0
    /\ stale' = stale - 1
    /\ applied' = applied \/ (Executable /\ applied' = applied + 1)
    /\ UNCHANGED <<kind, attempt, pc, cur, reply>>

-----------------------------------------------------------------------------
\* The client.

Return(r) ==
    /\ pc' = "done"
    /\ reply' = r

Backoff ==
    /\ pc' = "backoff"
    /\ reply' = reply

\* A bug: the status is returned only when it is not retryable.
ReceiveNeverGivesUp ==
    /\ pc = "wait"
    /\ cur \in Responses
    /\ IF cur = "retryable" THEN Backoff ELSE Return(cur)
    /\ cur' = "none"
    /\ UNCHANGED <<kind, attempt, stale, applied>>

\* A bug: any response that reaches the client is taken for a success.
ReceiveUnread ==
    /\ pc = "wait"
    /\ cur \in Responses
    /\ Return("success")
    /\ cur' = "none"
    /\ UNCHANGED <<kind, attempt, stale, applied>>

\* A response arrives: a retryable status is retried unless this was the
\* last attempt, when the response is returned as it is.
Receive ==
    /\ pc = "wait"
    /\ cur \in Responses
    /\ IF cur = "retryable" /\ attempt < MaxAttempts
         THEN Backoff
         ELSE Return(cur)
    /\ cur' = "none"
    /\ UNCHANGED <<kind, attempt, stale, applied>>

\* A bug: a transport error is not retried.
TransportErrorNotRetried ==
    /\ pc = "wait"
    /\ stale' = stale \/ (cur = "flying" /\ stale' = stale + 1)
    /\ Return("raised")
    /\ cur' = "none"
    /\ UNCHANGED <<kind, attempt, applied>>

\* httpx.TransportError: refused connection, timeout, dropped connection.  It
\* can hit before the server saw the attempt, or after it has answered.
TransportError ==
    /\ pc = "wait"
    /\ stale' = stale \/ (cur = "flying" /\ stale' = stale + 1)
    /\ IF attempt = MaxAttempts THEN Return("raised") ELSE Backoff
    /\ cur' = "none"
    /\ UNCHANGED <<kind, attempt, applied>>

\* A bug: the attempt is not counted.
WakeUncounted ==
    /\ pc = "backoff"
    /\ pc' = "send"
    /\ UNCHANGED <<kind, attempt, cur, stale, applied, reply>>

\* time.sleep ends and the loop goes round.
Wake ==
    /\ pc = "backoff"
    /\ pc' = "send"
    /\ attempt' = attempt + 1
    /\ UNCHANGED <<kind, cur, stale, applied, reply>>

Client == Send \/ Receive \/ TransportError \/ Wake

\* The call has returned and no attempt is left in the network.
Settled ==
    /\ pc = "done"
    /\ stale = 0
    /\ UNCHANGED vars

Next == Client \/ Serve \/ ServeStale \/ Settled

\* The client is a loop that runs on its own; build_client's timeout makes a
\* wait end in a response or in a TransportError.  The server owes nothing.
Spec == Init /\ [][Next]_vars /\ WF_vars(Client)

-----------------------------------------------------------------------------
\* Every variable stays in its domain (the loop variable, the state of the
\* current attempt, and the count of attempts left behind).
TypeOK ==
    /\ kind \in {"unique", "repeatable"}
    /\ attempt \in 1..MaxAttempts
    /\ pc \in {"send", "wait", "backoff", "done"}
    /\ cur \in {"none", "flying"} \cup Responses
    /\ stale \in 0..MaxAttempts
    /\ applied \in 0..MaxAttempts
    /\ reply \in {"none", "raised"} \cup Responses

\* However the network behaves, the executions that happened and those that
\* can still happen never outnumber the attempts made: a mail is repeated at
\* most MaxAttempts times, also counting what is executed after the return.
EffectsBounded ==
    applied + stale + Flying <=
        IF pc = "send" THEN attempt - 1 ELSE attempt

\* The call gives up, by raising or by returning a retryable status, only
\* when all MaxAttempts attempts are used up.
GivesUpLast ==
    reply \in {"raised", "retryable"} => attempt = MaxAttempts

\* The loop implements the one-call specification its callers rely on,
\* including that an answer comes.
Call == INSTANCE HttpCall
        WITH MaxExecutions <- MaxAttempts, executions <- applied, answer <- reply
ImplementsCall == Call!Spec
=============================================================================
