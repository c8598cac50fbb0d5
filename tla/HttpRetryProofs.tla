-------------------------- MODULE HttpRetryProofs --------------------------
(***************************************************************************)
(* For every number of attempts: the bound on executions, that a call      *)
(* gives up only at the last attempt, and that the loop implements the     *)
(* one-call specification (its safety part).                               *)
(***************************************************************************)
EXTENDS HttpRetry, TLAPS

\* What makes the bounds inductive: which fields go with which pc, and that a
\* reported success has been executed.
Inv ==
    /\ TypeOK
    /\ EffectsBounded
    /\ pc # "wait" => cur = "none"
    /\ pc = "wait" => cur # "none"
    /\ pc = "done" <=> reply # "none"
    /\ pc = "backoff" => attempt < MaxAttempts
    /\ cur = "success" \/ reply = "success" => applied > 0
    /\ GivesUpLast

USE DEF Flying, Responses, Executable

LEMMA InitInv == Init => Inv
  BY MaxAttemptsAssumption
  DEF Init, Inv, TypeOK, EffectsBounded, GivesUpLast

LEMMA NextInv == Inv /\ [Next]_vars => Inv'
  <1> SUFFICES ASSUME Inv, [Next]_vars PROVE Inv'
    OBVIOUS
  <1>1. CASE Send
    BY <1>1, MaxAttemptsAssumption
    DEF Send, Inv, TypeOK, EffectsBounded, GivesUpLast
  <1>2. CASE Receive
    BY <1>2, MaxAttemptsAssumption
    DEF Receive, Return, Backoff,
        Inv, TypeOK, EffectsBounded, GivesUpLast
  <1>3. CASE TransportError
    BY <1>3, MaxAttemptsAssumption
    DEF TransportError, Return, Backoff,
        Inv, TypeOK, EffectsBounded, GivesUpLast
  <1>4. CASE Wake
    BY <1>4, MaxAttemptsAssumption
    DEF Wake, Inv, TypeOK, EffectsBounded, GivesUpLast
  <1>5. CASE Serve
    BY <1>5, MaxAttemptsAssumption
    DEF Serve, Inv, TypeOK, EffectsBounded, GivesUpLast
  <1>6. CASE ServeStale
    BY <1>6, MaxAttemptsAssumption
    DEF ServeStale, Inv, TypeOK, EffectsBounded, GivesUpLast
  <1>7. CASE UNCHANGED vars
    BY <1>7 DEF vars, Inv, TypeOK, EffectsBounded, GivesUpLast
  <1> QED
    BY <1>1, <1>2, <1>3, <1>4, <1>5, <1>6, <1>7 DEF Next, Client, Settled

LEMMA Invariance == Spec => []Inv
  BY InitInv, NextInv, PTL DEF Spec

\* The variables of the loop stay in their domains.
THEOREM TypeCorrect == Spec => []TypeOK
  BY Invariance, PTL DEF Inv

\* Executions that happened or can still happen never outnumber the attempts.
THEOREM EffectsAreBounded == Spec => []EffectsBounded
  BY Invariance, PTL DEF Inv

\* A call raises or returns a retryable status only at the last attempt.
THEOREM GivesUpOnlyAtTheLast == Spec => []GivesUpLast
  BY Invariance, PTL DEF Inv

\* The safety part of the one-call specification.
CallSafety == Call!Init /\ [][Call!Next]_(Call!callVars)

\* Every step of the loop and of the server is a step of the one-call
\* specification or leaves it alone.
THEOREM ImplementsCallSafety == Spec => CallSafety
  <1>1. Init => Call!Init
    BY DEF Init, Call!Init, Call!Pending
  <1>2. Inv /\ Inv' /\ [Next]_vars => [Call!Next]_(Call!callVars)
    <2> SUFFICES ASSUME Inv, Inv', [Next]_vars
                 PROVE  Call!Next \/ UNCHANGED <<applied, reply>>
      BY DEF Call!callVars
    <2>1. ASSUME applied' = applied + 1, reply' = reply
          PROVE  Call!Next
      BY <2>1, MaxAttemptsAssumption DEF Inv, TypeOK, Call!Next, Call!Execute
    <2>2. ASSUME NEW r \in Call!Replies, reply' = r, reply = "none",
                 r = "success" => applied > 0, applied' = applied
          PROVE  Call!Next
      BY <2>2 DEF Call!Next, Call!Return, Call!Pending
    <2>3. CASE Receive
      BY <2>2, <2>3
      DEF Receive, Return, Backoff, Inv, TypeOK, Call!Replies
    <2>4. CASE TransportError
      BY <2>2, <2>4
      DEF TransportError, Return, Backoff, Inv, TypeOK, Call!Replies
    <2>5. CASE Serve
      BY <2>1, <2>5 DEF Serve
    <2>6. CASE ServeStale
      BY <2>1, <2>6 DEF ServeStale
    <2>7. CASE Send \/ Wake \/ UNCHANGED vars
      BY <2>7 DEF Send, Wake, vars
    <2> QED
      BY <2>3, <2>4, <2>5, <2>6, <2>7 DEF Next, Client, Settled
  <1> QED
    BY <1>1, <1>2, Invariance, PTL DEF Spec, CallSafety
=============================================================================
