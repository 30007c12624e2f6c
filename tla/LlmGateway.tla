----------------------------- MODULE LlmGateway -----------------------------
(***************************************************************************)
(* One process's LLM gateway (ai/gateway.py): structured calls, made one   *)
(* after the other, each retrying its provider a few times behind a        *)
(* circuit breaker per model.                                              *)
(*                                                                         *)
(* Time is counted in ticks from the opening of each circuit and stops     *)
(* counting when the breaker's reset time has passed.                      *)
(***************************************************************************)
EXTENDS Integers, Nullable

CONSTANTS
    Models,
    MaxRetries,   \* llm_max_retries
    Threshold,    \* circuit_breaker_threshold
    Reset        \* circuit_breaker_reset_seconds, in ticks

ASSUME GatewayAssumption ==
    /\ MaxRetries \in Nat /\ Threshold \in Nat \ {0} /\ Reset \in Nat
    /\ None \notin Int /\ None \notin Models

VARIABLES
    failures,   \* [Models -> CircuitBreaker.failures]
    age,        \* [Models -> ticks since opened_at, None if it has no entry]
    call,       \* the structured call in progress, or how the last one ended
    streak,     \* history: failed requests since the last valid answer
    late        \* history: requests sent while the circuit was to stay open

breakerVars == <<failures, age>>
gatewayVars == <<failures, age, call, streak, late>>

MaxAttempts == MaxRetries + 1

(* What an LLMCall row records; "raised": no row, the error passed through *)
CallStatus == {"ok", "timeout", "error", "schema_invalid", "circuit_open", "raised"}

(* repairs: requests sent to have an invalid answer repaired.              *)
CallState == [busy : BOOLEAN, model : Models \cup {None}, attempts : 0..MaxAttempts,
              repairs : 0..MaxRetries, status : CallStatus]

GatewayTypeOK ==
    /\ failures \in [Models -> 0..(Threshold + MaxRetries)]
    /\ age \in [Models -> 0..Reset \cup {None}]
    /\ call \in CallState
    /\ streak \in [Models -> 0..Threshold]
    /\ late \in [Models -> Nat]
-----------------------------------------------------------------------------
(* The circuit breaker                                                     *)

(* Mutation: an expired circuit starts again from no failures.             *)
HalfOpenFailuresForgotten == 0

HalfOpenFailures == Threshold - 1

IsOpen(m) == age[m] # None

(* Mutation: the comparison with reset_seconds the wrong way round.        *)
RefusesLate(m) == IsOpen(m) /\ age[m] >= Reset

Refuses(m) == IsOpen(m) /\ age[m] < Reset

(* check lets a call pass: an open circuit becomes half-open.              *)
Check(m) ==
    /\ ~ Refuses(m)
    /\ age' = [age EXCEPT ![m] = None]
    /\ failures' = IF IsOpen(m) THEN [failures EXCEPT ![m] = HalfOpenFailures] ELSE failures

Failure(m) ==
    /\ failures' = [failures EXCEPT ![m] = @ + 1]
    /\ age' = IF failures'[m] >= Threshold THEN [age EXCEPT ![m] = 0] ELSE age

(* success leaves opened_at as it is.                                      *)
Success(m) ==
    /\ failures' = [failures EXCEPT ![m] = 0]
    /\ UNCHANGED age
-----------------------------------------------------------------------------
(* LLMGateway.structured                                                   *)

(* The loop of structured goes round: the next request is sent, or the     *)
(* attempts are used up and the call ends.                                 *)
NextAttempt(status) ==
    LET m == call.model
    IN  IF call.attempts < MaxAttempts
        THEN /\ call' = [call EXCEPT !.attempts = @ + 1, !.status = status,
                                     !.repairs = IF status = "schema_invalid" THEN @ + 1 ELSE @]
             /\ late' = IF age'[m] # None THEN [late EXCEPT ![m] = @ + 1] ELSE late
        ELSE /\ call' = [call EXCEPT !.busy = FALSE, !.status = status]
             /\ UNCHANGED late

EndCall(status) == call' = [call EXCEPT !.busy = FALSE, !.status = status]

Begin(m) ==
    /\ ~ call.busy
    /\ Check(m)
    /\ call' = [busy |-> TRUE, model |-> m, attempts |-> 1, repairs |-> 0, status |-> "error"]
    /\ late' = [late EXCEPT ![m] = IF IsOpen(m) /\ age[m] < Reset THEN @ + 1 ELSE 0]
    /\ UNCHANGED streak

BeginRefused(m) ==
    /\ ~ call.busy
    /\ Refuses(m)
    /\ call' = [busy |-> FALSE, model |-> m, attempts |-> 0, repairs |-> 0, status |-> "circuit_open"]
    /\ UNCHANGED <<breakerVars, streak, late>>

Counted(m) == streak' = [streak EXCEPT ![m] = IF @ < Threshold THEN @ + 1 ELSE @]

(* No answer in time, or an answer that asks to come again.                *)
RetryableFailure ==
    /\ call.busy
    /\ Failure(call.model)
    /\ Counted(call.model)
    /\ \E status \in {"timeout", "error"} : NextAttempt(status)

(* A transport error, or a status code that is not worth a retry.          *)
FatalFailure ==
    /\ call.busy
    /\ Failure(call.model)
    /\ Counted(call.model)
    /\ EndCall("error")
    /\ UNCHANGED late

InvalidAnswer ==
    /\ call.busy
    /\ UNCHANGED <<breakerVars, streak>>
    /\ NextAttempt("schema_invalid")

ValidAnswer ==
    /\ call.busy
    /\ Success(call.model)
    /\ EndCall("ok")
    /\ streak' = [streak EXCEPT ![call.model] = 0]
    /\ UNCHANGED late

(* complete raises something else, such as a body that is not JSON.        *)
Escape ==
    /\ call.busy
    /\ EndCall("raised")
    /\ UNCHANGED <<breakerVars, streak, late>>

Answer == RetryableFailure \/ FatalFailure \/ InvalidAnswer \/ ValidAnswer \/ Escape

Tick ==
    /\ \E m \in Models : Refuses(m)
    /\ age' = [m \in Models |-> IF Refuses(m) THEN age[m] + 1 ELSE age[m]]
    /\ UNCHANGED <<failures, call, streak, late>>
-----------------------------------------------------------------------------
GatewayInit ==
    /\ failures = [m \in Models |-> 0]
    /\ age = [m \in Models |-> None]
    /\ call = [busy |-> FALSE, model |-> None, attempts |-> 0, repairs |-> 0, status |-> "ok"]
    /\ streak = [m \in Models |-> 0]
    /\ late = [m \in Models |-> 0]

GatewayNext ==
    \/ \E m \in Models : Begin(m) \/ BeginRefused(m)
    \/ Answer
    \/ Tick

GatewaySpec == GatewayInit /\ [][GatewayNext]_gatewayVars

(* The provider answers or the request times out (timeout_s).              *)
FairGatewaySpec == GatewaySpec /\ WF_gatewayVars(Answer)
-----------------------------------------------------------------------------
(* Properties                                                              *)

(* Once a circuit is open, what was in flight may still retry, and nothing *)
(* else is sent to the model until the reset time is over.                 *)
FailsFast == \A m \in Models : late[m] <= MaxRetries

(* A model that has failed Threshold times in a row is either cut off, or  *)
(* on trial and one failure away from being cut off again: no call that    *)
(* is let through resets what the breaker knows of an outage.              *)
OutageRemembered ==
    \A m \in Models : streak[m] = Threshold =>
       \/ IsOpen(m)
       \/ failures[m] = Threshold - 1

(* Every structured call ends, whatever its provider answers.              *)
CallsEnd == call.busy ~> ~ call.busy
=============================================================================
