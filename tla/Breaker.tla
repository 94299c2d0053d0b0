------------------------------ MODULE Breaker ------------------------------
(***************************************************************************)
(* What a circuit breaker promises, with each of its operations a single   *)
(* step: the doc comments of CircuitBreaker in retry.rs.  CircuitBreaker   *)
(* is shown to implement it for one caller.                                *)
(***************************************************************************)
EXTENDS Integers

CONSTANTS
  FailureThreshold,  \* failure_threshold
  SuccessThreshold,  \* success_threshold
  ResetTimeout       \* reset_timeout, in ticks

VARIABLES
  state,      \* the circuit
  failures,   \* consecutive failures
  successes,  \* successful probes
  age,        \* ticks since the circuit opened, up to ResetTimeout
  streak      \* the calls themselves: failures since the last success

vars == <<state, failures, successes, age, streak>>

Init ==
  /\ state = "CLOSED"
  /\ failures = 0 /\ successes = 0
  /\ age = ResetTimeout
  /\ streak = 0

\* A request comes after the timeout: the circuit lets probes through.
Admit ==
  /\ state = "OPEN"
  /\ age = ResetTimeout
  /\ state' = "HALF_OPEN"
  /\ successes' = 0
  /\ UNCHANGED <<failures, age, streak>>

Success ==
  /\ streak' = 0
  /\ failures' = 0
  /\ IF state = "HALF_OPEN"
     THEN IF successes + 1 >= SuccessThreshold
          THEN state' = "CLOSED" /\ successes' = 0
          ELSE state' = state /\ successes' = successes + 1
     ELSE UNCHANGED <<state, successes>>
  /\ UNCHANGED age

OpenCircuit == state' = "OPEN" /\ age' = 0

FailClosed ==
  /\ state = "CLOSED"
  /\ IF failures + 1 >= FailureThreshold
     THEN OpenCircuit /\ failures' = 0
     ELSE failures' = failures + 1 /\ UNCHANGED <<state, age>>
  /\ UNCHANGED successes

FailHalfOpen ==
  /\ state = "HALF_OPEN"
  /\ OpenCircuit
  /\ successes' = 0
  /\ UNCHANGED failures

FailOpen == state = "OPEN" /\ UNCHANGED <<state, failures, successes, age>>

Failure ==
  /\ streak' = streak + 1
  /\ FailClosed \/ FailHalfOpen \/ FailOpen

Tick ==
  /\ age < ResetTimeout
  /\ age' = age + 1
  /\ UNCHANGED <<state, failures, successes, streak>>

Next == Admit \/ Success \/ Failure \/ Tick

Spec == Init /\ [][Next]_vars
=============================================================================
