------------------------------ MODULE Breaker -------------------------------
(***************************************************************************)
(* The circuit breaker (CircuitBreaker.Execute in                          *)
(* internal/service/saga/retry.go).  A call is admitted under the mutex,   *)
(* runs its operation without it and reports the result under it again, so *)
(* results may come in when the circuit has changed its state twice.       *)
(***************************************************************************)
EXTENDS Integers, FiniteSets

CONSTANT maxFailures  \* of NewCircuitBreaker

ASSUME BreakerAssumption == maxFailures \in Nat \ {0}

VARIABLES
  state,     \* CircuitState
  failures,  \* failures since the last success
  elapsed    \* resetTimeout has passed since the last failure

breakerVars == <<state, failures, elapsed>>

BreakerTypeOK ==
  /\ state \in {"closed", "open", "halfopen"}
  /\ failures \in Nat /\ elapsed \in BOOLEAN

BreakerInit == state = "closed" /\ failures = 0 /\ elapsed = FALSE

\* The circuit refuses the call.
Refuses == state = "open" /\ ~elapsed

\* The call may run its operation; the first one after resetTimeout opens the
\* circuit half, and then every call may.
Admit ==
  /\ ~Refuses
  /\ state' = IF state = "open" THEN "halfopen" ELSE state
  /\ UNCHANGED <<failures, elapsed>>

OperationFails ==
  /\ failures' = failures + 1
  /\ elapsed' = FALSE
  /\ state' = IF state = "halfopen" \/ failures + 1 >= maxFailures THEN "open" ELSE state

\* Variant: the failures are not forgotten.
OperationSucceedsCounting ==
  /\ state' = IF state = "halfopen" THEN "closed" ELSE state
  /\ UNCHANGED <<failures, elapsed>>

\* A success forgets the failures, and closes the circuit only if it is half
\* open.
OperationSucceeds ==
  /\ state' = IF state = "halfopen" THEN "closed" ELSE state
  /\ failures' = 0
  /\ UNCHANGED elapsed

ResetTimeout ==
  /\ state = "open" /\ ~elapsed
  /\ elapsed' = TRUE
  /\ UNCHANGED <<state, failures>>

-----------------------------------------------------------------------------

\* A closed circuit has not seen maxFailures failures since the last success,
\* in whatever order late results came in.
ClosedIsHealthy == state = "closed" => failures < maxFailures

=============================================================================
