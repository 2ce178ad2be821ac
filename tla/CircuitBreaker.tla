---------------------------- MODULE CircuitBreaker ----------------------------
(***************************************************************************)
(* The circuit breaker: its state and the critical sections of its lock.   *)
(* The time since the last failure is counted in ticks, up to the          *)
(* cool-down: beyond it, no comparison tells two times apart.              *)
(***************************************************************************)
EXTENDS Naturals

CONSTANTS
  Threshold,   \* failure_threshold
  CoolDown     \* reset_timeout_s, in ticks

VARIABLES
  breaker,        \* _state
  failureCount,
  sinceFailure    \* time.monotonic() - _last_failure_time, at most CoolDown

breakerVars == <<breaker, failureCount, sinceFailure>>

ASSUME BreakerAssumption ==
  /\ Threshold \in Nat \ {0}
  /\ CoolDown \in Nat

\* _last_failure_time is 0.0 at first: long ago.
BreakerInit ==
  /\ breaker = "CLOSED"
  /\ failureCount = 0
  /\ sinceFailure = CoolDown

Cooled == breaker = "OPEN" /\ sinceFailure >= CoolDown

\* The state as the property `state` reads it: reading is what moves an open
\* breaker to HALF_OPEN.
StateRead == IF Cooled THEN "HALF_OPEN" ELSE breaker

\* Mutants of MaybeTransitionToHalfOpen: it closes; it keeps the count.
MaybeTransitionToClosed ==
  /\ breaker' = IF Cooled THEN "CLOSED" ELSE breaker
  /\ failureCount' = IF Cooled THEN 0 ELSE failureCount
  /\ UNCHANGED sinceFailure

MaybeTransitionKeepingCount ==
  /\ breaker' = StateRead
  /\ UNCHANGED <<failureCount, sinceFailure>>

MaybeTransitionToHalfOpen ==
  /\ breaker' = StateRead
  /\ failureCount' = IF Cooled THEN 0 ELSE failureCount
  /\ UNCHANGED sinceFailure

\* Mutant of OnSuccess: the count is reset and the state forgotten.
OnSuccessCountOnly ==
  /\ failureCount' = 0
  /\ UNCHANGED <<breaker, sinceFailure>>

OnSuccess ==
  /\ breaker' = "CLOSED"
  /\ failureCount' = 0
  /\ UNCHANGED sinceFailure

\* Mutant of OnFailure: failures are counted in CLOSED only.
OnFailureClosedOnly ==
  /\ failureCount' = IF breaker = "CLOSED" THEN failureCount + 1 ELSE failureCount
  /\ breaker' = IF failureCount' >= Threshold THEN "OPEN" ELSE breaker
  /\ sinceFailure' = 0

OnFailure ==
  /\ failureCount' = failureCount + 1
  /\ breaker' = IF failureCount + 1 >= Threshold THEN "OPEN" ELSE breaker
  /\ sinceFailure' = 0

TimePasses ==
  /\ sinceFailure < CoolDown
  /\ sinceFailure' = sinceFailure + 1
  /\ UNCHANGED <<breaker, failureCount>>
=============================================================================
