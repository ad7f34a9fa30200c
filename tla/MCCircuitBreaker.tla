-------------------------- MODULE MCCircuitBreaker --------------------------
(***************************************************************************)
(* The circuit breaker under the names its properties have beside the      *)
(* pipeline, so that one module can extend both.                           *)
(***************************************************************************)
CONSTANTS Threshold, SuccessTarget, MaxTrips
VARIABLES state, failures, successes, timerCh, closedCh, armed, pc, failed, probed

Breaker == INSTANCE CircuitBreaker

ASSUME BreakerConstants == Breaker!ConstantsOK

BreakerSpec == Breaker!FairSpec

-----------------------------------------------------------------------------
(* The properties, as CircuitBreaker states them.                          *)

\* An open breaker has exactly one timer, which nobody has stopped.
OpenHasTimer == Breaker!OpenHasTimer

\* A closed breaker opens only after Threshold failed ingests since it closed.
TripsEarned == Breaker!TripsEarned

\* A half-open breaker closes only after SuccessTarget successful ingests in this period.
CloseEarned == Breaker!CloseEarned

\* An open breaker half-opens eventually, even if every call in between is rejected.
HalfOpens == Breaker!HalfOpens

=============================================================================
