--------------------------- MODULE CircuitBreaker ---------------------------
(***************************************************************************)
(* The circuit breaker of internal/worker/runner.go, used the way          *)
(* ResilientIngester.Ingest uses it.  The parser's loop is the one         *)
(* goroutine that calls the breaker; every time the breaker opens it       *)
(* starts a timer goroutine that half-opens it later.  Timers share the    *)
(* state word with the caller, and are told apart by the stop channel each *)
(* one listens to: channel n belongs to the n-th timer.                    *)
(*                                                                         *)
(* Every atomic operation of the caller on shared state is a step.         *)
(***************************************************************************)
EXTENDS Integers

CONSTANTS
    Threshold,       \* failures that open a closed breaker (10)
    SuccessTarget,   \* successes that close a half-open breaker (3)
    MaxTrips         \* bound: after so many timers no ingest fails and no call meets
                     \* an open breaker

ConstantsOK ==
    /\ Threshold \in Nat \ {0}
    /\ SuccessTarget \in Nat \ {0}
    /\ MaxTrips \in Nat

VARIABLES
    state,           \* "closed", "open" or "half"
    failures, successes,
    timerCh,         \* the stop channel of the newest timer (0: none yet)
    closedCh,        \* stop channels that have been closed
    armed,           \* timer goroutines that are still waiting
    pc,              \* where the caller is
    (* history, read by the properties only *)
    failed,          \* ingests that failed since the breaker last closed
    probed           \* ingests that succeeded in this half-open period

counters == <<failures, successes>>
timers   == <<timerCh, closedCh, armed>>
history  == <<failed, probed>>
vars == <<state, failures, successes, timerCh, closedCh, armed, pc, failed, probed>>

Init ==
    /\ state = "closed"
    /\ failures = 0 /\ successes = 0
    /\ timerCh = 0 /\ closedCh = {} /\ armed = {}
    /\ pc = "idle"
    /\ failed = 0 /\ probed = 0

-----------------------------------------------------------------------------
(* ResilientIngester.Ingest.                                               *)

\* Allow: an open breaker rejects the call, which then records a failure too.
Allow ==
    /\ pc = "idle"
    /\ state = "open" => timerCh < MaxTrips                \* bound
    /\ pc' = IF state = "open" THEN "failure" ELSE "ingest"
    /\ UNCHANGED <<state, counters, timers, history>>

IngestOK ==
    /\ pc = "ingest"
    /\ pc' = "success"
    /\ probed' = IF state = "half" THEN probed + 1 ELSE probed
    /\ UNCHANGED <<state, counters, timers, failed>>

\* ErrAlreadySeen counts neither way.
IngestDuplicate ==
    /\ pc = "ingest"
    /\ pc' = "idle"
    /\ UNCHANGED <<state, counters, timers, history>>

IngestFails ==
    /\ pc = "ingest"
    /\ timerCh < MaxTrips                                  \* bound
    /\ pc' = "failure"
    /\ failed' = failed + 1
    /\ UNCHANGED <<state, counters, timers, probed>>

-----------------------------------------------------------------------------
(* RecordFailure.                                                          *)

\* The load of the state decides the branch.
LoadState ==
    /\ pc = "failure"
    /\ pc' = CASE state = "open" -> "idle" [] state = "half" -> "halfStop" [] OTHER -> "count"
    /\ UNCHANGED <<state, counters, timers, history>>

\* close(prev), unless there is none or it is closed already.
StopPrevious ==
    /\ closedCh' = IF timerCh = 0 THEN closedCh ELSE closedCh \union {timerCh}
    /\ UNCHANGED <<timerCh, armed>>

\* Half-open: the old timer is stopped before the compare-and-swap ...
HalfStop ==
    /\ pc = "halfStop"
    /\ StopPrevious
    /\ pc' = "halfTrip"
    /\ UNCHANGED <<state, counters, history>>

\* Mutant of HalfTrip: the successes of the failed half-open period are kept.
HalfTripKeepsCount ==
    /\ pc = "halfTrip"
    /\ state = "half" /\ state' = "open" /\ probed' = 0 /\ pc' = "arm"
    /\ UNCHANGED <<counters, timers, failed>>

\* ... and the counters are reset after it (only the caller reads them).
HalfTrip ==
    /\ pc = "halfTrip"
    /\ IF state = "half"
       THEN state' = "open" /\ failures' = 0 /\ successes' = 0 /\ probed' = 0 /\ pc' = "arm"
       ELSE pc' = "idle" /\ UNCHANGED <<state, counters, probed>>
    /\ UNCHANGED <<timers, failed>>

\* Closed: the failure is counted ...
CountFailure ==
    /\ pc = "count"
    /\ failures' = failures + 1
    /\ pc' = IF failures + 1 >= Threshold THEN "trip" ELSE "idle"
    /\ UNCHANGED <<state, successes, timers, history>>

\* Mutant of Trip: the failures are not reset.
TripKeepsCount ==
    /\ pc = "trip"
    /\ state = "closed" /\ state' = "open" /\ probed' = 0 /\ pc' = "tripStop"
    /\ UNCHANGED <<counters, timers, failed>>

\* ... and the one that reaches the threshold opens the breaker.
Trip ==
    /\ pc = "trip"
    /\ IF state = "closed"
       THEN state' = "open" /\ failures' = 0 /\ successes' = 0 /\ probed' = 0 /\ pc' = "tripStop"
       ELSE pc' = "idle" /\ UNCHANGED <<state, counters, probed>>
    /\ UNCHANGED <<timers, failed>>

TripStop ==
    /\ pc = "tripStop"
    /\ StopPrevious
    /\ pc' = "arm"
    /\ UNCHANGED <<state, counters, history>>

\* Mutant of Arm: the timer listens to the old channel.
ArmOldChannel ==
    /\ pc = "arm"
    /\ timerCh' = IF timerCh = 0 THEN 1 ELSE timerCh
    /\ armed' = armed \union {IF timerCh = 0 THEN 1 ELSE timerCh}
    /\ pc' = "idle"
    /\ UNCHANGED <<state, counters, closedCh, history>>

\* A new channel is stored and its timer goroutine started.
Arm ==
    /\ pc = "arm"
    /\ timerCh' = timerCh + 1
    /\ armed' = armed \union {timerCh + 1}
    /\ pc' = "idle"
    /\ UNCHANGED <<state, counters, closedCh, history>>

-----------------------------------------------------------------------------
(* RecordSuccess.                                                          *)

CountSuccess ==
    /\ pc = "success"
    /\ IF state = "half"
       THEN /\ successes' = successes + 1
            /\ pc' = IF successes + 1 >= SuccessTarget THEN "close" ELSE "idle"
       ELSE pc' = "idle" /\ UNCHANGED successes
    /\ UNCHANGED <<state, failures, timers, history>>

Close ==
    /\ pc = "close"
    /\ pc' = "idle"
    /\ IF state = "half"
       THEN state' = "closed" /\ successes' = 0 /\ failed' = 0
       ELSE UNCHANGED <<state, successes, failed>>
    /\ UNCHANGED <<failures, timers, probed>>

-----------------------------------------------------------------------------
\* Mutant of Timer: the goroutine ends without storing the state.
TimerNoStore(n) ==
    /\ armed' = armed \ {n}
    /\ UNCHANGED <<state, counters, timerCh, closedCh, pc, history>>

\* The timer goroutine of channel n ends: the duration is over, or the channel was
\* closed.  The store is a plain one, whatever the state is, and a select whose cases
\* are both ready may take either.
Timer(n) ==
    /\ armed' = armed \ {n}
    /\ state' \in IF n \in closedCh THEN {state, "half"} ELSE {"half"}
    /\ UNCHANGED <<counters, timerCh, closedCh, pc, history>>

-----------------------------------------------------------------------------
RecordFailure == LoadState \/ HalfStop \/ HalfTrip \/ CountFailure \/ Trip \/ TripStop \/ Arm
RecordSuccess == CountSuccess \/ Close
Caller == Allow \/ IngestOK \/ IngestDuplicate \/ IngestFails \/ RecordFailure \/ RecordSuccess

Next == Caller \/ \E n \in armed : Timer(n)

Spec == Init /\ [][Next]_vars

\* The goroutine inside RecordFailure keeps running and time.After delivers.
Fairness ==
    /\ WF_vars(RecordFailure)
    /\ WF_vars(\E n \in armed : Timer(n))

FairSpec == Spec /\ Fairness

-----------------------------------------------------------------------------
(* Properties                                                              *)

\* The state word is one of the three constants and every stop channel that was closed or
\* is waited for was created.
TypeOK ==
    /\ state \in {"closed", "open", "half"}
    /\ failures \in Nat /\ successes \in Nat
    /\ timerCh \in Nat /\ closedCh \subseteq 1 .. timerCh /\ armed \subseteq 1 .. timerCh
    /\ pc \in {"idle", "ingest", "failure", "halfStop", "halfTrip", "count", "trip",
               "tripStop", "arm", "success", "close"}
    /\ failed \in Nat /\ probed \in Nat

\* The caller has opened the breaker and not started its timer yet.
Opening == state = "open" /\ pc \in {"tripStop", "arm"}

\* An open breaker always has exactly one timer, the newest, and nobody has stopped it:
\* no order of failures, late timers and re-openings leaves the breaker open for ever
\* or cancels the timer that was to half-open it.
OpenHasTimer == state = "open" /\ ~Opening => armed = {timerCh} /\ timerCh \notin closedCh

\* Outside the open state no timer is waiting: an old timer never half-opens a breaker
\* that has closed, nor shortens the next open period.
NoStaleTimer == state # "open" \/ Opening => armed = {}

\* The breaker opens only after Threshold failed ingests since it last closed: rejected
\* calls, duplicates and failures from before the last open period do not count.
TripsEarned == [][state = "closed" /\ state' = "open" => failed >= Threshold]_vars

\* The breaker closes only after SuccessTarget successful ingests in this half-open
\* period, none of them from before it opened.
CloseEarned == [][state = "half" /\ state' = "closed" => probed >= SuccessTarget]_vars

\* What makes the four properties inductive: which states the caller's position allows
\* (no compare-and-swap can fail), and how the counters relate to what really happened.
BreakerInv ==
    /\ TypeOK
    /\ OpenHasTimer
    /\ NoStaleTimer
    /\ pc \in {"tripStop", "arm"} => state = "open"
    /\ pc \in {"halfStop", "halfTrip", "close"} => state = "half"
    /\ pc \in {"count", "trip"} => state = "closed"
    /\ pc \in {"ingest", "success"} => state # "open"
    /\ IF state = "closed"
       THEN failures + (IF pc \in {"failure", "count"} THEN 1 ELSE 0) <= failed
       ELSE failures = 0
    /\ pc = "trip" => failures >= Threshold
    /\ IF state = "half"
       THEN successes + (IF pc = "success" THEN 1 ELSE 0) <= probed
       ELSE successes = 0
    /\ pc = "close" => successes >= SuccessTarget

\* An open breaker half-opens eventually, even if every call in between is rejected.
HalfOpens == state = "open" ~> state = "half"

=============================================================================
