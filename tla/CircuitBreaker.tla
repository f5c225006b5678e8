--------------------------- MODULE CircuitBreaker ---------------------------
(***************************************************************************)
(* The circuit breaker every provider client owns                          *)
(* (internal/llmclient/circuit_breaker.go).  Each operator below is one    *)
(* critical section of the breaker's mutex.                                *)
(*                                                                         *)
(* Two counters are abstracted without losing a decision of the code.      *)
(* failures is only ever compared with FailureThreshold, so it saturates   *)
(* there (the code's counter keeps growing over failed probes).  The pair  *)
(* (lastFailure, time.Since) is only ever compared with the timeout, so it *)
(* is the flag timedOut: cleared by every recorded failure, set by the     *)
(* passage of time.                                                        *)
(***************************************************************************)
EXTENDS Naturals

CONSTANTS FailureThreshold,   \* recorded failures that trip a closed breaker
          SuccessThreshold    \* recorded successes that close a half-open one

\* New builds a breaker only for a positive FailureThreshold; the success
\* threshold comes from the configuration unchecked.
ASSUME BreakerAssumption == /\ FailureThreshold \in Nat \ {0}
                            /\ SuccessThreshold \in Nat

VARIABLES state,            \* "closed", "open" or "half-open"
          failures,         \* failures recorded (saturating)
          successes,        \* successes recorded in the half-open state
          halfOpenAllowed,  \* the permit for the next half-open probe
          timedOut          \* time.Since(lastFailure) > timeout

breakerVars == <<state, failures, successes, halfOpenAllowed, timedOut>>

BreakerTypeOK ==
    /\ state \in {"closed", "open", "half-open"}
    /\ failures \in 0..FailureThreshold
    /\ successes \in Nat
    /\ halfOpenAllowed \in BOOLEAN
    /\ timedOut \in BOOLEAN

BreakerInit ==
    /\ state = "closed"
    /\ failures = 0
    /\ successes = 0
    /\ halfOpenAllowed = TRUE
    /\ timedOut = TRUE          \* lastFailure is the zero time

-----------------------------------------------------------------------------
(* acquire returns (true, false): the breaker is closed. *)
AcquireClosed == state = "closed" /\ UNCHANGED breakerVars

(* The half-open branch of acquire lets the caller through; keep is what is *)
(* left of the permit.                                                      *)
EnterHalfOpen(keep) ==
    /\ \/ /\ state = "open" /\ timedOut
          /\ successes' = 0
       \/ /\ state = "half-open" /\ halfOpenAllowed
          /\ UNCHANGED successes
    /\ state' = "half-open"
    /\ halfOpenAllowed' = keep
    /\ UNCHANGED <<failures, timedOut>>

(* Mutant: the probe does not take the permit. *)
AcquireProbeKeepsPermit == EnterHalfOpen(TRUE)

(* acquire returns (true, true): the caller becomes the half-open probe. *)
AcquireProbe == EnterHalfOpen(FALSE)

(* acquire returns (false, false). *)
AcquireRefused ==
    /\ \/ state = "open" /\ ~timedOut
       \/ state = "half-open" /\ ~halfOpenAllowed
    /\ UNCHANGED breakerVars

-----------------------------------------------------------------------------
(* A success in the half-open state: kept is the failure count the breaker  *)
(* keeps if this success closes it.                                         *)
HalfOpenSuccess(kept) ==
    /\ state = "half-open"
    /\ successes' = successes + 1
    /\ halfOpenAllowed' = TRUE
    /\ IF successes + 1 >= SuccessThreshold
         THEN state' = "closed" /\ failures' = kept
         ELSE UNCHANGED <<state, failures>>
    /\ UNCHANGED timedOut

ClosedSuccess ==
    /\ state = "closed"
    /\ failures' = 0
    /\ UNCHANGED <<state, successes, halfOpenAllowed, timedOut>>

OpenSuccess == state = "open" /\ UNCHANGED breakerVars

(* Mutant: closing the breaker keeps the failures counted before it opened. *)
RecordSuccessKeepsFailures ==
    HalfOpenSuccess(failures) \/ ClosedSuccess \/ OpenSuccess

RecordSuccess == HalfOpenSuccess(0) \/ ClosedSuccess \/ OpenSuccess


(* Every failure is counted and restarts the timeout. *)
CountFailure ==
    /\ failures' = IF failures < FailureThreshold THEN failures + 1 ELSE failures
    /\ timedOut' = FALSE

ClosedFailure ==
    /\ state = "closed"
    /\ state' = IF failures' >= FailureThreshold THEN "open" ELSE "closed"
    /\ UNCHANGED <<successes, halfOpenAllowed>>

HalfOpenFailure ==
    /\ state = "half-open"
    /\ state' = "open"
    /\ successes' = 0
    /\ halfOpenAllowed' = TRUE

OpenFailure ==
    /\ state = "open"
    /\ UNCHANGED <<state, successes, halfOpenAllowed>>

RecordFailure ==
    /\ CountFailure
    /\ ClosedFailure \/ HalfOpenFailure \/ OpenFailure

(* The configured timeout passes since the last recorded failure. *)
TimeoutElapses ==
    /\ ~timedOut
    /\ timedOut' = TRUE
    /\ UNCHANGED <<state, failures, successes, halfOpenAllowed>>

-----------------------------------------------------------------------------
IsHalfOpen == state = "half-open"
=============================================================================
