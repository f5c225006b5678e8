----------------------------- MODULE LLMClient -----------------------------
(***************************************************************************)
(* One provider client (internal/llmclient/client.go): concurrent logical  *)
(* requests through DoRaw, DoStream and DoPassthrough, sharing one circuit *)
(* breaker and one pair of observability hooks.                            *)
(*                                                                         *)
(* A request slot is one goroutine that issues one logical request after   *)
(* another.  The three entry points share one control structure and differ *)
(* in the number of attempts they may make: 1 for a stream, a one-shot     *)
(* body or a passthrough request that is not idempotent, maxAttempts() for *)
(* the others.  So the last attempt is the first one or the MaxAttempts-th.*)
(*                                                                         *)
(* What the upstream answers matters to the client in four ways:           *)
(*   success    any status below 500 other than 429;                       *)
(*   fault      a client timeout or a status >= 500 that is not retryable: *)
(*              a failure at any attempt;                                  *)
(*   transient  a transport error or 502/503/504: retried while attempts   *)
(*              remain, then a failure;                                    *)
(*   429        retried likewise, then a failure in the half-open state    *)
(*              only.                                                      *)
(* A half-open probe never retries.                                        *)
(***************************************************************************)
EXTENDS CircuitBreaker, FiniteSets

CONSTANTS Requests,      \* request slots: goroutines that call the provider
          MaxAttempts    \* maxAttempts(): MaxRetries + 1, at least 1

ASSUME ClientAssumption == /\ IsFiniteSet(Requests)
                           /\ MaxAttempts \in Nat \ {0}

VARIABLES pc,        \* where each slot's request is
          attempt,   \* the attempt it makes
          probe,     \* scope.halfOpenProbe
          inFlight,  \* OnRequestStart calls minus OnRequestEnd calls
          healthy    \* the environment: every call is answered with success

\* History: what the properties remember and the code does not.
VARIABLES fresh,      \* in-flight requests admitted in this half-open period
          straggled,  \* an older request recorded an outcome in this period
          unsent,     \* a fresh probe could not be built, nothing recorded since
          bad,        \* consecutive recorded failures (saturating)
          good        \* consecutive recorded successes (saturating)

requestVars == <<pc, attempt, probe, inFlight>>
history     == <<fresh, straggled, unsent, bad, good>>
vars        == <<breakerVars, requestVars, healthy, history>>

PC == {"idle", "starting", "sending", "backoff", "limited"}

TypeOK ==
    /\ BreakerTypeOK
    /\ pc \in [Requests -> PC]
    /\ attempt \in [Requests -> 1..MaxAttempts]
    /\ probe \in [Requests -> BOOLEAN]
    /\ inFlight \in 0..Cardinality(Requests)
    /\ healthy \in BOOLEAN
    /\ fresh \subseteq Requests
    /\ straggled \in BOOLEAN
    /\ unsent \in BOOLEAN
    /\ bad \in 0..FailureThreshold
    /\ good \in 0..SuccessThreshold

Init ==
    /\ BreakerInit
    /\ pc = [r \in Requests |-> "idle"]
    /\ attempt = [r \in Requests |-> 1]
    /\ probe = [r \in Requests |-> FALSE]
    /\ inFlight = 0
    /\ healthy = TRUE
    /\ fresh = {}
    /\ straggled = FALSE
    /\ unsent = FALSE
    /\ bad = 0
    /\ good = 0

Busy == {r \in Requests : pc[r] # "idle"}

Saturate(n, cap) == IF n < cap THEN n + 1 ELSE n

-----------------------------------------------------------------------------
(* History updates: the caller of a Record operation passes its own slot.  *)
Straggles(r) == straggled' = (straggled \/ (IsHalfOpen /\ r \notin fresh))

NoteSuccess(r) ==
    /\ good' = Saturate(good, SuccessThreshold)
    /\ bad' = 0
    /\ unsent' = FALSE
    /\ Straggles(r)

NoteFailure(r) ==
    /\ bad' = Saturate(bad, FailureThreshold)
    /\ good' = 0
    /\ unsent' = FALSE
    /\ Straggles(r)

-----------------------------------------------------------------------------
(* The entry point returns and its local variables are gone. *)
Return(r) ==
    /\ pc' = [pc EXCEPT ![r] = "idle"]
    /\ attempt' = [attempt EXCEPT ![r] = 1]
    /\ probe' = [probe EXCEPT ![r] = FALSE]
    /\ fresh' = fresh \ {r}
    /\ UNCHANGED healthy

(* finishRequest: OnRequestEnd is called and the entry point returns. *)
Finish(r) == Return(r) /\ inFlight' = inFlight - 1

(* beginRequest, up to the breaker: OnRequestStart is called. *)
BeginRequest(r) ==
    /\ pc[r] = "idle"
    /\ pc' = [pc EXCEPT ![r] = "starting"]
    /\ inFlight' = inFlight + 1
    /\ UNCHANGED <<breakerVars, attempt, probe, healthy, history>>

(* beginRequest: the breaker is closed. *)
Admit(r) ==
    /\ pc[r] = "starting"
    /\ AcquireClosed
    /\ pc' = [pc EXCEPT ![r] = "sending"]
    /\ UNCHANGED <<attempt, probe, inFlight, healthy, history>>

(* beginRequest: the request becomes the half-open probe.  If it is the one *)
(* that ends the open period, a new half-open period starts with it.        *)
AdmitProbe(r) ==
    /\ pc[r] = "starting"
    /\ AcquireProbe
    /\ pc' = [pc EXCEPT ![r] = "sending"]
    /\ probe' = [probe EXCEPT ![r] = TRUE]
    /\ IF IsHalfOpen
         THEN /\ fresh' = fresh \cup {r}
              /\ UNCHANGED <<straggled, good>>
         ELSE /\ fresh' = {r}
              /\ straggled' = FALSE
              /\ good' = 0
    /\ UNCHANGED <<attempt, inFlight, healthy, unsent, bad>>

(* beginRequest: the breaker refuses; the caller gets a 503. *)
Refuse(r) ==
    /\ pc[r] = "starting"
    /\ AcquireRefused
    /\ Finish(r)
    /\ UNCHANGED <<breakerVars, straggled, unsent, bad, good>>

(* buildRequest fails: the breaker is skipped.  The failure is              *)
(* deterministic, so it shows at the first attempt.                         *)
BuildFails(r) ==
    /\ pc[r] = "sending"
    /\ attempt[r] = 1
    /\ Finish(r)
    /\ unsent' = (unsent \/ r \in fresh)
    /\ UNCHANGED <<breakerVars, straggled, bad, good>>

(* A transient error or a 429 with attempts left: the retry loop continues. *)
Retry(r) ==
    /\ pc[r] = "sending"
    /\ ~healthy
    /\ ~probe[r]
    /\ attempt[r] < MaxAttempts
    /\ pc' = [pc EXCEPT ![r] = "backoff"]
    /\ attempt' = [attempt EXCEPT ![r] = attempt[r] + 1]
    /\ UNCHANGED <<breakerVars, probe, inFlight, healthy, history>>

(* waitForRetry: the backoff elapses. *)
Resume(r) ==
    /\ pc[r] = "backoff"
    /\ pc' = [pc EXCEPT ![r] = "sending"]
    /\ UNCHANGED <<breakerVars, attempt, probe, inFlight, healthy, history>>

(* Mutant: a cancelled wait returns without OnRequestEnd. *)
CancelWaitSilently(r) ==
    /\ pc[r] = "backoff"
    /\ Return(r)
    /\ UNCHANGED <<breakerVars, inFlight, straggled, unsent, bad, good>>

(* waitForRetryAttempt: the caller's context ends first; nothing is recorded. *)
CancelWait(r) ==
    /\ pc[r] = "backoff"
    /\ Finish(r)
    /\ UNCHANGED <<breakerVars, straggled, unsent, bad, good>>

(* completeScope after an answer that is neither 429 nor a server error. *)
CompleteSuccess(r) ==
    /\ pc[r] = "sending"
    /\ RecordSuccess
    /\ Finish(r)
    /\ NoteSuccess(r)

(* completeScope after a fault, or a transient error with no attempt left. *)
CompleteFailure(r) ==
    /\ pc[r] = "sending"
    /\ ~healthy
    /\ RecordFailure
    /\ Finish(r)
    /\ NoteFailure(r)

(* The attempt may be the last one the request is allowed. *)
IsFinal(r) == probe[r] \/ attempt[r] \in {1, MaxAttempts}

(* Mutant: a 429 is never charged to the breaker. *)
CompleteRateLimitNever(r) ==
    /\ pc[r] = "sending"
    /\ ~healthy
    /\ IsFinal(r)
    /\ Finish(r)
    /\ UNCHANGED <<breakerVars, straggled, unsent, bad, good>>

(* completeScope after a final 429: IsHalfOpen takes and releases the lock,  *)
(* and only a half-open breaker goes on to RecordFailure.                    *)
CompleteRateLimit(r) ==
    /\ pc[r] = "sending"
    /\ ~healthy
    /\ IsFinal(r)
    /\ \/ /\ IsHalfOpen
          /\ pc' = [pc EXCEPT ![r] = "limited"]
          /\ UNCHANGED <<attempt, probe, inFlight, healthy, fresh>>
       \/ /\ ~IsHalfOpen
          /\ Finish(r)
    /\ UNCHANGED <<breakerVars, straggled, unsent, bad, good>>

(* The RecordFailure that follows, in a critical section of its own. *)
RecordRateLimit(r) ==
    /\ pc[r] = "limited"
    /\ RecordFailure
    /\ Finish(r)
    /\ NoteFailure(r)

-----------------------------------------------------------------------------
(* The environment: time passes, and the provider goes down and comes back. *)
ClockTicks == TimeoutElapses /\ UNCHANGED <<requestVars, healthy, history>>

UpstreamChanges ==
    /\ healthy' = ~healthy
    /\ UNCHANGED <<breakerVars, requestVars, history>>

Proceed(r) ==
    \/ Admit(r) \/ AdmitProbe(r) \/ Refuse(r)
    \/ BuildFails(r) \/ Retry(r) \/ Resume(r) \/ CancelWait(r)
    \/ CompleteSuccess(r) \/ CompleteFailure(r)
    \/ CompleteRateLimit(r) \/ RecordRateLimit(r)

Next ==
    \/ \E r \in Requests : BeginRequest(r) \/ Proceed(r)
    \/ ClockTicks
    \/ UpstreamChanges

Spec == Init /\ [][Next]_vars

(* A request that was begun is carried on by its goroutine (the HTTP client *)
(* and the backoff are bounded), time passes, and callers keep calling.     *)
Fairness ==
    /\ \A r \in Requests : WF_vars(BeginRequest(r)) /\ WF_vars(Proceed(r))
    /\ WF_vars(ClockTicks)

FairSpec == Spec /\ Fairness

-----------------------------------------------------------------------------
(* Every OnRequestStart is matched by exactly one OnRequestEnd, on every    *)
(* path out of the three entry points: the in-flight gauge the hooks feed   *)
(* is the number of requests that are running.                              *)
InFlightMatches == inFlight = Cardinality(Busy)

(* A half-open breaker whose permit is taken has a probe that will give it  *)
(* back, unless the probe was never sent because it could not be built.     *)
PermitHeld == \E r \in fresh : probe[r]
PermitAccounted == IsHalfOpen /\ ~halfOpenAllowed => PermitHeld \/ unsent

(* In a half-open period in which no older request has recorded its         *)
(* outcome, at most one of the requests the breaker let through is running. *)
SingleProbe ==
    IsHalfOpen /\ ~straggled => \A r, s \in fresh : r = s

(* The breaker trips only after FailureThreshold consecutive failures, and  *)
(* closes only after SuccessThreshold consecutive successes of the same     *)
(* half-open period, whatever requests recorded them.                       *)
EarnedTransitions ==
    [][ /\ state = "closed" /\ state' = "open" => bad' = FailureThreshold
        /\ state # "closed" /\ state' = "closed" => good' = SuccessThreshold
      ]_vars

(* Once the provider answers every call, the breaker ends up closed for     *)
(* good, unless a probe that could not be built keeps its permit.           *)
Recovers == <>[](healthy /\ ~unsent) => <>[](state = "closed")

(* TestCircuitBreaker_HalfOpenPreventsThunderingHerd: only one request is   *)
(* allowed through in the half-open state.  Refuted: a request admitted     *)
(* before the trip succeeds and hands out the permit of a running probe.    *)
OneRequestInHalfOpen == IsHalfOpen => \A r, s \in fresh : r = s

(* isLocalRequestBuildError: a request that could not be built is not       *)
(* charged to the breaker; docs: the breaker probes once the timeout        *)
(* elapses.  So a half-open breaker with nothing running can still probe.   *)
(* Refuted: a probe that cannot be built keeps the permit for good.         *)
IdleHalfOpenCanProbe == IsHalfOpen /\ Busy = {} => halfOpenAllowed
=============================================================================
