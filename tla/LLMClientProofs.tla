-------------------------- MODULE LLMClientProofs --------------------------
(***************************************************************************)
(* Proofs about LLMClient for any number of requests, any thresholds and   *)
(* any number of attempts: TypeOK, InFlightMatches, PermitAccounted,       *)
(* SingleProbe and EarnedTransitions.                                      *)
(*                                                                         *)
(* The invariant is the conjunction of five parts; each part is shown to   *)
(* be preserved in a lemma of its own, from the parts it depends on.       *)
(***************************************************************************)
EXTENDS LLMClient, FiniteSetTheorems, TLAPS

Types ==
    /\ BreakerTypeOK
    /\ pc \in [Requests -> PC]
    /\ attempt \in [Requests -> 1..MaxAttempts]
    /\ probe \in [Requests -> BOOLEAN]
    /\ healthy \in BOOLEAN
    /\ fresh \subseteq Requests
    /\ straggled \in BOOLEAN
    /\ unsent \in BOOLEAN
    /\ bad \in 0..FailureThreshold
    /\ good \in 0..SuccessThreshold

\* A fresh request is a probe on its way to the provider; a probe never waits.
Slots == /\ \A r \in fresh : probe[r]
         /\ \A r \in Requests : probe[r] => pc[r] \in {"sending", "limited"}

\* The permit is only ever missing in the half-open state.
Permit == ~halfOpenAllowed => IsHalfOpen /\ (fresh # {} \/ unsent)

\* While only this period's requests have recorded outcomes, the permit and
\* the running probe exclude each other.
Exclusive ==
    IsHalfOpen /\ ~straggled => /\ halfOpenAllowed => fresh = {}
                                /\ \A r, s \in fresh : r = s

\* The breaker's counters are the streaks, in the states that use them.
Streaks == /\ state = "closed" => failures = bad
           /\ IsHalfOpen => /\ successes = good
                            /\ successes < SuccessThreshold \/ successes = 0

IInv == Types /\ Slots /\ Permit /\ Exclusive /\ Streaks /\ InFlightMatches

-----------------------------------------------------------------------------
(* What one recorded outcome does to the breaker, state by state. *)
LEMMA SuccessEffect ==
    ASSUME BreakerTypeOK, RecordSuccess
    PROVE  /\ BreakerTypeOK'
           /\ timedOut' = timedOut
           /\ state = "closed" => state' = "closed" /\ failures' = 0
                                  /\ halfOpenAllowed' = halfOpenAllowed
           /\ state = "open" => UNCHANGED breakerVars
           /\ state = "half-open" =>
                /\ halfOpenAllowed' = TRUE
                /\ successes' = successes + 1
                /\ \/ successes + 1 >= SuccessThreshold /\ state' = "closed"
                      /\ failures' = 0
                   \/ successes + 1 < SuccessThreshold /\ state' = "half-open"
  <1> USE BreakerAssumption DEF BreakerTypeOK
  <1>1. CASE state = "half-open"
    BY <1>1 DEF RecordSuccess, HalfOpenSuccess, ClosedSuccess, OpenSuccess
  <1>2. CASE state = "closed"
    BY <1>2 DEF RecordSuccess, HalfOpenSuccess, ClosedSuccess, OpenSuccess
  <1>3. CASE state = "open"
    BY <1>3 DEF RecordSuccess, HalfOpenSuccess, ClosedSuccess, OpenSuccess,
       breakerVars
  <1>4. QED
    BY <1>1, <1>2, <1>3

LEMMA FailureEffect ==
    ASSUME BreakerTypeOK, RecordFailure
    PROVE  /\ BreakerTypeOK'
           /\ failures' = Saturate(failures, FailureThreshold)
           /\ state = "closed" =>
                /\ halfOpenAllowed' = halfOpenAllowed
                /\ \/ failures' >= FailureThreshold /\ state' = "open"
                   \/ failures' < FailureThreshold /\ state' = "closed"
           /\ state = "open" => state' = "open" /\ halfOpenAllowed' = halfOpenAllowed
           /\ state = "half-open" => state' = "open" /\ halfOpenAllowed' = TRUE
  <1> USE BreakerAssumption DEF BreakerTypeOK
  <1>1. failures' = Saturate(failures, FailureThreshold)
    BY DEF RecordFailure, CountFailure, Saturate
  <1>2. failures' \in 0..FailureThreshold /\ timedOut' = FALSE
    BY DEF RecordFailure, CountFailure
  <1>3. CASE ClosedFailure
    <2>1. /\ state = "closed"
          /\ UNCHANGED <<successes, halfOpenAllowed>>
      BY <1>3 DEF ClosedFailure
    <2>2. \/ failures' >= FailureThreshold /\ state' = "open"
          \/ failures' < FailureThreshold /\ state' = "closed"
      BY <1>2, <1>3 DEF ClosedFailure
    <2>3. BreakerTypeOK'
      BY <1>2, <2>1, <2>2
    <2>4. QED
      BY <1>1, <2>1, <2>2, <2>3
  <1>4. CASE OpenFailure
    BY <1>1, <1>2, <1>4 DEF OpenFailure
  <1>5. CASE HalfOpenFailure
    BY <1>1, <1>2, <1>5 DEF HalfOpenFailure
  <1>6. QED
    BY <1>3, <1>4, <1>5 DEF RecordFailure

LEMMA InitIInv == Init => IInv
  <1> SUFFICES ASSUME Init PROVE IInv
    OBVIOUS
  <1>1. Types
    <2>1. BreakerTypeOK
      BY BreakerAssumption DEF Init, BreakerInit, BreakerTypeOK
    <2>2. pc \in [Requests -> PC]
      BY DEF Init, PC
    <2>3. attempt \in [Requests -> 1..MaxAttempts]
      BY ClientAssumption DEF Init
    <2>4. probe \in [Requests -> BOOLEAN] /\ healthy \in BOOLEAN
          /\ straggled \in BOOLEAN /\ unsent \in BOOLEAN /\ fresh \subseteq Requests
      BY DEF Init
    <2>5. bad \in 0..FailureThreshold /\ good \in 0..SuccessThreshold
      BY BreakerAssumption DEF Init
    <2>6. QED
      BY <2>1, <2>2, <2>3, <2>4, <2>5 DEF Types
  <1>2. Slots /\ Permit /\ Exclusive /\ Streaks
    BY DEF Init, BreakerInit, Slots, Permit, Exclusive, Streaks, IsHalfOpen
  <1>3. Busy = {}
    BY DEF Init, Busy
  <1>4. InFlightMatches
    BY <1>3, FS_EmptySet DEF Init, InFlightMatches
  <1>5. QED
    BY <1>1, <1>2, <1>4 DEF IInv

-----------------------------------------------------------------------------
(* Returning keeps the types of the request slots. *)
LEMMA ReturnTypes ==
    ASSUME Types, NEW r \in Requests, Return(r)
    PROVE  /\ pc' \in [Requests -> PC]
           /\ attempt' \in [Requests -> 1..MaxAttempts]
           /\ probe' \in [Requests -> BOOLEAN]
           /\ healthy' \in BOOLEAN
           /\ fresh' \subseteq Requests
  BY ClientAssumption DEF Types, Return, PC

LEMMA NoteTypes ==
    ASSUME Types, NEW r \in Requests, NoteSuccess(r) \/ NoteFailure(r)
    PROVE  /\ straggled' \in BOOLEAN
           /\ unsent' \in BOOLEAN
           /\ bad' \in 0..FailureThreshold
           /\ good' \in 0..SuccessThreshold
  <1> USE BreakerAssumption DEF Types
  <1>1. straggled' \in BOOLEAN /\ unsent' \in BOOLEAN
    BY DEF NoteSuccess, NoteFailure, Straggles, IsHalfOpen
  <1>2. bad' \in 0..FailureThreshold
    BY DEF NoteSuccess, NoteFailure, Saturate
  <1>3. good' \in 0..SuccessThreshold
    BY DEF NoteSuccess, NoteFailure, Saturate
  <1>4. QED
    BY <1>1, <1>2, <1>3

LEMMA NextTypes == Types /\ [Next]_vars => Types'
  <1> SUFFICES ASSUME Types, [Next]_vars PROVE Types'
    OBVIOUS
  <1> USE BreakerAssumption, ClientAssumption DEF Types, PC
  <1>1. ASSUME NEW r \in Requests, BeginRequest(r) PROVE Types'
    BY <1>1 DEF BeginRequest, history, breakerVars, BreakerTypeOK
  <1>2. ASSUME NEW r \in Requests, Admit(r) PROVE Types'
    BY <1>2 DEF Admit, AcquireClosed, history, breakerVars, BreakerTypeOK
  <1>3. ASSUME NEW r \in Requests, AdmitProbe(r) PROVE Types'
    <2>1. BreakerTypeOK'
      <3>1. /\ UNCHANGED <<failures, timedOut>>
            /\ state' = "half-open" /\ halfOpenAllowed' = FALSE
        BY <1>3 DEF AdmitProbe, AcquireProbe, EnterHalfOpen
      <3>2. successes' \in Nat
        BY <1>3 DEF AdmitProbe, AcquireProbe, EnterHalfOpen, BreakerTypeOK
      <3>3. QED
        BY <3>1, <3>2 DEF BreakerTypeOK
    <2>2. /\ pc' \in [Requests -> PC] /\ probe' \in [Requests -> BOOLEAN]
          /\ UNCHANGED <<attempt, healthy, unsent, bad>>
      BY <1>3 DEF AdmitProbe
    <2>3. straggled' \in BOOLEAN
      BY <1>3 DEF AdmitProbe
    <2>4. good' \in 0..SuccessThreshold
      BY <1>3 DEF AdmitProbe
    <2>5. fresh' \subseteq Requests
      BY <1>3 DEF AdmitProbe
    <2>6. QED
      BY <2>1, <2>2, <2>3, <2>4, <2>5
  <1>4. ASSUME NEW r \in Requests, Refuse(r) PROVE Types'
    BY <1>4, ReturnTypes DEF Refuse, Finish, breakerVars, BreakerTypeOK
  <1>5. ASSUME NEW r \in Requests, BuildFails(r) PROVE Types'
    BY <1>5, ReturnTypes DEF BuildFails, Finish, breakerVars, BreakerTypeOK
  <1>6. ASSUME NEW r \in Requests, Retry(r) PROVE Types'
    BY <1>6 DEF Retry, history, breakerVars, BreakerTypeOK
  <1>7. ASSUME NEW r \in Requests, Resume(r) PROVE Types'
    BY <1>7 DEF Resume, history, breakerVars, BreakerTypeOK
  <1>8. ASSUME NEW r \in Requests, CancelWait(r) PROVE Types'
    BY <1>8, ReturnTypes DEF CancelWait, Finish, breakerVars, BreakerTypeOK
  <1>9. ASSUME NEW r \in Requests, CompleteSuccess(r) PROVE Types'
    BY <1>9, SuccessEffect, ReturnTypes, NoteTypes DEF CompleteSuccess, Finish
  <1>10. ASSUME NEW r \in Requests, CompleteFailure(r) PROVE Types'
    BY <1>10, FailureEffect, ReturnTypes, NoteTypes DEF CompleteFailure, Finish
  <1>11. ASSUME NEW r \in Requests, CompleteRateLimit(r) PROVE Types'
    <2>1. BreakerTypeOK' /\ UNCHANGED <<straggled, unsent, bad, good>>
      BY <1>11 DEF CompleteRateLimit, breakerVars, BreakerTypeOK
    <2>2. CASE Finish(r)
      BY <2>1, <2>2, ReturnTypes DEF Finish
    <2>3. CASE ~Finish(r)
      BY <1>11, <2>1, <2>3 DEF CompleteRateLimit
    <2>4. QED
      BY <2>2, <2>3
  <1>12. ASSUME NEW r \in Requests, RecordRateLimit(r) PROVE Types'
    BY <1>12, FailureEffect, ReturnTypes, NoteTypes DEF RecordRateLimit, Finish
  <1>13. ASSUME ClockTicks PROVE Types'
    BY <1>13 DEF ClockTicks, TimeoutElapses, requestVars, history, BreakerTypeOK
  <1>14. ASSUME UpstreamChanges PROVE Types'
    BY <1>14 DEF UpstreamChanges, breakerVars, requestVars, history, BreakerTypeOK
  <1>15. CASE UNCHANGED vars
    BY <1>15 DEF vars, breakerVars, requestVars, history, BreakerTypeOK
  <1>16. QED
    BY <1>1, <1>2, <1>3, <1>4, <1>5, <1>6, <1>7, <1>8, <1>9, <1>10, <1>11,
       <1>12, <1>13, <1>14, <1>15 DEF Next, Proceed

(* Returning a slot keeps the fresh requests probes on their way. *)
LEMMA ReturnSlots ==
    ASSUME Types, Slots, NEW r \in Requests, Return(r)
    PROVE  Slots'
  BY DEF Types, Slots, Return

LEMMA NextSlots == Types /\ Slots /\ [Next]_vars => Slots'
  <1> SUFFICES ASSUME Types, Slots, [Next]_vars PROVE Slots'
    OBVIOUS
  <1> USE DEF Types, Slots
  <1>1. ASSUME NEW r \in Requests, BeginRequest(r) PROVE Slots'
    BY <1>1 DEF BeginRequest, history
  <1>2. ASSUME NEW r \in Requests, Admit(r) PROVE Slots'
    BY <1>2 DEF Admit, history
  <1>3. ASSUME NEW r \in Requests, AdmitProbe(r) PROVE Slots'
    <2>1. fresh' \subseteq fresh \cup {r}
      BY <1>3 DEF AdmitProbe
    <2>2. QED
      BY <1>3, <2>1 DEF AdmitProbe
  <1>4. ASSUME NEW r \in Requests, Return(r) PROVE Slots'
    BY <1>4, ReturnSlots
  <1>5. ASSUME NEW r \in Requests, Retry(r) PROVE Slots'
    BY <1>5 DEF Retry, history
  <1>6. ASSUME NEW r \in Requests, Resume(r) PROVE Slots'
    BY <1>6 DEF Resume, history
  <1>7. ASSUME NEW r \in Requests, CompleteRateLimit(r) PROVE Slots'
    <2>1. CASE Return(r)
      BY <2>1, <1>4
    <2>2. CASE ~Return(r)
      BY <1>7, <2>2 DEF CompleteRateLimit, Finish
    <2>3. QED
      BY <2>1, <2>2
  <1>8. CASE ClockTicks \/ UpstreamChanges \/ UNCHANGED vars
    BY <1>8 DEF ClockTicks, UpstreamChanges, vars, requestVars, history
  <1>9. QED
    BY <1>1, <1>2, <1>3, <1>4, <1>5, <1>6, <1>7, <1>8
    DEF Next, Proceed, Refuse, BuildFails, CancelWait, CompleteSuccess,
        CompleteFailure, RecordRateLimit, Finish

-----------------------------------------------------------------------------
(* A recorded outcome leaves the permit free unless it leaves the state and *)
(* the permit as they are.                                                  *)
LEMMA RecordPermit ==
    ASSUME Types, Permit, RecordSuccess \/ RecordFailure
    PROVE  halfOpenAllowed' = TRUE
  <1>1. CASE state = "half-open"
    BY <1>1, SuccessEffect, FailureEffect DEF Types
  <1>2. CASE state # "half-open"
    <2>1. halfOpenAllowed = TRUE
      BY <1>2 DEF Permit, IsHalfOpen, Types, BreakerTypeOK
    <2>2. halfOpenAllowed' = halfOpenAllowed
      BY <1>2, SuccessEffect, FailureEffect DEF Types, BreakerTypeOK, breakerVars
    <2>3. QED
      BY <2>1, <2>2
  <1>3. QED
    BY <1>1, <1>2

LEMMA NextPermit == Types /\ Slots /\ Permit /\ [Next]_vars => Permit'
  <1> SUFFICES ASSUME Types, Slots, Permit, [Next]_vars PROVE Permit'
    OBVIOUS
  <1>1. ASSUME RecordSuccess \/ RecordFailure PROVE Permit'
    BY <1>1, RecordPermit DEF Permit
  <1>2. ASSUME NEW r \in Requests, AdmitProbe(r) PROVE Permit'
    <2>1. state' = "half-open"
      BY <1>2 DEF AdmitProbe, AcquireProbe, EnterHalfOpen
    <2>2. r \in fresh'
      BY <1>2 DEF AdmitProbe
    <2>3. QED
      BY <2>1, <2>2 DEF Permit, IsHalfOpen
  <1>3. ASSUME NEW r \in Requests, BuildFails(r) PROVE Permit'
    BY <1>3 DEF BuildFails, Finish, Return, Permit, breakerVars, IsHalfOpen
  <1>4. ASSUME NEW r \in Requests, Return(r), r \notin fresh,
               UNCHANGED breakerVars, UNCHANGED unsent
        PROVE  Permit'
    BY <1>4 DEF Return, Permit, breakerVars, IsHalfOpen
  <1>5. ASSUME NEW r \in Requests, Refuse(r) \/ CancelWait(r) PROVE Permit'
    <2>1. r \notin fresh
      BY <1>5 DEF Refuse, CancelWait, Slots
    <2>2. QED
      BY <1>4, <1>5, <2>1 DEF Refuse, CancelWait, Finish
  <1>6. ASSUME NEW r \in Requests, CompleteRateLimit(r) PROVE Permit'
    <2>1. CASE IsHalfOpen
      BY <1>6, <2>1 DEF CompleteRateLimit, Permit, breakerVars, IsHalfOpen
    <2>2. CASE ~IsHalfOpen
      BY <1>6, <2>2 DEF CompleteRateLimit, Permit, breakerVars, IsHalfOpen
    <2>3. QED
      BY <2>1, <2>2
  <1>7. ASSUME NEW r \in Requests,
               BeginRequest(r) \/ Admit(r) \/ Retry(r) \/ Resume(r)
        PROVE  Permit'
    BY <1>7 DEF BeginRequest, Admit, AcquireClosed, Retry, Resume, history,
                breakerVars, Permit, IsHalfOpen
  <1>8. CASE ClockTicks \/ UpstreamChanges \/ UNCHANGED vars
    BY <1>8 DEF ClockTicks, TimeoutElapses, UpstreamChanges, vars, history,
                breakerVars, Permit, IsHalfOpen
  <1>9. QED
    BY <1>1, <1>2, <1>3, <1>5, <1>6, <1>7, <1>8
    DEF Next, Proceed, CompleteSuccess, CompleteFailure, RecordRateLimit

-----------------------------------------------------------------------------
LEMMA NextExclusive == Types /\ Slots /\ Exclusive /\ [Next]_vars => Exclusive'
  <1> SUFFICES ASSUME Types, Slots, Exclusive, [Next]_vars PROVE Exclusive'
    OBVIOUS
  <1>1. ASSUME RecordFailure PROVE Exclusive'
    BY <1>1, FailureEffect DEF Exclusive, IsHalfOpen, Types, BreakerTypeOK
  <1>2. ASSUME NEW r \in Requests, CompleteSuccess(r) PROVE Exclusive'
    <2>1. CASE state = "half-open"
      <3>1. CASE r \in fresh /\ ~straggled
        <4>1. fresh' = {}
          BY <1>2, <2>1, <3>1
          DEF CompleteSuccess, Finish, Return, Exclusive, IsHalfOpen
        <4>2. QED
          BY <4>1 DEF Exclusive
      <3>2. CASE ~(r \in fresh /\ ~straggled)
        <4>1. straggled'
          BY <1>2, <2>1, <3>2
          DEF CompleteSuccess, NoteSuccess, Straggles, IsHalfOpen
        <4>2. QED
          BY <4>1 DEF Exclusive
      <3>3. QED
        BY <3>1, <3>2
    <2>2. CASE state # "half-open"
      <3>1. state' # "half-open"
        BY <1>2, <2>2, SuccessEffect
        DEF CompleteSuccess, Types, BreakerTypeOK, breakerVars
      <3>2. QED
        BY <3>1 DEF Exclusive, IsHalfOpen
    <2>3. QED
      BY <2>1, <2>2
  <1>3. ASSUME NEW r \in Requests, AdmitProbe(r) PROVE Exclusive'
    <2>1. ~halfOpenAllowed'
      BY <1>3 DEF AdmitProbe, AcquireProbe, EnterHalfOpen
    <2>2. CASE IsHalfOpen
      <3>1. halfOpenAllowed
        BY <1>3, <2>2 DEF AdmitProbe, AcquireProbe, EnterHalfOpen, IsHalfOpen
      <3>2. fresh' = fresh \cup {r} /\ straggled' = straggled
        BY <1>3, <2>2 DEF AdmitProbe
      <3>3. QED
        BY <2>1, <2>2, <3>1, <3>2 DEF Exclusive
    <2>3. CASE ~IsHalfOpen
      <3>1. fresh' = {r}
        BY <1>3, <2>3 DEF AdmitProbe
      <3>2. QED
        BY <2>1, <3>1 DEF Exclusive
    <2>4. QED
      BY <2>2, <2>3
  <1>4. ASSUME UNCHANGED breakerVars, UNCHANGED straggled, fresh' \subseteq fresh
        PROVE  Exclusive'
    BY <1>4 DEF Exclusive, breakerVars, IsHalfOpen
  <1>5. ASSUME NEW r \in Requests,
               \/ BeginRequest(r) \/ Admit(r) \/ Retry(r) \/ Resume(r)
        PROVE  Exclusive'
    BY <1>4, <1>5 DEF BeginRequest, Admit, AcquireClosed, Retry, Resume, history
  <1>6. ASSUME NEW r \in Requests,
               Refuse(r) \/ BuildFails(r) \/ CancelWait(r) \/ CompleteRateLimit(r)
        PROVE  Exclusive'
    BY <1>4, <1>6
    DEF Refuse, BuildFails, CancelWait, CompleteRateLimit, Finish, Return
  <1>7. CASE ClockTicks
    BY <1>7 DEF ClockTicks, TimeoutElapses, history, Exclusive, IsHalfOpen
  <1>8. CASE UpstreamChanges \/ UNCHANGED vars
    BY <1>4, <1>8 DEF UpstreamChanges, vars, history
  <1>9. QED
    BY <1>1, <1>2, <1>3, <1>5, <1>6, <1>7, <1>8
    DEF Next, Proceed, CompleteFailure, RecordRateLimit

-----------------------------------------------------------------------------
LEMMA NextStreaks == Types /\ Streaks /\ [Next]_vars => Streaks'
  <1> SUFFICES ASSUME Types, Streaks, [Next]_vars PROVE Streaks'
    OBVIOUS
  <1>1. ASSUME NEW r \in Requests, RecordFailure, NoteFailure(r) PROVE Streaks'
    <2>1. state' # "half-open"
      BY <1>1, FailureEffect DEF Types, BreakerTypeOK
    <2>2. ASSUME state' = "closed" PROVE failures' = bad'
      <3>1. state = "closed"
        BY <1>1, <2>2, FailureEffect DEF Types, BreakerTypeOK
      <3>2. failures = bad
        BY <3>1 DEF Streaks
      <3>3. QED
        BY <1>1, <3>2, FailureEffect DEF NoteFailure, Types
    <2>3. QED
      BY <2>1, <2>2 DEF Streaks, IsHalfOpen
  <1>2. ASSUME NEW r \in Requests, RecordSuccess, NoteSuccess(r) PROVE Streaks'
    <2>1. bad' = 0 /\ good' = Saturate(good, SuccessThreshold)
      BY <1>2 DEF NoteSuccess
    <2>2. CASE state = "closed"
      BY <1>2, <2>1, <2>2, SuccessEffect DEF Types, Streaks, IsHalfOpen
    <2>3. CASE state = "open"
      BY <1>2, <2>1, <2>3, SuccessEffect DEF Types, Streaks, IsHalfOpen, breakerVars
    <2>4. CASE state = "half-open"
      <3>1. CASE state' = "closed"
        BY <1>2, <2>1, <2>4, <3>1, SuccessEffect DEF Types, Streaks, IsHalfOpen
      <3>2. CASE state' = "half-open"
        <4>1. successes' = successes + 1 /\ successes + 1 < SuccessThreshold
          BY <1>2, <2>4, <3>2, SuccessEffect DEF Types
        <4>2. successes = good
          BY <2>4 DEF Streaks, IsHalfOpen
        <4>3. QED
          BY <2>1, <3>2, <4>1, <4>2, BreakerAssumption
          DEF Streaks, Saturate, IsHalfOpen, Types, BreakerTypeOK
      <3>3. QED
        BY <1>2, <2>4, <3>1, <3>2, SuccessEffect DEF Types
    <2>5. QED
      BY <2>2, <2>3, <2>4 DEF Types, BreakerTypeOK
  <1>3. ASSUME NEW r \in Requests, AdmitProbe(r) PROVE Streaks'
    <2>1. state' = "half-open"
      BY <1>3 DEF AdmitProbe, AcquireProbe, EnterHalfOpen
    <2>2. CASE IsHalfOpen
      BY <1>3, <2>1, <2>2
      DEF AdmitProbe, AcquireProbe, EnterHalfOpen, Streaks, IsHalfOpen
    <2>3. CASE ~IsHalfOpen
      BY <1>3, <2>1, <2>3
      DEF AdmitProbe, AcquireProbe, EnterHalfOpen, Streaks, IsHalfOpen
    <2>4. QED
      BY <2>2, <2>3
  <1>4. ASSUME UNCHANGED <<state, failures, successes, bad, good>> PROVE Streaks'
    BY <1>4 DEF Streaks, IsHalfOpen
  <1>5. ASSUME NEW r \in Requests,
               \/ BeginRequest(r) \/ Admit(r) \/ Refuse(r) \/ BuildFails(r)
               \/ Retry(r) \/ Resume(r) \/ CancelWait(r) \/ CompleteRateLimit(r)
        PROVE  Streaks'
    BY <1>4, <1>5
    DEF BeginRequest, Admit, AcquireClosed, Refuse, BuildFails, Retry, Resume,
        CancelWait, CompleteRateLimit, history, breakerVars
  <1>6. CASE ClockTicks \/ UpstreamChanges \/ UNCHANGED vars
    BY <1>4, <1>6
    DEF ClockTicks, TimeoutElapses, UpstreamChanges, vars, history, breakerVars
  <1>7. QED
    BY <1>1, <1>2, <1>3, <1>5, <1>6
    DEF Next, Proceed, CompleteSuccess, CompleteFailure, RecordRateLimit

-----------------------------------------------------------------------------
LEMMA BusyFinite == IsFiniteSet(Busy) /\ Cardinality(Busy) \in 0..Cardinality(Requests)
  BY ClientAssumption, FS_Subset, FS_CardinalityType DEF Busy

LEMMA NextInFlight ==
    Types /\ Slots /\ InFlightMatches /\ [Next]_vars => InFlightMatches'
  <1> SUFFICES ASSUME Types, Slots, InFlightMatches, [Next]_vars
               PROVE  InFlightMatches'
    OBVIOUS
  <1>1. ASSUME NEW r \in Requests, Finish(r), r \in Busy PROVE InFlightMatches'
    <2>1. Busy' = Busy \ {r}
      BY <1>1 DEF Finish, Return, Busy, Types
    <2>2. QED
      BY <1>1, <2>1, BusyFinite, FS_RemoveElement DEF Finish, InFlightMatches
  <1>2. ASSUME NEW r \in Requests, BeginRequest(r) PROVE InFlightMatches'
    <2>1. Busy' = Busy \cup {r} /\ r \notin Busy
      BY <1>2 DEF BeginRequest, Busy, Types
    <2>2. QED
      BY <1>2, <2>1, BusyFinite, FS_AddElement DEF BeginRequest, InFlightMatches
  <1>3. ASSUME Busy' = Busy, inFlight' = inFlight PROVE InFlightMatches'
    BY <1>3 DEF InFlightMatches
  <1>4. ASSUME NEW r \in Requests,
               Admit(r) \/ AdmitProbe(r) \/ Retry(r) \/ Resume(r)
        PROVE  InFlightMatches'
    BY <1>3, <1>4 DEF Admit, AdmitProbe, Retry, Resume, Busy, Types
  <1>5. ASSUME NEW r \in Requests,
               \/ Refuse(r) \/ BuildFails(r) \/ CancelWait(r) \/ CompleteSuccess(r)
               \/ CompleteFailure(r) \/ RecordRateLimit(r)
        PROVE  InFlightMatches'
    BY <1>1, <1>5 DEF Refuse, BuildFails, CancelWait, CompleteSuccess,
                      CompleteFailure, RecordRateLimit, Busy
  <1>6. ASSUME NEW r \in Requests, CompleteRateLimit(r) PROVE InFlightMatches'
    <2>1. CASE Finish(r)
      BY <1>1, <1>6, <2>1 DEF CompleteRateLimit, Busy
    <2>2. CASE ~Finish(r)
      BY <1>3, <1>6, <2>2 DEF CompleteRateLimit, Busy, Types
    <2>3. QED
      BY <2>1, <2>2
  <1>7. CASE ClockTicks \/ UpstreamChanges \/ UNCHANGED vars
    BY <1>3, <1>7 DEF ClockTicks, UpstreamChanges, vars, requestVars, Busy
  <1>8. QED
    BY <1>2, <1>4, <1>5, <1>6, <1>7 DEF Next, Proceed

-----------------------------------------------------------------------------
LEMMA Invariance == Spec => []IInv
  <1>1. IInv /\ [Next]_vars => IInv'
    BY NextTypes, NextSlots, NextPermit, NextExclusive, NextStreaks, NextInFlight
    DEF IInv
  <1>2. QED
    BY <1>1, InitIInv, PTL DEF Spec

(* Every variable keeps its type; the in-flight count never exceeds the     *)
(* number of request goroutines.                                            *)
THEOREM TypeCorrect == Spec => []TypeOK
  <1>1. IInv => TypeOK
    BY BusyFinite DEF IInv, Types, TypeOK, InFlightMatches
  <1>2. QED
    BY <1>1, Invariance, PTL

(* OnRequestStart and OnRequestEnd are balanced on every path. *)
THEOREM HooksBalanced == Spec => []InFlightMatches
  <1>1. IInv => InFlightMatches
    BY DEF IInv
  <1>2. QED
    BY <1>1, Invariance, PTL

(* The half-open permit is never lost, except with a probe that was not sent. *)
THEOREM PermitSafe == Spec => []PermitAccounted
  <1>1. IInv => PermitAccounted
    BY DEF IInv, Slots, Permit, PermitAccounted, PermitHeld
  <1>2. QED
    BY <1>1, Invariance, PTL

(* One probe at a time, in a period no older request interferes with. *)
THEOREM ProbesExclusive == Spec => []SingleProbe
  <1>1. IInv => SingleProbe
    BY DEF IInv, Exclusive, SingleProbe
  <1>2. QED
    BY <1>1, Invariance, PTL

(* The step from closed to open, and the step to closed. *)
Earned ==
    /\ state = "closed" /\ state' = "open" => bad' = FailureThreshold
    /\ state # "closed" /\ state' = "closed" => good' = SuccessThreshold

LEMMA StepEarned == IInv /\ [Next]_vars => Earned
  <1> SUFFICES ASSUME IInv, [Next]_vars PROVE Earned
    OBVIOUS
  <1> USE BreakerAssumption DEF IInv, Types
  <1>1. ASSUME NEW r \in Requests, RecordFailure, NoteFailure(r) PROVE Earned
    <2>1. state # "closed" => state' # "closed"
      BY <1>1, FailureEffect DEF BreakerTypeOK
    <2>2. ASSUME state = "closed", state' = "open" PROVE bad' = FailureThreshold
      <3>1. failures = bad /\ bad' = Saturate(bad, FailureThreshold)
        BY <1>1, <2>2 DEF Streaks, NoteFailure
      <3>2. failures' >= FailureThreshold
        BY <1>1, <2>2, FailureEffect
      <3>3. bad' >= FailureThreshold
        BY <1>1, <3>1, <3>2, FailureEffect
      <3>4. QED
        BY <3>1, <3>3 DEF Saturate
    <2>3. QED
      BY <2>1, <2>2 DEF Earned
  <1>2. ASSUME NEW r \in Requests, RecordSuccess, NoteSuccess(r) PROVE Earned
    <2>1. ~(state = "closed" /\ state' = "open")
      BY <1>2, SuccessEffect
    <2>2. ASSUME state # "closed", state' = "closed" PROVE good' = SuccessThreshold
      <3>1. IsHalfOpen
        BY <1>2, <2>2, SuccessEffect DEF BreakerTypeOK, IsHalfOpen, breakerVars
      <3>2. /\ successes = good
            /\ successes < SuccessThreshold \/ successes = 0
        BY <3>1 DEF Streaks
      <3>3. successes + 1 >= SuccessThreshold
        BY <1>2, <2>2, <3>1, SuccessEffect DEF IsHalfOpen
      <3>4. good' = Saturate(good, SuccessThreshold)
        BY <1>2 DEF NoteSuccess
      <3>5. QED
        BY <3>2, <3>3, <3>4 DEF Saturate
    <2>3. QED
      BY <2>1, <2>2 DEF Earned
  <1>3. ASSUME UNCHANGED state PROVE Earned
    BY <1>3 DEF Earned
  <1>4. ASSUME NEW r \in Requests, AdmitProbe(r) PROVE Earned
    BY <1>4 DEF AdmitProbe, AcquireProbe, EnterHalfOpen, Earned
  <1>5. ASSUME NEW r \in Requests,
               \/ BeginRequest(r) \/ Admit(r) \/ Refuse(r) \/ BuildFails(r)
               \/ Retry(r) \/ Resume(r) \/ CancelWait(r) \/ CompleteRateLimit(r)
        PROVE  Earned
    BY <1>3, <1>5
    DEF BeginRequest, Admit, AcquireClosed, Refuse, BuildFails, Retry, Resume,
        CancelWait, CompleteRateLimit, breakerVars
  <1>6. CASE ClockTicks \/ UpstreamChanges \/ UNCHANGED vars
    BY <1>3, <1>6 DEF ClockTicks, TimeoutElapses, UpstreamChanges, vars, breakerVars
  <1>7. QED
    BY <1>1, <1>2, <1>4, <1>5, <1>6
    DEF Next, Proceed, CompleteSuccess, CompleteFailure, RecordRateLimit

(* The breaker trips and closes only on the streaks its thresholds ask for. *)
THEOREM ThresholdsRespected == Spec => EarnedTransitions
  <1>1. IInv /\ [Next]_vars => [Earned]_vars
    BY StepEarned
  <1>2. QED
    BY <1>1, Invariance, PTL DEF Spec, EarnedTransitions, Earned
=============================================================================
