--------------------------- MODULE CircuitBreaker ---------------------------
(***************************************************************************)
(* One CircuitBreaker (youmi/core/resilience.py) shared by every concurrent *)
(* call to one target, with the call protocol of its users: LLMClient.chat *)
(* and chat_stream (retries with backoff inside one breaker call) and      *)
(* ToolExecutorMixin._do_execute_tool (MaxRetries = 0).  Calls interleave  *)
(* at their awaits, so a result may reach the breaker in another state     *)
(* than the one that admitted the call.                                    *)
(***************************************************************************)
EXTENDS Naturals, FiniteSets

CONSTANTS Calls,        \* concurrent callers of the target
          Cancellable,  \* callers whose asyncio.Task may be cancelled
          Threshold,    \* failure_threshold
          MaxProbes,    \* half_open_max_calls
          MaxRetries    \* RetryPolicy.max_retries

ASSUME BreakerAssumption ==
    /\ IsFiniteSet(Calls) /\ Cancellable \subseteq Calls
    /\ Threshold \in Nat \ {0} /\ MaxProbes \in Nat \ {0} /\ MaxRetries \in Nat

VARIABLES
    state,     \* _state
    fails,     \* _failure_count, cut off at Threshold (only >= is tested)
    inFlight,  \* _half_open_in_flight
    elapsed,   \* recovery_timeout_s has passed since _opened_at
    phase,     \* a caller: idle, running an attempt, or in its backoff
    attempt,   \* attempts made by the current call
    probe,     \* history: the call was admitted in HALF_OPEN
    streak,    \* history: consecutive failures recorded, cut off at Threshold
    cut,       \* history: a probe was cancelled in this HALF_OPEN period
    healthy    \* environment: the target answers

breaker     == <<state, fails, inFlight, elapsed>>
callVars    == <<phase, attempt, probe>>
breakerVars == <<breaker, callVars, streak, cut, healthy>>

\* Counting up to Threshold: no test tells larger values apart.
Inc(n) == IF n < Threshold THEN n + 1 ELSE n
-----------------------------------------------------------------------------
(* CircuitBreaker *)

\* before_call lets the call through: CLOSED, or a free probe slot in
\* HALF_OPEN, which an OPEN breaker enters when its timeout has passed.
Admit ==
    \/ state = "closed" /\ UNCHANGED breaker
    \/ /\ state = "open" /\ elapsed
       /\ state' = "half_open" /\ inFlight' = 1
       /\ UNCHANGED <<fails, elapsed>>
    \/ /\ state = "half_open" /\ inFlight < MaxProbes
       /\ inFlight' = inFlight + 1
       /\ UNCHANGED <<state, fails, elapsed>>

\* before_call raises CircuitOpenError.
Rejects ==
    \/ state = "open" /\ ~elapsed
    \/ state = "half_open" /\ inFlight >= MaxProbes

Release == IF inFlight > 0 THEN inFlight - 1 ELSE 0

\* Mutant: a successful probe frees its slot but does not close the breaker.
RecordSuccess_NoClose ==
    /\ streak' = 0
    /\ state' = state /\ fails' = 0
    /\ inFlight' = IF state = "half_open" THEN Release ELSE inFlight
    /\ UNCHANGED elapsed

\* record_success
RecordSuccess ==
    /\ streak' = 0
    /\ fails' = 0
    /\ \/ state = "half_open" /\ state' = "closed" /\ inFlight' = Release
       \/ state # "half_open" /\ UNCHANGED <<state, inFlight>>
    /\ UNCHANGED elapsed

\* _trip
Trip == state' = "open" /\ elapsed' = FALSE

\* Mutant: the comparison is > instead of >=.
RecordFailure_OffByOne ==
    /\ streak' = Inc(streak)
    /\ \/ state = "half_open" /\ inFlight' = Release /\ Trip /\ UNCHANGED fails
       \/ /\ state # "half_open" /\ fails' = Inc(fails)
          /\ IF fails = Threshold THEN Trip ELSE UNCHANGED <<state, elapsed>>
          /\ UNCHANGED inFlight

\* Mutant: a failed probe neither trips the breaker nor frees its slot.
RecordFailure_StaysHalfOpen ==
    /\ streak' = Inc(streak)
    /\ \/ state = "half_open" /\ UNCHANGED breaker
       \/ /\ state # "half_open" /\ fails' = Inc(fails)
          /\ IF fails' >= Threshold THEN Trip ELSE UNCHANGED <<state, elapsed>>
          /\ UNCHANGED inFlight

\* record_failure
RecordFailure ==
    /\ streak' = Inc(streak)
    /\ \/ state = "half_open" /\ inFlight' = Release /\ Trip /\ UNCHANGED fails
       \/ /\ state # "half_open" /\ fails' = Inc(fails)
          /\ IF fails' >= Threshold THEN Trip ELSE UNCHANGED <<state, elapsed>>
          /\ UNCHANGED inFlight

\* reset, by reset_all of the evaluation runner.
Reset ==
    /\ state # "closed"
    /\ state' = "closed" /\ fails' = 0 /\ inFlight' = 0 /\ streak' = 0
    /\ UNCHANGED <<elapsed, callVars, cut, healthy>>

\* The monotonic clock passes _opened_at + recovery_timeout_s.
RecoveryElapses ==
    /\ state = "open" /\ ~elapsed
    /\ elapsed' = TRUE
    /\ UNCHANGED <<state, fails, inFlight, callVars, streak, cut, healthy>>
-----------------------------------------------------------------------------
(* Callers *)

Done(c) == phase' = [phase EXCEPT ![c] = "idle"]

\* chat, chat_stream, _do_execute_tool: one before_call for the whole call.
Begin(c) ==
    /\ phase[c] = "idle"
    /\ Admit
    /\ phase' = [phase EXCEPT ![c] = "running"]
    /\ attempt' = [attempt EXCEPT ![c] = 1]
    /\ probe' = [probe EXCEPT ![c] = state # "closed"]
    /\ cut' = (cut /\ state # "open")
    /\ UNCHANGED <<streak, healthy>>

\* A rejected call fails fast and changes nothing but a statistic.
Rejected(c) ==
    /\ phase[c] = "idle" /\ Rejects
    /\ UNCHANGED breakerVars

\* The attempt succeeds.
Succeeds(c) ==
    /\ phase[c] = "running" /\ healthy
    /\ RecordSuccess
    /\ Done(c)
    /\ UNCHANGED <<attempt, probe, cut, healthy>>

\* The attempt fails with a retryable error and is retried after a backoff,
\* which does not ask the breaker again.
AttemptFails(c) ==
    /\ phase[c] = "running" /\ ~healthy /\ attempt[c] <= MaxRetries
    /\ phase' = [phase EXCEPT ![c] = "backoff"]
    /\ UNCHANGED <<breaker, attempt, probe, streak, cut, healthy>>

BackoffOver(c) ==
    /\ phase[c] = "backoff"
    /\ phase' = [phase EXCEPT ![c] = "running"]
    /\ attempt' = [attempt EXCEPT ![c] = @ + 1]
    /\ UNCHANGED <<breaker, probe, streak, cut, healthy>>

\* The call fails for good: retries used up, a stream broken after its
\* first chunk, a tool that failed or timed out.
CallFails(c) ==
    /\ phase[c] = "running" /\ ~healthy
    /\ RecordFailure
    /\ Done(c)
    /\ UNCHANGED <<attempt, probe, cut, healthy>>

\* A business error (HTTP 400): raised to the caller, but the target is up.
BusinessError(c) ==
    /\ phase[c] = "running"
    /\ RecordSuccess
    /\ Done(c)
    /\ UNCHANGED <<attempt, probe, cut, healthy>>

\* CancelledError (or the closing of a stream generator) is no Exception:
\* the call ends and tells the breaker nothing.
Cancelled(c) ==
    /\ phase[c] \in {"running", "backoff"} /\ c \in Cancellable
    /\ Done(c)
    /\ cut' = (cut \/ (probe[c] /\ state = "half_open"))
    /\ UNCHANGED <<breaker, attempt, probe, streak, healthy>>

\* The target goes down or comes back.
TargetChanges ==
    /\ healthy' = ~healthy
    /\ UNCHANGED <<breaker, callVars, streak, cut>>
-----------------------------------------------------------------------------
Init ==
    /\ state = "closed" /\ fails = 0 /\ inFlight = 0 /\ elapsed = FALSE
    /\ phase = [c \in Calls |-> "idle"]
    /\ attempt = [c \in Calls |-> 0] /\ probe = [c \in Calls |-> FALSE]
    /\ streak = 0 /\ cut = FALSE /\ healthy = TRUE

BreakerNext ==
    \/ \E c \in Calls :
          \/ Begin(c) \/ Rejected(c) \/ Succeeds(c) \/ AttemptFails(c) \/ BackoffOver(c)
          \/ CallFails(c) \/ BusinessError(c) \/ Cancelled(c)
    \/ RecoveryElapses \/ Reset \/ TargetChanges

\* Callers keep calling, an attempt ends (HTTP and tool timeouts), backoffs
\* and the recovery timeout pass.
Fairness ==
    /\ WF_breakerVars(RecoveryElapses)
    /\ \A c \in Calls :
          /\ WF_breakerVars(Begin(c)) /\ WF_breakerVars(BackoffOver(c))
          /\ WF_breakerVars(Succeeds(c) \/ CallFails(c))

BreakerSpec == Init /\ [][BreakerNext]_breakerVars

FairBreakerSpec == BreakerSpec /\ Fairness
-----------------------------------------------------------------------------
(* Properties *)

Probes == {c \in Calls : phase[c] # "idle" /\ probe[c]}

\* Every variable stays in its range; a call makes at most max_retries + 1
\* attempts.
TypeOK ==
    /\ state \in {"closed", "open", "half_open"}
    /\ fails \in 0..Threshold /\ streak \in 0..Threshold
    /\ inFlight \in 0..MaxProbes /\ elapsed \in BOOLEAN
    /\ phase \in [Calls -> {"idle", "running", "backoff"}]
    /\ attempt \in [Calls -> 0..(MaxRetries + 1)]
    /\ probe \in [Calls -> BOOLEAN] /\ cut \in BOOLEAN /\ healthy \in BOOLEAN

\* A CLOSED breaker has not seen failure_threshold failures in a row,
\* whichever calls they came from and in whatever order the results arrive.
ClosedMeansHealthy == state = "closed" => streak < Threshold

\* No slot is lost: unless a probe of this period was cancelled, every slot
\* a HALF_OPEN breaker counts is held by a probe that runs and will report.
SlotsHeld == state = "half_open" /\ ~cut => inFlight <= Cardinality(Probes)

\* A target that stays up is reachable again: the breaker closes for good,
\* or it is held HALF_OPEN by the slot of a cancelled probe.
Recovers ==
    <>[]healthy => \/ <>[](state = "closed")
                   \/ <>[](state = "half_open" /\ cut)

\* The breaker trips in time, and calls keep to their retry budget.
TripsInTime == TypeOK /\ ClosedMeansHealthy
=============================================================================
