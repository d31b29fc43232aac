--------------------------- MODULE CircuitBreaker ---------------------------
(***************************************************************************)
(* patterns/circuit_breaker.py: one breaker and the calls that go through  *)
(* it.  Each method body under the asyncio lock has no await, so it is one *)
(* action; the wrapped function runs between two of them, outside the      *)
(* lock, and any number of calls can be in flight in any state.            *)
(***************************************************************************)
EXTENDS Naturals, FiniteSets

CONSTANTS
  Callers,           \* the coroutines that use the breaker
  FailureThreshold,  \* failure_threshold
  RecoveryTimeout,   \* recovery_timeout_seconds, in ticks of the clock
  HalfOpenMaxCalls,  \* half_open_max_calls
  Cancels            \* whether a call in flight may be cancelled

ASSUME BreakerAssumption ==
  /\ IsFiniteSet(Callers)
  /\ FailureThreshold \in Nat \ {0}
  /\ RecoveryTimeout \in Nat
  /\ HalfOpenMaxCalls \in Nat \ {0}
  /\ Cancels \in BOOLEAN

VARIABLES
  state,          \* _state
  failureCount,   \* _failure_count, which only its comparison with the
                  \* threshold is read from: kept at the threshold from there on
  halfOpenCalls,  \* _half_open_calls
  elapsed,        \* time since _last_failure_time, kept at RecoveryTimeout
  call,           \* each caller's call in flight: let through as a "normal"
                  \* call or as a "probe", or a probe of a half-open period
                  \* that is over ("late")
  lost            \* probes of the half-open period whose calls were cancelled (not
                  \* in the code)

vars == <<state, failureCount, halfOpenCalls, elapsed, call, lost>>

TypeOK ==
  /\ state \in {"closed", "open", "half_open"}
  /\ failureCount \in 0 .. FailureThreshold
  /\ halfOpenCalls \in 0 .. HalfOpenMaxCalls
  /\ elapsed \in 0 .. RecoveryTimeout
  /\ call \in [Callers -> {"idle", "normal", "probe", "late"}]
  /\ lost \in Nat

Init ==
  /\ state = "closed"
  /\ failureCount = 0
  /\ halfOpenCalls = 0
  /\ elapsed = RecoveryTimeout
  /\ call = [c \in Callers |-> "idle"]
  /\ lost = 0

Capped(n, bound) == IF n < bound THEN n ELSE bound

Probes == {c \in Callers : call[c] = "probe"}

\* _maybe_transition has made the breaker half-open and reset its probe count.
RecoveryDue == state = "open" /\ elapsed >= RecoveryTimeout

\* call: let through as in the closed state,
AdmitNormal(c) ==
  /\ call[c] = "idle" /\ state = "closed"
  /\ call' = [call EXCEPT ![c] = "normal"]
  /\ UNCHANGED <<state, failureCount, halfOpenCalls, elapsed, lost>>

\* Mutation: the number of probes is not reset for a new period.
AdmitProbe_NoReset(c) ==
  /\ call[c] = "idle"
  /\ RecoveryDue \/ state = "half_open"
  /\ halfOpenCalls < HalfOpenMaxCalls
  /\ state' = "half_open"
  /\ halfOpenCalls' = halfOpenCalls + 1
  /\ call' = [call EXCEPT ![c] = "probe"]
  /\ UNCHANGED <<failureCount, elapsed, lost>>

\* ... as a probe, the first of a half-open period or a further one,
AdmitProbe(c) ==
  LET made == IF RecoveryDue THEN 0 ELSE halfOpenCalls
  IN /\ call[c] = "idle"
     /\ RecoveryDue \/ state = "half_open"
     /\ made < HalfOpenMaxCalls
     /\ state' = "half_open"
     /\ halfOpenCalls' = made + 1
     /\ call' = [call EXCEPT ![c] = "probe"]
     /\ UNCHANGED <<failureCount, elapsed, lost>>

\* Mutation: a refusal counts as a failure and restarts the recovery time.
Reject_Restarts(c) ==
  /\ call[c] = "idle"
  /\ \/ state = "open" /\ elapsed < RecoveryTimeout
     \/ state = "half_open" /\ halfOpenCalls >= HalfOpenMaxCalls
  /\ elapsed' = 0
  /\ UNCHANGED <<state, failureCount, halfOpenCalls, call, lost>>

\* ... or refused with CircuitOpenError, which leaves the breaker as it was.
Reject(c) ==
  /\ call[c] = "idle"
  /\ \/ state = "open" /\ elapsed < RecoveryTimeout
     \/ state = "half_open" /\ halfOpenCalls >= HalfOpenMaxCalls
  /\ UNCHANGED vars

\* The call of c is over; if s ends a half-open period, its other probes are late.
CallEnds(c, s) ==
  call' = [x \in Callers |->
             IF x = c THEN "idle"
             ELSE IF call[x] = "probe" /\ s # "half_open" THEN "late"
             ELSE call[x]]

\* Mutation: closing keeps the failure count.
Succeed_KeepsCount(c) ==
  LET closes == state = "half_open"
  IN /\ call[c] # "idle"
     /\ state' = IF closes THEN "closed" ELSE state
     /\ halfOpenCalls' = IF closes THEN 0 ELSE halfOpenCalls
     /\ CallEnds(c, state')
     /\ lost' = 0
     /\ UNCHANGED <<failureCount, elapsed>>

\* _record_success
Succeed(c) ==
  LET closes == state = "half_open"
  IN /\ call[c] # "idle"
     /\ state' = IF closes THEN "closed" ELSE state
     /\ failureCount' = IF closes THEN 0 ELSE failureCount
     /\ halfOpenCalls' = IF closes THEN 0 ELSE halfOpenCalls
     /\ CallEnds(c, state')
     /\ lost' = 0
     /\ UNCHANGED elapsed

\* Mutation: only a closed breaker opens.
Fail_OnlyFromClosed(c) ==
  /\ call[c] # "idle"
  /\ failureCount' = Capped(failureCount + 1, FailureThreshold)
  /\ state' = IF state = "closed" /\ failureCount' >= FailureThreshold THEN "open" ELSE state
  /\ elapsed' = 0
  /\ CallEnds(c, state')
  /\ lost' = IF state' = "half_open" THEN lost ELSE 0
  /\ UNCHANGED halfOpenCalls

\* _record_failure
Fail(c) ==
  /\ call[c] # "idle"
  /\ failureCount' = Capped(failureCount + 1, FailureThreshold)
  /\ state' = IF failureCount' >= FailureThreshold THEN "open" ELSE state
  /\ elapsed' = 0
  /\ CallEnds(c, state')
  /\ lost' = IF state' = "half_open" THEN lost ELSE 0
  /\ UNCHANGED halfOpenCalls

\* CancelledError is no Exception: neither record is made.
Cancel(c) ==
  /\ Cancels
  /\ call[c] # "idle"
  /\ CallEnds(c, state)
  /\ lost' = IF call[c] = "probe" THEN lost + 1 ELSE lost
  /\ UNCHANGED <<state, failureCount, halfOpenCalls, elapsed>>

Tick ==
  /\ elapsed < RecoveryTimeout
  /\ elapsed' = elapsed + 1
  /\ UNCHANGED <<state, failureCount, halfOpenCalls, call, lost>>

Admit(c) == AdmitNormal(c) \/ AdmitProbe(c)

Finish(c) == Succeed(c) \/ Fail(c) \/ Cancel(c)

Next == Tick \/ \E c \in Callers : Admit(c) \/ Reject(c) \/ Finish(c)

Spec == Init /\ [][Next]_vars

\* Time passes, calls end, and callers that are idle go on calling.
Fairness ==
  /\ WF_vars(Tick)
  /\ WF_vars(\E c \in Callers : Admit(c))
  /\ \A c \in Callers : WF_vars(Finish(c))

FairSpec == Spec /\ Fairness

-----------------------------------------------------------------------------
(* Properties *)

\* The breaker lets calls through freely just while its count is below the
\* threshold, although late results keep arriving in every state.
ClosedBelowThreshold == state = "closed" <=> failureCount < FailureThreshold

\* The half-open count is the number of probes in flight plus those that were
\* cancelled and never gave their place back; no probe outlives its period.
ProbesInFlight ==
  /\ state = "half_open" =>
       halfOpenCalls = Cardinality(Probes) + lost /\ (Probes # {} \/ lost > 0)
  /\ state # "half_open" => Probes = {} /\ lost = 0

\* An open breaker closes only by way of a half-open period.
NoShortcut == [][state = "open" => state' # "closed"]_state

\* An open breaker is tried again, however many calls fail late.
OpenIsProbed == state = "open" ~> state = "half_open"

\* A half-open breaker closes or opens, unless every one of its probes was
\* cancelled.
HalfOpenIsDecided ==
  state = "half_open" ~> state # "half_open" \/ lost = HalfOpenMaxCalls
=============================================================================
