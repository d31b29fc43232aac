---------------------------- MODULE PatternProofs ----------------------------
(***************************************************************************)
(* Theorems about the two patterns of patterns/ that guard a call:         *)
(* CircuitBreaker, for any number of callers, threshold, recovery time and *)
(* probe limit, and RateLimiter, for any number of callers, amounts,       *)
(* capacity and rate.                                                      *)
(***************************************************************************)
EXTENDS CircuitBreaker, RateLimiter, FiniteSetTheorems, TLAPS

-----------------------------------------------------------------------------
(* CircuitBreaker *)

\* No counter leaves its range: more probes than half_open_max_calls are never
\* counted.
THEOREM TypeCorrect == Spec => []TypeOK
<1> USE BreakerAssumption DEF BreakerAssumption
<1>1. Init => TypeOK
  BY DEF Init, TypeOK
<1>2. TypeOK /\ [Next]_vars => TypeOK'
  <2> SUFFICES ASSUME TypeOK, [Next]_vars PROVE TypeOK'
    OBVIOUS
  <2> USE DEF TypeOK
  <2>1. ASSUME NEW c \in Callers, Admit(c) PROVE TypeOK'
    BY <2>1 DEF Admit, AdmitNormal, AdmitProbe, RecoveryDue
  <2>2. ASSUME NEW c \in Callers, Succeed(c) PROVE TypeOK'
    BY <2>2 DEF Succeed, CallEnds
  <2>3. ASSUME NEW c \in Callers, Fail(c) PROVE TypeOK'
    <3>1. Capped(failureCount + 1, FailureThreshold) \in 0 .. FailureThreshold
      BY DEF Capped
    <3> QED
      BY <2>3, <3>1 DEF Fail, CallEnds
  <2>4. ASSUME NEW c \in Callers, Cancel(c) PROVE TypeOK'
    BY <2>4 DEF Cancel, CallEnds
  <2>5. CASE Tick
    BY <2>5 DEF Tick
  <2>6. ASSUME NEW c \in Callers, Reject(c) PROVE TypeOK'
    BY <2>6 DEF Reject, vars
  <2>7. CASE UNCHANGED vars
    BY <2>7 DEF vars
  <2> QED
    BY <2>1, <2>2, <2>3, <2>4, <2>5, <2>6, <2>7 DEF Next, Finish
<1> QED
  BY <1>1, <1>2, PTL DEF Spec

\* The state and the failure count never contradict each other, whatever order
\* results arrive in.
THEOREM StateFitsCount == Spec => []ClosedBelowThreshold
<1> USE BreakerAssumption DEF BreakerAssumption
<1>1. Init => ClosedBelowThreshold
  BY DEF Init, ClosedBelowThreshold
<1>2. TypeOK /\ ClosedBelowThreshold /\ [Next]_vars => ClosedBelowThreshold'
  <2> SUFFICES ASSUME TypeOK, ClosedBelowThreshold, [Next]_vars
               PROVE  ClosedBelowThreshold'
    OBVIOUS
  <2> USE DEF TypeOK, ClosedBelowThreshold
  <2>1. ASSUME NEW c \in Callers, Admit(c) PROVE ClosedBelowThreshold'
    BY <2>1 DEF Admit, AdmitNormal, AdmitProbe, RecoveryDue
  <2>2. ASSUME NEW c \in Callers, Succeed(c) PROVE ClosedBelowThreshold'
    BY <2>2 DEF Succeed
  <2>3. ASSUME NEW c \in Callers, Fail(c) PROVE ClosedBelowThreshold'
    BY <2>3 DEF Fail, Capped
  <2>4. ASSUME NEW c \in Callers, Cancel(c) \/ Reject(c) PROVE ClosedBelowThreshold'
    BY <2>4 DEF Cancel, Reject, vars
  <2>5. CASE Tick \/ UNCHANGED vars
    BY <2>5 DEF Tick, vars
  <2> QED
    BY <2>1, <2>2, <2>3, <2>4, <2>5 DEF Next, Finish
<1> QED
  BY <1>1, <1>2, TypeCorrect, PTL DEF Spec

-----------------------------------------------------------------------------

LEMMA ProbesAreFinite == IsFiniteSet(Probes)
<1>1. Probes \subseteq Callers
  BY DEF Probes
<1> QED
  BY <1>1, FS_Subset, BreakerAssumption DEF BreakerAssumption

\* A probe that succeeds or fails ends the half-open period, and one that is
\* cancelled passes from the probes to the lost ones.
LEMMA ProbesStep ==
  ASSUME TypeOK, ClosedBelowThreshold, ProbesInFlight, [Next]_vars
  PROVE  ProbesInFlight'
<1> USE BreakerAssumption DEF BreakerAssumption, TypeOK
<1>1. ASSUME NEW c \in Callers, AdmitNormal(c) PROVE ProbesInFlight'
  <2>1. Probes' = Probes
    BY <1>1 DEF AdmitNormal, Probes
  <2> QED
    BY <1>1, <2>1 DEF AdmitNormal, ProbesInFlight
<1>2. ASSUME NEW c \in Callers, AdmitProbe(c) PROVE ProbesInFlight'
  <2>1. Probes' = Probes \cup {c} /\ c \notin Probes
    BY <1>2 DEF AdmitProbe, Probes
  <2>2. Cardinality(Probes') = Cardinality(Probes) + 1
    BY <2>1, ProbesAreFinite, FS_AddElement
  <2>3. CASE RecoveryDue
    <3>1. Probes = {}
      BY <2>3 DEF RecoveryDue, ProbesInFlight
    <3>2. Cardinality(Probes) = 0
      BY <3>1, FS_EmptySet
    <3>3. lost' = 0 /\ halfOpenCalls' = 1 /\ state' = "half_open"
      BY <1>2, <2>3 DEF AdmitProbe, RecoveryDue, ProbesInFlight
    <3> QED
      BY <2>1, <2>2, <3>2, <3>3 DEF ProbesInFlight
  <2>4. CASE ~RecoveryDue
    <3>1. /\ state = "half_open" /\ state' = "half_open"
          /\ halfOpenCalls' = halfOpenCalls + 1 /\ lost' = lost
      BY <1>2, <2>4 DEF AdmitProbe
    <3>2. Cardinality(Probes) \in Nat
      BY ProbesAreFinite, FS_CardinalityType
    <3> QED
      BY <2>1, <2>2, <3>1, <3>2 DEF ProbesInFlight
  <2> QED
    BY <2>3, <2>4
<1>3. ASSUME NEW c \in Callers, Succeed(c) PROVE ProbesInFlight'
  <2>1. state' # "half_open" /\ lost' = 0
    BY <1>3 DEF Succeed
  <2>2. Probes' = {}
    BY <1>3, <2>1 DEF Succeed, CallEnds, Probes
  <2> QED
    BY <2>1, <2>2 DEF ProbesInFlight
<1>4. ASSUME NEW c \in Callers, Fail(c) PROVE ProbesInFlight'
  <2>1. state' # "half_open" /\ lost' = 0
    BY <1>4 DEF Fail, Capped, ClosedBelowThreshold
  <2>2. Probes' = {}
    BY <1>4, <2>1 DEF Fail, CallEnds, Probes
  <2> QED
    BY <2>1, <2>2 DEF ProbesInFlight
<1>5. ASSUME NEW c \in Callers, Cancel(c) PROVE ProbesInFlight'
  <2>1. CASE state = "half_open" /\ c \in Probes
    <3>1. Probes' = Probes \ {c}
      BY <1>5, <2>1 DEF Cancel, CallEnds, Probes
    <3>2. Cardinality(Probes') = Cardinality(Probes) - 1
      BY <2>1, <3>1, ProbesAreFinite, FS_RemoveElement
    <3>3. Cardinality(Probes) \in Nat
      BY ProbesAreFinite, FS_CardinalityType
    <3>4. call[c] = "probe"
      BY <2>1 DEF Probes
    <3> QED
      BY <1>5, <2>1, <3>2, <3>3, <3>4 DEF Cancel, ProbesInFlight
  <2>2. CASE state # "half_open" \/ c \notin Probes
    <3>1. Probes' = Probes /\ call[c] # "probe"
      BY <1>5, <2>2 DEF Cancel, CallEnds, Probes, ProbesInFlight
    <3> QED
      BY <1>5, <3>1 DEF Cancel, ProbesInFlight
  <2> QED
    BY <2>1, <2>2
<1>6. CASE Tick \/ UNCHANGED vars \/ \E c \in Callers : Reject(c)
  <2>1. UNCHANGED <<state, halfOpenCalls, call, lost>>
    BY <1>6 DEF Tick, Reject, vars
  <2>2. Probes' = Probes
    BY <2>1 DEF Probes
  <2> QED
    BY <2>1, <2>2 DEF ProbesInFlight
<1> QED
  BY <1>1, <1>2, <1>3, <1>4, <1>5, <1>6 DEF Next, Admit, Finish

\* The half-open count is the number of probes in flight plus the cancelled ones,
\* whatever order calls end in.
THEOREM CountedProbesAreInFlight == Spec => []ProbesInFlight
<1>1. Init => ProbesInFlight
  BY DEF Init, ProbesInFlight, Probes
<1>2. TypeOK /\ ClosedBelowThreshold /\ ProbesInFlight /\ [Next]_vars => ProbesInFlight'
  BY ProbesStep
<1> QED
  BY <1>1, <1>2, TypeCorrect, StateFitsCount, PTL DEF Spec

\* An open breaker closes only by way of a half-open period.
THEOREM NoShortcutFromOpen == Spec => NoShortcut
<1>1. TypeOK /\ [Next]_vars => [state = "open" => state' # "closed"]_state
  BY DEF Next, Admit, AdmitNormal, AdmitProbe, Reject, Finish, Succeed, Fail, Cancel,
         Tick, vars
<1> QED
  BY <1>1, TypeCorrect, PTL DEF Spec, NoShortcut

-----------------------------------------------------------------------------
(* RateLimiter *)

\* What _refill stores is a number of tokens the bucket can hold.
LEMMA RefillInRange ==
  ASSUME NEW k \in Nat, NEW e \in Nat
  PROVE  Lesser(MaxTokens, k + e * RefillRate) \in 0 .. MaxTokens
<1>1. k + e * RefillRate \in Nat /\ MaxTokens \in Nat
  BY LimiterAssumption DEF LimiterAssumption
<1> QED
  BY <1>1 DEF Lesser

LEMMA RefilledType == LimiterTypeOK => Refilled \in 0 .. MaxTokens
<1> SUFFICES ASSUME LimiterTypeOK PROVE Refilled \in 0 .. MaxTokens
  OBVIOUS
<1>1. tokens \in Nat /\ sinceRefill \in Nat
  BY LimiterAssumption DEF LimiterAssumption, LimiterTypeOK
<1> QED
  BY <1>1, RefillInRange DEF Refilled

\* What is granted was in the bucket.
LEMMA GrantIsCovered ==
  ASSUME LimiterTypeOK, NEW c \in Users, Granted(c)
  PROVE  /\ wanted[c] \in 0 .. MaxTokens
         /\ Refilled - wanted[c] \in 0 .. MaxTokens
         /\ taken + wanted[c] \in Nat
<1>1. wanted[c] \in Nat
  <2>1. wanted[c] \in Amounts \cup {0}
    BY DEF LimiterTypeOK
  <2>2. CASE wanted[c] \in Amounts
    BY <2>2, LimiterAssumption, Zenon DEF LimiterAssumption
  <2>3. CASE wanted[c] = 0
    BY <2>3
  <2> QED
    BY <2>1, <2>2, <2>3, Zenon
<1>2. Refilled \in 0 .. MaxTokens /\ MaxTokens \in Nat
  BY RefilledType, LimiterAssumption DEF LimiterAssumption
<1>3. wanted[c] <= Refilled /\ taken \in Nat
  BY DEF Granted, LimiterTypeOK
<1> QED
  BY <1>1, <1>2, <1>3

\* The bucket is never overdrawn and never overfull.
THEOREM LimiterTypeCorrect == LimiterSpec => []LimiterTypeOK
<1> USE LimiterAssumption DEF LimiterAssumption
<1>1. LimiterInit => LimiterTypeOK
  BY DEF LimiterInit, LimiterTypeOK
<1>2. LimiterTypeOK /\ [LimiterNext]_limiterVars => LimiterTypeOK'
  <2> SUFFICES ASSUME LimiterTypeOK, [LimiterNext]_limiterVars PROVE LimiterTypeOK'
    OBVIOUS
  <2> USE DEF LimiterTypeOK
  <2>1. ASSUME NEW c \in Users, Granted(c) PROVE LimiterTypeOK'
    <3>1. tokens' \in 0 .. MaxTokens /\ taken' \in Nat /\ sinceRefill' \in 0 .. FullAfter
      BY <2>1, GrantIsCovered DEF Granted
    <3> QED
      BY <2>1, <3>1 DEF Granted
  <2>2. ASSUME NEW c \in Users, Naps(c) PROVE LimiterTypeOK'
    BY <2>2, RefilledType DEF Naps
  <2>3. ASSUME NEW c \in Users, NEW n \in Amounts, Acquire(c, n) PROVE LimiterTypeOK'
    BY <2>3 DEF Acquire
  <2>4. CASE AvailableTokens
    BY <2>4, RefilledType DEF AvailableTokens
  <2>5. CASE TimePasses
    <3>1. Lesser(FullAfter, sinceRefill + 1) \in 0 .. FullAfter
      BY DEF Lesser
    <3> QED
      BY <2>5, <3>1 DEF TimePasses
  <2>6. CASE NewWindow \/ UNCHANGED limiterVars
    BY <2>6 DEF NewWindow, limiterVars
  <2> QED
    BY <2>1, <2>2, <2>3, <2>4, <2>5, <2>6 DEF LimiterNext, Look
<1> QED
  BY <1>1, <1>2, PTL DEF LimiterSpec

-----------------------------------------------------------------------------
(* The refill on demand is the refill by the clock *)

\* A look brings _tokens up to the level, and the level stays as it is.
LEMMA LookKeepsLevel ==
  ASSUME LimiterTypeOK, NEW n \in 0 .. MaxTokens, sinceRefill' = 0, tokens' = n
  PROVE  Refilled' = n
  BY LimiterAssumption DEF LimiterAssumption, Refilled, Lesser

\* A tick adds RefillRate to the level, as far as there is room.  A bucket that
\* nobody looked at for FullAfter ticks is full.
LEMMA TickFills ==
  ASSUME LimiterTypeOK, TimePasses
  PROVE  Refilled' = Lesser(MaxTokens, Refilled + RefillRate)
<1> USE LimiterAssumption DEF LimiterAssumption, LimiterTypeOK, TimePasses, Refilled
<1>1. CASE sinceRefill < FullAfter
  <2>1. sinceRefill' = sinceRefill + 1
    BY <1>1 DEF Lesser
  <2>2. sinceRefill' * RefillRate = sinceRefill * RefillRate + RefillRate
    BY <2>1
  <2>3. sinceRefill * RefillRate \in Nat
    OBVIOUS
  <2> HIDE DEF LimiterTypeOK
  <2> QED
    BY <2>2, <2>3 DEF Lesser, LimiterTypeOK
<1>2. CASE sinceRefill = FullAfter
  <2>1. sinceRefill' = sinceRefill
    BY <1>2 DEF Lesser
  <2>2. sinceRefill * RefillRate \in Nat /\ sinceRefill * RefillRate >= MaxTokens
    BY <1>2
  <2> QED
    BY <2>1, <2>2 DEF Lesser
<1> QED
  BY <1>1, <1>2

\* Each step of the limiter is a step of the bucket or leaves it alone.
LEMMA StepImplements ==
  ASSUME LimiterTypeOK, [LimiterNext]_limiterVars
  PROVE  [Bucket!BucketNext]_Bucket!bucket
<1> USE DEF Bucket!BucketNext, Bucket!bucket
<1>1. ASSUME NEW c \in Users, Granted(c) PROVE Bucket!BucketNext
  <2>1. wanted[c] \in 0 .. MaxTokens /\ Refilled - wanted[c] \in 0 .. MaxTokens
    BY <1>1, GrantIsCovered
  <2>2. Refilled' = Refilled - wanted[c]
    BY <1>1, <2>1, LookKeepsLevel DEF Granted
  <2> QED
    BY <1>1, <2>1, <2>2 DEF Granted, Bucket!Take
<1>2. ASSUME AvailableTokens \/ \E c \in Users : Naps(c)
      PROVE  UNCHANGED Bucket!bucket
  <2>1. sinceRefill' = 0 /\ tokens' = Refilled
    BY <1>2 DEF AvailableTokens, Naps
  <2>2. Refilled' = Refilled
    BY <2>1, RefilledType, LookKeepsLevel
  <2> QED
    BY <1>2, <2>2 DEF AvailableTokens, Naps
<1>3. CASE TimePasses
  BY <1>3, TickFills DEF TimePasses, Bucket!Fill, Bucket!Lesser, Lesser
<1>4. CASE NewWindow
  BY <1>4 DEF NewWindow, Bucket!NewWindow, Refilled
<1>5. ASSUME UNCHANGED limiterVars \/ \E c \in Users, n \in Amounts : Acquire(c, n)
      PROVE  UNCHANGED Bucket!bucket
  BY <1>5 DEF Acquire, limiterVars, Refilled
<1> QED
  BY <1>1, <1>2, <1>3, <1>4, <1>5 DEF LimiterNext, Look

\* The limiter implements the bucket.
THEOREM Implementation == LimiterSpec => ImplementsBucket
<1>1. LimiterInit => Bucket!BucketInit
  BY LimiterAssumption DEF LimiterInit, Bucket!BucketInit, Refilled, Lesser, LimiterAssumption
<1>2. LimiterTypeOK /\ [LimiterNext]_limiterVars => [Bucket!BucketNext]_Bucket!bucket
  BY StepImplements
<1> QED
  BY <1>1, <1>2, LimiterTypeCorrect, PTL DEF LimiterSpec, ImplementsBucket, Bucket!BucketSpec

-----------------------------------------------------------------------------
(* The bound on every window *)

\* What a window was granted is covered by what it found in the bucket and what
\* came in since, and the rest of that is still there.
Covered == taken + Refilled <= MaxTokens + age * RefillRate

\* No window of n ticks is granted more than MaxTokens + n * RefillRate.
THEOREM WindowsAreBounded == LimiterSpec => []WindowBound
<1> USE LimiterAssumption DEF LimiterAssumption
<1>1. LimiterInit => Covered
  BY DEF LimiterInit, Covered, Refilled, Lesser
<1>2. LimiterTypeOK' => Refilled' \in 0 .. MaxTokens
  <2> SUFFICES ASSUME LimiterTypeOK' PROVE Refilled' \in 0 .. MaxTokens
    OBVIOUS
  <2>1. tokens' \in Nat /\ sinceRefill' \in Nat
    BY DEF LimiterTypeOK
  <2> QED
    BY <2>1, RefillInRange DEF Refilled
<1>3. LimiterTypeOK /\ LimiterTypeOK' /\ Covered /\ [LimiterNext]_limiterVars => Covered'
  <2> SUFFICES ASSUME LimiterTypeOK, LimiterTypeOK', Covered, [LimiterNext]_limiterVars PROVE Covered'
    OBVIOUS
  <2>1. /\ Refilled \in 0 .. MaxTokens /\ age \in Nat /\ taken \in Nat
        /\ Refilled' \in 0 .. MaxTokens
    BY <1>2, RefilledType DEF LimiterTypeOK
  <2>2. age * RefillRate \in Nat
    BY <2>1
  <2>3. CASE Bucket!Fill
    <3>1. age' * RefillRate = age * RefillRate + RefillRate
      BY <2>1, <2>3 DEF Bucket!Fill
    <3>2. Refilled' <= Refilled + RefillRate /\ taken' = taken
      BY <2>1, <2>3 DEF Bucket!Fill, Bucket!Lesser
    <3> QED
      BY <2>1, <2>2, <3>1, <3>2 DEF Covered
  <2>4. CASE Bucket!NewWindow
    BY <2>1, <2>4 DEF Bucket!NewWindow, Covered
  <2>5. ASSUME NEW n \in 0 .. MaxTokens, Bucket!Take(n) PROVE Covered'
    BY <2>1, <2>2, <2>5 DEF Bucket!Take, Covered
  <2>6. CASE UNCHANGED Bucket!bucket
    BY <2>6 DEF Bucket!bucket, Covered
  <2> QED
    BY <2>3, <2>4, <2>5, <2>6, StepImplements DEF Bucket!BucketNext
<1>4. LimiterTypeOK /\ Covered => WindowBound
  <2> SUFFICES ASSUME LimiterTypeOK, Covered PROVE WindowBound
    OBVIOUS
  <2>1. Refilled \in Nat /\ taken \in Nat /\ age * RefillRate \in Nat
    BY RefilledType DEF LimiterTypeOK
  <2> QED
    BY <2>1 DEF Covered, WindowBound, Bucket!WindowBound
<1> QED
  BY <1>1, <1>3, <1>4, LimiterTypeCorrect, PTL DEF LimiterSpec
=============================================================================
