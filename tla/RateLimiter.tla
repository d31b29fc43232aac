---------------------------- MODULE RateLimiter ----------------------------
(***************************************************************************)
(* patterns/rate_limiter.py: the tokens are brought up to date only when   *)
(* somebody looks (_refill), from the time that has passed since.  The     *)
(* body of acquire under the lock has no await and is one action; a caller *)
(* that finds too little sleeps and looks again.                           *)
(***************************************************************************)
EXTENDS Naturals

CONSTANTS
  Users,        \* coroutines that call acquire
  Amounts,      \* what they ask for, in units that need not be whole tokens
  MaxTokens,    \* max_tokens in such units
  RefillRate,   \* refill_rate, in units per tick
  NapTime,      \* ticks in the sleep of 1.0 / refill_rate between two looks:
                \* the time it takes to refill one token
  FullAfter,    \* ticks after which any bucket is full: time is not told
                \* apart from there on
  MaxAge        \* bound: length of an observed window

ASSUME LimiterAssumption ==
  /\ Amounts \subseteq Nat
  /\ MaxTokens \in Nat /\ RefillRate \in Nat /\ NapTime \in Nat
  /\ FullAfter \in Nat /\ FullAfter * RefillRate >= MaxTokens
  /\ MaxAge \in Nat

VARIABLES
  tokens,       \* _tokens
  sinceRefill,  \* the time since _last_refill, kept at FullAfter
  wanted,       \* [Users -> Nat], the argument of the acquire in progress
  nap,          \* [Users -> Nat], ticks until the caller looks again
  calling,      \* the callers inside acquire
  age, taken    \* the observed window of TokenBucket

limiterVars == <<tokens, sinceRefill, wanted, nap, calling, age, taken>>

LimiterTypeOK ==
  /\ tokens \in 0 .. MaxTokens
  /\ sinceRefill \in 0 .. FullAfter
  /\ calling \subseteq Users
  /\ wanted \in [Users -> Amounts \cup {0}]
  /\ nap \in [Users -> 0 .. NapTime]
  /\ age \in Nat /\ taken \in Nat

LimiterInit ==
  /\ tokens = MaxTokens
  /\ sinceRefill = 0
  /\ calling = {}
  /\ wanted = [c \in Users |-> 0]
  /\ nap = [c \in Users |-> 0]
  /\ age = 0 /\ taken = 0

Lesser(m, n) == IF m <= n THEN m ELSE n

\* What _refill makes of _tokens.
Refilled == Lesser(MaxTokens, tokens + sinceRefill * RefillRate)

Acquire(c, n) ==
  /\ c \notin calling
  /\ calling' = calling \cup {c}
  /\ wanted' = [wanted EXCEPT ![c] = n]
  /\ nap' = [nap EXCEPT ![c] = 0]
  /\ UNCHANGED <<tokens, sinceRefill, age, taken>>

\* Mutation: the time of the last refill is not moved on.
Granted_SameRefillTime(c) ==
  /\ c \in calling /\ nap[c] = 0
  /\ Refilled >= wanted[c]
  /\ tokens' = Refilled - wanted[c]
  /\ calling' = calling \ {c}
  /\ taken' = taken + wanted[c]
  /\ UNCHANGED <<sinceRefill, wanted, nap, age>>

\* The body under the lock finds enough tokens and takes them,
Granted(c) ==
  /\ c \in calling /\ nap[c] = 0
  /\ Refilled >= wanted[c]
  /\ tokens' = Refilled - wanted[c]
  /\ sinceRefill' = 0
  /\ calling' = calling \ {c}
  /\ taken' = taken + wanted[c]
  /\ UNCHANGED <<wanted, nap, age>>

\* Mutation: what was earned since the last refill is lost.
Naps_LosesRefill(c) ==
  /\ c \in calling /\ nap[c] = 0
  /\ Refilled < wanted[c]
  /\ sinceRefill' = 0
  /\ nap' = [nap EXCEPT ![c] = NapTime]
  /\ UNCHANGED <<tokens, wanted, calling, age, taken>>

\* ... or too few: they are brought up to date and the caller sleeps.
Naps(c) ==
  /\ c \in calling /\ nap[c] = 0
  /\ Refilled < wanted[c]
  /\ tokens' = Refilled
  /\ sinceRefill' = 0
  /\ nap' = [nap EXCEPT ![c] = NapTime]
  /\ UNCHANGED <<wanted, calling, age, taken>>

\* available_tokens refills, too, and takes no lock.
AvailableTokens ==
  /\ tokens' = Refilled
  /\ sinceRefill' = 0
  /\ UNCHANGED <<wanted, nap, calling, age, taken>>

TimePasses ==
  /\ age < MaxAge
  /\ sinceRefill' = Lesser(FullAfter, sinceRefill + 1)
  /\ nap' = [c \in Users |-> IF nap[c] = 0 THEN 0 ELSE nap[c] - 1]
  /\ age' = age + 1
  /\ UNCHANGED <<tokens, wanted, calling, taken>>

NewWindow ==
  /\ age' = 0 /\ taken' = 0
  /\ UNCHANGED <<tokens, sinceRefill, wanted, nap, calling>>

Look(c) == Granted(c) \/ Naps(c)

LimiterNext ==
  \/ TimePasses \/ NewWindow \/ AvailableTokens
  \/ \E c \in Users : Look(c) \/ \E n \in Amounts : Acquire(c, n)

LimiterSpec == LimiterInit /\ [][LimiterNext]_limiterVars

\* The clock ticks (a new window lifts its bound) and a caller whose sleep is
\* over looks again.
LimiterFairness ==
  /\ WF_limiterVars(TimePasses) /\ WF_limiterVars(NewWindow)
  /\ \A c \in Users : WF_limiterVars(Look(c))

LimiterFairSpec == LimiterSpec /\ LimiterFairness

-----------------------------------------------------------------------------
(* Properties *)

Bucket == INSTANCE TokenBucket WITH level <- Refilled

\* The limiter that refills when somebody looks is the bucket that fills by the
\* clock: neither the moments of looking nor what is cut off at MaxTokens shows.
ImplementsBucket == Bucket!BucketSpec

\* No window sees more granted than the bucket's bound.
WindowBound == Bucket!WindowBound

\* A caller that asks for no more than the bucket holds is served, or others
\* are for ever: the sleep promises no order, and no refill is ever lost to it.
SomeoneIsServed ==
  \A c \in Users :
    \/ []<>(c \notin calling \/ wanted[c] > MaxTokens)
    \/ []<><<\E x \in Users : Granted(x)>>_limiterVars
=============================================================================
