---------------------------- MODULE TokenBucket ----------------------------
(***************************************************************************)
(* What a token-bucket rate limiter promises: a bucket that fills by       *)
(* RefillRate at every tick of the clock and from which what is granted is *)
(* taken at once.  RateLimiter implements it without a clock of its own.   *)
(***************************************************************************)
EXTENDS Naturals

CONSTANTS
  MaxTokens,    \* max_tokens
  RefillRate    \* refill_rate, in tokens per tick

VARIABLES
  level,        \* tokens in the bucket
  age,          \* ticks since the observed window began
  taken         \* tokens granted in it

bucket == <<level, age, taken>>

Lesser(m, n) == IF m <= n THEN m ELSE n

BucketInit == level = MaxTokens /\ age = 0 /\ taken = 0

Fill ==
  /\ level' = Lesser(MaxTokens, level + RefillRate)
  /\ age' = age + 1
  /\ UNCHANGED taken

Take(n) ==
  /\ n <= level
  /\ level' = level - n
  /\ taken' = taken + n
  /\ UNCHANGED age

\* An observer may begin a window at any time.
NewWindow == age' = 0 /\ taken' = 0 /\ UNCHANGED level

BucketNext == Fill \/ NewWindow \/ \E n \in 0 .. MaxTokens : Take(n)

BucketSpec == BucketInit /\ [][BucketNext]_bucket

\* In any window of n ticks at most MaxTokens + n * RefillRate are granted:
\* what the limiter protects downstream services by.
WindowBound == taken <= MaxTokens + age * RefillRate
=============================================================================
