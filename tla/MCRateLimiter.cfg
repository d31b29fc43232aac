\* Units of half a token: capacity 2 tokens, 1 token in a nap of two ticks;
\* requests of 0.5, 1.5 and (never to be granted) 2.5 tokens.
CONSTANTS
  Users = {c1, c2}
  Amounts = {1, 3, 5}
  MaxTokens = 4
  RefillRate = 1
  NapTime = 2
  FullAfter = 4
  MaxAge = 4
SPECIFICATION LimiterFairSpec
INVARIANTS
  WindowBound
PROPERTIES
  ImplementsBucket
  SomeoneIsServed
