\* Driver calls and the token helper: how stale a token may be, how long a
\* wait may take, when a request is refused.
\* The unit of time is ten seconds: leeway 10 s, time-out 30 s.
SPECIFICATION ClientSpec
CONSTANTS
  Lifetime = 4
  Leeway = 1
  RequestTimeout = 3
  Attempts = 4
  WaitTimeout = 5
  MaxTime = 19
INVARIANTS
  ClientTypeOK
  CacheNearlyValid
  TokenInTime
  RefusedOnlyIfLate
  TokenOfThisCall
  WaitEndsSoon
PROPERTIES
  PrintedTokenLasts
