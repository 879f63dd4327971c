\* A token that expired while its answer was on the way.
\* The unit of time is ten seconds: leeway 10 s, time-out 30 s.
SPECIFICATION Spec
CONSTANTS
  Lifetime = 6
  Leeway = 1
  RequestTimeout = 3
  Attempts = 4
  MaxTime = 24
INVARIANTS
  ServesOnlyValid
