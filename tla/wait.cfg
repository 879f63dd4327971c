SPECIFICATION Spec

CONSTANTS
  PollInterval = 1
  Session = 3
  Timeout = 9
  Caller = 11
  MaxChanges = 3
  MaxFaults = 2

CHECK_DEADLOCK FALSE

INVARIANTS
  TypeOK
  SeenWhenSteady
  FailsOnlyUnready
PROPERTIES
  OnlyRequestsOverrun
