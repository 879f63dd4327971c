SPECIFICATION Spec

CONSTANTS
  Run = {r1}
  Provisioning = 2
  Verification = 3
  Cleanup = 2
  Global = 5
  GoTest = 4
  MayCancel = FALSE
  MaxFaults = 0

CHECK_DEADLOCK FALSE

INVARIANT
  SlowRunCleansUp
