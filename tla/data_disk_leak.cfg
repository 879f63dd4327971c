\* A data disk outlives a machine that never had a VM.
SPECIFICATION Spec
CONSTANTS
  Machines = {m1}
  blank = blank
  ca = ca
  image = image
  data = data
  ud1 = ud1
  ud2 = ud2
  nat = nat
  pool = pool
  NoPayload = none
  Blank = blank
  CAScript = ca
  EgressNATLabel = nat
  Payloads <- MCPayloads
  Labels <- MCLabels
  UserData <- OneUserData
  Classes <- MCClasses
  FaultReasons = {"Other"}
  ConflictRetries = 2
  Reported = {"Pending", "PendingIP", "Unschedulable", "Error"}
  MaxFaults = 1
  MaxDisruptions = 0
  MaxCrashes = 0
  Serial = TRUE
INVARIANTS
  NothingLeftBehind
\* A machine that is gone is the end of the behaviour.
CHECK_DEADLOCK FALSE
