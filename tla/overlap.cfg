\* Calls of a machine overlap, a VM is lost, and a write arrives late: safety.
SPECIFICATION LateSpec
CONSTANTS
  m1 = m1
  f1 = f1
  blank = blank
  ca = ca
  image = image
  ud = ud
  nat = nat
  pool = pool
  other = other
  Machines = {m1}
  Foreign = {}
  ForeignLabels = {nat, other}
  NoPayload = none
  Blank = blank
  CAScript = ca
  EgressNATLabel = nat
  Payloads <- MCPayloads
  Labels <- MCLabels
  UserData = {ud}
  Classes <- WaitingClasses
  FaultReasons = {"Other"}
  ConflictRetries = 2
  Reported = {"Error"}
  MaxFaults = 1
  MaxDisruptions = 1
  MaxCrashes = 1
  Serial = FALSE
  MaxLate = 1
CONSTRAINT OneFailure
INVARIANTS
  LateTypeOK
  CompleteWhileWanted
\* A machine that is gone is the end of the behaviour.
CHECK_DEADLOCK FALSE
