\* Calls of a machine never overlap: safety, refinement and liveness.
SPECIFICATION FairSpec
CONSTANTS
  Machines = {m1}
  blank = blank
  ca = ca
  image = image
  data = data
  ud1 = ud1
  ud2 = ud2
  nat = nat
  pool = pool
  NoPayload = none
  Blank = blank
  CAScript = ca
  EgressNATLabel = nat
  Payloads <- MCPayloads
  Labels <- MCLabels
  UserData <- OneUserData
  Classes <- AllClasses
  FaultReasons = {"Other"}
  ConflictRetries = 2
  Reported = {"Pending", "PendingIP", "Unschedulable", "Error"}
  MaxFaults = 2
  MaxDisruptions = 1
  MaxCrashes = 1
  Serial = TRUE
INVARIANTS
  TypeOK
  OwnershipComplete
  GoneMeansReleased
  LeftoversDeleted
  FirstVMHasItsDisks
PROPERTIES
  ImplementsLifecycle
  CreateConverges
  DeleteConverges
  DeleteReleasesAll
\* A machine that is gone is the end of the behaviour.
CHECK_DEADLOCK FALSE
