\* Calls overlap and a write arrives late; only orphans are collected.
SPECIFICATION FairLateSpec
CONSTANTS
  m1 = m1
  f1 = f1
  blank = blank
  ca = ca
  image = image
  ud = ud
  nat = nat
  pool = pool
  other = other
  Machines = {m1, f1}
  Foreign = {f1}
  ForeignLabels = {nat, other}
  NoPayload = none
  Blank = blank
  CAScript = ca
  EgressNATLabel = nat
  Payloads <- MCPayloads
  Labels <- MCLabels
  UserData = {ud}
  Classes <- MCClasses
  FaultReasons = {"Other"}
  ConflictRetries = 2
  Reported = {"Pending"}
  MaxFaults = 1
  MaxDisruptions = 0
  MaxCrashes = 1
  Serial = FALSE
  MaxLate = 1
INVARIANTS
  ForeignSpared
PROPERTIES
  DeletionEnds
  OrphansCollected
\* A machine that is gone is the end of the behaviour.
CHECK_DEADLOCK FALSE
