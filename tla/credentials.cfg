\* Users on one host, in every combination of processes and clusters.
SPECIFICATION Spec
CONSTANTS
  User = {u1, u2}
  Process = {p1, p2}
  Cluster = {c1, c2}
  NoUser = NoUser
  NoCluster = NoCluster
INVARIANTS
  TypeOK
  IsolatedWhenApart
  RightCluster
  NoDirLeft
\* Every user ends.
CHECK_DEADLOCK FALSE
