CONSTANTS
  u1 = u1
  u2 = u2
  u3 = u3
  n1 = n1
  n2 = n2
  c1 = c1
  c2 = c2
  c3 = c3
  c4 = c4
  Users = {u1, u2, u3}
  Nodes = {n1, n2}
  Conns = {c1, c2, c3, c4}
  UserOf <- MCUserOf
  NodeOf <- MCNodeOf
  Log <- MCLog
  Garbage = Garbage
  Members = {u1, u2, u3}
  SendCap = 1
  SemCap = 1
  Online = {c1, c2}
  MaxDisturb = 2
  None = None
SPECIFICATION FairSpec
INVARIANTS QuietDelivered OncePerAttempt InOrder
PROPERTIES PartitionDrains ImplementsDelivery
CHECK_DEADLOCK FALSE
