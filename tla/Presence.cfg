CONSTANTS
  Users = {u1}
  Nodes = {n1, n2}
  Conns = {c1, c2, c3}
  None = None
SPECIFICATION FairSpec
INVARIANTS PooledNotDone NoLeakedConn
PROPERTIES ConnectionEnds ImplementsRoster
CHECK_DEADLOCK FALSE
