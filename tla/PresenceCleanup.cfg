CONSTANTS
  Users = {u1}
  Nodes = {n1}
  Conns = {c1, c2}
  None = None
SPECIFICATION Spec
PROPERTIES CleanupSparesNewer
CHECK_DEADLOCK FALSE
