CONSTANTS
  p1 = p1
  p2 = p2
  p3 = p3
  v1 = v1
  v2 = v2
  w1 = w1
  w2 = w2
  Servers = {v1, v2}
  Procs = {p1, p2, p3}
  ServerOf <- MCServerOf
  Workers = {w1, w2}
  MaxClients = 2
  None = None
SPECIFICATION Spec
INVARIANTS ServingRegistered NoGhostNode NoLeakedClient ClosedUnused
SYMMETRY Symmetry
CHECK_DEADLOCK FALSE
