CONSTANTS
  Users = {u1}
  Conns = {c1, c2}
  RoomIds = {r1}
  Objs = {o1, o2}
  Broadcasts = {}
  OneBucket = k1
  Buckets = {k1}
  Bucket <- SameBucket
  Cap = 1
  None = None
SPECIFICATION Spec
INVARIANTS NewestIsMember
CHECK_DEADLOCK FALSE
