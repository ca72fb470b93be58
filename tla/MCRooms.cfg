CONSTANTS
  Users = {u1, u2}
  Conns = {c1, c2}
  RoomIds = {r1}
  Objs = {o1, o2, o3}
  Broadcasts = {b1}
  OneBucket = k1
  Buckets = {k1}
  Bucket <- SameBucket
  Cap = 1
  None = None
SPECIFICATION FairSpec
INVARIANTS NoOrphanRoom EmptyRoomCollected EndedLeftRooms ListAgrees BroadcastWaitFree
PROPERTIES CommandEnds ImplementsRoomSet
CHECK_DEADLOCK FALSE
