CONSTANTS
  ann = ann
  bob = bob
  cid = cid
  s1 = s1
  s2 = s2
  s3 = s3
  Names = {ann, bob, cid}
  Sessions = {s1, s2, s3}
  None = None
  FirstNames <- MCFirstNames
  FirstSessions <- MCFirstSessions
  FirstGroup = ann
  MaxRequests = 2
  MaxUsers = 3
  MaxGroups = 3
  SeqSpan = 2
  Clock = {0, 1}
SPECIFICATION Spec
INVARIANT LoginListsGroups
CHECK_DEADLOCK FALSE
