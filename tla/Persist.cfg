CONSTANTS
  Calls = {s1}
  Ids = {i1, i2}
  Keys = {k1, k2}
  Members = {m1, m2}
  None = None
  MaxLog = 2
  MaxFaults = 1
SPECIFICATION FairSpec
INVARIANTS CommittedStored
PROPERTIES AckedStored ImplementsMessageStore
CHECK_DEADLOCK FALSE
