CONSTANTS
  u1 = u1
  u2 = u2
  k1 = k1
  k2 = k2
  t1 = t1
  Users = {u1, u2}
  Owner = u1
  Nodes = {n1}
  Tasks = {t1}
  Claims = {c1, c2}
  TaskOf <- MCTaskOf
  Handlers = {h1, h2}
  Calls = {k1, k2}
  Sender <- MCSender
  None = None
  RedisFails = TRUE
SPECIFICATION FairSpec
INVARIANTS NoFalseAdmission CleanStaysClean LoadsBounded WaitersHaveLeader
PROPERTIES EventuallyConsistent CallsAnswered NoStaleDenial
CHECK_DEADLOCK FALSE
