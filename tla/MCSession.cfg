CONSTANTS
  Users = {u1, u2}
  Sessions = {s1, s2, s3}
  Calls = {c1, c2, c3}
  None = None
SYMMETRY Symmetry
SPECIFICATION Spec
INVARIANTS DoubleIndex LoggedOutStaysOut
PROPERTIES ImplementsSingleLogin NoResurrection LogoutSparesOthers
CHECK_DEADLOCK FALSE
