SPECIFICATION Spec
CONSTANTS
  Users = {f, u1, u2}
  Founder = f
  Trips = {t1}
  Calls = {q1, q2}
  Granted = {"ADMIN", "OWNER"}
  MaxRows = 1
  MaxCuts = 0
  None = None
SYMMETRY MCSymmetry
PROPERTY OwnersKept
CHECK_DEADLOCK FALSE
