SPECIFICATION Spec
CONSTANTS
  Users = {f, u1}
  Founder = f
  Trips = {t1}
  Calls = {q1, q2}
  Granted = {"GUEST", "ADMIN", "OWNER"}
  MaxRows = 2
  MaxCuts = 1
  None = None
SYMMETRY MCSymmetry
INVARIANTS
  TypeOK
  FounderStaysOwner
  NoOrphans
PROPERTIES
  OwnersKeptSerially
  NoResurrectionSerially
CHECK_DEADLOCK FALSE
