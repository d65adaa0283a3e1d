SPECIFICATION Spec
CONSTANTS
  Bookings = {b1}
  Items = {i1}
  Cases = {c1, c2}
  Options = {o1, o2}
  Calls = {q1, q2}
  Bodies <- MCBodies
  NewBodies <- MCNewBodies
  ItemBodies <- MCItemBodies
  MaxExtras = 1
  Entered = Entered
  Absent = Absent
  Null = Null
  None = None
SYMMETRY MCSymmetry
INVARIANTS
  TypeOK
  DecidedHasDecision
  AppliedWroteBooking
  BookingFromDecision
  ReadyHasOptions
  DecidedIsApplicable
  ItemFollowsBooking
PROPERTY RefinesContract
CHECK_DEADLOCK FALSE
