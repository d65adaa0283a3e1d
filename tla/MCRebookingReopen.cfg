SPECIFICATION Spec
CONSTANTS
  Bookings = {b1}
  Items = {i1}
  Cases = {c1}
  Options = {o1, o2}
  Calls = {q1}
  Bodies <- MCBodies
  NewBodies <- MCNewBodies
  ItemBodies <- MCItemBodies
  MaxExtras = 0
  Entered = Entered
  Absent = Absent
  Null = Null
  None = None
SYMMETRY MCSymmetry
PROPERTY AppliedIsFinal
CHECK_DEADLOCK FALSE
