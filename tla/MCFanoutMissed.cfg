SPECIFICATION Spec
CONSTANTS
  Events = {e1}
  Users = {u1}
  Members = {u1}
  MaxFaults = 1
  None = None
INVARIANT MissedGetsAnotherChance
CHECK_DEADLOCK FALSE
