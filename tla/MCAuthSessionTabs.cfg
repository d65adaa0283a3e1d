SPECIFICATION Spec
CONSTANTS
  Tabs = {b1, b2}
  NumTokens = 3
  MaxFaults = 0
  None = None
SYMMETRY MCSymmetry
PROPERTY DeadMeansDead
CHECK_DEADLOCK FALSE
