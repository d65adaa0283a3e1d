SPECIFICATION FairSpec
CONSTANTS
  Tabs = {b1, b2}
  NumTokens = 3
  MaxFaults = 1
  None = None
INVARIANTS
  TypeOK
  ParentRevoked
  OneLivePerLogin
  CookieUsable
  LogoutEndsSession
PROPERTY GuardSettles
CHECK_DEADLOCK FALSE
