SPECIFICATION FairSpec
CONSTANTS
  Events = {e1}
  Users = {u1, u2, u3, other}
  Members = {u1, u2, u3}
  MaxFaults = 1
  None = None
INVARIANTS
  TypeOK
  AuditedOnce
  NoticeAudience
PROPERTIES
  UnreadKept
  EventuallyFannedOut
CHECK_DEADLOCK FALSE
