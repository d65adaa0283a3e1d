SPECIFICATION AppSpec
CONSTANTS
  Keys = {task1, doc1, day1, day2, item1, com1, pClosed, p1, oClosed, o1, v1, v2, v3, set1, e1}
  Calls = {a1, a2}
  MaxCuts = 1
  None = None
  TaskKeys = {task1}
  DocKeys = {doc1}
  DayKeys = {day1, day2}
  ItemKeys = {item1}
  CommentKeys = {com1}
  Dates = {"d1", "d2"}
  BookingKeys = {b1}
  MaxIndex = 0
  ProposalKeys = {pClosed, p1}
  OptionKeys = {oClosed, o1}
  VoteKeys = {v1, v2, v3}
  Voters = {u1, u2}
  ClosedProposal = pClosed
  ClosedOption = oClosed
  RuleSetKey = set1
  EvaluationKeys = {e1}
  EvaluatedItem = item1
  Requests <- MCRequests
  MaxUpserts = 3
  Travels = {trip1}
  Stays = {stay1}
  StartDays = {1, 2}
  StartMoments = {1920, 1921, 1922, 3330}
  Everybody = {u1, u2, u3}
  Active = {u1, u2}
  Clocks <- MCClocks
  MaxDelay = 1
  LastDay = 3
  MaxChanges = 2
  MaxFails = 1
  Nothing = Nothing
  WatchedKeys <- MCWatchedKeys
  MaxVersion = 3
  Slots = {a1, a2}
  Tabs = {a1, a2}
  Workspaces = {w1, w2}
  Trips = {x1, x2}
  Unset = Unset
  OpenPaths <- MCOpenPaths
SYMMETRY MCSymmetry
INVARIANTS
  AppTypeOK
  DocumentStored
  LastEventTrue
  WholeRuleSet
  RemindedOnce
  ReferencesHold
  OwnWritesShown
  ActiveTripInWorkspace
PROPERTIES
  DeletedStaysDeleted
CHECK_DEADLOCK FALSE
