CONSTANTS
  Revisions = {1, 2}
  Heads = {"h1"}
  Counts = {0, 1, 2, 3}
  BaseRecheck = 1
  MaxRecheck = 1
  p1 = p1
  p2 = p2
  Hosts = {p1, p2}
  NoHost = NoHost
  Dispatches = {"d1", "d2"}
  World <- MCWorld
  Assertions <- MCAssertions
  Customs <- MCCustoms
  WatchClass = "exact_head_ci"
  MaxMoves = 1
  MaxRuns = 3
  MaxCrashes = 1
SPECIFICATION Spec
INVARIANTS DispatchServesOnce RecordsAreBorneOut AuthorityIsNotWidened
PROPERTIES AtMostOnce
CHECK_DEADLOCK FALSE
