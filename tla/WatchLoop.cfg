CONSTANTS
  Revisions = {1, 2}
  Heads = {"h1", "h2"}
  Counts = {0, 1, 2, 3}
  BaseRecheck = 1
  MaxRecheck = 4
  Themes <- MCThemes
  Watches <- MCWatches
  MaxClock = 3
  MaxFailures = 3
SPECIFICATION LoopSpec
INVARIANTS ActsAreEarned UnknownOpensNoGate TransientEscalates
PROPERTIES OldNewsChangesNothing
CHECK_DEADLOCK FALSE
