SPECIFICATION Spec
CONSTANTS
  s1 = s1
  s2 = s2
  Sessions <- TheSessions
  Work <- TheWork
  Packets <- ThePackets
  Worktrees <- TheWorktrees
  Directories <- TheDirectories
  Decoy = "D"
  Renamed = "ws1"
  Bindings <- TheBindings
  FirstProfile <- TheProfile
  MaxWip = 2
  MaxHead = 1
  MaxMoves = 2
SYMMETRY Alike
INVARIANTS IndependentWorkers PassedEvidenceIsBound WorksOnItsClaim
CHECK_DEADLOCK FALSE
