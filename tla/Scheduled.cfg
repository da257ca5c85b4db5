SPECIFICATION FairSpec
CONSTANTS
  Schedules = {s1}
  User = User
  Keys = {"syslog"}
  Key <- MCKey
  UserExports <- MCUserExports
  Jobs = {j1, j2}
  NoJob = NoJob
  NumParts = 1
  Intervals = {1}
  Windows = {2}
  MaxTime = 3
  MaxRestarts = 1
  HandResumes = {j1}
CHECK_DEADLOCK FALSE
INVARIANTS
  TypeOK
  OwnWindowsDisjoint
PROPERTIES
  AdvancesAreContiguous
  DueIsServed
