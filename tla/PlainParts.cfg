SPECIFICATION Spec
CONSTANTS
  short = short
  long = long
  Records = {short, long}
  Fields <- MCFields
  Size <- MCSize
  Overhead = 1
  MaxBytes = 3
  Lookahead = 2
  Compress = FALSE
  MaxLen = 4
  MaxChanges = 2
  MaxAttempts = 3
CHECK_DEADLOCK FALSE
INVARIANTS
  TypeOK
  CheckpointsMatchRemote
  CompletedIsOneStream
  RecordAgrees
  UnchangedDataResumes
