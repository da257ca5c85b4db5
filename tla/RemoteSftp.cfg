SPECIFICATION Spec
CONSTANTS
  Jobs = {j1}
  Workers = {w1, w2, w3}
  NumParts = 2
  Split = TRUE
  AtomicUpload = FALSE
  Scheduled = {}
  ResumeAfterExit = TRUE
  MaxApiCrashes = 1
  MaxServiceStops = 0
  NoJob = NoJob
  NoWorker = NoWorker
CHECK_DEADLOCK FALSE
SYMMETRY Symmetry
INVARIANTS
  TypeOK
  CheckpointsAreRemote
  AtMostOneWriter
  InterruptedMeansStopped
PROPERTIES
  CancelIsSticky
  ImplementsContract
