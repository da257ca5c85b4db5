SPECIFICATION Spec
CONSTANTS
  Jobs = {j1}
  Workers = {w1, w2}
  NumParts = 2
  Split = TRUE
  AtomicUpload = TRUE
  Scheduled = {j1}
  ResumeAfterExit = FALSE
  MaxApiCrashes = 1
  MaxServiceStops = 0
  NoJob = NoJob
  NoWorker = NoWorker
CHECK_DEADLOCK FALSE
SYMMETRY Symmetry
INVARIANTS
  CompletedExportIsRemote
