SPECIFICATION FairSpec
CONSTANTS
  Jobs = {j1}
  Workers = {w1, w2}
  NumParts = 2
  Split = TRUE
  AtomicUpload = FALSE
  Scheduled = {}
  ResumeAfterExit = TRUE
  MaxApiCrashes = 1
  MaxServiceStops = 1
  NoJob = NoJob
  NoWorker = NoWorker
CHECK_DEADLOCK FALSE
PROPERTIES
  JobsSettle
