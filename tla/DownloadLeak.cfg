SPECIFICATION Spec
CONSTANTS
  NumJobs = 2
  MaxParts = 2
  DownloadTTL = 0
  HistoryTTL = 1
  ListLimit = 1
  MaxClock = 2
  MaxStops = 1
INVARIANTS NoFileIsForgotten
