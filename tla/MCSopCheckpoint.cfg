SPECIFICATION DriverSpec
CONSTANTS
  Sops <- MCSops
  Libraries <- CheckpointLibraries
  NotLoaded = NotLoaded
  MaxTotal = 1
  MaxFinished = 0
  Timeout = 1
  StorageFails = FALSE
  MaxRuns = 1
  MaxTime = 1
  MaxResults = 3
PROPERTY CheckpointPassed
CHECK_DEADLOCK FALSE
