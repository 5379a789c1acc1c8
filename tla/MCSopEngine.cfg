SPECIFICATION Spec
CONSTANTS
  Sops <- MCSops
  Libraries <- EngineLibraries
  NotLoaded = NotLoaded
  MaxTotal = 2
  MaxFinished = 1
  Timeout = 1
  StorageFails = TRUE
  MaxRuns = 2
  MaxTime = 1
  MaxResults = 2
INVARIANTS TypeOK OneHome WithinLimits PositionsHold
PROPERTY LifecycleSpec
CHECK_DEADLOCK FALSE
