SPECIFICATION FairCallerSpec
CONSTANTS
  Sops <- MCSops
  Libraries <- CallerLibraries
  NotLoaded = NotLoaded
  MaxTotal = 2
  MaxFinished = 0
  Timeout = 1
  StorageFails = FALSE
  MaxRuns = 2
  MaxTime = 2
  MaxResults = 3
INVARIANTS ProcedureFollowed
PROPERTIES CooldownRespected RunsEnd
CHECK_DEADLOCK FALSE
