SPECIFICATION FairSpec
CONSTANTS
  Absent = Absent
  Keep = Keep
  Jobs <- MCJobs
  Declared <- MCDeclared
  Deployments <- SteadyFaultyChanged
  Schedules <- Both
  Clients <- One
  Patches <- Updates
  MaxTasks = 1
  MaxConcurrent = 0
  MaxRunHistory = 0
  CatchUp = TRUE
INVARIANT TypeOK
PROPERTIES OccurrenceOnce DueNotDropped DueRuns
CHECK_DEADLOCK FALSE
