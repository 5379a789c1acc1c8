SPECIFICATION Spec
CONSTANTS
  Absent = Absent
  Keep = Keep
  Jobs <- MCJobs
  Declared <- MCDeclared
  Deployments <- OnlyEdits
  Schedules <- OnlyEvery
  Clients <- One
  Patches <- Updates
  MaxTasks = 1
  MaxConcurrent = 0
  MaxRunHistory = 0
  CatchUp = TRUE
PROPERTY OccurrenceOnce
CHECK_DEADLOCK FALSE
