SPECIFICATION FairSpec
CONSTANTS
  Tasks = {t1, t2}
  MaxCrashes = 2
INVARIANT TypeOK
PROPERTIES ResultStands TaskReported
CHECK_DEADLOCK FALSE
