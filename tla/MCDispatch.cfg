SPECIFICATION FairSpec
CONSTANTS
  Keys <- MCKeys
  CliKeys <- MCCliKeys
  Windows <- MCWindows
  Runtimes <- MCRuntimes
  MaxInFlight = 2
  MaxMessages = 3
  MaxTime = 2
  MaxStops = 1
INVARIANTS TypeOK CombinedOnce TurnsExclude
PROPERTIES QuietWindow StopTruthful EveryMessageHandled
CHECK_DEADLOCK FALSE
