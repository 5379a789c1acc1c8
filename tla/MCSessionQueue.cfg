SPECIFICATION FairSpec
CONSTANTS
  Conns <- MCConns
  Deployments <- MCDeployments
  MaxQueueDepth = 2
  MaxTurns <- MCMaxTurns
  MaxSlots = 2
INVARIANTS TypeOK TurnsSerialized PendingExact
PROPERTY Answered
CHECK_DEADLOCK FALSE
