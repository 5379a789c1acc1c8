SPECIFICATION Spec
CONSTANTS
  Turns <- MCTurns
  Tools <- MCTools
  Arguments <- MCArguments
  Models <- MCModels
  AutoApproved <- MCAutoApproved
  AlwaysAsked <- MCAlwaysAsked
  Exempt <- MCExempt
  Ignored <- MCIgnored
  Settings <- MCSettings
  ActionBudget = 2
  DaysPerMonth = 2
  DailyLimit = 2
  MonthlyLimit = 3
  MaxDay = 2
  MinCycles = 2
  MinCalls = 3
INVARIANT SwitchesOwn
CHECK_DEADLOCK FALSE
