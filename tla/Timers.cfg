CONSTANTS
  PitOrder <- Pits2
  DtimOrder <- Dtims1
  Display = "pit3"
  Periods <- TwoRates
  Level <- TwoLevels
  Ipls <- TaskMasks
  IdleStep = 4
  ArmStep = 2
  Builds <- TwoBuilds
  Budgets <- OneCall
  MaxInstrs = 5

SPECIFICATION Spec
INVARIANTS OnTime Ahead NeverStranded DisplayLeads NoReentry
  TaskMaskKept
CHECK_DEADLOCK FALSE
