SPECIFICATION Spec
CONSTANTS
  A = A
  B = B
  NoUnit = NoUnit
  Units <- TwoUnits
  Options <- AllOptions
  ReleaseFails = TRUE
  ChangeBudget = 1
  LossBudget = 1
  DamageBudget = 1
  ClearBudget = 1
  SettleBudget = 1
  MismatchBudget = 1
  SeekBudget = 1
  ConfirmBudget = 1
  MaxCycles = 1
  MaxActions = 4
  MaxApproaches = 1
  MaxTurns = 1
  MaxFacings = 1
  MaxLoots = 2
INVARIANTS OneVictim FollowsItsVictim TakeoverStops OverIsReleased RecoveryStandsStill
SYMMETRY Alike
CHECK_DEADLOCK FALSE
