SPECIFICATION Spec
CONSTANTS
  Legs = 2
  MaximumCycles = 1
  MaximumHandoffs = 1
  MaxStarts = 1
PROPERTIES LaunchNeedsPermission
CHECK_DEADLOCK FALSE
