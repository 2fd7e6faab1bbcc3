SPECIFICATION FairSpec
CONSTANTS
  Legs = 2
  MaximumCycles = 3
  MaximumHandoffs = 1
  MaxStarts = 2
INVARIANTS SingleJourney ChildrenInheritNothing
PROPERTIES CommandsAreHeeded PermissionRunsOut WindowGoneEnds
CHECK_DEADLOCK FALSE
