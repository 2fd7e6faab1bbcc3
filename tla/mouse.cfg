SPECIFICATION FairSpec
CONSTANTS
  a1 = a1  r1 = r1  NoOne = NoOne
  Kinds = {"turn", "select", "key"}
  Appliers = {a1}
  Releasers = {r1}
  MaxGeneration = 1
  BackendFails = TRUE
INVARIANTS CursorComesBack
PROPERTIES TurnIsExact CursorWaitsForButton ImplementsPort ComesToRest
CHECK_DEADLOCK FALSE
