SPECIFICATION FairSpec
CONSTANTS
  w = w  a1 = a1  r1 = r1  closer = closer  NoOne = NoOne
  Keys = {w}
  ControlChoices <- OneControl
  Appliers = {a1}
  Releasers = {r1}
  Closer = closer
  Hold = 1  Slack = 1  Envelope = 2
  MaxGeneration = 1  MaxTime = 2
  FocusReturns = TRUE
  BackendFails = TRUE
INVARIANTS KeysAreAccounted
PROPERTIES ImplementsPort ReturnedMeansHeld ComesToRest
