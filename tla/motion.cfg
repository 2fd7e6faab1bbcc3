SPECIFICATION FairSpec
CONSTANTS
  w = w  s = s  a = a  RMB = RMB
  Controls = {w, s, a}
  Allowed = {w, a}
  Desired = {{}, {w, RMB}, {w, a}, {s}}
  Lease = 2
  FirstExpiry = 3
  MaxTime = 4
  FocusReturns = TRUE
  BackendFails = TRUE
INVARIANTS HeldIsLeased StoppedIsReleased
PROPERTIES FrameIsExact HeldComesUp
