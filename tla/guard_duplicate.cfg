SPECIFICATION Spec
CONSTANTS
  g1 = g1  g2 = g2  NoGuard = NoGuard
  Guards = {g1, g2}
  MaxToggles = 1
  MaxEpisodes = 1
  MaxClients = 1
  MaxResults = 1
INVARIANTS OneJump
CHECK_DEADLOCK FALSE
