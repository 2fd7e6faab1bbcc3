SPECIFICATION FairSpec
CONSTANTS
  g1 = g1  g2 = g2  NoGuard = NoGuard
  Guards = {g1}
  MaxToggles = 1
  MaxEpisodes = 1
  MaxClients = 2
  MaxResults = 1
INVARIANTS OneJumpAlone OffMeansOff BoxIsCurrent
PROPERTIES ObstaclesHold OptOutSticks StopIsObeyed ClickIsAnswered
CHECK_DEADLOCK FALSE
