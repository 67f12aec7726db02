SPECIFICATION FairSpec
CONSTANTS
  PlayerIdx = 0
  MAX_NUM_PLAYERS = 6
  Situations <- MCSituations
  KickoffWait = 2
  BlindWalk = 1
INVARIANTS
  TypeOK
  SilentUntilRelocalized
  PenalizedIsOut
  OppKickoffRespected
PROPERTIES
  KickoffEnds
  ReturnsToGame
