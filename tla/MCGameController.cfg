SPECIFICATION FairSpec
CONSTANTS
  PlayerIdx = 6
  MAX_NUM_PLAYERS = 8
  Situations <- MCSituations
  PacketMod = 2
  MaxInFlight = 2
INVARIANTS
  TypeOK
  MapClearedOnEntry
  HeartbeatToReferee
PROPERTIES
  Converges
  ThreadsJoin
