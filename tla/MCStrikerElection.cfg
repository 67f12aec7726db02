SPECIFICATION MCSpec
CONSTANTS
  NumRobots = 2
  Times = {1, 2, 4}
  NoBall = NoBall
  Margin = 1
  Skew <- MCSkew
  SendPause = 0
  Outdated = 2
  TTL = 4
  MaxDelay = 1
  Chaos = 2
  Settle = 5
  MaxTime = 11
  Teams <- MCTeams
  LineEnd = 2
  Formations <- MCFormations
INVARIANTS
  TeamTypeOK
  TeamAgrees
  OnlyStrikerAsks
  StrikerIsReasonable
PROPERTIES
  StrikerStays
  TeamSettles
