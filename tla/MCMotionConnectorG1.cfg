SPECIFICATION FairSpec
CONSTANTS
  Commands <- MCCommands
  GCStates <- MCGCStates
  MaxForward = 2
  MaxBackward = 1
  MaxSide = 1
  Accel = 1
  SideAccel = 1
  MaxLate = 2
  MaxIdle = 3
INVARIANTS
  TypeOK
PROPERTIES
  MoveNeedsPermission
  SlewBetweenMoves
  ForbiddenStops
