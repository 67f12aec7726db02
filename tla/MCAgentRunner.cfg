CONSTANTS
  TTL <- MCTTL
  MaxChanges <- MCMaxChanges
SPECIFICATION Spec
INVARIANTS
  EveryOrderAnswered
  BallWalkNeedsRecentBall
  LooksOnce
