SPECIFICATION Spec
CONSTANTS
  Imu = {low, secondary}
  MaxFalls = 1
  MaxFailures = 1
  SameLimit = 2
  Places = {0, 2, 3, 6}
  NaN = NaN
  None = None
  StableDist = 1
  JumpDist = 2
  StableRequired = 3
  DetectionTimeout = 1
  LocationTimeout = 2
  MaxHandling = 1
  FieldLength = 3
  Noise = 1
  MergeDist = 1
  TrustDist = 2
  Sightings <- MCSightings
  MaxSeen = 2
  Cells = {0, 1, 2}
  MaxPercepts = 3
  MaxId = 3
  MaxConf = 3
  CheckConf = 2
  Gain = 3
  MergeAt = 2
  MaxApart = 1
INVARIANTS
  TypeOK
  FallSettles
  StaleIsWithdrawn
  JumpNeedsConfirmation
  FollowsRequest
  KnowsItsSide
  NoGhosts
PROPERTIES
  StandsUpAgain
