SPECIFICATION MCSpec
CONSTANTS
  Paths = {p1, p2}
  Addresses = {a1, a2, a3}
  CAPACITY = 2
  MaxFrames = 3
  MaxMoves = 2
  N = 3
  Strategies = {"FastestPath", "Duplicate", "Adaptive", "AllPaths"}
  Profiles <- MCProfiles
  PROBES_TO_SETTLE = 1
  LOSSES_BEFORE_INACTIVE = 2
INVARIANTS
  RepliesFollowTheClient
  
PROPERTIES
  TroubleIsBackedUp
SYMMETRY Symmetry
CHECK_DEADLOCK FALSE
