SPECIFICATION MCSpec
CONSTANTS
  MAX_ANSWERED_FAILURES = 2
  SilentPolls = 2
  MaxOps = 3
  MaxGames = 1
  MaxLostGames = 1
  MaxFaults = 1
  MaxQueue = 2
  Groupings <- MCGroupings
  WINDOW = 4
  Sequences <- MCSequences
  RECENT_CAPACITY = 3
  PENDING_CAPACITY = 2
  QUEUE = 2
  Threads = {t1, t2}
  GroupSizes = {1, 2}
  MAX_SPAN = 2
  MaxSequence = 4
INVARIANTS
  RestIsJustified
  WindowExact
  RepairsAreUsed
  CoveredExactlyOnce
PROPERTIES
  OnlyAStartConnects
  ServiceFollowsTheUser
  EveryPacketGetsItsRepair
CHECK_DEADLOCK FALSE
