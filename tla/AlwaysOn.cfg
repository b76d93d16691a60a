SPECIFICATION MCSpec
CONSTANTS
  Paths = {p1, p2}
  THRESHOLD = 2
  FAILURES_BEFORE_DOWN = 1
  IcmpFiltered = FALSE
  MaxFaults = 1
  GameRequests <- MCGame
  VpnRequests <- MCVpn
  Bypasses <- MCBypasses
  MaxStarts <- OneEach
  MaxEdits = 1
  MaxSlotFaults = 1
INVARIANTS
  Inv
  SlotsAgree
PROPERTIES
  PathsRecover
  LiveSessionIsKept
