SPECIFICATION MCSlotsSpec
CONSTANTS
  Paths = {p1, p2}
  THRESHOLD = 2
  FAILURES_BEFORE_DOWN = 1
  IcmpFiltered = FALSE
  MaxFaults = 1
  GameRequests <- MCGame
  VpnRequests <- MCSplitVpn
  Bypasses <- MCBypasses
  MaxStarts <- OneEach
  MaxEdits = 0
  MaxSlotFaults = 0
PROPERTIES
  SlotsMoveOn
