SPECIFICATION MCSpec
CONSTANTS
  Ids = {a, b, c}
  Probes = {p}
  SESSION_TTL = 3
  MAX_SESSIONS = 2
  MaxBurst = 2
  MaxClock = 7
  Admins = {p1, p2}
  Unlocked = {}
  Names = {n1, n2, n3}
  Subnet = {2, 3}
  MaxClients = 2
  MaxCrashes = 1
  OUTAGE_WITH_WITNESS = 2
  OUTAGE_WITHOUT_WITNESS = 4
  DIRECT_PROBE_INTERVAL = 1
  DIRECT_FAILURES_REQUIRED = 2
  BASELINE_INTERVAL = 3
  RELAY_ALIVE_HOLD = 2
  MaxStarts = 2
  MaxChanges = 3
  MaxSkips = 1
  Routes = {r1, r2}
  DIAL_ATTEMPTS = 2
  MaxGenerations = 2
INVARIANTS
  
  DialsAreAccountedFor
PROPERTIES
  SequencesOnlyGrow
  OnlyQuietSessionsGo
  RegistryTakesEffect
  MovesOnlyFromAGoneRelay
  GoneRelayIsLeft
  EndedSessionsHangUp
CHECK_DEADLOCK FALSE
