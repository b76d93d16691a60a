SPECIFICATION MCSpec
CONSTANTS
  Generations = {0, 1, 2}
  MaxFaults = 1
  MaxRequests = 1
  MaxFrames = 3
  Lengths = {1, 2}
  MAX_OUTBOUND_BYTES = 7
  SocketRoom = 4
  Keys = {0, 1}
  MAX_ID = 4
  REPLAY_BITS = 2
  MaxBytes = 2
  PENDING_LIMIT = 1
  StreamRoom = 1
  Exits = {"proxy", "adapter"}
  Lookups = {1, 2, 3}
  StreamIds = {1, 2, 3, 4, 5}
  DNS_STREAMS_PER_RESOLVER = 2
  LocalPorts = {1, 2, 3}
  MaxDatagrams = 2
  MaxTokens = 5
  MAX_UDP_ASSOCIATIONS = 2
  UDP_QUEUE_LIMIT = 1
  MAX_PROBES = 1
  Devices = {"d1", "d2"}
  DevicePorts = {1, 2}
  HostNames = {"n"}
  MAX_CONNECTIONS = 2
  MAX_CONNECTIONS_PER_CLIENT = 1
  MAX_ASSOCIATIONS_PER_CLIENT = 1
  PENDING_DATAGRAMS = 1
  MaxConnected = 3
  MaxFlows = 4
  READ_CHUNK = 2
  CLIENT_BACKLOG = 2
  SendBuffer = 1
  ReceiveBuffer = 2
  MaxUp = 3
  MaxDown = 4
INVARIANT
  AnswerIsWhole
CHECK_DEADLOCK FALSE
