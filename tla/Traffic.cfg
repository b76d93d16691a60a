SPECIFICATION MCSpec
CONSTANTS
  SocketIds = {"s1", "s2"}
  Pids = {"p1"}
  Ports = {1}
  CaptureThreads = {"t1"}
  STALE_FLOW_CONFIRMATIONS = 2
  MaxPackets = 2
  MaxReplaced = 1
  Takers = {"t1", "t2"}
  BypassLengths <- MCLengths
  BYPASS_QUEUE_DEPTH = 2
  BYPASS_QUEUE_BYTES = 4
  PENDING_SYNS = 1
  Ids = {"i1", "i2"}
  Readers = {"r1", "r2"}
  MAX_DATAGRAMS = 1
  MAX_PIECES = 2
  MAX_PENDING = 2
  LastPiece = 2
  MaxSent = 2
  Keys = {"k1", "k2"}
  Payloads = {20, 28, 52}
  RouterMtu = 44
  TunnelMtu = 36
  MAX_PARTIALS = 1
  MAX_FRAGMENTS = 3
  MAX_DATAGRAM_LENGTH = 64
  MaxDatagrams = 2
  MaxDelivered = 5
  Endpoints = {"e1", "e2"}
  LinkMtus = {1280, 1500}
  PathMtus = {1270, 1424, 1500}
  KindSets = {{"wireguard"}, {"l2tp", "socks5"}}
  TunnelLimits = {0}
  GameKinds = {"split", "all"}
  VpnKinds = {"split", "all", "native split"}
  Askers = {"u", "v", "w"}
  MaxUnspawned = 1
  TapPorts = {"p"}
  TapWorkers = {"u", "v"}
  FRAGMENT_TRACK_LIMIT = 1
  INBOX_LIMIT = 1
  INBOUND_QUEUE_DEPTH = 1
  MaxArrivals = 2
  MaxTenures = 2
  Threads = {"capture", "repair"}
  SendPaths = {1}
  LocalPaths = {}
  PATH_QUEUE_DEPTH = 1
  PATH_SEND_BATCH = 2
  MaxSends = 3
  MaxQueueStarts = 2
INVARIANTS
  DecidedOnce
  
  PacketsFit
  FlushesAreKept
PROPERTIES
  ReaperIsPatient
CHECK_DEADLOCK FALSE
