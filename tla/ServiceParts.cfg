SPECIFICATION MCSpec
CONSTANTS
  LastRoute = 2
  ServedSets = {{}, {2}}
  StartAddresses = {"a1", "a2"}
  JOIN_ATTEMPTS = 2
  Nodes = {"n"}
  DIRECT_LOSS_LIMIT = 2
  MaxOpens = 2
  MaxProbes = 3
  Rules = {0, 1, 2}
  Own = {"a", "b"}
  ForeignSets = {{}, {"b"}, {"c", "d"}}
  MaxRuleEdits = 2
  MaxTimeouts = 2
  MaxFailures = 2
  WIDTH = 3
  MIN_PREFIX = 1
  MAX_LEARNED = 2
  Specs <- MCSpecs
  Replies <- MCReplies
  Protected = {6}
  MaxReplaces = 2
  MaxReplies = 2
  MaxRefusals = 1
  MaxEngines = 2
  RuleSets = {{}, {"n"}, {"n", "h"}}
  Networks = {"n"}
  HostAddresses = {"r", "x"}
  Resolvers = {"r"}
  Foreign = {{}, {"f"}}
  COUNTER = 3
  MaxDials = 2
  MaxEdits2 = 1
  MaxPolls = 2
  MaxFails = 2
  Handlers = {"h", "k", "l"}
  Installs = {{"half"}, {"half", "direct"}, {"ras", "bypass"}}
  MAX_CONCURRENT_REQUESTS = 2
  MaxRequests = 4
  MaxProcesses = 2
  OfferWorkers = {"u", "v"}
  Wanted <- MCWanted
  OFFER_LIMIT = 2
  MaxInFlight = 2
  MaxWants = 2
  MaxDrops = 1
  MaxRestarts = 1
  ProbePaths = {"p", "q"}
  LOSS_WINDOW = 3
  MIN_LOSS_SAMPLES = 2
  FAILURE_THRESHOLD = 2
  LOSSY_AFTER = 1
  RECOVERED_AFTER = 2
  MaxOutcomes = 4
INVARIANTS
  
  CaptureFollowsTheRules
  
  ScatteredLossIsKept
PROPERTIES
  
  OffersConverge
CHECK_DEADLOCK FALSE
