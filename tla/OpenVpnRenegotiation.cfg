SPECIFICATION ControlSpec
CONSTANTS
  Generations = {0, 1}
  MaxFaults = 0
  MaxRequests = 1
INVARIANT RenegotiationNeverStalls
CHECK_DEADLOCK FALSE
