SPECIFICATION Spec
CONSTANTS
  Requests = {r1}
  Slots = {w1}
  FixedId = fixed
  NextIds = {n1, n2, n3}
  NoJob = nojob
  Ops = {"start", "stop", "delete"}
  Configs = {c1}
  MaxFailures = 1
  MaxRequests = 3
  MaxFaults = 1
  Faults = {"abort", "throw", "stall"}
CHECK_DEADLOCK FALSE
PROPERTY InactiveBotDrains
PROPERTY ImplementsGate
