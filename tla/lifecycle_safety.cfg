SPECIFICATION SafeSpec
CONSTANTS
  Requests = {r1, r2}
  Slots = {w1, w2}
  FixedId = fixed
  NextIds = {n1, n2}
  NoJob = nojob
  Ops = {"start", "pause", "resume", "stop", "delete", "update"}
  Configs = {c1}
  MaxFailures = 2
  MaxRequests = 2
  MaxFaults = 1
  Faults = {"abort", "throw", "stall"}
SYMMETRY Symmetry
CHECK_DEADLOCK FALSE
INVARIANT IInv
PROPERTY FailuresStand
PROPERTY ImplementsGateSafety
PROPERTY OnlyRequestsFork
PROPERTY ChainEndsForAReason
