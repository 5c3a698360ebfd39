SPECIFICATION PagesSpec
CONSTANTS
  MaxMishaps = 1
  MaxSlow = 1
  MaxPending = 2
  MaxBackground = 1
INVARIANT OwnChangesShow
PROPERTY OwnChangesArrive
CHECK_DEADLOCK FALSE
