SPECIFICATION LaterSpec
CONSTANTS
  Cycles = {c1, c2, c3}
  Earlier = {c3}
  Wallets = {w1}
  BadWallets = {}
  Polls = {p1}
  BatchSize = 2
  Deletable = FALSE
  Faults = {}
CHECK_DEADLOCK FALSE
INVARIANT EverySwapRecorded
PROPERTY RunsEnd
PROPERTY MinedSwapsSettle
