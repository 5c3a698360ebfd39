SPECIFICATION SafeSpec
CONSTANTS
  Cycles = {c1, c2}
  Earlier = {}
  Wallets = {w1, w2}
  BadWallets = {w2}
  Polls = {p1}
  BatchSize = 1
  Deletable = TRUE
  Faults = {"db", "rpc", "crash"}
SYMMETRY Symmetry
CHECK_DEADLOCK FALSE
INVARIANT RowsAgreeWithChain
INVARIANT RunCountsItsRows
PROPERTY ImplementsLedger
