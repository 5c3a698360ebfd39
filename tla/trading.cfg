SPECIFICATION Spec
CONSTANTS
  Bots <- MCBots
  MaxWallets = 3
  Pools <- MCPools
  Limits <- MCLimits
  MaxMoves = 2
  Precision = 2000
INVARIANT SwapsAsConfigured
INVARIANT FreshFloor
INVARIANT ImpactBounded
INVARIANT CycleBalanced
