SPECIFICATION Spec
CONSTANTS
  Accounts = {a1, a2}
  None = none
  Connectors = {metamask}
  t1 = t1
  t2 = t2
  Tokens = {t1, t2}
  Balance <- MCBalance
  Shown = 2
  Loads = {l1, l2}
INVARIANT HoldingsOfAccount
INVARIANT GoneStaysGone
PROPERTY LoadingEnds
