SPECIFICATION Spec
CONSTANTS
  Traders = {t1}
  Requests = {q1}
  Handlers = {h1, h2}
  Syncs = {s1}
  MaxUSD = 2
  Prices = {100, 101, 103}
INVARIANT LimitsAgree
INVARIANT GrantedStaysApproved
PROPERTY LimitsFollow
