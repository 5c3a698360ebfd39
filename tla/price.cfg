SPECIFICATION PriceSpec
CONSTANTS
  t = t
  wbnb = wbnb
  usdt = usdt
  WBNB = wbnb
  USDT = usdt
  NoToken = none
  Dollars <- MCDollars
  Unit <- MCUnit
  FeeTiers = 2
  Bases <- MCBases
  Quotes <- MCQuotes
  Markets <- MCMarkets
INVARIANT StaleOnlyWhileChecking
PROPERTY AnswersNewest
PROPERTY PriceCatchesUp
