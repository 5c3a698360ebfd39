----------------------------- MODULE MCTrading -----------------------------
(* Bots that between them reach every branch of strategy and executor. *)
EXTENDS Trading

Bot(strategy, dex, version, min, max) ==
  [strategy |-> strategy, dex |-> dex, version |-> version, min |-> min, max |-> max,
   buy |-> TRUE, sell |-> TRUE, base |-> "TOKEN", quote |-> "WBNB", slippage |-> 300,
   concurrent |-> 2]

MCBots == {
  Bot("smooth_buy", "pancakeswap", "v3", 3000, 2999),
  [Bot("smooth_buy", "pancakeswap", "v2", 5000, 5001) EXCEPT !.quote = "USDT", !.sell = FALSE],
  [Bot("smooth_buy", "uniswap", "v2", 6900, 6900) EXCEPT !.quote = "USDT"],
  [Bot("smooth_sell", "uniswap", "v2", 5600, 5600) EXCEPT !.slippage = 2000],
  [Bot("smooth_sell", "uniswap", "v2", 2500, 2500) EXCEPT !.base = "WBNB", !.quote = "USDT"],
  Bot("smooth_buy", "uniswap", "v2", 2001, 2002),
  [Bot("smooth_sell", "uniswap", "v2", 9000, 9000) EXCEPT !.sell = FALSE],
  Bot("smooth_buy", "uniswap", "v3", 90, 90),
  Bot("volume_cycle", "uniswap", "v2", 90, 90),
  [Bot("volume_cycle", "pancakeswap", "v2", 1500, 1500) EXCEPT !.sell = FALSE]}

MCPools == {[base |-> 60000, quote |-> 30000], [base |-> 32000, quote |-> 58000]}
MCLimits == {1000, 2000}
=============================================================================
