----------------------------- MODULE PriceRoutes -----------------------------
(***************************************************************************)
(* How the price endpoint turns pools into a price: the path it quotes, in *)
(* the order it tries them, the value in USD and the liquidity warning.    *)
(*                                                                         *)
(* A pool is external: a pair of reserves.  A quote reverts when a pool of *)
(* the path has none or an amount on the way is zero, so the outcome of a  *)
(* quote is a set of at most one amount.  Prices stay integers: the amount *)
(* one whole base token buys, in the smallest unit of the quote token.     *)
(*                                                                         *)
(* The endpoint takes every error of a quote for a missing pool, so when   *)
(* calls to the node fail it answers with another path, without a value in *)
(* USD, with a warning, or that the token is not listed: Prices.           *)
(***************************************************************************)
EXTENDS Naturals, Sequences, SequencesExt, FiniteSetsExt

CONSTANTS
  WBNB, USDT,
  Dollars,      \* USDT and USDC
  Unit,         \* 10^decimals of each token
  FeeTiers      \* how many fee tiers V3 has

Dexes == {"pancakeswap", "uniswap"}
Combos == {<<"pancakeswap", "v2">>, <<"pancakeswap", "v3">>, <<"uniswap", "v2">>}  \* DEX_OPTIONS

\* What one pool, then a path of one or two pools, pays for x.
Hop(pool, x) ==
  IF pool.in = 0 \/ x = 0 THEN {} ELSE {(x * pool.out) \div (pool.in + x)}
Out(path, x) ==
  IF Len(path) = 1 THEN Hop(path[1], x) ELSE UNION {Hop(path[2], y) : y \in Hop(path[1], x)}

\* The first of the paths that does not revert.
Answering(paths, x) == {i \in DOMAIN paths : Out(paths[i], x) # {}}
FirstAnswering(paths, x) ==
  IF Answering(paths, x) = {} THEN <<>> ELSE <<paths[Min(Answering(paths, x))]>>

\* resolveV2: the pair itself, then the way over WBNB.
V2Paths(m, dex, base, quote) ==
  << <<m.v2[dex][base, quote]>> >> \o
  IF quote = WBNB THEN <<>> ELSE << <<m.v2[dex][base, WBNB], m.v2[dex][WBNB, quote]>> >>

\* resolveV3: the fee tiers of the pair, then each tier with each over WBNB.
V3Paths(m, base, quote) ==
  [i \in 1..FeeTiers |-> <<m.v3[i][base, quote]>>] \o
  IF quote = WBNB THEN <<>>
  ELSE [k \in 1..FeeTiers * FeeTiers |->
          <<m.v3[((k - 1) \div FeeTiers) + 1][base, WBNB], m.v3[((k - 1) % FeeTiers) + 1][WBNB, quote]>>]

\* Mutant of Paths: without the way over WBNB.
PathsDirect(m, combo, base, quote) ==
  IF combo[2] = "v2" THEN << <<m.v2[combo[1]][base, quote]>> >>
                     ELSE [i \in 1..FeeTiers |-> <<m.v3[i][base, quote]>>]
Paths(m, combo, base, quote) ==
  IF combo[2] = "v2" THEN V2Paths(m, combo[1], base, quote) ELSE V3Paths(m, base, quote)

\* v2QuoteToUsd: what one quote token is worth, asked of the V2 router of the
\* DEX, or of PancakeSwap's for a V3 price.
UsdPaths(m, dex, quote) ==
  IF quote = WBNB THEN << <<m.v2[dex][WBNB, USDT]>> >> ELSE V2Paths(m, dex, quote, USDT)
QuoteInUsd(m, dex, quote) ==
  IF quote \in Dollars
  THEN {Unit[quote]}
  ELSE UNION {Out(path, Unit[quote]) :
                path \in Range(FirstAnswering(UsdPaths(m, dex, quote), Unit[quote]))}

\* The same when a call may fail: the second path though the first answers, or nothing.
QuotesInUsd(m, dex, quote) ==
  IF quote \in Dollars
  THEN {{Unit[quote]}}
  ELSE {{}} \union {Out(path, Unit[quote]) : path \in Range(UsdPaths(m, dex, quote))}

\* v2LiquidityWarning, v3LiquidityWarning: a hundred tokens pay more than five
\* percent less, or more, than a hundred times what one pays.
Apart(a, b) == IF a > b THEN a - b ELSE b - a
Thin(path, one) ==
  \A small \in Out(path, one), large \in Out(path, 100 * one) :
    small = 0 \/ Apart(large, 100 * small) > 5 * small

NotListed == [listed |-> FALSE, inQuote |-> 0, inUsd |-> {}, warning |-> FALSE, hops |-> 0]

\* getTokenPrice.  The dollar price is the product of the two quotes.
Along(path, one, usd, warning) ==
  LET out == CHOOSE y \in Out(path, one) : TRUE
  IN  [listed |-> TRUE, inQuote |-> out, inUsd |-> {out * u : u \in usd},
       warning |-> warning, hops |-> Len(path)]

Price(m, combo, base, quote) ==
  LET one == Unit[base]
      found == FirstAnswering(Paths(m, combo, base, quote), one)
  IN  IF found = <<>> THEN NotListed
      ELSE Along(found[1], one, QuoteInUsd(m, combo[1], quote), Thin(found[1], one))

\* The answers it may give when any of its calls may fail.
Prices(m, combo, base, quote) ==
  LET one == Unit[base]
      paths == Paths(m, combo, base, quote)
      worth == QuotesInUsd(m, combo[1], quote)
      found == {paths[i] : i \in Answering(paths, one)}
  IN  {NotListed} \union
      UNION {{Along(path, one, usd, warning) : usd \in worth, warning \in {TRUE, Thin(path, one)}} :
             path \in found}
=============================================================================
