---------------------------- MODULE MCPriceCheck ----------------------------
(* PriceCheck with two markets: a token that trades against BNB only, with  *)
(* a thin pool on one router, and the same token after pools have moved.    *)
EXTENDS PriceCheck

CONSTANTS t, wbnb, usdt

MCUnit == (t :> 10) @@ (wbnb :> 10) @@ (usdt :> 10)
MCDollars == {usdt}
MCBases == {t, wbnb}
MCQuotes == {wbnb, usdt}

None == [in |-> 0, out |-> 0]
Pairs == {t, wbnb, usdt} \X {t, wbnb, usdt}
Pools(ps) == ps @@ [p \in Pairs |-> None]
Pool(in, out) == [in |-> in, out |-> out]

Deep == (<<t, wbnb>> :> Pool(100000, 50000)) @@ (<<wbnb, usdt>> :> Pool(100000, 300000))
Shallow == (<<t, wbnb>> :> Pool(4000, 2000)) @@ (<<t, usdt>> :> Pool(100000, 150000))

MCMarkets ==
  <<[v2 |-> [uniswap |-> Pools(Shallow), pancakeswap |-> Pools(Deep)],
     v3 |-> <<Pools(<<>>), Pools(Deep)>>],
    [v2 |-> [uniswap |-> Pools(Deep), pancakeswap |-> Pools(Shallow)],
     v3 |-> <<Pools(Shallow), Pools(<<>>)>>]>>
=============================================================================
