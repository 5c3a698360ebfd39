----------------------------- MODULE MCHoldings -----------------------------
(* Holdings on a small instance: one token in plenty, one that is dust.     *)
EXTENDS Holdings

CONSTANTS t1, t2
MCBalance == [a \in Accounts |-> [t \in Tokens |-> IF t = t1 THEN 2 ELSE 1]]
=============================================================================
