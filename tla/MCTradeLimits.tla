---------------------------- MODULE MCTradeLimits ----------------------------
(* TradeLimits on a small instance.                                         *)
EXTENDS TradeLimits, TLC
=============================================================================
