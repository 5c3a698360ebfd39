---------------------------- MODULE MCWalletKeys ----------------------------
(* WalletKeys on a small instance.                                          *)
EXTENDS WalletKeys, TLC

CONSTANTS w1, w2

MCWallets == {w1, w2}
MCTwins == {<<w1, w2>>}
=============================================================================
