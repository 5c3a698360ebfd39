---------------------------- MODULE MCExecution ----------------------------
(* Execution on small instances.                                           *)
EXTENDS Execution, TLC

\* Cycles that ran before the others: each has submitted a swap of every wallet
\* and ended, and the swaps are still in the mempool.
CONSTANT Earlier
ASSUME Earlier \subseteq Cycles /\ Cardinality(Earlier) <= 1

Symmetry ==
  Permutations(Cycles) \union Permutations(Wallets \ BadWallets) \union Permutations(Polls)

\* A state that the cycles of Earlier reach from Init by themselves.
LaterInit ==
  /\ step = [c \in Cycles |-> IF c \in Earlier THEN "end" ELSE "open"]
  /\ left = [c \in Cycles |-> {}]
  /\ at = [c \in Cycles |-> IF c \in Earlier THEN CHOOSE w \in Wallets : TRUE ELSE NoWallet]
  /\ ok = [c \in Cycles |-> IF c \in Earlier THEN Cardinality(Wallets) ELSE 0]
  /\ bad = [c \in Cycles |-> 0]
  /\ nonce = [c \in Cycles |-> 0]
  /\ run = [c \in Cycles |->
              IF c \in Earlier
              THEN [status |-> "completed", successes |-> Cardinality(Wallets), failures |-> 0]
              ELSE NoRun]
  /\ row = [i \in Intents |-> IF i[1] \in Earlier THEN "submitted" ELSE "none"]
  /\ deleted = FALSE
  /\ tx = [t \in TxIds |-> IF t[1][1] \in Earlier /\ t[2] = "swap"
                           THEN [st |-> "pending", nonce |-> 0] ELSE Free]
  /\ allowance \in [Wallets -> BOOLEAN]
  /\ batch = [p \in Polls |-> {}]
LaterSpec == LaterInit /\ [][Next]_vars /\ Fairness
=============================================================================
