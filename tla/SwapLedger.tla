----------------------------- MODULE SwapLedger -----------------------------
(***************************************************************************)
(* What the transactions table promises about the swaps of a bot, without  *)
(* the loop over the intents, the approvals, the nonces or the rounds of   *)
(* the confirmation worker.                                                *)
(*                                                                         *)
(* An intent is either refused or swapped, and swapped at most once; only  *)
(* another transaction of its wallet takes a pending swap from the chain.  *)
(* A swap has its row after its broadcast, and the row is settled once, by *)
(* what the chain decided.  Deleting the bot takes all rows, for good.     *)
(***************************************************************************)
CONSTANTS Cycles, Wallets,
          Misreports  \* may a swap get the row of a refused intent?

VARIABLES chain,   \* what became of the swap of each intent
          ledger,  \* what its row says
          gone     \* is the bot deleted?

vars == <<gone, ledger, chain>>

Intents == Cycles \X Wallets

Init ==
  /\ chain = [i \in Intents |-> "none"]
  /\ ledger = [i \in Intents |-> "none"]
  /\ gone = FALSE

Pending(w) == {i \in Intents : i[2] = w /\ chain[i] = "pending"}

\* The swap of an intent enters the mempool, perhaps in place of others of its wallet.
Swap(i) ==
  /\ chain[i] = "none"
  /\ ledger[i] = "none"
  /\ UNCHANGED <<ledger, gone>>
  /\ \E lost \in SUBSET Pending(i[2]) :
       chain' = [j \in Intents |-> IF j = i THEN "pending"
                                   ELSE IF j \in lost THEN "replaced" ELSE chain[j]]

\* An approval of the wallet takes the place of swaps.
Displace(w) ==
  /\ UNCHANGED <<ledger, gone>>
  /\ \E lost \in SUBSET Pending(w) :
       chain' = [j \in Intents |-> IF j \in lost THEN "replaced" ELSE chain[j]]

Mine(i) ==
  /\ chain[i] = "pending"
  /\ \E outcome \in {"success", "revert"} : chain' = [chain EXCEPT ![i] = outcome]
  /\ UNCHANGED <<ledger, gone>>

Write(i, verdict) ==
  /\ ~gone
  /\ ledger' = [ledger EXCEPT ![i] = verdict]
  /\ UNCHANGED <<chain, gone>>

Refuse(i) == /\ ledger[i] = "none"
             /\ chain[i] = "none" \/ Misreports
             /\ Write(i, "refused")

Record(i) == ledger[i] = "none" /\ chain[i] # "none" /\ Write(i, "submitted")

Settle(i) ==
  /\ ledger[i] = "submitted"
  /\ \/ chain[i] = "success" /\ Write(i, "confirmed")
     \/ chain[i] = "revert" /\ Write(i, "reverted")

Delete ==
  /\ ~gone
  /\ gone' = TRUE
  /\ ledger' = [i \in Intents |-> "none"]
  /\ UNCHANGED chain

Next ==
  \/ \E w \in Wallets : Displace(w)
  \/ \E i \in Intents : Swap(i) \/ Mine(i) \/ Refuse(i) \/ Record(i) \/ Settle(i)
  \/ Delete

Spec == Init /\ [][Next]_vars
=============================================================================
