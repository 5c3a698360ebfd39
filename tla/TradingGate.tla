----------------------------- MODULE TradingGate -----------------------------
(***************************************************************************)
(* What the bot service promises the owner of a bot about trading, without *)
(* any of the queue, the requests or the steps of a cycle.                 *)
(*                                                                         *)
(* A worker slot may enter the trading part of a cycle only while the bot  *)
(* is switched on.  Switching it off does not recall the slots that have   *)
(* already entered, but each of those leaves again, so a bot that stays    *)
(* off eventually trades no more.                                          *)
(***************************************************************************)
CONSTANT Slots

VARIABLES on,      \* is the bot switched on?
          inside   \* the slots inside the trading part of a cycle

vars == <<on, inside>>

Init == on = FALSE /\ inside = {}

SwitchOn == ~on /\ on' = TRUE /\ UNCHANGED inside

SwitchOff == on /\ on' = FALSE /\ UNCHANGED inside

Enter(w) == on /\ w \notin inside /\ inside' = inside \union {w} /\ UNCHANGED on

Leave(w) == w \in inside /\ inside' = inside \ {w} /\ UNCHANGED on

Next ==
  \/ SwitchOn
  \/ SwitchOff
  \/ \E w \in Slots : Enter(w) \/ Leave(w)

SafeSpec == Init /\ [][Next]_vars

Spec == SafeSpec /\ \A w \in Slots : WF_vars(Leave(w))
==============================================================================
