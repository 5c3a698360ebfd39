--------------------------- MODULE MCBotLifecycle ---------------------------
(* BotLifecycle on small instances; requests, slots and generated job ids   *)
(* are interchangeable, which the safety runs use.                          *)
EXTENDS BotLifecycle, TLC

Symmetry ==
  Permutations(Requests) \union Permutations(Slots) \union Permutations(NextIds)
=============================================================================
