----------------------------- MODULE MCAccounts -----------------------------
(* Accounts on a small instance.  The users are not interchangeable: one    *)
(* of them is the administrator the deployment seeds.                       *)
EXTENDS Accounts, TLC

Symmetry == Permutations(Requests)
=============================================================================
