------------------------------ MODULE MCPages ------------------------------
(* Pages on a small instance.                                              *)
EXTENDS Pages
=============================================================================
