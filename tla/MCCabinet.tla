------------------------------ MODULE MCCabinet ------------------------------
(* The cabinet with two documents on every page. *)
EXTENDS Cabinet, TLC

SomeChains == 1..2
Symmetric == Permutations(Docs)
=============================================================================
