------------------------------- MODULE MCWSHub -------------------------------
(* Clients are interchangeable in the safety run.                             *)
EXTENDS WSHub, TLC
Symmetry == Permutations(Client)
=============================================================================
