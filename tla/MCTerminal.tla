------------------------------ MODULE MCTerminal ------------------------------
(* Sessions and requests are interchangeable in the safety runs.              *)
EXTENDS Terminal, TLC
Symmetry == Permutations(Session) \cup Permutations(Request)
=============================================================================
