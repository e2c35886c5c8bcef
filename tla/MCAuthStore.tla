---------------------------- MODULE MCAuthStore ----------------------------
(***************************************************************************)
(* Instances of AuthStore for TLC.                                          *)
(***************************************************************************)
EXTENDS AuthStore, TLC

\* Requests are interchangeable.
Symmetry == Permutations(Request)
=============================================================================
