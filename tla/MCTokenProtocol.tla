--------------------------- MODULE MCTokenProtocol ---------------------------
(* Callers and enrollments are interchangeable in the safety run.             *)
EXTENDS TokenProtocol, TLC
Symmetry == Permutations(Caller) \cup Permutations(Device)
=============================================================================
