-------------------------------- MODULE MCGate --------------------------------
(* An address whose bucket holds two tokens that refill in one tick, and a    *)
(* bearer token whose bucket holds one that refills in two.                   *)
EXTENDS Gate, TLC
CONSTANTS a1, t1, d1
MCBurst  == [k \in Key |-> IF k \in Addr THEN 2 ELSE 1]
MCCost   == [k \in Key |-> IF k \in Addr THEN 1 ELSE 2]
MCDevice == [t \in Token |-> d1]
Symmetry == Permutations(Request)
=============================================================================
