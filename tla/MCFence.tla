------------------------------- MODULE MCFence -------------------------------
(* Instances of the fence that satisfy its timing assumption.                *)
EXTENDS FenceInvariant, TLC

CONSTANTS w1, w2, w3

Symmetry == Permutations(Workers)

(* Every worker runs the same build with the same environment.               *)
SameHash == [w \in Workers |-> "h"]
SameTimeout == [w \in Workers |-> 1]
SameTTL == [w \in Workers |-> 7]
SameClock == [w \in Workers |-> 0]

(* Configurations and clocks that differ as far as the assumption allows:    *)
(* w1 is the impatient one with the fast clock.                              *)
MixedTimeout == [w \in Workers |-> IF w = w1 THEN 1 ELSE 2]
MixedTTL == [w \in Workers |-> IF w = w1 THEN 10 ELSE 11]
MixedClock == [w \in Workers |-> IF w = w1 THEN 1 ELSE 0]

(* w3 runs a build that hashes the arguments differently.                    *)
RedeployedHash == [w \in Workers |-> IF w = w3 THEN "g" ELSE "h"]
Peers == Permutations({w1, w2})
=============================================================================
