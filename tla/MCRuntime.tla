------------------------------ MODULE MCRuntime ------------------------------
(* Two workers on one run, both awake if the operator lets them.             *)
EXTENDS Runtime

CONSTANTS w1, w2

EndTurn == {[stop |-> "end_turn", tools |-> <<>>]}

SameHash == [w \in Workers |-> "h"]
SameTimeout == [w \in Workers |-> 1]
SameTTL == [w \in Workers |-> 7]
SameClock == [w \in Workers |-> 0]
=============================================================================
