---------------------------- MODULE MCFenceFaults ----------------------------
(* Instances of the fence outside its timing assumption that the code admits. *)
EXTENDS Fence

CONSTANTS w1, w2

SameHash == [w \in Workers |-> "h"]
SameTimeout == [w \in Workers |-> 1]
SameTTL == [w \in Workers |-> 7]
SameClock == [w \in Workers |-> 0]

(* DAE_IDEMPOTENCY_TTL is raised between the crash of w1 and the resume; each *)
(* value passes loadConfig's check.                                           *)
RaisedTTL == [w \in Workers |-> IF w = w1 THEN 6 ELSE 9]
=============================================================================
