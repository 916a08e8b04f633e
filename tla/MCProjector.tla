---------------------------- MODULE MCProjector -----------------------------
(* Small instances of one partition.                                         *)
EXTENDS Projector

CONSTANTS p1, p2, r1, r2
=============================================================================
