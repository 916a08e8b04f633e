------------------------------ MODULE MCReplay -------------------------------
(* Every journal of a few events over two tool_use ids, replayed on a        *)
(* machine that is not in UTC.                                               *)
EXTENDS Replay, TLC

CONSTANTS t1, t2

Symmetry == Permutations(Tools)
=============================================================================
