------------------------------ MODULE MCLedger -------------------------------
(* Two runs that share the ledger file.                                      *)
EXTENDS Ledger

CONSTANTS c1, c2, c3, c4

(* c1 and c2 open the same PR for r1, c3 applies a fix for it, and c4 opens  *)
(* the PR of r2.                                                             *)
RunOf == [c \in Callers |-> IF c = c4 THEN "r2" ELSE "r1"]
ToolOf == [c \in Callers |-> IF c = c3 THEN "apply_fix" ELSE "open_pr"]
KeyOf == [c \in Callers |-> IF c = c4 THEN "k2" ELSE IF c = c3 THEN "k3" ELSE "k1"]
=============================================================================
