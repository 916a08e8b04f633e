----------------------------- MODULE MCAgentLoop -----------------------------
(* Small instances of one run.                                               *)
EXTENDS AgentLoop, TLC

CONSTANTS w1, w2, w3

(* The answers that lead to different branches: tools with and without side  *)
(* effects, an unknown tool, an end, a truncated answer with a tool in it    *)
(* and a tool_use stop without any tool.                                     *)
AllResponses ==
    {[stop |-> "tool_use", tools |-> <<"read", "open_pr">>],
     [stop |-> "tool_use", tools |-> <<"nosuch">>],
     [stop |-> "tool_use", tools |-> <<>>],
     [stop |-> "max_tokens", tools |-> <<"open_pr">>],
     [stop |-> "end_turn", tools |-> <<>>]}

FewResponses ==
    {[stop |-> "tool_use", tools |-> <<"open_pr">>],
     [stop |-> "end_turn", tools |-> <<>>]}

SameBuild == [w \in Workers |-> {"read", "open_pr"}]

(* The build that resumes no longer has open_pr and calls "nosuch" a tool.   *)
Redeployed == [w \in Workers |-> IF w = w1 THEN {"read", "open_pr"}
                                 ELSE {"read", "nosuch"}]

(* The workers with the new build are alike.                                 *)
Symmetry == Permutations(Workers \ {w1})
=============================================================================
