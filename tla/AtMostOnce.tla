----------------------------- MODULE AtMostOnce ------------------------------
(***************************************************************************)
(* What the fence promises about one side-effecting tool call, without      *)
(* claims, tokens, clocks or retries: whichever callers ask for the effect, *)
(* at most one makes it, and nobody is told something false about it.       *)
(***************************************************************************)
CONSTANT Callers

VARIABLES
    effect,   \* the caller that made the effect, as a set
    answer    \* answer[c]: what the call of c returned, "none" until it did

Init ==
    /\ effect = {}
    /\ answer = [c \in Callers |-> "none"]

(* The effect happens.  Its caller may learn in the same instant only that   *)
(* the outcome is unknown.                                                   *)
Apply(c) ==
    /\ effect = {}
    /\ answer[c] = "none"
    /\ effect' = {c}
    /\ \/ UNCHANGED answer
       \/ answer' = [answer EXCEPT ![c] = "unknown"]

(* success: the effect exists.  error: it does not.  refused: this call did  *)
(* not make it.                                                              *)
Reply(c, a) ==
    /\ answer[c] = "none"
    /\ a = "success" => effect # {}
    /\ a = "error" => effect = {}
    /\ a = "refused" => c \notin effect
    /\ answer' = [answer EXCEPT ![c] = a]
    /\ UNCHANGED effect

Next ==
    \E c \in Callers :
        \/ Apply(c)
        \/ \E a \in {"success", "error", "refused", "unknown"} : Reply(c, a)

Spec == Init /\ [][Next]_<<effect, answer>>
=============================================================================
