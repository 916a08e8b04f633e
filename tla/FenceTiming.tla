----------------------------- MODULE FenceTiming -----------------------------
(***************************************************************************)
(* The timing under which the fence keeps its promise.  loadConfig          *)
(* (cmd/worker/config.go) checks ConfigAccepted for each worker alone;      *)
(* the others relate the configurations and the clocks of two workers, and  *)
(* nothing in the code checks them.                                         *)
(***************************************************************************)
EXTENDS Fence

(* What loadConfig and durationEnv let through.                              *)
ConfigAccepted(w) ==
    /\ ToolTimeout[w] > 0
    /\ TTL[w] > ToolTimeout[w] + StaleGrace + ExpiryMargin

(* Two retry blocks may lie between minting a claim and calling the tool     *)
(* (claim and reconcile, or takeover and recheck), and a third one resolves. *)
ASSUME TimingAssumption ==
    /\ Responsive
    (* Every worker is done with a claim before another one sees it as stale. *)
    /\ \A v, w \in Workers :
         3 * OpDelay + ToolTimeout[v] + Skew[w] - Skew[v]
            < ToolTimeout[w] + StaleGrace
    (* A key that has expired for v looks expired to w.                      *)
    /\ \A v, w \in Workers :
         TTL[w] - ExpiryMargin <= TTL[v] + Skew[w] - InvokedAt
    (* A claim outlives its commands and its tool call.                      *)
    /\ \A v, w \in Workers :
         /\ OpDelay + CommandLife < TTL[v]
         /\ 2 * OpDelay + ToolTimeout[w] < TTL[v]
    /\ \A w \in Workers : ConfigAccepted(w)
=============================================================================
