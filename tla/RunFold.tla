------------------------------- MODULE RunFold -------------------------------
(***************************************************************************)
(* The replay fold: how a run's journaled events become a RunState          *)
(* (internal/replay/fold.go, state.go, terminal.go, messages.go).           *)
(*                                                                         *)
(* An event is a record with the envelope's seq and id and its payload's    *)
(* type and fields.  Prompts, texts, arguments and results are left out: no *)
(* decision of the fold reads them.  One run is modelled, so run ids always *)
(* match.                                                                   *)
(***************************************************************************)
EXTENDS Integers, Sequences

(* RunState.  seen[i + 1] is the id of the event at sequence number i, so    *)
(* NextSequence is Len(seen).  What deriveToolState and computeNextAction    *)
(* store is a function of the rest: Pending, InFlight and NextAction.        *)
EmptyState ==
    [status |-> "NONE", step |-> 0, maxSteps |-> 0, steps |-> <<>>, seen |-> <<>>]

NextSequence(s) == Len(s.seen)

TerminalStatuses == {"COMPLETED", "FAILED", "CANCELLED"}

IsTerminal(s) == s.status \in TerminalStatuses

Last(s) == s.steps[Len(s.steps)]

Ids(seq) == {seq[i] : i \in DOMAIN seq}

IsInvoked(step, id) == \E i \in step.invoked : i.id = id

IsResulted(step, id) == \E r \in step.results : r.id = id

AllResulted(step) == \A id \in Ids(step.order) : IsResulted(step, id)

(* currentStepFor: the tool_use id belongs to the current step.              *)
InCurrentStep(s, id) == s.steps # <<>> /\ id \in Ids(Last(s).order)

-----------------------------------------------------------------------------
(* deriveToolState.                                                          *)

(* The tool_use ids of the current step are taken by their position in it.   *)
Positions(s) == IF s.steps = <<>> THEN {} ELSE DOMAIN Last(s).order

PendingToolCalls(s) ==
    {i \in Positions(s) : /\ ~IsInvoked(Last(s), Last(s).order[i])
                          /\ ~IsResulted(Last(s), Last(s).order[i])}

InFlightTools(s) ==
    {i \in Positions(s) : /\ IsInvoked(Last(s), Last(s).order[i])
                          /\ ~IsResulted(Last(s), Last(s).order[i])}

(* The id at the first of some positions.                                    *)
FirstOf(s, positions) ==
    Last(s).order[CHOOSE i \in positions : \A j \in positions : i <= j]

(* The journaled invocation of the first tool in flight.                     *)
InFlightTool(s) ==
    CHOOSE i \in Last(s).invoked : i.id = FirstOf(s, InFlightTools(s))

(* Mutant: once nothing is in flight, tools that wait are forgotten.         *)
NextActionForgetsPending(s) ==
    IF IsTerminal(s) \/ s.status = "AWAITING_APPROVAL" THEN "NONE"
    ELSE IF s.steps = <<>> THEN "CALL_LLM"
    ELSE IF InFlightTools(s) # {} THEN "RESOLVE_IN_FLIGHT_TOOL"
    ELSE IF Last(s).stop # "tool_use" THEN "FINISH_RUN"
    ELSE IF s.step < s.maxSteps THEN "CALL_LLM"
    ELSE "FAIL_MAX_STEPS"

(* computeNextAction's truth table.                                          *)
NextAction(s) ==
    IF IsTerminal(s) \/ s.status = "AWAITING_APPROVAL" THEN "NONE"
    ELSE IF s.steps = <<>> THEN "CALL_LLM"
    ELSE IF InFlightTools(s) # {} THEN "RESOLVE_IN_FLIGHT_TOOL"
    ELSE IF Last(s).stop # "tool_use" THEN "FINISH_RUN"
    ELSE IF PendingToolCalls(s) # {} THEN "EXECUTE_TOOL"
    ELSE IF Last(s).order = <<>> THEN "FINISH_RUN"
    ELSE IF s.step < s.maxSteps THEN "CALL_LLM"
    ELSE "FAIL_MAX_STEPS"

-----------------------------------------------------------------------------
(* NewEnvelope: an envelope around a payload.                                *)
Enveloped(envelope, payload) ==
    [f \in DOMAIN envelope \cup DOMAIN payload |->
        IF f \in DOMAIN envelope THEN envelope[f] ELSE payload[f]]

-----------------------------------------------------------------------------
(* Apply.                                                                    *)

(* Mutant: the terminal check comes first, before a redelivery is seen.      *)
StructuralTerminalFirst(s, e) ==
    IF IsTerminal(s) THEN "event_after_terminal"
    ELSE IF e.seq < NextSequence(s) THEN
           IF s.seen[e.seq + 1] = e.id THEN "redelivery" ELSE "conflict"
    ELSE IF e.seq # NextSequence(s) THEN "sequence_gap" ELSE "ok"

(* Mutant: no terminal check.                                                *)
StructuralWithoutTerminal(s, e) ==
    IF e.seq < NextSequence(s) THEN
         IF s.seen[e.seq + 1] = e.id THEN "redelivery" ELSE "conflict"
    ELSE IF e.seq # NextSequence(s) THEN "sequence_gap" ELSE "ok"

(* The structural checks, in the code's order; "redelivery" is the no-op.    *)
Structural(s, e) ==
    IF e.seq < NextSequence(s) THEN
         IF s.seen[e.seq + 1] = e.id THEN "redelivery" ELSE "conflict"
    ELSE IF s.seen = <<>> THEN
         IF e.seq = 0 /\ e.type = "RunStarted" THEN "ok" ELSE "first_event_not_start"
    ELSE IF IsTerminal(s) THEN "event_after_terminal"
    ELSE IF e.seq # NextSequence(s) THEN "sequence_gap" ELSE "ok"

(* What applyToolInvoked and applyToolResulted refuse.                       *)
BadToolEvent(s, e) ==
    IF ~InCurrentStep(s, e.tool) THEN "unknown_tool_use_id"
    ELSE IF \/ e.type = "ToolInvoked" /\ IsInvoked(Last(s), e.tool)
            \/ e.type = "ToolResulted" /\ ~IsInvoked(Last(s), e.tool)
            \/ e.type = "ToolResulted" /\ IsResulted(Last(s), e.tool)
         THEN "tool_order" ELSE "ok"

(* Mutant: an LLM answer is accepted while tools have no result.             *)
BadPayloadLaxStep(s, e) ==
    IF e.type \in {"ToolInvoked", "ToolResulted"} THEN BadToolEvent(s, e) ELSE "ok"

(* What applyPayload refuses; applyLLMResponded wants every result first.    *)
BadPayload(s, e) ==
    IF e.type \in {"ToolInvoked", "ToolResulted"} THEN BadToolEvent(s, e)
    ELSE IF e.type = "LLMResponded" /\ s.steps # <<>> /\ ~AllResulted(Last(s))
         THEN "tool_order" ELSE "ok"

Verdict(s, e) ==
    IF Structural(s, e) = "ok" THEN BadPayload(s, e) ELSE Structural(s, e)

(* applyPayload.                                                             *)
ApplyPayload(s, e) ==
    CASE e.type = "RunStarted" ->
           [s EXCEPT !.status = "RUNNING", !.step = 0, !.maxSteps = e.maxSteps]
      [] e.type = "LLMResponded" ->
           [s EXCEPT !.step = e.step,
                     !.steps = Append(@, [stop |-> e.stop, order |-> e.order,
                                          invoked |-> {}, results |-> {}])]
      [] e.type = "ToolInvoked" ->
           [s EXCEPT !.steps[Len(s.steps)].invoked =
                         @ \cup {[id |-> e.tool, side |-> e.side]}]
      [] e.type = "ToolResulted" ->
           [s EXCEPT !.steps[Len(s.steps)].results =
                         @ \cup {[id |-> e.tool, status |-> e.status]}]
      [] e.type = "AwaitingApproval" -> [s EXCEPT !.status = "AWAITING_APPROVAL"]
      [] e.type = "RunApproved" -> [s EXCEPT !.status = "RUNNING"]
      [] e.type = "RunCompleted" -> [s EXCEPT !.status = "COMPLETED"]
      [] e.type = "RunFailed" -> [s EXCEPT !.status = "FAILED"]
      [] e.type = "RunCancelled" -> [s EXCEPT !.status = "CANCELLED"]

Applied(s, e) == [ApplyPayload(s, e) EXCEPT !.seen = Append(@, e.id)]

(* Apply with its error: err is "ok" or the reason the event was refused, in *)
(* which case the state is the one before the event.                         *)
Apply(s, e) ==
    LET v == Verdict(s, e) IN
    [err |-> IF v = "redelivery" THEN "ok" ELSE v,
     state |-> IF v = "ok" THEN Applied(s, e) ELSE s]

(* Fold: it stops at the first event Apply refuses, and a run without events *)
(* is not found.                                                             *)
NotFound == [err |-> "run_not_found", state |-> EmptyState]

FoldStep(r, e) ==
    IF r.err \in {"ok", "run_not_found"} THEN Apply(r.state, e) ELSE r

Fold(evs) ==
    LET f[i \in 0..Len(evs)] ==
          IF i = 0 THEN NotFound ELSE FoldStep(f[i - 1], evs[i])
    IN  f[Len(evs)]

-----------------------------------------------------------------------------
(* TerminalPayload: what FINISH_RUN publishes.                               *)
TerminalEvent(s) ==
    IF Last(s).stop = "tool_use" \/ Last(s).stop = "max_tokens"
    THEN "RunFailed" ELSE "RunCompleted"

(* Messages: a user turn, then for each step the assistant turn and, when    *)
(* the step called tools, one user turn with every result.  It stops after   *)
(* the first step whose batch is open.  Turns are kept as their kinds.       *)
Messages(s) ==
    LET open == {i \in DOMAIN s.steps : ~AllResulted(s.steps[i])}
        last == IF open = {} THEN Len(s.steps)
                ELSE CHOOSE i \in open : \A j \in open : i <= j
        turns(step) == IF step.order = <<>> \/ ~AllResulted(step)
                       THEN <<"assistant">> ELSE <<"assistant", "user">>
        f[i \in 0..last] == IF i = 0 THEN <<"user">>
                            ELSE f[i - 1] \o turns(s.steps[i])
    IN  f[last]
=============================================================================
