------------------------------ MODULE AgentLoop ------------------------------
(***************************************************************************)
(* One run: the agent loop (internal/agent/loop.go) in the worker processes *)
(* that start and resume it (cmd/worker/main.go), journaling to the run's   *)
(* Kafka log (internal/kafka, internal/replay/kafka_source.go).             *)
(*                                                                         *)
(* The fence is used through what it promises (AtMostOnce), the LLM answers *)
(* anything in Responses, and tools answer success or error.                *)
(***************************************************************************)
EXTENDS RunFold

CONSTANTS
    Workers,            \* worker processes
    OneAtATime,         \* TRUE: the operator resumes only what is not running
    Registered,         \* Registered[w]: tools in the registry of w's build
    SideEffecting,      \* tools whose HasSideEffect is true
    Responses,          \* LLM answers: [stop |-> ..., tools |-> sequence]
    MaxSteps,           \* the loop's maxSteps
    PublishMaxAttempts,
    LateWrites,         \* TRUE: a write may land after the next worker replayed
    MaxFaults,          \* bound: crashes, failed writes and fence failures
    MaxCalls            \* bound: LLM answers over all workers

ASSUME LoopAssumption ==
    /\ OneAtATime \in BOOLEAN
    /\ LateWrites \in BOOLEAN
    /\ MaxSteps \in Nat
    /\ PublishMaxAttempts \in Nat \ {0}
    /\ MaxFaults \in Nat
    /\ MaxCalls \in Nat
    /\ \A r \in Responses : r.tools \in Seq(Ids(r.tools))

VARIABLES
    log,      \* the run's events in Kafka, in offset order
    journal,  \* Fold(log), kept event by event: what a replay returns now
    limbo,    \* published events whose acknowledgement never came
    effects,  \* <<tool_use id, worker>>: ledger entries, by who wrote them
    calls,    \* LLM answers so far; also names the answers
    faults,   \* crashes, failed writes and fence failures so far
    pc,       \* pc[w]
    state,    \* state[w]: the RunState the loop holds
    env,      \* env[w]: the envelope being published
    tries     \* tries[w]: failed publish attempts of env[w]

vars == <<log, journal, limbo, effects, calls, faults, pc, state, env, tries>>
world == <<log, journal, limbo, effects, calls, faults>>

Exits == {"exit_ok", "exit_failed", "exit_not_found", "exit_publish_failed",
          "exit_fence_unavailable"}
Live(w) == pc[w] \in {"drive", "publish", "fence"}

NoEvent == [type |-> "none"]

(* Key: a call's effects are found under its run, step and tool_use id.      *)
HasEffect(id) == \E e \in effects : e[1] = id

Tool(id) == id.tool
HasSideEffect(w, id) == Tool(id) \in Registered[w] \cap SideEffecting

JournalTerminal == IsTerminal(journal.state)

(* Kafka appends an event.                                                   *)
AppendToLog(e) ==
    /\ log' = Append(log, e)
    /\ journal' = FoldStep(journal, e)

-----------------------------------------------------------------------------
(* NewEnvelope: a fresh event id at the next sequence number.                *)
Envelope(w, payload) ==
    Enveloped([seq |-> NextSequence(state[w]), id |-> <<w, NextSequence(state[w])>>],
              payload)

RunFailed(w) == [type |-> "RunFailed", step |-> state[w].step]

(* publishApplyPrint up to the first attempt.                                *)
StartPublishing(w, payload) ==
    /\ pc' = [pc EXCEPT ![w] = "publish"]
    /\ env' = [env EXCEPT ![w] = Envelope(w, payload)]
    /\ tries' = [tries EXCEPT ![w] = 0]

Exit(w, code) ==
    /\ pc' = [pc EXCEPT ![w] = code]
    /\ state' = [state EXCEPT ![w] = EmptyState]
    /\ env' = [env EXCEPT ![w] = NoEvent]
    /\ tries' = [tries EXCEPT ![w] = 0]

(* Mutant: every terminal run exits with code 0.                             *)
ExitCodeOK(s) == "exit_ok"

ExitCode(s) == IF s.status = "COMPLETED" THEN "exit_ok" ELSE "exit_failed"

Fault == faults < MaxFaults /\ faults' = faults + 1

-----------------------------------------------------------------------------
(* The worker's main: a fresh run, or a resume by replay of the log.         *)

Started == \E v \in Workers : pc[v] \notin {"idle", "startup_failed"}

(* A bad configuration, no topics, no Redis or no replay: the process exits  *)
(* with code 1 before it publishes anything, so a fresh run does not exist.  *)
StartupFails(w) ==
    /\ pc[w] = "idle"
    /\ Fault
    /\ Exit(w, "startup_failed")
    /\ UNCHANGED <<log, journal, limbo, effects, calls>>

StartRun(w) ==
    /\ pc[w] = "idle"
    /\ ~Started
    /\ StartPublishing(w, [type |-> "RunStarted", maxSteps |-> MaxSteps])
    /\ UNCHANGED <<world, state>>

(* startingState with DAE_RESUME_RUN_ID.  Nothing in the code asks whether   *)
(* another worker has the run.  A write that a dead one left behind has      *)
(* reached the log by now or never does, unless LateWrites.                  *)
ResumeRun(w) ==
    /\ pc[w] = "idle"
    /\ Started
    /\ OneAtATime => \A v \in Workers : ~Live(v)
    /\ limbo' = IF LateWrites \/ (\E v \in Workers : Live(v)) THEN limbo ELSE {}
    /\ \/ /\ journal.err = "run_not_found"
          /\ Exit(w, "exit_not_found")
       \/ /\ journal.err \notin {"ok", "run_not_found"}
          /\ Exit(w, "exit_failed")
       \/ /\ journal.err = "ok"
          /\ JournalTerminal
          /\ Exit(w, ExitCode(journal.state))
       \/ /\ journal.err = "ok"
          /\ ~JournalTerminal
          /\ pc' = [pc EXCEPT ![w] = "drive"]
          /\ state' = [state EXCEPT ![w] = journal.state]
          /\ UNCHANGED <<env, tries>>
    /\ UNCHANGED <<log, journal, effects, calls, faults>>

-----------------------------------------------------------------------------
(* drive: one action per NextAction.                                         *)

Drives(w, action) == pc[w] = "drive" /\ NextAction(state[w]) = action

(* callLLMAndJournal.  Answer n's tool_use ids are unlike any other's.  A    *)
(* nil answer or one that cannot be encoded ends the process with no event.  *)
CallLLM(w) ==
    /\ Drives(w, "CALL_LLM")
    /\ \/ \E r \in Responses :
            /\ calls < MaxCalls
            /\ calls' = calls + 1
            /\ StartPublishing(w,
                 [type |-> "LLMResponded", step |-> state[w].step + 1,
                  stop |-> r.stop,
                  order |-> [i \in DOMAIN r.tools |->
                               [call |-> calls, pos |-> i, tool |-> r.tools[i]]]])
            /\ UNCHANGED <<state, faults>>
       \/ /\ StartPublishing(w, RunFailed(w))      \* llm_call_failed
          /\ UNCHANGED <<calls, state, faults>>
       \/ /\ Fault
          /\ Exit(w, "exit_failed")
          /\ UNCHANGED calls
    /\ UNCHANGED <<log, journal, limbo, effects>>

(* Mutant: ToolInvoked is applied without waiting for Kafka.                 *)
InvokeToolUnjournaled(w) ==
    /\ Drives(w, "EXECUTE_TOOL")
    /\ LET id == FirstOf(state[w], PendingToolCalls(state[w])) IN
       state' = [state EXCEPT ![w] = Apply(@, Envelope(w,
                   [type |-> "ToolInvoked", step |-> state[w].step,
                    tool |-> id, side |-> HasSideEffect(w, id)])).state]
    /\ UNCHANGED <<world, pc, env, tries>>

(* invokeToolAndJournal; runInFlightTool follows through drive.              *)
InvokeTool(w) ==
    /\ Drives(w, "EXECUTE_TOOL")
    /\ LET id == FirstOf(state[w], PendingToolCalls(state[w])) IN
       StartPublishing(w, [type |-> "ToolInvoked", step |-> state[w].step,
                           tool |-> id, side |-> HasSideEffect(w, id)])
    /\ UNCHANGED <<world, state>>

ToolResulted(w, status) ==
    [type |-> "ToolResulted", step |-> state[w].step,
     tool |-> InFlightTool(state[w]).id, status |-> status]

(* executeUnfenced: the journaled has_side_effect decides, not the registry. *)
(* A tool that this build knows to write does so without a key, and any      *)
(* error it returns, an unknown outcome too, is journaled as one.            *)
RunUnfenced(w) ==
    /\ Drives(w, "RESOLVE_IN_FLIGHT_TOOL")
    /\ ~InFlightTool(state[w]).side
    /\ LET id == InFlightTool(state[w]).id IN
       \/ /\ ~HasSideEffect(w, id)
          /\ \E status \in {"success", "error"} :
               /\ status = "success" => Tool(id) \in Registered[w]
               /\ StartPublishing(w, ToolResulted(w, status))
          /\ UNCHANGED effects
       \/ /\ HasSideEffect(w, id)
          /\ \E status \in {"success", "error"} :
               StartPublishing(w, ToolResulted(w, status))
          /\ effects' = effects \cup {<<id, w>>}
       \/ /\ HasSideEffect(w, id)
          /\ StartPublishing(w, ToolResulted(w, "error"))
          /\ UNCHANGED effects
    /\ UNCHANGED <<log, journal, limbo, calls, faults, state>>

(* runInFlightTool for a tool with a side effect: an unregistered one fails  *)
(* the run, any other goes through the fence.                                *)
RunFenced(w) ==
    /\ Drives(w, "RESOLVE_IN_FLIGHT_TOOL")
    /\ InFlightTool(state[w]).side
    /\ \/ /\ Tool(InFlightTool(state[w]).id) \notin Registered[w]
          /\ StartPublishing(w, RunFailed(w))      \* unresolved_side_effect
       \/ /\ Tool(InFlightTool(state[w]).id) \in Registered[w]
          /\ pc' = [pc EXCEPT ![w] = "fence"]
          /\ UNCHANGED <<env, tries>>
    /\ UNCHANGED <<world, state>>

(* The fence lets the tool take effect (AtMostOnce!Apply).  It may return in *)
(* the same step that the outcome is unknown.                                *)
FenceApplies(w) ==
    /\ pc[w] = "fence"
    /\ ~HasEffect(InFlightTool(state[w]).id)
    /\ effects' = effects \cup {<<InFlightTool(state[w]).id, w>>}
    /\ \/ UNCHANGED <<faults, pc, state, env, tries>>
       \/ Fault /\ Exit(w, "exit_fence_unavailable")
    /\ UNCHANGED <<log, journal, limbo, calls>>

(* Mutant: an outcome that is unknown is journaled as an error.              *)
FenceRepliesError(w) ==
    /\ pc[w] = "fence"
    /\ \E status \in {"success", "error"} :
         /\ status = "success" => HasEffect(InFlightTool(state[w]).id)
         /\ StartPublishing(w, ToolResulted(w, status))
    /\ UNCHANGED <<world, state>>

(* Mutant: a fence that cannot decide makes the worker exit for a retry.     *)
FenceRepliesExit(w) ==
    /\ pc[w] = "fence"
    /\ \/ /\ HasEffect(InFlightTool(state[w]).id)
          /\ StartPublishing(w, ToolResulted(w, "success"))
          /\ UNCHANGED state
       \/ Exit(w, "exit_fence_unavailable")
    /\ UNCHANGED world

(* executeFenced on what the fence returned (AtMostOnce!Reply).  The early    *)
(* errors of Guard.Run cannot happen: runInFlightTool has refused a nil key,  *)
(* and arguments that came through the journal's codec can be hashed.        *)
FenceReplies(w) ==
    /\ pc[w] = "fence"
    /\ LET id == InFlightTool(state[w]).id IN
       \/ /\ HasEffect(id)
          /\ StartPublishing(w, ToolResulted(w, "success"))
          /\ UNCHANGED <<state, faults>>
       \/ /\ ~HasEffect(id)
          /\ StartPublishing(w, ToolResulted(w, "error"))
          /\ UNCHANGED <<state, faults>>
       \/ /\ <<id, w>> \notin effects
          /\ StartPublishing(w, RunFailed(w))      \* unresolvable, mismatch
          /\ UNCHANGED <<state, faults>>
       \/ /\ Fault                     \* fence unavailable, outcome unknown
          /\ Exit(w, "exit_fence_unavailable")
    /\ UNCHANGED <<log, journal, limbo, effects, calls>>

(* finishRun and failMaxSteps.                                               *)
FinishRun(w) ==
    /\ Drives(w, "FINISH_RUN")
    /\ StartPublishing(w, [type |-> TerminalEvent(state[w]),
                           step |-> state[w].step])
    /\ UNCHANGED <<world, state>>

FailMaxSteps(w) ==
    /\ Drives(w, "FAIL_MAX_STEPS")
    /\ StartPublishing(w, RunFailed(w))
    /\ UNCHANGED <<world, state>>

-----------------------------------------------------------------------------
(* publishWithRetry, then Apply on the acknowledged event.                   *)

PublishAcked(w) ==
    /\ pc[w] = "publish"
    /\ AppendToLog(env[w])
    /\ LET next == Apply(state[w], env[w]) IN
       \/ /\ next.err = "ok"
          /\ ~IsTerminal(next.state)
          /\ pc' = [pc EXCEPT ![w] = "drive"]
          /\ state' = [state EXCEPT ![w] = next.state]
          /\ env' = [env EXCEPT ![w] = NoEvent]
          /\ tries' = [tries EXCEPT ![w] = 0]
       \/ next.err = "ok" /\ IsTerminal(next.state) /\ Exit(w, ExitCode(next.state))
    /\ UNCHANGED <<limbo, effects, calls, faults>>

(* Mutant: one attempt too many.                                             *)
PublishUnansweredOnceMore(w) ==
    /\ pc[w] = "publish"
    /\ limbo' = limbo \cup {env[w]}
    /\ \/ /\ tries[w] < PublishMaxAttempts
          /\ tries' = [tries EXCEPT ![w] = @ + 1]
          /\ UNCHANGED <<pc, state, env>>
       \/ tries[w] >= PublishMaxAttempts /\ Exit(w, "exit_publish_failed")
    /\ Fault
    /\ UNCHANGED <<log, journal, effects, calls>>

(* Mutant: the loop goes on without the acknowledgement.                     *)
PublishUnansweredGoesOn(w) ==
    /\ pc[w] = "publish"
    /\ limbo' = limbo \cup {env[w]}
    /\ pc' = [pc EXCEPT ![w] = "drive"]
    /\ state' = [state EXCEPT ![w] = Apply(@, env[w]).state]
    /\ env' = [env EXCEPT ![w] = NoEvent]
    /\ Fault
    /\ UNCHANGED <<log, journal, effects, calls, tries>>

(* The broker did not acknowledge: the event is retried unchanged, and the   *)
(* worker exits after the last attempt.                                      *)
PublishUnanswered(w) ==
    /\ pc[w] = "publish"
    /\ limbo' = limbo \cup {env[w]}
    /\ \/ /\ tries[w] + 1 < PublishMaxAttempts
          /\ tries' = [tries EXCEPT ![w] = @ + 1]
          /\ UNCHANGED <<pc, state, env>>
       \/ tries[w] + 1 >= PublishMaxAttempts /\ Exit(w, "exit_publish_failed")
    /\ Fault
    /\ UNCHANGED <<log, journal, effects, calls>>

(* A write without acknowledgement turns up in the log after all.            *)
Land(e) ==
    /\ limbo' = limbo \ {e}
    /\ AppendToLog(e)
    /\ UNCHANGED <<effects, calls, faults, pc, state, env, tries>>

(* kill -9 or DAE_CRASH_AFTER_SEQ, at any point.                             *)
Crash(w) ==
    /\ Live(w)
    /\ Fault
    /\ Exit(w, "crashed")
    /\ UNCHANGED <<log, journal, limbo, effects, calls>>

-----------------------------------------------------------------------------
Init ==
    /\ log = <<>>
    /\ journal = NotFound
    /\ limbo = {}
    /\ effects = {}
    /\ calls = 0
    /\ faults = 0
    /\ pc = [w \in Workers |-> "idle"]
    /\ state = [w \in Workers |-> EmptyState]
    /\ env = [w \in Workers |-> NoEvent]
    /\ tries = [w \in Workers |-> 0]

Step(w) ==
    \/ CallLLM(w) \/ InvokeTool(w) \/ RunUnfenced(w) \/ RunFenced(w)
    \/ FenceApplies(w) \/ FenceReplies(w)
    \/ FinishRun(w) \/ FailMaxSteps(w)
    \/ PublishAcked(w) \/ PublishUnanswered(w)

Next ==
    \/ \E w \in Workers :
         StartupFails(w) \/ StartRun(w) \/ ResumeRun(w) \/ Step(w) \/ Crash(w)
    \/ \E e \in limbo : Land(e)

Spec == Init /\ [][Next]_vars

(* A live process keeps running, and a run whose worker is gone is resumed.  *)
FairSpec ==
    /\ Spec
    /\ \A w \in Workers : WF_vars(Step(w)) /\ WF_vars(ResumeRun(w))

-----------------------------------------------------------------------------
(* Type invariant of the loop and its journal.                               *)
TypeOK ==
    /\ \A e \in limbo \cup Ids(log) : e.seq \in Nat /\ e.type # "none"
    /\ \A e \in effects : e[2] \in Workers
    /\ calls \in 0..MaxCalls
    /\ faults \in 0..MaxFaults
    /\ \A w \in Workers :
         /\ pc[w] \in Exits \cup {"idle", "startup_failed", "crashed",
                                 "drive", "publish", "fence"}
         /\ pc[w] = "publish" <=> env[w] # NoEvent
         /\ tries[w] \in 0..(PublishMaxAttempts - 1)

(* Whatever was lost, repeated or reordered on the way to Kafka, the log of  *)
(* a run folds without an error, so a resume never fails on it ("replay      *)
(* handles that safely", publisher.go).                                      *)
JournalReplays == log # <<>> => journal.err = "ok"

(* Between two events, the state the loop decides from is the state a replay *)
(* of the log gives: a crash loses nothing and a resume decides the same.    *)
LiveMatchesJournal ==
    \A w \in Workers :
        pc[w] \in {"drive", "fence"} => journal = [err |-> "ok", state |-> state[w]]

(* Write-ahead: whatever build ran the tool, with or without the fence, an   *)
(* effect exists only under a ToolInvoked that is in the log.                *)
EffectIsJournaled ==
    \A x \in effects : \E e \in Ids(log) :
        e.type = "ToolInvoked" /\ e.tool = x[1]

(* The journal tells the truth about effects: a ToolResulted of a tool with  *)
(* a side effect says success iff its effect exists, and goes on being true. *)
ResultIsTrue ==
    \A e \in Ids(log) :
        (e.type = "ToolResulted" /\ Tool(e.tool) \in SideEffecting) =>
            \A i \in Ids(log) :
                i.type = "ToolInvoked" /\ i.tool = e.tool /\ i.side =>
                    (e.status = "success") = HasEffect(e.tool)

(* Every LLM call sees a conversation the Messages API accepts: user and     *)
(* assistant turns alternate and the last one carries every tool result.     *)
PromptIsComplete ==
    \A w \in Workers : Drives(w, "CALL_LLM") =>
        LET turns == Messages(state[w]) IN
        /\ Len(turns) = 2 * Len(state[w].steps) + 1
        /\ \A i \in DOMAIN turns :
             turns[i] = IF i % 2 = 1 THEN "user" ELSE "assistant"

(* Exit code 4 leaves the run resumable: the log is not terminal and its     *)
(* next action is to resolve the tool in flight.  Exit code 0 is returned    *)
(* only when the log says COMPLETED.                                         *)
ExitIsHonest ==
    [][\A w \in Workers : pc'[w] # pc[w] =>
         /\ pc'[w] = "exit_fence_unavailable" =>
              /\ journal'.err = "ok"
              /\ NextAction(journal'.state) = "RESOLVE_IN_FLIGHT_TOOL"
         /\ pc'[w] = "exit_ok" =>
              journal'.err = "ok" /\ journal'.state.status = "COMPLETED"]_vars

(* Kill the worker at any moment: as long as there are more workers than     *)
(* faults, a run that made it into the log reaches a terminal event.         *)
RunTerminates == (log # <<>>) ~> JournalTerminal
=============================================================================
