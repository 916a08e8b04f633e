------------------------------- MODULE Runtime -------------------------------
(***************************************************************************)
(* The worker as a whole: the agent loop calling Guard.Run over Redis and   *)
(* the ledger.  AgentLoop knows the fence only by its promise, and Fence    *)
(* knows nothing of journals; here executeFenced (internal/agent/loop.go)   *)
(* ties the two together, for one side-effecting tool call from its         *)
(* journaled ToolInvoked on.                                                *)
(*                                                                         *)
(* More than one worker may have the run: startingState (cmd/worker) asks   *)
(* nobody before it resumes.                                                *)
(***************************************************************************)
EXTENDS Integers, Sequences, FiniteSets

CONSTANTS
    Workers, Invoker,   \* Invoker journaled the ToolInvoked
    Responses, MaxSteps, PublishMaxAttempts, LateWrites, MaxFaults, MaxCalls,
    Reconcilable, ArgsHash, ToolTimeout, TTL, Skew, StaleGrace, ExpiryMargin,
    PollInterval, MaxClaimRaces, RetryAttempts, OpDelay, CommandLife,
    LastStart, MaxTime

VARIABLES
    log, journal, limbo, calls, faults, lpc, state, env, attempts,  \* the loop's
    now, redis, expires, net, ledger, corrupt, holders,             \* the world's
    gpc, mine, seen, by, race, tries, out                           \* Guard.Run's

loopVars == <<log, journal, limbo, calls, faults, lpc, state, env, attempts>>
guardVars == <<now, redis, expires, net, ledger, corrupt, holders,
               gpc, mine, seen, by, race, tries, out>>
vars == <<loopVars, guardVars>>

(* The call: the first tool_use of the first LLM answer.                     *)
CallId == [call |-> 0, pos |-> 1, tool |-> "open_pr"]

Loop == INSTANCE AgentLoop WITH
    pc <- lpc, tries <- attempts, OneAtATime <- FALSE,
    Registered <- [w \in Workers |-> {"open_pr"}],
    SideEffecting <- {"open_pr"},
    effects <- {<<CallId, w>> : w \in ledger}

Guard == INSTANCE FenceTiming WITH
    pc <- gpc, InvokedAt <- 0, Responsive <- TRUE, SharedLedger <- FALSE

(* What the two parts assume, and that the LLM asks for the tool only once.  *)
ASSUME RuntimeAssumption ==
    /\ Invoker \in Workers
    /\ MaxCalls # 0
    /\ Loop!LoopAssumption
    /\ Guard!ConstantsAssumption
    /\ Guard!TimingAssumption
    /\ \A r \in Responses : "open_pr" \notin Loop!Ids(r.tools)

-----------------------------------------------------------------------------
(* The journal when ToolInvoked was acknowledged.                            *)
Prologue ==
    << [seq |-> 0, id |-> <<Invoker, 0>>, type |-> "RunStarted",
        maxSteps |-> MaxSteps],
       [seq |-> 1, id |-> <<Invoker, 1>>, type |-> "LLMResponded", step |-> 1,
        stop |-> "tool_use", order |-> <<CallId>>],
       [seq |-> 2, id |-> <<Invoker, 2>>, type |-> "ToolInvoked", step |-> 1,
        tool |-> CallId, side |-> TRUE] >>

Init ==
    /\ Guard!Init
    /\ log = Prologue
    /\ journal = Loop!Fold(Prologue)
    /\ limbo = {}
    /\ calls = 1
    /\ faults = 0
    /\ lpc = [w \in Workers |-> IF w = Invoker THEN "drive" ELSE "idle"]
    /\ state = [w \in Workers |-> IF w = Invoker THEN journal.state
                                  ELSE Loop!EmptyState]
    /\ env = [w \in Workers |-> Loop!NoEvent]
    /\ attempts = [w \in Workers |-> 0]

-----------------------------------------------------------------------------
(* The loop by itself: everything but the call into the fence.               *)
LoopStep(w) ==
    /\ UNCHANGED guardVars
    /\ lpc[w] # "fence"
    /\ Loop!ResumeRun(w) \/ Loop!Step(w)
    /\ lpc'[w] # "fence"

LandEvent(e) == UNCHANGED guardVars /\ Loop!Land(e)

(* executeFenced calls Guard.Run.                                            *)
Call(w) == Guard!Start(w) /\ Loop!RunFenced(w) /\ lpc'[w] = "fence"

(* What executeFenced journals: the outcome, or RunFailed on the verdict     *)
(* that none can be had (ErrUnresolvable, ErrRecordMismatch).                *)
Verdict(w, o) ==
    IF o.status # "none" THEN Loop!ToolResulted(w, o.status) ELSE Loop!RunFailed(w)

(* Mutant: an outcome that is unknown is journaled as an error.              *)
OnReturnForgetsUnknown(w) ==
    LET o == out'[w] IN
    \/ /\ o.kind # "fence_unavailable"
       /\ Loop!StartPublishing(w,
            IF o.kind = "outcome_unknown" THEN Loop!ToolResulted(w, "error")
            ELSE Verdict(w, o))
       /\ UNCHANGED <<faults, state>>
    \/ /\ o.kind = "fence_unavailable"
       /\ Loop!Fault
       /\ Loop!Exit(w, "exit_fence_unavailable")

(* executeFenced's switch on what Run returned: a verdict is journaled, and  *)
(* anything else leaves the run to be resumed.                               *)
OnReturn(w) ==
    LET o == out'[w]
        undecided == o.kind \in {"fence_unavailable", "outcome_unknown"}
    IN
    \/ /\ ~undecided
       /\ Loop!StartPublishing(w, Verdict(w, o))
       /\ UNCHANGED <<faults, state>>
    \/ /\ undecided
       /\ Loop!Fault
       /\ Loop!Exit(w, "exit_fence_unavailable")

(* A step of Guard.Run; when it is the last one, executeFenced goes on.      *)
GuardStep(w) ==
    /\ Guard!Step(w)
    /\ \/ gpc'[w] # "done" /\ UNCHANGED loopVars
       \/ gpc'[w] = "done" /\ OnReturn(w) /\ UNCHANGED <<log, journal, limbo, calls>>

(* Redis applies a late command, or time passes.                             *)
World ==
    /\ Guard!Tick \/ \E c \in net : Guard!Land(c)
    /\ UNCHANGED loopVars

(* The process dies wherever it is.                                          *)
Crash(w) ==
    /\ \/ Guard!Crash(w)
       \/ ~Guard!Live(w) /\ UNCHANGED guardVars
    /\ Loop!Crash(w)

Next ==
    \/ \E w \in Workers : LoopStep(w) \/ Call(w) \/ GuardStep(w) \/ Crash(w)
    \/ \E e \in limbo : LandEvent(e)
    \/ World

Spec == Init /\ [][Next]_vars

-----------------------------------------------------------------------------
(* The loop over the real fence takes only steps of the loop over the        *)
(* promised one: what AgentLoop's runs show of journals and exit codes holds *)
(* of the whole worker.                                                      *)
ImplementsLoop == [][Loop!Next]_(Loop!vars)

(* Two workers that both have the run, awake at the same time, make the      *)
(* effect once between them.                                                 *)
OneEffect == Cardinality(ledger) <= 1

(* No worker, first or second, journals a success that is not in the ledger. *)
SuccessIsTrue ==
    \A e \in Loop!Ids(log) :
        e.type = "ToolResulted" /\ e.status = "success" => ledger # {}
=============================================================================
