--------------------------- MODULE RuntimeProofs -----------------------------
(***************************************************************************)
(* The worker as a whole: the loop over the real fence implements the loop  *)
(* over the promised one, the effect is made once however many workers have *)
(* the run, and no success is journaled without it.                         *)
(*                                                                         *)
(* Nothing about the loop or the fence is proved again.  LP and FP are the  *)
(* theorems of LoopProofs and FencePromiseProofs for the loop and the fence *)
(* inside Runtime; what they assume is RuntimeAssumption.                   *)
(***************************************************************************)
EXTENDS Runtime, FiniteSetTheorems, TLAPS

LP == INSTANCE LoopProofs WITH
    pc <- lpc, tries <- attempts, OneAtATime <- FALSE,
    Registered <- [w \in Workers |-> {"open_pr"}],
    SideEffecting <- {"open_pr"},
    effects <- {<<CallId, w>> : w \in ledger},
    Earlier <- {CallId}

FP == INSTANCE FencePromiseProofs WITH
    pc <- gpc, InvokedAt <- 0, Responsive <- TRUE, SharedLedger <- FALSE

-----------------------------------------------------------------------------
(* LP and Loop, FP and Guard have the same definitions.                      *)

LEMMA SameStep == \A w : Guard!Step(w) = FP!Step(w)
  BY ZenonT(60)
    DEF Guard!redisVars, FP!redisVars, Guard!toolVars, FP!toolVars, Guard!Absent,
        FP!Absent, Guard!Live, FP!Live, Guard!Clock, FP!Clock, Guard!NewRecord,
        FP!NewRecord, Guard!Resolved, FP!Resolved, Guard!IsStale, FP!IsStale,
        Guard!KeyMayHaveExpired, FP!KeyMayHaveExpired, Guard!Mismatch, FP!Mismatch,
        Guard!HoldsClaim, FP!HoldsClaim, Guard!Put, FP!Put, Guard!StoreUnchanged,
        FP!StoreUnchanged, Guard!ClaimCommand, FP!ClaimCommand, Guard!CasCommand,
        FP!CasCommand, Guard!Moves, FP!Moves, Guard!Nothing, FP!Nothing, Guard!Ends,
        FP!Ends, Guard!Return, FP!Return, Guard!Attempt, FP!Attempt, Guard!Restart,
        FP!Restart, Guard!Reconcile, FP!Reconcile, Guard!Execute, FP!Execute,
        Guard!Acquired, FP!Acquired, Guard!WaitUntilSettled, FP!WaitUntilSettled,
        Guard!Settle, FP!Settle, Guard!Existing, FP!Existing, Guard!Resolve, FP!Resolve,
        Guard!ActOnReconciled, FP!ActOnReconciled, Guard!RetryAgain, FP!RetryAgain,
        Guard!GiveUp, FP!GiveUp, Guard!Unanswered, FP!Unanswered, Guard!ClaimAnswered,
        FP!ClaimAnswered, Guard!ClaimUnanswered, FP!ClaimUnanswered, Guard!Wake,
        FP!Wake, Guard!PollAnswered, FP!PollAnswered, Guard!ReadUnanswered,
        FP!ReadUnanswered, Guard!ReconcileAnswered, FP!ReconcileAnswered,
        Guard!TakeOverAnswered, FP!TakeOverAnswered, Guard!TakeOverUnanswered,
        FP!TakeOverUnanswered, Guard!RecheckAnswered, FP!RecheckAnswered,
        Guard!BeginExecute, FP!BeginExecute, Guard!MayRecord, FP!MayRecord,
        Guard!AppendLine, FP!AppendLine, Guard!ExecuteApplies, FP!ExecuteApplies,
        Guard!ExecuteFails, FP!ExecuteFails, Guard!ExecuteUnknown, FP!ExecuteUnknown,
        Guard!ExecuteTimesOut, FP!ExecuteTimesOut, Guard!ResolveAnswered,
        FP!ResolveAnswered, Guard!ResolveUnanswered, FP!ResolveUnanswered, Guard!Step,
        FP!Step

LEMMA SameWorld ==
    /\ \A w : /\ Guard!Start(w) = FP!Start(w) /\ Guard!Crash(w) = FP!Crash(w)
              /\ Guard!Live(w) = FP!Live(w)
    /\ \A c : Guard!Land(c) = FP!Land(c)
    /\ Guard!Tick = FP!Tick
  BY ZenonT(60)
    DEF Guard!Start, FP!Start, Guard!Crash, FP!Crash, Guard!Land, FP!Land, Guard!Tick,
        FP!Tick, Guard!Attempt, FP!Attempt, Guard!Moves, FP!Moves, Guard!Absent,
        FP!Absent, Guard!Nothing, FP!Nothing, Guard!NewRecord, FP!NewRecord,
        Guard!Clock, FP!Clock, Guard!redisVars, FP!redisVars, Guard!toolVars,
        FP!toolVars, Guard!workerVars, FP!workerVars, Guard!Live, FP!Live, Guard!Ends,
        FP!Ends, Guard!Applicable, FP!Applicable, Guard!Put, FP!Put,
        Guard!StoreUnchanged, FP!StoreUnchanged, Guard!HoldsClaim, FP!HoldsClaim

LEMMA SameInit == Guard!Init = FP!Init
  BY Zenon DEF Guard!Init, FP!Init, Guard!Absent, FP!Absent, Guard!Nothing, FP!Nothing

LEMMA SameVerdict == \A s, e : Loop!Verdict(s, e) = LP!Verdict(s, e)
  BY ZenonT(60)
    DEF Loop!Verdict, LP!Verdict, Loop!Structural, LP!Structural, Loop!BadPayload,
        LP!BadPayload, Loop!BadToolEvent, LP!BadToolEvent, Loop!NextSequence,
        LP!NextSequence, Loop!IsTerminal, LP!IsTerminal, Loop!TerminalStatuses,
        LP!TerminalStatuses, Loop!InCurrentStep, LP!InCurrentStep, Loop!AllResulted,
        LP!AllResulted, Loop!IsInvoked, LP!IsInvoked, Loop!IsResulted, LP!IsResulted,
        Loop!Last, LP!Last, Loop!Ids, LP!Ids

LEMMA SamePayload == \A s, e : Loop!ApplyPayload(s, e) = LP!ApplyPayload(s, e)
  BY Zenon DEF Loop!ApplyPayload, LP!ApplyPayload

LEMMA SameApply == \A s, e : Loop!Apply(s, e) = LP!Apply(s, e)
  BY Zenon, SameVerdict, SamePayload DEF Loop!Apply, LP!Apply, Loop!Applied, LP!Applied

LEMMA SameFoldStep == \A r, e : Loop!FoldStep(r, e) = LP!FoldStep(r, e)
  BY Zenon, SameApply DEF Loop!FoldStep, LP!FoldStep

LEMMA SameFold == \A evs : Loop!Fold(evs) = LP!Fold(evs)
  BY ZenonT(60)
    DEF Loop!Fold, LP!Fold, Loop!FoldStep, LP!FoldStep, Loop!NotFound, LP!NotFound,
        Loop!EmptyState, LP!EmptyState, Loop!Apply, LP!Apply, Loop!Applied, LP!Applied,
        Loop!ApplyPayload, LP!ApplyPayload, Loop!Verdict, LP!Verdict, Loop!Structural,
        LP!Structural, Loop!BadPayload, LP!BadPayload, Loop!BadToolEvent,
        LP!BadToolEvent, Loop!NextSequence, LP!NextSequence, Loop!IsTerminal,
        LP!IsTerminal, Loop!TerminalStatuses, LP!TerminalStatuses, Loop!InCurrentStep,
        LP!InCurrentStep, Loop!AllResulted, LP!AllResulted, Loop!IsInvoked,
        LP!IsInvoked, Loop!IsResulted, LP!IsResulted, Loop!Last, LP!Last, Loop!Ids,
        LP!Ids

LEMMA SameTool == \A s : Loop!InFlightTool(s) = LP!InFlightTool(s)
  BY ZenonT(60)
    DEF Loop!InFlightTool, LP!InFlightTool, Loop!InFlightTools, LP!InFlightTools,
        Loop!FirstOf, LP!FirstOf, Loop!Positions, LP!Positions, Loop!IsInvoked,
        LP!IsInvoked, Loop!IsResulted, LP!IsResulted, Loop!Last, LP!Last

LEMMA SameNames ==
    /\ Loop!EmptyState = LP!EmptyState /\ Loop!NoEvent = LP!NoEvent
    /\ \A q : Loop!Ids(q) = LP!Ids(q)
    /\ Loop!vars = LP!vars
  BY Zenon
    DEF Loop!EmptyState, LP!EmptyState, Loop!NoEvent, LP!NoEvent, Loop!Ids, LP!Ids,
        Loop!vars, LP!vars

LEMMA SamePublishing ==
    \A w : /\ \A p : Loop!StartPublishing(w, p) = LP!StartPublishing(w, p)
          /\ \A p : Loop!Exit(w, p) = LP!Exit(w, p)
          /\ Loop!Fault = LP!Fault
          /\ Loop!RunFailed(w) = LP!RunFailed(w)
          /\ \A x : Loop!ToolResulted(w, x) = LP!ToolResulted(w, x)
  BY ZenonT(60), SameTool
    DEF Loop!StartPublishing, LP!StartPublishing, Loop!Exit, LP!Exit, Loop!Fault,
        LP!Fault, Loop!RunFailed, LP!RunFailed, Loop!ToolResulted, LP!ToolResulted,
        Loop!Envelope, LP!Envelope, Loop!Enveloped, LP!Enveloped, Loop!NextSequence,
        LP!NextSequence, Loop!EmptyState, LP!EmptyState, Loop!NoEvent, LP!NoEvent

LEMMA SameAcked == \A w : Loop!PublishAcked(w) = LP!PublishAcked(w)
  BY ZenonT(60), SameApply, SameFoldStep, SamePublishing
    DEF Loop!PublishAcked, LP!PublishAcked, Loop!AppendToLog, LP!AppendToLog,
        Loop!IsTerminal, LP!IsTerminal, Loop!TerminalStatuses, LP!TerminalStatuses,
        Loop!ExitCode, LP!ExitCode, Loop!NoEvent, LP!NoEvent

LEMMA SameDriving ==
    \A w : /\ Loop!CallLLM(w) = LP!CallLLM(w) /\ Loop!InvokeTool(w) = LP!InvokeTool(w)
          /\ Loop!RunUnfenced(w) = LP!RunUnfenced(w) /\ Loop!RunFenced(w) = LP!RunFenced(w)
          /\ Loop!FinishRun(w) = LP!FinishRun(w) /\ Loop!FailMaxSteps(w) = LP!FailMaxSteps(w)
  <1>. USE
    DEF Loop!world, LP!world, Loop!Drives, LP!Drives, Loop!NextAction, LP!NextAction,
        Loop!RunFailed, LP!RunFailed, Loop!ToolResulted, LP!ToolResulted,
        Loop!StartPublishing, LP!StartPublishing, Loop!Envelope, LP!Envelope,
        Loop!Enveloped, LP!Enveloped, Loop!NextSequence, LP!NextSequence,
        Loop!IsTerminal, LP!IsTerminal, Loop!TerminalStatuses, LP!TerminalStatuses,
        Loop!InFlightTool, LP!InFlightTool, Loop!InFlightTools, LP!InFlightTools,
        Loop!PendingToolCalls, LP!PendingToolCalls, Loop!FirstOf, LP!FirstOf,
        Loop!Positions, LP!Positions, Loop!IsInvoked, LP!IsInvoked, Loop!IsResulted,
        LP!IsResulted, Loop!Last, LP!Last, Loop!Tool, LP!Tool, Loop!HasSideEffect,
        LP!HasSideEffect, Loop!TerminalEvent, LP!TerminalEvent
  <1>1. \A w : Loop!CallLLM(w) = LP!CallLLM(w)
    BY ZenonT(30)
      DEF Loop!CallLLM, LP!CallLLM, Loop!Fault, LP!Fault, Loop!Exit, LP!Exit,
          Loop!EmptyState, LP!EmptyState, Loop!NoEvent, LP!NoEvent
  <1>2. \A w : Loop!InvokeTool(w) = LP!InvokeTool(w)
    BY ZenonT(30) DEF Loop!InvokeTool, LP!InvokeTool
  <1>3. \A w : Loop!RunUnfenced(w) = LP!RunUnfenced(w)
    BY ZenonT(30) DEF Loop!RunUnfenced, LP!RunUnfenced
  <1>4. \A w : Loop!RunFenced(w) = LP!RunFenced(w)
    BY ZenonT(30) DEF Loop!RunFenced, LP!RunFenced
  <1>5. \A w : Loop!FinishRun(w) = LP!FinishRun(w)
    BY ZenonT(30) DEF Loop!FinishRun, LP!FinishRun
  <1>6. \A w : Loop!FailMaxSteps(w) = LP!FailMaxSteps(w)
    BY ZenonT(30) DEF Loop!FailMaxSteps, LP!FailMaxSteps
  <1>. QED
    BY <1>1, <1>2, <1>3, <1>4, <1>5, <1>6, Zenon

LEMMA SameFenced ==
    \A w : /\ Loop!FenceApplies(w) = LP!FenceApplies(w)
          /\ Loop!FenceReplies(w) = LP!FenceReplies(w)
          /\ Loop!PublishUnanswered(w) = LP!PublishUnanswered(w)
          /\ Loop!Crash(w) = LP!Crash(w)
  BY ZenonT(60)
    DEF Loop!FenceApplies, LP!FenceApplies, Loop!FenceReplies, LP!FenceReplies,
        Loop!PublishUnanswered, LP!PublishUnanswered, Loop!Crash, LP!Crash, Loop!Live,
        LP!Live, Loop!HasEffect, LP!HasEffect, Loop!Fault, LP!Fault, Loop!Exit, LP!Exit,
        Loop!RunFailed, LP!RunFailed, Loop!ToolResulted, LP!ToolResulted,
        Loop!StartPublishing, LP!StartPublishing, Loop!Envelope, LP!Envelope,
        Loop!Enveloped, LP!Enveloped, Loop!NextSequence, LP!NextSequence,
        Loop!EmptyState, LP!EmptyState, Loop!NoEvent, LP!NoEvent, Loop!InFlightTool,
        LP!InFlightTool, Loop!InFlightTools, LP!InFlightTools, Loop!FirstOf, LP!FirstOf,
        Loop!Positions, LP!Positions, Loop!IsInvoked, LP!IsInvoked, Loop!IsResulted,
        LP!IsResulted, Loop!Last, LP!Last

LEMMA SameOthers ==
    /\ \A w : /\ Loop!StartupFails(w) = LP!StartupFails(w)
              /\ Loop!StartRun(w) = LP!StartRun(w)
              /\ Loop!ResumeRun(w) = LP!ResumeRun(w)
    /\ \A e : Loop!Land(e) = LP!Land(e)
  BY ZenonT(60), SameFoldStep
    DEF Loop!StartupFails, LP!StartupFails, Loop!StartRun, LP!StartRun, Loop!ResumeRun,
        LP!ResumeRun, Loop!Land, LP!Land, Loop!AppendToLog, LP!AppendToLog, Loop!world,
        LP!world, Loop!Started, LP!Started, Loop!Live, LP!Live, Loop!Fault, LP!Fault,
        Loop!Exit, LP!Exit, Loop!ExitCode, LP!ExitCode, Loop!JournalTerminal,
        LP!JournalTerminal, Loop!IsTerminal, LP!IsTerminal, Loop!TerminalStatuses,
        LP!TerminalStatuses, Loop!StartPublishing, LP!StartPublishing, Loop!Envelope,
        LP!Envelope, Loop!Enveloped, LP!Enveloped, Loop!NextSequence, LP!NextSequence,
        Loop!EmptyState, LP!EmptyState, Loop!NoEvent, LP!NoEvent

LEMMA SameLoop == Loop!Next = LP!Next /\ \A w : Loop!Step(w) = LP!Step(w)
  BY Zenon, SameAcked, SameDriving, SameFenced, SameOthers
  DEF Loop!Next, LP!Next, Loop!Step, LP!Step

-----------------------------------------------------------------------------
(* The fence inside the worker is the fence.                                 *)

(* What LP and FP assume.                                                    *)
LEMMA Assumptions == LP!LoopAssumption /\ FP!ConstantsAssumption /\ FP!TimingAssumption
  <1>1. LP!LoopAssumption
    BY RuntimeAssumption, Zenon
    DEF RuntimeAssumption, Loop!LoopAssumption, LP!LoopAssumption, Loop!Ids, LP!Ids
  <1>2. FP!ConstantsAssumption
    BY RuntimeAssumption, Zenon
    DEF RuntimeAssumption, Guard!ConstantsAssumption, FP!ConstantsAssumption
  <1>3. FP!TimingAssumption
    BY RuntimeAssumption, Zenon
    DEF RuntimeAssumption, Guard!TimingAssumption, FP!TimingAssumption,
        Guard!ConfigAccepted, FP!ConfigAccepted
  <1>. QED
    BY <1>1, <1>2, <1>3

LEMMA FenceStep == [Next]_vars => [FP!Next]_(FP!vars)
  <1>1. guardVars' = guardVars => FP!vars' = FP!vars
    BY DEF guardVars, FP!vars, FP!redisVars, FP!toolVars, FP!workerVars
  <1>2. ASSUME NEW w \in Workers, LoopStep(w) \/ Call(w) \/ GuardStep(w) \/ Crash(w)
        PROVE  [FP!Next]_(FP!vars)
    BY <1>1, <1>2, SameStep, SameWorld
    DEF LoopStep, Call, GuardStep, Crash, FP!Next
  <1>3. ASSUME NEW e \in limbo, LandEvent(e)
        PROVE  [FP!Next]_(FP!vars)
    BY <1>1, <1>3 DEF LandEvent
  <1>4. ASSUME World
        PROVE  FP!Next
    BY <1>4, SameWorld DEF World, FP!Next
  <1>5. vars' = vars => guardVars' = guardVars
    BY DEF vars
  <1>. QED
    BY <1>1, <1>2, <1>3, <1>4, <1>5 DEF Next

LEMMA FenceInside == Spec => FP!Spec
  <1>1. Init => FP!Init
    BY SameInit DEF Init
  <1>. QED
    BY <1>1, FenceStep, PTL DEF Spec, FP!Spec

(* However many workers have the run, the effect is made at most once        *)
(* between them.                                                             *)
THEOREM AtMostOneEffect == Spec => []OneEffect
  <1>1. FP!AtMostOnceEffect => OneEffect
    <2>1. SUFFICES ASSUME FP!AtMostOnceEffect
                   PROVE  OneEffect
      OBVIOUS
    <2>2. CASE ledger = {}
      BY <2>2, FS_EmptySet DEF OneEffect
    <2>3. ASSUME NEW w \in ledger
          PROVE  OneEffect
      <3>1. ledger = {w}
        BY <2>1, <2>3 DEF FP!AtMostOnceEffect
      <3>. QED
        BY <3>1, FS_Singleton DEF OneEffect
    <2>. QED
      BY <2>2, <2>3
  <1>2. FP!Spec => []FP!AtMostOnceEffect
    BY Assumptions, FP!EffectAtMostOnce
  <1>. QED
    BY <1>1, <1>2, FenceInside, PTL

-----------------------------------------------------------------------------
(* The loop inside the worker is the loop over the fence's promise.          *)

(* Guard.Run is under way exactly while its worker is at the fence, and the  *)
(* tool in flight there is the call.                                         *)
AtFence ==
    \A w \in Workers :
        /\ FP!Live(w) <=> lpc[w] = "fence"
        /\ lpc[w] = "fence" => LP!InFlightTool(state[w]).id = CallId

RuntimeInv == LP!LoopInv /\ LP!SuccessInv /\ AtFence

Effects(l) == {<<CallId, w>> : w \in l}

(* Only the first answer asks for the tool.                                  *)
LEMMA OneCall ==
    ASSUME NEW id \in LP!ToolIds, id.tool = "open_pr"
    PROVE  id = CallId
  <1>1. \A r \in Responses : "open_pr" \notin LP!Ids(r.tools)
    BY RuntimeAssumption, SameNames DEF RuntimeAssumption
  <1>2. ~(id \in [call : Nat, pos : Nat, tool : UNION {LP!Ids(r.tools) : r \in Responses}])
    BY <1>1
  <1>. QED
    BY <1>2 DEF LP!ToolIds

LEMMA CallTyped == CallId \in LP!ToolIds
  BY DEF CallId, LP!ToolIds

(* The effects of the loop are the entries of the ledger.                    *)
LEMMA EffectsAre ==
    /\ LP!HasEffect(CallId) <=> ledger # {}
    /\ \A w : <<CallId, w>> \in Effects(ledger) <=> w \in ledger
    /\ \A w : Effects({w}) = Effects({}) \cup {<<CallId, w>>}
  <1>1. \A w : <<CallId, w>>[1] = CallId /\ <<CallId, w>>[2] = w
    OBVIOUS
  <1>2. LP!HasEffect(CallId) <=> ledger # {}
    BY <1>1 DEF LP!HasEffect
  <1>3. \A w : <<CallId, w>> \in Effects(ledger) <=> w \in ledger
    BY <1>1 DEF Effects
  <1>4. \A w : Effects({w}) = Effects({}) \cup {<<CallId, w>>}
    BY DEF Effects
  <1>. QED
    BY <1>2, <1>3, <1>4

LEMMA RuntimeInit == Init => RuntimeInv
  <1>1. SUFFICES ASSUME Init PROVE RuntimeInv
    OBVIOUS
  <1>2. PICK a, b, c :
          /\ a = [seq |-> 0, id |-> <<Invoker, 0>>, type |-> "RunStarted", maxSteps |-> MaxSteps]
          /\ b = [seq |-> 1, id |-> <<Invoker, 1>>, type |-> "LLMResponded", step |-> 1,
                  stop |-> "tool_use", order |-> <<CallId>>]
          /\ c = [seq |-> 2, id |-> <<Invoker, 2>>, type |-> "ToolInvoked", step |-> 1,
                  tool |-> CallId, side |-> TRUE]
          /\ log = <<a, b, c>>
    BY <1>1 DEF Init, Prologue
  <1>3. Invoker \in Workers /\ MaxCalls # 0
    BY RuntimeAssumption DEF RuntimeAssumption
  <1>4. /\ log \in Seq(LP!Ids(log)) /\ LP!Ids(log) = {a, b, c}
        /\ \A e \in {a, b, c} : LP!IsLogged(e)
        /\ \E s : /\ LP!Fold(log) = [err |-> "ok", state |-> s]
                 /\ LP!IsState(s) /\ s.seen # <<>> /\ ~LP!IsTerminal(s)
                 /\ LP!InvokedIn(s, {a, b, c})
    <2>1. /\ <<a, b, c>> \in Seq(LP!Ids(<<a, b, c>>)) /\ LP!Ids(<<a, b, c>>) = {a, b, c}
          /\ \A e \in {a, b, c} : LP!IsLogged(e)
          /\ \E s : /\ LP!Fold(<<a, b, c>>) = [err |-> "ok", state |-> s]
                   /\ LP!IsState(s) /\ s.seen # <<>> /\ ~LP!IsTerminal(s)
                   /\ LP!InvokedIn(s, {a, b, c})
      <3>1. a.type = "RunStarted" /\ a.seq = 0 /\ a.id = <<Invoker, 0>> /\ a.maxSteps = MaxSteps
        BY <1>2
      <3>2. b.type = "LLMResponded" /\ b.seq = 1 /\ b.id = <<Invoker, 1>> /\ b.step = 1
            /\ b.stop = "tool_use" /\ b.order = <<CallId>>
        BY <1>2
      <3>3. c.type = "ToolInvoked" /\ c.seq = 2 /\ c.id = <<Invoker, 2>> /\ c.tool = CallId
            /\ c.side = TRUE
        BY <1>2, Zenon
      <3>. QED
        BY <1>3, <3>1, <3>2, <3>3, CallTyped, Assumptions, LP!FirstCallJournaled, Zenon
    <2>. QED
      BY <1>2, <2>1
  <1>5. PICK s : /\ LP!Fold(log) = [err |-> "ok", state |-> s]
                 /\ LP!IsState(s) /\ s.seen # <<>> /\ ~LP!IsTerminal(s)
                 /\ LP!InvokedIn(s, {a, b, c})
    BY <1>4
  <1>6. journal = [err |-> "ok", state |-> s] /\ journal.err = "ok" /\ journal.state = s
    <2>1. journal = LP!Fold(log)
      BY <1>1, SameFold, Zenon DEF Init
    <2>. QED
      BY <1>5, <2>1
  <1>7. ledger = {} /\ Effects(ledger) = {} /\ \A w \in Workers : ~FP!Live(w)
    BY <1>1, SameInit DEF Init, FP!Init, FP!Live, Effects
  <1>8. LP!JournalType
    BY <1>1, <1>4, <1>5, <1>6 DEF Init, LP!JournalType
  <1>9. LP!CountersType
    BY <1>1, <1>3, Assumptions DEF Init, LP!CountersType, LP!LoopAssumption
  <1>10. LP!WorkersInv
    <2>1. 0 \in 0..(PublishMaxAttempts - 1)
      BY Assumptions DEF LP!LoopAssumption
    <2>2. /\ "drive" \in LP!Places /\ "drive" \in LP!LivePlaces
          /\ "idle" \in LP!Places \ LP!LivePlaces
      BY DEF LP!Places, LP!LivePlaces
    <2>3. LP!WorkerOK("drive", s, LP!NoEvent, 0)
      BY <1>5, <2>1, <2>2 DEF LP!WorkerOK
    <2>4. LP!WorkerOK("idle", LP!EmptyState, LP!NoEvent, 0)
      BY <2>2, Assumptions, LP!GoneIsOK
    <2>5. \A L : LP!InvokedIn(LP!EmptyState, L)
      BY Assumptions, LP!NothingInvoked
    <2>6. ASSUME NEW w \in Workers
          PROVE  /\ LP!WorkerOK(lpc[w], state[w], env[w], attempts[w])
                 /\ LP!InvokedIn(state[w], LP!Ids(log))
      <3>1. /\ lpc[w] = IF w = Invoker THEN "drive" ELSE "idle"
            /\ state[w] = IF w = Invoker THEN s ELSE LP!EmptyState
            /\ env[w] = LP!NoEvent /\ attempts[w] = 0
        BY <1>1, <1>6, SameNames DEF Init
      <3>. QED
        BY <1>4, <1>5, <2>3, <2>4, <2>5, <3>1
    <2>7. /\ DOMAIN lpc = Workers /\ DOMAIN state = Workers
          /\ DOMAIN env = Workers /\ DOMAIN attempts = Workers
      BY <1>1 DEF Init
    <2>. QED
      BY <2>6, <2>7 DEF LP!WorkersInv
  <1>11. LP!EffectsInv
    BY <1>7 DEF LP!EffectsInv, LP!EffectIsJournaled, Effects
  <1>12. LP!SuccessInv
    <2>1. a.type # "ToolResulted" /\ b.type # "ToolResulted" /\ c.type # "ToolResulted"
      BY <1>2
    <2>2. LP!NoEvent.type # "ToolResulted" /\ \A w \in Workers : env[w] = LP!NoEvent
      BY <1>1, SameNames DEF Init, LP!NoEvent
    <2>3. limbo = {}
      BY <1>1 DEF Init
    <2>. QED
      BY <1>4, <2>1, <2>2, <2>3
      DEF LP!SuccessInv, LP!SuccessIsBacked, LP!Substantiated
  <1>13. AtFence
    BY <1>1, <1>7 DEF Init, AtFence
  <1>. QED
    BY <1>8, <1>9, <1>10, <1>11, <1>12, <1>13 DEF RuntimeInv, LP!LoopInv

(* A step of Guard.Run is no step of the loop, or one the promise allows.    *)
LEMMA GuardStepKinds ==
    ASSUME RuntimeInv, FP!PromiseInv, NEW w \in Workers, GuardStep(w)
    PROVE  LP!vars' = LP!vars \/ LP!FenceApplies(w) \/ LP!FenceReplies(w)
  <1>1. FP!Step(w)
    BY SameStep DEF GuardStep
  <1>2. FP!Live(w)
    BY <1>1, Assumptions, FP!StepPlaces DEF FP!PromiseInv
  <1>3. lpc[w] = "fence" /\ LP!InFlightTool(state[w]).id = CallId
    BY <1>2 DEF RuntimeInv, AtFence
  <1>4. PICK o : o = out'[w]
    OBVIOUS
  <1>5. /\ o.status \in {"none", "success", "error"}
        /\ \/ /\ ledger' = ledger
              /\ gpc'[w] = "done" =>
                   /\ o.status = "success" => ledger # {}
                   /\ o.status = "error" => ledger = {}
                   /\ o.status = "none" /\ o.kind # "outcome_unknown" => w \notin ledger
           \/ /\ ledger = {} /\ ledger' = {w}
              /\ gpc'[w] = "done" => o.status = "none" /\ o.kind = "outcome_unknown"
    BY <1>1, <1>4, Assumptions, FP!StepOutcome
  <1>6. CASE gpc'[w] # "done"
    <2>1. UNCHANGED loopVars
      BY <1>6 DEF GuardStep
    <2>2. CASE ledger' = ledger
      BY <2>1, <2>2 DEF loopVars, LP!vars
    <2>3. CASE ledger = {} /\ ledger' = {w}
      <3>1. /\ ~LP!HasEffect(CallId)
            /\ Effects(ledger') = Effects(ledger) \cup {<<CallId, w>>}
        BY <2>3, EffectsAre
      <3>. QED
        BY <1>3, <2>1, <3>1 DEF loopVars, LP!FenceApplies, Effects
    <2>. QED
      BY <1>5, <2>2, <2>3
  <1>7. CASE gpc'[w] = "done"
    <2>1. OnReturn(w) /\ UNCHANGED <<log, journal, limbo, calls>>
      BY <1>7 DEF GuardStep
    <2>2. CASE o.kind \in {"fence_unavailable", "outcome_unknown"}
      <3>1. LP!Fault /\ LP!Exit(w, "exit_fence_unavailable")
        BY <1>4, <2>1, <2>2, SamePublishing DEF OnReturn
      <3>2. CASE ledger' = ledger
        BY <1>3, <2>1, <3>1, <3>2 DEF LP!FenceReplies
      <3>3. CASE ledger = {} /\ ledger' = {w}
        <4>1. /\ ~LP!HasEffect(CallId)
              /\ Effects(ledger') = Effects(ledger) \cup {<<CallId, w>>}
          BY <3>3, EffectsAre
        <4>. QED
          BY <1>3, <2>1, <3>1, <4>1 DEF LP!FenceApplies, Effects
      <3>. QED
        BY <1>5, <3>2, <3>3
    <2>3. CASE o.kind \notin {"fence_unavailable", "outcome_unknown"}
      <3>1. Loop!StartPublishing(w, Verdict(w, o)) /\ UNCHANGED <<faults, state>>
        BY <1>4, <2>1, <2>3 DEF OnReturn
      <3>2. \/ o.status = "none" /\ LP!StartPublishing(w, LP!RunFailed(w))
            \/ o.status = "success" /\ LP!StartPublishing(w, LP!ToolResulted(w, "success"))
            \/ o.status = "error" /\ LP!StartPublishing(w, LP!ToolResulted(w, "error"))
        BY <1>5, <3>1, SamePublishing DEF Verdict
      <3>3. /\ ledger' = ledger
            /\ o.status = "success" => LP!HasEffect(CallId)
            /\ o.status = "error" => ~LP!HasEffect(CallId)
            /\ o.status = "none" => <<CallId, w>> \notin Effects(ledger)
        BY <1>5, <1>7, <2>3, EffectsAre
      <3>. QED
        BY <1>3, <2>1, <3>1, <3>2, <3>3 DEF LP!FenceReplies, Effects
    <2>. QED
      BY <2>2, <2>3
  <1>. QED
    BY <1>6, <1>7

(* Every step of the worker is a step of the loop over the promise.          *)
LEMMA LoopRefines ==
    ASSUME RuntimeInv, FP!PromiseInv, [Next]_vars
    PROVE  [LP!Next]_(LP!vars)
  <1>1. ASSUME NEW w \in Workers, LoopStep(w)
        PROVE  LP!Next
    BY <1>1, SameLoop, SameOthers DEF LoopStep, LP!Next
  <1>2. ASSUME NEW w \in Workers, Call(w)
        PROVE  LP!Next
    BY <1>2, SameDriving DEF Call, LP!Next, LP!Step
  <1>3. ASSUME NEW w \in Workers, Crash(w)
        PROVE  LP!Next
    BY <1>3, SameFenced DEF Crash, LP!Next
  <1>4. ASSUME NEW w \in Workers, GuardStep(w)
        PROVE  [LP!Next]_(LP!vars)
    BY <1>4, GuardStepKinds DEF LP!Next, LP!Step
  <1>5. ASSUME NEW e \in limbo, LandEvent(e)
        PROVE  LP!Next
    BY <1>5, SameOthers DEF LandEvent, LP!Next
  <1>6. ASSUME World
        PROVE  LP!vars' = LP!vars
    <2>1. ledger' = ledger
      BY <1>6, SameWorld DEF World, FP!Tick, FP!Land, FP!toolVars
    <2>. QED
      BY <1>6, <2>1 DEF World, loopVars, LP!vars
  <1>7. vars' = vars => LP!vars' = LP!vars
    BY DEF vars, loopVars, guardVars, LP!vars
  <1>. QED
    BY <1>1, <1>2, <1>3, <1>4, <1>5, <1>6, <1>7 DEF Next

(* A worker of the loop moves nobody else.                                   *)
LEMMA LoopFrame ==
    ASSUME RuntimeInv, NEW w \in Workers,
           LP!ResumeRun(w) \/ LP!Step(w) \/ LP!Crash(w)
    PROVE  \A v \in Workers : v # w => lpc'[v] = lpc[v] /\ state'[v] = state[v]
  <1>1. DOMAIN lpc = Workers /\ DOMAIN state = Workers
    BY DEF RuntimeInv, LP!LoopInv, LP!WorkersInv
  <1>. QED
    BY <1>1
    DEF LP!ResumeRun, LP!Step, LP!Crash, LP!CallLLM, LP!InvokeTool, LP!RunUnfenced,
        LP!RunFenced, LP!FenceApplies, LP!FenceReplies, LP!FinishRun, LP!FailMaxSteps,
        LP!PublishAcked, LP!PublishUnanswered, LP!StartPublishing, LP!Exit, LP!world

(* The call that a worker takes to the fence is the one of the first answer. *)
LEMMA CallKinds ==
    ASSUME RuntimeInv, NEW w \in Workers, Call(w)
    PROVE  /\ lpc' = [lpc EXCEPT ![w] = "fence"] /\ state' = state
           /\ LP!InFlightTool(state[w]).id = CallId
  <1>1. LP!RunFenced(w) /\ lpc'[w] = "fence" /\ DOMAIN lpc = Workers
    BY SameDriving DEF Call, RuntimeInv, LP!LoopInv, LP!WorkersInv
  <1>2. lpc[w] = "drive" /\ LP!NextAction(state[w]) = "RESOLVE_IN_FLIGHT_TOOL"
    BY <1>1 DEF LP!RunFenced, LP!Drives
  <1>3. /\ LP!Tool(LP!InFlightTool(state[w]).id) \in {"open_pr"}
        /\ lpc' = [lpc EXCEPT ![w] = "fence"] /\ state' = state
    BY <1>1 DEF LP!RunFenced, LP!StartPublishing
  <1>4. LP!IsState(state[w])
    BY <1>2 DEF RuntimeInv, LP!LoopInv, LP!WorkersInv, LP!WorkerOK
  <1>5. PICK x : x = LP!InFlightTool(state[w])
    OBVIOUS
  <1>6. x \in [id : LP!ToolIds, side : BOOLEAN]
    BY <1>2, <1>4, <1>5, Assumptions, LP!FlyingTool
  <1>7. x.id \in LP!ToolIds /\ x.id.tool = "open_pr"
    BY <1>3, <1>5, <1>6 DEF LP!Tool
  <1>. QED
    BY <1>3, <1>5, <1>7, OneCall

LEMMA AtFenceNext ==
    ASSUME RuntimeInv, FP!PromiseInv, [Next]_vars
    PROVE  AtFence'
  <1>1. \A w \in Workers : /\ FP!Live(w) <=> lpc[w] = "fence"
                           /\ lpc[w] = "fence" => LP!InFlightTool(state[w]).id = CallId
    BY DEF RuntimeInv, AtFence
  <1>2. /\ DOMAIN lpc = Workers /\ DOMAIN state = Workers /\ DOMAIN gpc = Workers
    BY DEF RuntimeInv, LP!LoopInv, LP!WorkersInv, FP!PromiseInv, FP!IInv, FP!TypeOK
  <1>3. ASSUME gpc' = gpc, lpc' = lpc, state' = state
        PROVE  AtFence'
    BY <1>1, <1>3 DEF AtFence, FP!Live, LP!InFlightTool
  <1>4. ASSUME NEW w \in Workers,
               \A v \in Workers : v # w => /\ lpc'[v] = lpc[v] /\ state'[v] = state[v]
                                           /\ gpc'[v] = gpc[v],
               FP!Live(w)' <=> lpc'[w] = "fence",
               lpc'[w] = "fence" => LP!InFlightTool(state'[w]).id = CallId
        PROVE  AtFence'
    <2>1. \A v \in Workers : v # w =>
            /\ FP!Live(v)' <=> lpc'[v] = "fence"
            /\ lpc'[v] = "fence" => LP!InFlightTool(state'[v]).id = CallId
      BY <1>1, <1>4 DEF FP!Live
    <2>. QED
      BY <1>4, <2>1 DEF AtFence
  <1>5. ASSUME NEW w \in Workers, LoopStep(w)
        PROVE  AtFence'
    <2>1. LP!ResumeRun(w) \/ LP!Step(w)
      BY <1>5, SameLoop, SameOthers DEF LoopStep
    <2>2. gpc' = gpc /\ ~FP!Live(w)' /\ lpc'[w] # "fence"
      BY <1>1, <1>5 DEF LoopStep, guardVars, FP!Live
    <2>. QED
      BY <1>4, <2>1, <2>2, LoopFrame
  <1>6. ASSUME NEW w \in Workers, Call(w)
        PROVE  AtFence'
    <2>1. FP!Start(w)
      BY <1>6, SameWorld DEF Call
    <2>2. gpc' = [gpc EXCEPT ![w] = "claim"]
      BY <2>1 DEF FP!Start, FP!Attempt, FP!Moves
    <2>3. FP!Live(w)' /\ \A v \in Workers : v # w => gpc'[v] = gpc[v]
      BY <1>2, <2>2 DEF FP!Live
    <2>. QED
      BY <1>2, <1>4, <1>6, <2>3, CallKinds
  <1>7. ASSUME NEW w \in Workers, Crash(w)
        PROVE  AtFence'
    <2>1. LP!Crash(w) /\ (FP!Crash(w) \/ (~FP!Live(w) /\ gpc' = gpc))
      BY <1>7, SameFenced, SameWorld DEF Crash, guardVars
    <2>2. lpc'[w] = "crashed"
      BY <1>2, <2>1 DEF LP!Crash, LP!Exit
    <2>3. ~FP!Live(w)' /\ \A v \in Workers : v # w => gpc'[v] = gpc[v]
      <3>1. FP!Crash(w) => gpc' = [gpc EXCEPT ![w] = "crashed"]
        BY DEF FP!Crash, FP!Ends, FP!Moves
      <3>. QED
        BY <1>2, <2>1, <3>1 DEF FP!Live
    <2>. QED
      BY <1>4, <2>1, <2>2, <2>3, LoopFrame
  <1>8. ASSUME NEW w \in Workers, GuardStep(w)
        PROVE  AtFence'
    <2>1. /\ FP!Live(w) /\ gpc'[w] \notin {"idle", "crashed"}
          /\ \A v \in Workers : v # w => gpc'[v] = gpc[v]
      BY <1>8, SameStep, Assumptions, FP!StepPlaces DEF GuardStep, FP!PromiseInv
    <2>2. CASE gpc'[w] # "done"
      <3>1. lpc' = lpc /\ state' = state
        BY <1>8, <2>2 DEF GuardStep, loopVars
      <3>2. FP!Live(w)'
        BY <2>1, <2>2 DEF FP!Live
      <3>. QED
        BY <1>1, <1>4, <2>1, <3>1, <3>2
    <2>3. CASE gpc'[w] = "done"
      <3>1. OnReturn(w)
        BY <1>8, <2>3 DEF GuardStep
      <3>2. /\ lpc'[w] # "fence"
            /\ \A v \in Workers : v # w => lpc'[v] = lpc[v] /\ state'[v] = state[v]
        BY <1>2, <3>1, SamePublishing DEF OnReturn, LP!StartPublishing, LP!Exit
      <3>3. ~FP!Live(w)'
        BY <2>3 DEF FP!Live
      <3>. QED
        BY <1>4, <2>1, <3>2, <3>3
    <2>. QED
      BY <2>2, <2>3
  <1>9. ASSUME NEW e \in limbo, LandEvent(e)
        PROVE  AtFence'
    BY <1>3, <1>9, SameOthers DEF LandEvent, guardVars, LP!Land
  <1>10. ASSUME World
         PROVE  AtFence'
    BY <1>3, <1>10, SameWorld DEF World, loopVars, FP!Tick, FP!Land, FP!workerVars
  <1>11. vars' = vars => AtFence'
    BY <1>3 DEF vars, loopVars, guardVars
  <1>. QED
    BY <1>5, <1>6, <1>7, <1>8, <1>9, <1>10, <1>11 DEF Next

LEMMA RuntimeNext ==
    ASSUME RuntimeInv, FP!PromiseInv, [Next]_vars
    PROVE  RuntimeInv'
  <1>1. [LP!Next]_(LP!vars)
    BY LoopRefines
  <1>2. LP!LoopInv'
    BY <1>1, Assumptions, LP!LoopInvNext DEF RuntimeInv
  <1>3. LP!SuccessInv'
    BY <1>1, Assumptions, LP!SuccessInvNext DEF RuntimeInv
  <1>. QED
    BY <1>2, <1>3, AtFenceNext DEF RuntimeInv

LEMMA RuntimeInvariant == Spec => [](RuntimeInv /\ FP!PromiseInv)
  <1>1. FP!Spec => []FP!PromiseInv
    BY Assumptions, FP!PromiseInvHolds
  <1>2. RuntimeInv /\ FP!PromiseInv /\ [Next]_vars => RuntimeInv'
    BY RuntimeNext
  <1>. QED
    BY <1>1, <1>2, RuntimeInit, FenceInside, PTL DEF Spec

(* The loop over the real Guard.Run, with Redis, the ledger, late commands   *)
(* and expiring keys, takes only steps of the loop over the fence's promise: *)
(* executeFenced never acts on an answer that AtMostOnce does not allow.     *)
THEOREM WorkerImplementsLoop == Spec => ImplementsLoop
  <1>1. RuntimeInv /\ FP!PromiseInv /\ [Next]_vars => [Loop!Next]_(Loop!vars)
    <2>1. LP!vars' = LP!vars => Loop!vars' = Loop!vars
      BY Zenon DEF LP!vars, Loop!vars
    <2>. QED
      BY <2>1, LoopRefines, SameLoop
  <1>. QED
    BY <1>1, RuntimeInvariant, PTL DEF Spec, ImplementsLoop

(* No worker, first or second, journals a success that is not in the ledger. *)
THEOREM SuccessInLedger == Spec => []SuccessIsTrue
  <1>1. RuntimeInv => SuccessIsTrue
    <2>1. SUFFICES ASSUME RuntimeInv, NEW e \in LP!Ids(log),
                          e.type = "ToolResulted", e.status = "success"
                   PROVE  ledger # {}
      BY SameNames DEF SuccessIsTrue
    <2>2. PICK w \in Workers : LP!Backed(w, e.tool, Effects(ledger))
      BY <2>1 DEF RuntimeInv, LP!SuccessInv, LP!SuccessIsBacked, LP!Substantiated, Effects
    <2>. QED
      BY <2>2 DEF LP!Backed, LP!EffectIn, LP!Tool, Effects
  <1>. QED
    BY <1>1, RuntimeInvariant, PTL
=============================================================================
