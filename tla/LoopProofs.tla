------------------------------ MODULE LoopProofs ------------------------------
(***************************************************************************)
(* What holds of one run's journal, workers and effects, for any workers,   *)
(* builds, LLM answers and limits, and any number of faults.                *)
(***************************************************************************)
EXTENDS AgentLoop, RunFoldProofs

(* Calls of LLM answers that were in the journal before the workers of this  *)
(* specification began; none for a fresh run.  Any set will do.              *)
CONSTANT Earlier

EventIds == Workers \X Nat
ToolIds ==
    [call : Nat, pos : Nat, tool : UNION {Ids(r.tools) : r \in Responses}]
      \cup {id \in Earlier : id.call \in Nat}
Words == {r.stop : r \in Responses} \cup {"tool_use", "success", "error"}

IsState(s) == s \in StateType(EventIds, ToolIds, Words)
IsLogged(e) == IsEvent(e, EventIds, ToolIds, Words)

LivePlaces == {"drive", "publish", "fence"}
Places == Exits \cup {"idle", "startup_failed", "crashed"} \cup LivePlaces

(* What a worker holds at each place.  It decides only from a run that has   *)
(* begun and not ended, it is at the fence for a tool in flight, and what it *)
(* publishes is what its own fold accepts next.                              *)
WorkerOK(p, s, e, t) ==
    /\ p \in Places /\ IsState(s) /\ t \in 0..(PublishMaxAttempts - 1)
    /\ p # "publish" => e = NoEvent
    /\ p \notin LivePlaces => s = EmptyState
    /\ p \in {"drive", "fence"} => s.seen # <<>> /\ ~IsTerminal(s)
    /\ p = "fence" => NextAction(s) = "RESOLVE_IN_FLIGHT_TOOL"
    /\ p = "publish" => IsLogged(e) /\ Verdict(s, e) = "ok"

(* Every invocation in the state is an event of L.                           *)
InvokedIn(s, L) ==
    \A i \in DOMAIN s.steps : \A x \in s.steps[i].invoked :
        \E e \in L : e.type = "ToolInvoked" /\ e.tool = x.id

JournalType ==
    /\ log \in Seq(Ids(log))
    /\ \A e \in Ids(log) \cup limbo : IsLogged(e)
    /\ journal = [err |-> journal.err, state |-> journal.state]
    /\ IsState(journal.state)
    /\ journal.err = "ok" => journal.state.seen # <<>>
    /\ journal.err = "run_not_found" => journal = NotFound /\ log = <<>>
    /\ InvokedIn(journal.state, Ids(log))

CountersType ==
    /\ calls \in 0..MaxCalls
    /\ faults \in 0..MaxFaults

WorkersInv ==
    /\ DOMAIN pc = Workers /\ DOMAIN state = Workers
    /\ DOMAIN env = Workers /\ DOMAIN tries = Workers
    /\ \A w \in Workers : /\ WorkerOK(pc[w], state[w], env[w], tries[w])
                          /\ InvokedIn(state[w], Ids(log))

EffectsInv ==
    /\ effects \subseteq ToolIds \X Workers
    /\ EffectIsJournaled

LoopInv == JournalType /\ CountersType /\ WorkersInv /\ EffectsInv

-----------------------------------------------------------------------------
(* The tools that wait or are in flight.                                     *)

LEMMA FirstIsOne ==
    ASSUME NEW s, IsState(s), s.steps # <<>>, NEW P, P \subseteq Positions(s), P # {}
    PROVE  /\ \E i \in P : FirstOf(s, P) = Last(s).order[i]
           /\ FirstOf(s, P) \in Ids(Last(s).order)
           /\ FirstOf(s, P) \in ToolIds
  <1>1. Last(s) \in StepType(ToolIds, Words)
    <2>1. PICK q : q = s.steps /\ q \in Seq(StepType(ToolIds, Words)) /\ q # <<>>
      BY DEF IsState, StateType
    <2>2. Len(q) \in DOMAIN q
      BY <2>1
    <2>. QED
      BY <2>1, <2>2 DEF Last
  <1>2. PICK o : o = Last(s).order /\ o \in Seq(ToolIds)
    BY <1>1 DEF StepType
  <1>3. Positions(s) = DOMAIN o /\ DOMAIN o \subseteq Nat
    BY <1>2 DEF Positions
  <1>4. PICK i \in P : FirstOf(s, P) = o[i]
    BY <1>2, <1>3, FirstPosition DEF FirstOf
  <1>. QED
    BY <1>2, <1>3, <1>4 DEF Ids

(* invokeToolAndJournal takes a tool that can be invoked.                    *)
LEMMA PendingTool ==
    ASSUME NEW s, IsState(s), NextAction(s) = "EXECUTE_TOOL",
           NEW id, id = FirstOf(s, PendingToolCalls(s))
    PROVE  id \in ToolIds /\ InCurrentStep(s, id) /\ ~IsInvoked(Last(s), id)
  <1>1. s.steps # <<>> /\ PendingToolCalls(s) # {}
    BY ActionMeans
  <1>2. PendingToolCalls(s) \subseteq Positions(s)
    BY DEF PendingToolCalls
  <1>3. PICK i \in PendingToolCalls(s) : id = Last(s).order[i]
    BY <1>1, <1>2, FirstIsOne
  <1>4. id \in ToolIds /\ id \in Ids(Last(s).order)
    BY <1>1, <1>2, FirstIsOne
  <1>. QED
    BY <1>1, <1>3, <1>4 DEF PendingToolCalls, InCurrentStep

(* The tool in flight is one that may have a result.                         *)
LEMMA FlyingTool ==
    ASSUME NEW s, IsState(s), NextAction(s) = "RESOLVE_IN_FLIGHT_TOOL",
           NEW x, x = InFlightTool(s)
    PROVE  /\ s.steps # <<>> /\ x \in Last(s).invoked
           /\ x \in [id : ToolIds, side : BOOLEAN]
           /\ InCurrentStep(s, x.id) /\ IsInvoked(Last(s), x.id)
           /\ ~IsResulted(Last(s), x.id)
  <1>1. s.steps # <<>> /\ InFlightTools(s) # {}
    BY ActionMeans
  <1>2. InFlightTools(s) \subseteq Positions(s)
    BY DEF InFlightTools
  <1>3. PICK id : id = FirstOf(s, InFlightTools(s))
    OBVIOUS
  <1>4. PICK i \in InFlightTools(s) : id = Last(s).order[i]
    BY <1>1, <1>2, <1>3, FirstIsOne
  <1>5. id \in ToolIds /\ id \in Ids(Last(s).order)
    BY <1>1, <1>2, <1>3, FirstIsOne
  <1>6. IsInvoked(Last(s), id) /\ ~IsResulted(Last(s), id)
    BY <1>4 DEF InFlightTools
  <1>7. x \in Last(s).invoked /\ x.id = id
    BY <1>3, <1>6 DEF InFlightTool, IsInvoked
  <1>8. Last(s).invoked \subseteq [id : ToolIds, side : BOOLEAN]
    <2>1. PICK q : q = s.steps /\ q \in Seq(StepType(ToolIds, Words)) /\ q # <<>>
      BY <1>1 DEF IsState, StateType
    <2>2. Len(q) \in DOMAIN q
      BY <2>1
    <2>3. Last(s) \in StepType(ToolIds, Words)
      BY <2>1, <2>2 DEF Last
    <2>. QED
      BY <2>3 DEF StepType
  <1>. QED
    BY <1>1, <1>5, <1>6, <1>7, <1>8 DEF InCurrentStep

-----------------------------------------------------------------------------
(* What the loop publishes is an event that its own state accepts.           *)

LEMMA EmptyIsState == IsState(EmptyState) /\ EmptyState.seen = <<>> /\ ~IsTerminal(EmptyState)
  <1>1. <<>> \in Seq(StepType(ToolIds, Words)) /\ <<>> \in Seq(EventIds)
    OBVIOUS
  <1>. QED
    BY <1>1 DEF IsState, StateType, EmptyState, Statuses, IsTerminal, TerminalStatuses

LEMMA Stamped ==
    ASSUME NEW w \in Workers, NEW s, IsState(s), NEW p, NEW e,
           e = Enveloped([seq |-> NextSequence(s), id |-> <<w, NextSequence(s)>>], p)
    PROVE  /\ e.seq = NextSequence(s) /\ e.seq \in Nat /\ e.id \in EventIds
           /\ e.id = <<w, NextSequence(s)>>
           /\ \A f \in DOMAIN p : f \notin {"seq", "id"} => e[f] = p[f]
  <1>1. PICK n \in Nat : n = NextSequence(s)
    BY DEF IsState, StateType, NextSequence
  <1>2. PICK v : v = [seq |-> n, id |-> <<w, n>>]
    OBVIOUS
  <1>3. DOMAIN v = {"seq", "id"} /\ v["seq"] = n /\ v["id"] = <<w, n>>
    BY <1>2
  <1>4. e = Enveloped(v, p)
    BY <1>1, <1>2
  <1>5. /\ \A f \in DOMAIN v : e[f] = v[f]
        /\ \A f \in DOMAIN p : f \notin DOMAIN v => e[f] = p[f]
    BY <1>4 DEF Enveloped
  <1>6. e["seq"] = n /\ e["id"] = <<w, n>>
    BY <1>3, <1>5
  <1>7. <<w, n>> \in EventIds
    BY DEF EventIds
  <1>. QED
    BY <1>1, <1>3, <1>5, <1>6, <1>7

(* The structural checks pass at the next sequence number of a run that has  *)
(* begun and not ended.                                                      *)
LEMMA Fits ==
    ASSUME NEW s, IsState(s), NEW e, e.seq = NextSequence(s),
           s.seen = <<>> => e.type = "RunStarted", s.seen # <<>> => ~IsTerminal(s),
           BadPayload(s, e) = "ok"
    PROVE  Verdict(s, e) = "ok"
  <1>1. Len(s.seen) \in Nat /\ (s.seen = <<>> => Len(s.seen) = 0)
    BY DEF IsState, StateType
  <1>2. Structural(s, e) = "ok"
    BY <1>1 DEF Structural, NextSequence
  <1>. QED
    BY <1>2 DEF Verdict

LEMMA PublishesStart ==
    ASSUME NEW w \in Workers, NEW e, NEW p,
           p = [type |-> "RunStarted", maxSteps |-> MaxSteps],
           e = Enveloped([seq |-> NextSequence(EmptyState),
                          id |-> <<w, NextSequence(EmptyState)>>], p)
    PROVE  IsLogged(e) /\ Verdict(EmptyState, e) = "ok" /\ e.type = "RunStarted"
  <1>1. DOMAIN p = {"type", "maxSteps"} /\ p["type"] = "RunStarted" /\ p["maxSteps"] = MaxSteps
    OBVIOUS
  <1>2. e.seq = NextSequence(EmptyState) /\ e.seq \in Nat /\ e.id \in EventIds
        /\ e["type"] = "RunStarted" /\ e["maxSteps"] = MaxSteps
    BY <1>1, EmptyIsState, Stamped
  <1>3. IsLogged(e)
    BY <1>2, LoopAssumption DEF IsLogged, IsEvent, EventTypes
  <1>4. BadPayload(EmptyState, e) = "ok"
    BY <1>2 DEF BadPayload
  <1>. QED
    BY <1>2, <1>3, <1>4, EmptyIsState, Fits

LEMMA PublishesEnd ==
    ASSUME NEW w \in Workers, NEW s, IsState(s), s.seen # <<>>, ~IsTerminal(s),
           NEW type \in {"RunCompleted", "RunFailed"}, NEW e, NEW p,
           p = [type |-> type, step |-> s.step],
           e = Enveloped([seq |-> NextSequence(s), id |-> <<w, NextSequence(s)>>], p)
    PROVE  IsLogged(e) /\ Verdict(s, e) = "ok" /\ e.type = type
  <1>1. DOMAIN p = {"type", "step"} /\ p["type"] = type
    OBVIOUS
  <1>2. e.seq = NextSequence(s) /\ e.seq \in Nat /\ e.id \in EventIds /\ e["type"] = type
    BY <1>1, Stamped
  <1>3. IsLogged(e)
    BY <1>2 DEF IsLogged, IsEvent, EventTypes, TerminalEvents
  <1>4. BadPayload(s, e) = "ok"
    BY <1>2 DEF BadPayload
  <1>. QED
    BY <1>2, <1>3, <1>4, Fits

(* The tool_use ids of answer n.                                             *)
Named(r, n) == [i \in DOMAIN r.tools |-> [call |-> n, pos |-> i, tool |-> r.tools[i]]]

LEMMA PublishesAnswer ==
    ASSUME NEW w \in Workers, NEW s, IsState(s), s.seen # <<>>, ~IsTerminal(s),
           NextAction(s) = "CALL_LLM", NEW r \in Responses, NEW n \in Nat, NEW e, NEW p, NEW o,
           o = Named(r, n),
           p = [type |-> "LLMResponded", step |-> s.step + 1, stop |-> r.stop, order |-> o],
           e = Enveloped([seq |-> NextSequence(s), id |-> <<w, NextSequence(s)>>], p)
    PROVE  /\ IsLogged(e) /\ Verdict(s, e) = "ok" /\ e.type = "LLMResponded"
           /\ e.order = o /\ \A id \in Ids(o) : id.call = n
  <1>1. /\ DOMAIN p = {"type", "step", "stop", "order"} /\ p["type"] = "LLMResponded"
        /\ p["step"] = s.step + 1 /\ p["stop"] = r.stop /\ p["order"] = o
    OBVIOUS
  <1>2. e.seq = NextSequence(s) /\ e.seq \in Nat /\ e.id \in EventIds
        /\ e["type"] = "LLMResponded" /\ e["step"] = s.step + 1 /\ e["stop"] = r.stop
        /\ e["order"] = o
    BY <1>1, Stamped
  <1>3. o \in Seq(ToolIds)
    <2>1. PICK t : t = r.tools /\ t \in Seq(Ids(t))
      BY LoopAssumption
    <2>2. DOMAIN t = 1..Len(t) /\ Len(t) \in Nat
      BY <2>1
    <2>3. \A i \in 1..Len(t) : [call |-> n, pos |-> i, tool |-> t[i]] \in ToolIds
      BY <2>1, <2>2 DEF ToolIds, Ids
    <2>4. o \in [1..Len(t) -> ToolIds]
      BY <2>1, <2>2, <2>3 DEF Named
    <2>. QED
      BY <2>2, <2>4
  <1>4. r.stop \in Words /\ s.step + 1 \in Int
    BY DEF Words, IsState, StateType
  <1>5. IsLogged(e)
    BY <1>2, <1>3, <1>4 DEF IsLogged, IsEvent, EventTypes
  <1>6. BadPayload(s, e) = "ok"
    BY <1>2, ActionMeans DEF BadPayload
  <1>7. \A id \in Ids(o) : id.call = n
    BY DEF Ids, Named
  <1>. QED
    BY <1>2, <1>5, <1>6, <1>7, Fits

LEMMA PublishesInvocation ==
    ASSUME NEW w \in Workers, NEW s, IsState(s), s.seen # <<>>, ~IsTerminal(s),
           NextAction(s) = "EXECUTE_TOOL", NEW id, id = FirstOf(s, PendingToolCalls(s)),
           NEW side \in BOOLEAN, NEW e, NEW p,
           p = [type |-> "ToolInvoked", step |-> s.step, tool |-> id, side |-> side],
           e = Enveloped([seq |-> NextSequence(s), id |-> <<w, NextSequence(s)>>], p)
    PROVE  /\ IsLogged(e) /\ Verdict(s, e) = "ok" /\ e.type = "ToolInvoked"
           /\ e.tool = id /\ e.side = side
  <1>1. /\ DOMAIN p = {"type", "step", "tool", "side"} /\ p["type"] = "ToolInvoked"
        /\ p["tool"] = id /\ p["side"] = side
    OBVIOUS
  <1>2. e.seq = NextSequence(s) /\ e.seq \in Nat /\ e.id \in EventIds
        /\ e["type"] = "ToolInvoked" /\ e["tool"] = id /\ e["side"] = side
    BY <1>1, Stamped
  <1>3. id \in ToolIds /\ InCurrentStep(s, id) /\ ~IsInvoked(Last(s), id)
    BY PendingTool
  <1>4. IsLogged(e)
    BY <1>2, <1>3 DEF IsLogged, IsEvent, EventTypes
  <1>5. BadPayload(s, e) = "ok"
    BY <1>2, <1>3 DEF BadPayload, BadToolEvent
  <1>. QED
    BY <1>2, <1>4, <1>5, Fits

LEMMA PublishesResult ==
    ASSUME NEW w \in Workers, NEW s, IsState(s), s.seen # <<>>, ~IsTerminal(s),
           NextAction(s) = "RESOLVE_IN_FLIGHT_TOOL", NEW id, id = InFlightTool(s).id,
           NEW status \in {"success", "error"}, NEW e, NEW p,
           p = [type |-> "ToolResulted", step |-> s.step, tool |-> id, status |-> status],
           e = Enveloped([seq |-> NextSequence(s), id |-> <<w, NextSequence(s)>>], p)
    PROVE  /\ IsLogged(e) /\ Verdict(s, e) = "ok" /\ e.type = "ToolResulted"
           /\ e.tool = id /\ e.status = status
  <1>1. /\ DOMAIN p = {"type", "step", "tool", "status"} /\ p["type"] = "ToolResulted"
        /\ p["tool"] = id /\ p["status"] = status
    OBVIOUS
  <1>2. e.seq = NextSequence(s) /\ e.seq \in Nat /\ e.id \in EventIds
        /\ e["type"] = "ToolResulted" /\ e["tool"] = id /\ e["status"] = status
    BY <1>1, Stamped
  <1>3. id \in ToolIds /\ InCurrentStep(s, id) /\ IsInvoked(Last(s), id)
        /\ ~IsResulted(Last(s), id)
    BY FlyingTool
  <1>4. IsLogged(e)
    BY <1>2, <1>3 DEF IsLogged, IsEvent, EventTypes, Words
  <1>5. BadPayload(s, e) = "ok"
    BY <1>2, <1>3 DEF BadPayload, BadToolEvent
  <1>. QED
    BY <1>2, <1>4, <1>5, Fits

-----------------------------------------------------------------------------
(* The fold of one more event.                                               *)

(* The steps after an event: one more, or the last one with one more         *)
(* invocation or result, or the ones there were.                             *)
StepsMoved(q, u, e) ==
    /\ DOMAIN q = 1..Len(q) /\ Len(q) \in Nat
    /\ e.type # "LLMResponded" => DOMAIN u = DOMAIN q
    /\ e.type = "LLMResponded" =>
         /\ DOMAIN u = 1..(Len(q) + 1) /\ u[Len(q) + 1].order = e.order
         /\ u[Len(q) + 1].invoked = {} /\ u[Len(q) + 1].results = {}
    /\ \A i \in DOMAIN q :
         /\ u[i].order = q[i].order
         /\ e.type # "ToolInvoked" \/ i # Len(q) => u[i].invoked = q[i].invoked
         /\ e.type # "ToolResulted" \/ i # Len(q) => u[i].results = q[i].results
    /\ e.type = "ToolInvoked" /\ q # <<>> =>
         u[Len(q)].invoked = q[Len(q)].invoked \cup {[id |-> e.tool, side |-> e.side]}
    /\ e.type = "ToolResulted" /\ q # <<>> =>
         u[Len(q)].results = q[Len(q)].results \cup {[id |-> e.tool, status |-> e.status]}

LEMMA StepsMove ==
    ASSUME NEW s, IsState(s), NEW e, IsLogged(e),
           NEW u, u = Applied(s, e).steps, NEW q, q = s.steps
    PROVE  StepsMoved(q, u, e)
  <1>1. u = StepsAfter(s, e)
    BY AppliedFields DEF IsState, IsLogged
  <1>2. q \in Seq(StepType(ToolIds, Words)) /\ Len(q) \in Nat /\ DOMAIN q = 1..Len(q)
        /\ (q # <<>> => Len(q) \in DOMAIN q)
    BY DEF IsState, StateType
  <1>3. CASE e.type = "LLMResponded"
    <2>1. /\ NewStep(e).invoked = {} /\ NewStep(e).results = {}
          /\ NewStep(e).order = e.order
      BY DEF NewStep
    <2>2. PICK z : z = NewStep(e)
      OBVIOUS
    <2>3. u = Append(q, z)
      BY <1>1, <1>3, <2>2 DEF StepsAfter
    <2>4. /\ DOMAIN u = 1..(Len(q) + 1) /\ u[Len(q) + 1] = z
          /\ \A j \in DOMAIN q : u[j] = q[j]
      BY <1>2, <2>3
    <2>. QED
      BY <1>2, <1>3, <2>1, <2>2, <2>4 DEF StepsMoved
  <1>4. CASE e.type \in {"ToolInvoked", "ToolResulted"}
    <2>1. PICK n, z : /\ n = Len(q) /\ u = [q EXCEPT ![n] = z]
                      /\ z = IF e.type = "ToolInvoked" THEN InvokedStep(s, e)
                             ELSE ResultedStep(s, e)
      BY <1>1, <1>4 DEF StepsAfter
    <2>2. PICK S : S = StepType(ToolIds, Words) \cup {z}
      OBVIOUS
    <2>3. q \in Seq(S) /\ z \in S
      BY <1>2, <2>2
    <2>4. /\ DOMAIN u = DOMAIN q /\ (\A j \in DOMAIN q : j # n => u[j] = q[j])
          /\ n \in DOMAIN q => u[n] = z
      BY <2>1, <2>3, Replaced
    <2>5. PICK y : y = Last(s) /\ y = q[n]
      BY <2>1 DEF Last
    <2>6. n \in DOMAIN q => y \in StepType(ToolIds, Words)
      BY <1>2, <2>5
    <2>7. CASE e.type = "ToolInvoked"
      <3>1. PICK a : a = y.invoked \cup {[id |-> e.tool, side |-> e.side]}
        OBVIOUS
      <3>2. z = [y EXCEPT !.invoked = a]
        BY <2>1, <2>5, <2>7, <3>1 DEF InvokedStep
      <3>3. n \in DOMAIN q => z.invoked = a /\ z.order = y.order /\ z.results = y.results
        BY <2>6, <3>2 DEF StepType
      <3>. QED
        BY <1>2, <2>1, <2>4, <2>5, <2>7, <3>1, <3>3 DEF StepsMoved
    <2>8. CASE e.type = "ToolResulted"
      <3>1. PICK a : a = y.results \cup {[id |-> e.tool, status |-> e.status]}
        OBVIOUS
      <3>2. z = [y EXCEPT !.results = a]
        BY <2>1, <2>5, <2>8, <3>1 DEF ResultedStep
      <3>3. n \in DOMAIN q => z.results = a /\ z.order = y.order /\ z.invoked = y.invoked
        BY <2>6, <3>2 DEF StepType
      <3>. QED
        BY <1>2, <2>1, <2>4, <2>5, <2>8, <3>1, <3>3 DEF StepsMoved
    <2>. QED
      BY <1>4, <2>7, <2>8
  <1>5. CASE e.type \notin {"LLMResponded", "ToolInvoked", "ToolResulted"}
    BY <1>1, <1>2, <1>5 DEF StepsAfter, StepsMoved
  <1>. QED
    BY <1>3, <1>4, <1>5

LEMMA InvokedAfter ==
    ASSUME NEW s, IsState(s), NEW e, IsLogged(e), NEW L, InvokedIn(s, L), e \in L
    PROVE  InvokedIn(Applied(s, e), L)
  <1>1. PICK u, q : u = Applied(s, e).steps /\ q = s.steps
    OBVIOUS
  <1>2. StepsMoved(q, u, e)
    BY <1>1, StepsMove
  <1>3. SUFFICES ASSUME NEW i \in DOMAIN u, NEW x \in u[i].invoked
                 PROVE  \E f \in L : f.type = "ToolInvoked" /\ f.tool = x.id
    BY <1>1 DEF InvokedIn
  <1>4. \A j \in DOMAIN q : \A y \in q[j].invoked :
            \E f \in L : f.type = "ToolInvoked" /\ f.tool = y.id
    BY <1>1 DEF InvokedIn
  <1>5. i \in DOMAIN q
    BY <1>2 DEF StepsMoved
  <1>6. x \in q[i].invoked \/ (e.type = "ToolInvoked" /\ x.id = e.tool)
    <2>1. i = Len(q) => q # <<>>
      BY <1>5
    <2>. QED
      BY <1>2, <1>5, <2>1 DEF StepsMoved
  <1>. QED
    BY <1>4, <1>5, <1>6

(* A state that has seen an event has its id.                                *)
LEMMA AppliedState ==
    ASSUME NEW s, IsState(s), NEW e, IsLogged(e)
    PROVE  IsState(Applied(s, e)) /\ Applied(s, e).seen # <<>>
  <1>1. PICK u, q, x : u = Applied(s, e) /\ q = s.seen /\ x = e.id
    OBVIOUS
  <1>2. IsState(u) /\ u.seen = Append(q, x)
    BY <1>1, AppliedFields DEF IsState, IsLogged
  <1>3. q \in Seq(EventIds) /\ x \in EventIds
    BY <1>1 DEF IsState, StateType, IsLogged, IsEvent
  <1>4. Append(q, x) # <<>>
    <2>1. Len(Append(q, x)) = Len(q) + 1 /\ Len(q) \in Nat
      BY <1>3
    <2>. QED
      BY <2>1
  <1>. QED
    BY <1>1, <1>2, <1>4

LEMMA RedeliveryIsSeen ==
    ASSUME NEW s, IsState(s), NEW e, IsLogged(e), Verdict(s, e) = "redelivery"
    PROVE  /\ s.seen # <<>> /\ e.seq < NextSequence(s) /\ s.seen[e.seq + 1] = e.id
  <1>1. Len(s.seen) \in Nat /\ e.seq \in Nat /\ (s.seen = <<>> => Len(s.seen) = 0)
    BY DEF IsState, StateType, IsLogged, IsEvent
  <1>2. BadPayload(s, e) # "redelivery"
    BY DEF BadPayload, BadToolEvent
  <1>3. Structural(s, e) = "redelivery"
    BY <1>2 DEF Verdict
  <1>4. e.seq < Len(s.seen) /\ s.seen[e.seq + 1] = e.id
    BY <1>1, <1>3 DEF Structural, NextSequence
  <1>. QED
    BY <1>1, <1>4 DEF NextSequence

LEMMA FoldStepKinds ==
    ASSUME NEW r, NEW e
    PROVE  \/ /\ r.err \in {"ok", "run_not_found"} /\ Verdict(r.state, e) = "ok"
              /\ FoldStep(r, e) = [err |-> "ok", state |-> Applied(r.state, e)]
           \/ /\ r.err \in {"ok", "run_not_found"} /\ Verdict(r.state, e) = "redelivery"
              /\ FoldStep(r, e) = [err |-> "ok", state |-> r.state]
           \/ /\ r.err \in {"ok", "run_not_found"}
              /\ Verdict(r.state, e) \notin {"ok", "redelivery"}
              /\ FoldStep(r, e) = [err |-> Verdict(r.state, e), state |-> r.state]
           \/ r.err \notin {"ok", "run_not_found"} /\ FoldStep(r, e) = r
  BY ApplyKinds DEF FoldStep

LEMMA AppendKeeps ==
    ASSUME JournalType, NEW e, IsLogged(e), AppendToLog(e), limbo' \subseteq limbo
    PROVE  JournalType' /\ Ids(log') = Ids(log) \cup {e}
  <1>1. log' = Append(log, e) /\ journal' = FoldStep(journal, e)
    BY DEF AppendToLog
  <1>2. /\ log' \in Seq(Ids(log')) /\ Ids(log') = Ids(log) \cup {e}
        /\ Len(log') = Len(log) + 1 /\ Len(log) \in Nat
    BY <1>1, AppendIds DEF JournalType
  <1>3. log' # <<>>
    BY <1>2
  <1>4. IsState(journal.state) /\ InvokedIn(journal.state, Ids(log'))
    BY <1>2 DEF JournalType, InvokedIn
  <1>5. e \in Ids(log')
    BY <1>2
  <1>6. /\ journal' = [err |-> journal'.err, state |-> journal'.state]
        /\ IsState(journal'.state)
        /\ journal'.err = "ok" => journal'.state.seen # <<>>
        /\ journal'.err # "run_not_found"
        /\ InvokedIn(journal'.state, Ids(log'))
    <2>1. CASE /\ Verdict(journal.state, e) = "ok"
               /\ FoldStep(journal, e) = [err |-> "ok", state |-> Applied(journal.state, e)]
      <3>1. PICK s : s = Applied(journal.state, e)
        OBVIOUS
      <3>2. IsState(s) /\ s.seen # <<>> /\ InvokedIn(s, Ids(log'))
        BY <1>4, <1>5, <3>1, AppliedState, InvokedAfter
      <3>3. journal' = [err |-> "ok", state |-> s]
        BY <1>1, <2>1, <3>1
      <3>. QED
        BY <3>2, <3>3
    <2>2. CASE /\ Verdict(journal.state, e) = "redelivery"
               /\ FoldStep(journal, e) = [err |-> "ok", state |-> journal.state]
      <3>1. journal.state.seen # <<>>
        BY <1>4, <2>2, RedeliveryIsSeen
      <3>. QED
        BY <1>1, <1>4, <2>2, <3>1
    <2>3. CASE /\ Verdict(journal.state, e) \notin {"ok", "redelivery"}
               /\ FoldStep(journal, e) = [err |-> Verdict(journal.state, e), state |-> journal.state]
      <3>1. Verdict(journal.state, e) # "run_not_found"
        BY DEF Verdict, Structural, BadPayload, BadToolEvent
      <3>. QED
        BY <1>1, <1>4, <2>3, <3>1
    <2>4. CASE journal.err \notin {"ok", "run_not_found"} /\ FoldStep(journal, e) = journal
      BY <1>1, <1>4, <2>4 DEF JournalType
    <2>. QED
      BY <2>1, <2>2, <2>3, <2>4, FoldStepKinds
  <1>7. \A f \in Ids(log') \cup limbo' : IsLogged(f)
    BY <1>2 DEF JournalType
  <1>. QED
    BY <1>2, <1>6, <1>7 DEF JournalType

-----------------------------------------------------------------------------
(* A step of one worker leaves the others where they are.                    *)

Moves(w, p, s, e, t) ==
    /\ DOMAIN pc' = Workers /\ DOMAIN state' = Workers
    /\ DOMAIN env' = Workers /\ DOMAIN tries' = Workers
    /\ pc'[w] = p /\ state'[w] = s /\ env'[w] = e /\ tries'[w] = t
    /\ \A v \in Workers \ {w} : /\ pc'[v] = pc[v] /\ state'[v] = state[v]
                                /\ env'[v] = env[v] /\ tries'[v] = tries[v]

LEMMA MoveKeeps ==
    ASSUME WorkersInv, NEW w \in Workers, NEW p, NEW s, NEW e, NEW t, Moves(w, p, s, e, t),
           WorkerOK(p, s, e, t), InvokedIn(s, Ids(log')), Ids(log) \subseteq Ids(log')
    PROVE  WorkersInv'
  <1>1. ASSUME NEW v \in Workers
        PROVE  /\ WorkerOK(pc'[v], state'[v], env'[v], tries'[v])
               /\ InvokedIn(state'[v], Ids(log'))
    <2>1. CASE v = w
      BY <2>1 DEF Moves
    <2>2. CASE v # w
      <3>1. WorkerOK(pc[v], state[v], env[v], tries[v]) /\ InvokedIn(state[v], Ids(log))
        BY DEF WorkersInv
      <3>2. InvokedIn(state[v], Ids(log'))
        BY <3>1 DEF InvokedIn
      <3>3. pc'[v] = pc[v] /\ state'[v] = state[v] /\ env'[v] = env[v] /\ tries'[v] = tries[v]
        BY <2>2 DEF Moves
      <3>. QED
        BY <3>1, <3>2, <3>3
    <2>. QED
      BY <2>1, <2>2
  <1>. QED
    BY <1>1 DEF WorkersInv, Moves

LEMMA PublishMoves ==
    ASSUME WorkersInv, NEW w \in Workers, NEW p, StartPublishing(w, p), state' = state
    PROVE  /\ Moves(w, "publish", state[w], Envelope(w, p), 0)
           /\ Envelope(w, p).id = <<w, NextSequence(state[w])>>
  <1>1. IsState(state[w])
    BY DEF WorkersInv, WorkerOK
  <1>2. Envelope(w, p).id = <<w, NextSequence(state[w])>>
    BY <1>1, Stamped DEF Envelope
  <1>3. Moves(w, "publish", state[w], Envelope(w, p), 0)
    BY DEF WorkersInv, StartPublishing, Moves
  <1>. QED
    BY <1>2, <1>3

LEMMA ExitMoves ==
    ASSUME WorkersInv, NEW w \in Workers, NEW p, Exit(w, p)
    PROVE  Moves(w, p, EmptyState, NoEvent, 0)
  BY DEF WorkersInv, Exit, Moves

LEMMA GoneIsOK ==
    ASSUME NEW p \in Places \ LivePlaces
    PROVE  WorkerOK(p, EmptyState, NoEvent, 0)
  <1>1. 0 \in 0..(PublishMaxAttempts - 1)
    BY LoopAssumption
  <1>. QED
    BY <1>1, EmptyIsState DEF WorkerOK, LivePlaces

LEMMA NothingInvoked == \A L : InvokedIn(EmptyState, L)
  <1>1. EmptyState.steps = <<>>
    BY DEF EmptyState
  <1>. QED
    BY <1>1 DEF InvokedIn

(* A worker that drives has a run that has begun and not ended.              *)
LEMMA DriveFacts ==
    ASSUME WorkersInv, NEW w \in Workers, pc[w] \in {"drive", "fence"}
    PROVE  /\ IsState(state[w]) /\ state[w].seen # <<>> /\ ~IsTerminal(state[w])
           /\ InvokedIn(state[w], Ids(log))
           /\ pc[w] = "fence" => NextAction(state[w]) = "RESOLVE_IN_FLIGHT_TOOL"
  BY DEF WorkersInv, WorkerOK

(* An effect of the tool in flight is journaled.                             *)
LEMMA EffectKeeps ==
    ASSUME WorkersInv, EffectsInv, NEW w \in Workers, pc[w] \in {"drive", "fence"},
           NextAction(state[w]) = "RESOLVE_IN_FLIGHT_TOOL",
           effects' = effects \cup {<<InFlightTool(state[w]).id, w>>}, log' = log
    PROVE  EffectsInv'
  <1>1. PICK s, x : s = state[w] /\ x = InFlightTool(s)
    OBVIOUS
  <1>2. IsState(s) /\ InvokedIn(s, Ids(log)) /\ NextAction(s) = "RESOLVE_IN_FLIGHT_TOOL"
    BY <1>1, DriveFacts
  <1>3. s.steps # <<>> /\ x \in Last(s).invoked /\ x.id \in ToolIds
    BY <1>1, <1>2, FlyingTool
  <1>4. Len(s.steps) \in DOMAIN s.steps
    BY <1>2, <1>3 DEF IsState, StateType
  <1>5. \E e \in Ids(log) : e.type = "ToolInvoked" /\ e.tool = x.id
    BY <1>2, <1>3, <1>4 DEF InvokedIn, Last
  <1>6. effects' = effects \cup {<<x.id, w>>} /\ <<x.id, w>>[1] = x.id
    BY <1>1
  <1>7. effects' \subseteq ToolIds \X Workers
    BY <1>3, <1>6 DEF EffectsInv
  <1>8. EffectIsJournaled'
    BY <1>5, <1>6 DEF EffectsInv, EffectIsJournaled
  <1>. QED
    BY <1>7, <1>8 DEF EffectsInv

LEMMA EffectsStay ==
    ASSUME EffectsInv, effects' = effects, Ids(log) \subseteq Ids(log')
    PROVE  EffectsInv'
  BY DEF EffectsInv, EffectIsJournaled

LEMMA JournalStays ==
    ASSUME JournalType, log' = log, journal' = journal,
           \A e \in limbo' : e \in limbo \/ IsLogged(e)
    PROVE  JournalType'
  BY DEF JournalType

-----------------------------------------------------------------------------
(* The steps by what they do to one worker.                                  *)

(* A success of w: an effect of the tool is in E, or it has none.            *)
EffectIn(E, id) == \E x \in E : x[1] = id
Backed(w, id, E) == EffectIn(E, id) \/ Tool(id) \in Registered[w] \ SideEffecting

(* A worker begins to publish e, under an id of its own: an answer only of   *)
(* the LLM call its state asks for, a result only of the tool in flight, and *)
(* of a fenced one only the truth.                                           *)
Publishes(w, e) ==
    /\ pc[w] \in {"idle", "drive", "fence"}
    /\ Moves(w, "publish", state[w], e, 0)
    /\ IsLogged(e) /\ Verdict(state[w], e) = "ok" /\ e.id = <<w, NextSequence(state[w])>>
    /\ log' = log /\ journal' = journal /\ limbo' = limbo /\ faults' = faults
    /\ e.type = "RunStarted" => pc[w] = "idle" /\ ~Started
    /\ e.type # "RunStarted" => pc[w] # "idle"
    /\ e.type # "ToolResulted" => effects' = effects
    /\ e.type # "LLMResponded" => calls' = calls
    /\ e.type = "LLMResponded" =>
         /\ NextAction(state[w]) = "CALL_LLM" /\ calls < MaxCalls /\ calls' = calls + 1
         /\ \A id \in Ids(e.order) : id.call = calls
    /\ e.type = "ToolResulted" =>
         /\ NextAction(state[w]) = "RESOLVE_IN_FLIGHT_TOOL"
         /\ e.tool = InFlightTool(state[w]).id
         /\ \/ effects' = effects
            \/ ~InFlightTool(state[w]).side /\ effects' = effects \cup {<<e.tool, w>>}
         /\ InFlightTool(state[w]).side => (e.status = "success") = HasEffect(e.tool)
         /\ e.status = "success" => Backed(w, e.tool, effects')

LEMMA StartPublishes ==
    ASSUME LoopInv, NEW w \in Workers, StartRun(w)
    PROVE  \E e : Publishes(w, e)
  <1>1. PICK p, e : /\ p = [type |-> "RunStarted", maxSteps |-> MaxSteps]
                    /\ e = Envelope(w, p) /\ StartPublishing(w, p)
    BY DEF StartRun
  <1>2. pc[w] = "idle" /\ ~Started /\ state' = state /\ log' = log /\ journal' = journal
        /\ limbo' = limbo /\ faults' = faults /\ calls' = calls /\ effects' = effects
    BY DEF StartRun, world
  <1>3. state[w] = EmptyState
    BY <1>2 DEF LoopInv, WorkersInv, WorkerOK, LivePlaces
  <1>4. IsLogged(e) /\ Verdict(EmptyState, e) = "ok" /\ e.type = "RunStarted"
    BY <1>1, <1>3, PublishesStart DEF Envelope
  <1>5. Moves(w, "publish", state[w], e, 0) /\ e.id = <<w, NextSequence(state[w])>>
    BY <1>1, <1>2, PublishMoves DEF LoopInv
  <1>. QED
    BY <1>2, <1>3, <1>4, <1>5 DEF Publishes

(* RunFailed and RunCompleted.                                               *)
LEMMA EndPublishes ==
    ASSUME LoopInv, NEW w \in Workers, pc[w] \in {"drive", "fence"}, NEW p,
           NEW type \in {"RunCompleted", "RunFailed"}, p = [type |-> type, step |-> state[w].step],
           StartPublishing(w, p), state' = state, log' = log, journal' = journal,
           limbo' = limbo, faults' = faults, calls' = calls, effects' = effects
    PROVE  \E e : Publishes(w, e)
  <1>1. PICK e : e = Envelope(w, p)
    OBVIOUS
  <1>2. IsState(state[w]) /\ state[w].seen # <<>> /\ ~IsTerminal(state[w])
    BY DriveFacts DEF LoopInv
  <1>3. IsLogged(e) /\ Verdict(state[w], e) = "ok" /\ e.type = type
    BY <1>1, <1>2, PublishesEnd DEF Envelope
  <1>4. Moves(w, "publish", state[w], e, 0) /\ e.id = <<w, NextSequence(state[w])>>
    BY <1>1, PublishMoves DEF LoopInv
  <1>. QED
    BY <1>3, <1>4 DEF Publishes

LEMMA InvokePublishes ==
    ASSUME LoopInv, NEW w \in Workers, InvokeTool(w)
    PROVE  \E e : Publishes(w, e)
  <1>1. PICK id, side : /\ id = FirstOf(state[w], PendingToolCalls(state[w]))
                        /\ side = HasSideEffect(w, id)
    OBVIOUS
  <1>2. PICK p : p = [type |-> "ToolInvoked", step |-> state[w].step, tool |-> id, side |-> side]
    OBVIOUS
  <1>3. PICK e : e = Envelope(w, p)
    OBVIOUS
  <1>4. pc[w] = "drive" /\ NextAction(state[w]) = "EXECUTE_TOOL" /\ state' = state
        /\ log' = log /\ journal' = journal /\ limbo' = limbo /\ faults' = faults
        /\ effects' = effects /\ calls' = calls /\ StartPublishing(w, p)
    BY <1>1, <1>2 DEF InvokeTool, Drives, world
  <1>5. side \in BOOLEAN
    BY <1>1 DEF HasSideEffect
  <1>6. IsState(state[w]) /\ state[w].seen # <<>> /\ ~IsTerminal(state[w])
    BY <1>4, DriveFacts DEF LoopInv
  <1>7. IsLogged(e) /\ Verdict(state[w], e) = "ok" /\ e.type = "ToolInvoked"
    BY <1>1, <1>2, <1>3, <1>4, <1>5, <1>6, PublishesInvocation DEF Envelope
  <1>8. Moves(w, "publish", state[w], e, 0) /\ e.id = <<w, NextSequence(state[w])>>
    BY <1>3, <1>4, PublishMoves DEF LoopInv
  <1>. QED
    BY <1>4, <1>7, <1>8 DEF Publishes

(* A result of the tool in flight.                                           *)
LEMMA ResultPublishes ==
    ASSUME LoopInv, NEW w \in Workers, pc[w] \in {"drive", "fence"},
           NextAction(state[w]) = "RESOLVE_IN_FLIGHT_TOOL",
           NEW status \in {"success", "error"}, NEW x, x = InFlightTool(state[w]),
           StartPublishing(w, ToolResulted(w, status)), state' = state,
           log' = log, journal' = journal, limbo' = limbo, faults' = faults, calls' = calls,
           effects' = effects \/ (~x.side /\ effects' = effects \cup {<<x.id, w>>}),
           x.side => (status = "success") = HasEffect(x.id),
           status = "success" => Backed(w, x.id, effects')
    PROVE  \E e : Publishes(w, e)
  <1>1. PICK id : id = x.id
    OBVIOUS
  <1>2. PICK p : p = [type |-> "ToolResulted", step |-> state[w].step, tool |-> id,
                      status |-> status]
    OBVIOUS
  <1>3. PICK e : e = Envelope(w, p)
    OBVIOUS
  <1>4. StartPublishing(w, p)
    BY <1>1, <1>2 DEF ToolResulted
  <1>5. IsState(state[w]) /\ state[w].seen # <<>> /\ ~IsTerminal(state[w])
    BY DriveFacts DEF LoopInv
  <1>6. /\ IsLogged(e) /\ Verdict(state[w], e) = "ok" /\ e.type = "ToolResulted"
        /\ e.tool = id /\ e.status = status
    BY <1>1, <1>2, <1>3, <1>5, PublishesResult DEF Envelope
  <1>7. Moves(w, "publish", state[w], e, 0) /\ e.id = <<w, NextSequence(state[w])>>
    BY <1>3, <1>4, PublishMoves DEF LoopInv
  <1>. QED
    BY <1>1, <1>6, <1>7 DEF Publishes

LEMMA UnfencedPublishes ==
    ASSUME LoopInv, NEW w \in Workers, RunUnfenced(w)
    PROVE  \E e : Publishes(w, e)
  <1>1. PICK x : x = InFlightTool(state[w])
    OBVIOUS
  <1>2. pc[w] = "drive" /\ NextAction(state[w]) = "RESOLVE_IN_FLIGHT_TOOL" /\ state' = state
        /\ log' = log /\ journal' = journal /\ limbo' = limbo /\ faults' = faults
        /\ calls' = calls /\ ~x.side
    BY <1>1 DEF RunUnfenced, Drives
  <1>3. PICK status \in {"success", "error"} :
            /\ StartPublishing(w, ToolResulted(w, status))
            /\ effects' = effects \/ effects' = effects \cup {<<x.id, w>>}
            /\ status = "success" => Backed(w, x.id, effects')
    <2>1. ASSUME effects' = effects \cup {<<x.id, w>>} PROVE Backed(w, x.id, effects')
      <3>1. <<x.id, w>> \in effects' /\ <<x.id, w>>[1] = x.id
        BY <2>1
      <3>. QED
        BY <3>1 DEF Backed, EffectIn
    <2>2. ~HasSideEffect(w, x.id) /\ Tool(x.id) \in Registered[w]
            => Backed(w, x.id, effects')
      BY DEF HasSideEffect, Backed
    <2>. QED
      BY <1>1, <2>1, <2>2 DEF RunUnfenced
  <1>. QED
    BY <1>1, <1>2, <1>3, ResultPublishes

(* The process of a worker is gone: it failed to start, found nothing to do  *)
(* on resume, gave up, or crashed.                                           *)
Leaves(w) ==
    /\ pc'[w] \in Places \ LivePlaces
    /\ Moves(w, pc'[w], EmptyState, NoEvent, 0)
    /\ log' = log /\ journal' = journal /\ calls' = calls /\ faults' \in 0..MaxFaults
    /\ pc'[w] # "idle" /\ (pc'[w] = "startup_failed" => pc[w] = "idle")
    /\ pc[w] = "idle" =>
         /\ effects' = effects
         /\ \/ pc'[w] = "startup_failed" /\ limbo' = limbo
            \/ /\ Started /\ limbo' \subseteq limbo
               /\ OneAtATime /\ ~LateWrites => limbo' = {} /\ \A v \in Workers : ~Live(v)
    /\ pc[w] # "idle" =>
         /\ Live(w)
         /\ limbo' = limbo \/ (pc[w] = "publish" /\ limbo' = limbo \cup {env[w]})
         /\ \/ effects' = effects
            \/ /\ pc[w] = "fence" /\ ~HasEffect(InFlightTool(state[w]).id)
               /\ effects' = effects \cup {<<InFlightTool(state[w]).id, w>>}
    /\ pc'[w] = "exit_fence_unavailable" => pc[w] = "fence"
    /\ pc'[w] = "exit_ok" => journal.err = "ok" /\ journal.state.status = "COMPLETED"

(* A worker goes on without publishing: it resumes a run, calls the fence,   *)
(* waits there while the tool takes effect, or tries to publish again.       *)
GoesOn(w) ==
    /\ log' = log /\ journal' = journal /\ calls' = calls /\ faults' \in 0..MaxFaults
    /\ \/ /\ pc[w] = "idle" /\ Started /\ effects' = effects /\ limbo' \subseteq limbo
          /\ OneAtATime /\ ~LateWrites => limbo' = {} /\ \A v \in Workers : ~Live(v)
          /\ journal.err = "ok" /\ ~IsTerminal(journal.state)
          /\ Moves(w, "drive", journal.state, env[w], tries[w])
       \/ /\ pc[w] = "drive" /\ NextAction(state[w]) = "RESOLVE_IN_FLIGHT_TOOL"
          /\ effects' = effects /\ limbo' = limbo
          /\ Moves(w, "fence", state[w], env[w], tries[w])
       \/ /\ pc[w] = "fence" /\ limbo' = limbo
          /\ ~HasEffect(InFlightTool(state[w]).id)
          /\ effects' = effects \cup {<<InFlightTool(state[w]).id, w>>}
          /\ Moves(w, "fence", state[w], env[w], tries[w])
       \/ /\ pc[w] = "publish" /\ effects' = effects /\ limbo' = limbo \cup {env[w]}
          /\ tries[w] + 1 < PublishMaxAttempts
          /\ Moves(w, "publish", state[w], env[w], tries[w] + 1)

(* The broker acknowledged, and the worker drives on or ends the run.        *)
Acked(w) ==
    /\ pc[w] = "publish" /\ AppendToLog(env[w])
    /\ limbo' = limbo /\ effects' = effects /\ calls' = calls /\ faults' = faults
    /\ \/ /\ ~IsTerminal(Applied(state[w], env[w]))
          /\ Moves(w, "drive", Applied(state[w], env[w]), NoEvent, 0)
       \/ /\ IsTerminal(Applied(state[w], env[w]))
          /\ pc'[w] = ExitCode(Applied(state[w], env[w]))
          /\ Moves(w, pc'[w], EmptyState, NoEvent, 0)

LEMMA FaultBound == ASSUME CountersType, Fault PROVE faults' \in 0..MaxFaults
  BY LoopAssumption DEF CountersType, Fault

LEMMA StayMoves ==
    ASSUME WorkersInv, NEW w \in Workers, NEW p, pc' = [pc EXCEPT ![w] = p],
           state' = state, env' = env, tries' = tries
    PROVE  Moves(w, p, state[w], env[w], tries[w])
  BY DEF WorkersInv, Moves

LEMMA ExitPlaces ==
    /\ {"startup_failed", "crashed", "exit_ok", "exit_failed", "exit_not_found",
        "exit_publish_failed", "exit_fence_unavailable"} \subseteq Places \ LivePlaces
    /\ \A s : ExitCode(s) \in {"exit_ok", "exit_failed"}
  BY DEF Places, LivePlaces, Exits, ExitCode

LEMMA ExitLeaves ==
    ASSUME LoopInv, NEW w \in Workers, NEW p, Exit(w, p),
           p \in {"startup_failed", "crashed", "exit_ok", "exit_failed", "exit_not_found",
                  "exit_publish_failed", "exit_fence_unavailable"}
    PROVE  /\ pc'[w] = p /\ p \in Places \ LivePlaces /\ p # "idle"
           /\ Moves(w, p, EmptyState, NoEvent, 0)
  <1>1. Moves(w, p, EmptyState, NoEvent, 0)
    BY ExitMoves DEF LoopInv
  <1>. QED
    BY <1>1, ExitPlaces DEF Moves

LEMMA ResumeKinds ==
    ASSUME LoopInv, NEW w \in Workers, ResumeRun(w)
    PROVE  Leaves(w) \/ GoesOn(w)
  <1>1. /\ pc[w] = "idle" /\ Started /\ log' = log /\ journal' = journal
        /\ effects' = effects /\ calls' = calls /\ faults' = faults
        /\ faults' \in 0..MaxFaults
    BY DEF ResumeRun, LoopInv, CountersType
  <1>2. /\ limbo' \subseteq limbo
        /\ OneAtATime /\ ~LateWrites => limbo' = {} /\ \A v \in Workers : ~Live(v)
    BY DEF ResumeRun
  <1>3. CASE journal.err = "run_not_found" /\ Exit(w, "exit_not_found")
    BY <1>1, <1>2, <1>3, ExitLeaves DEF Leaves
  <1>4. CASE journal.err \notin {"ok", "run_not_found"} /\ Exit(w, "exit_failed")
    BY <1>1, <1>2, <1>4, ExitLeaves DEF Leaves
  <1>5. CASE journal.err = "ok" /\ JournalTerminal /\ Exit(w, ExitCode(journal.state))
    <2>1. /\ pc'[w] = ExitCode(journal.state) /\ pc'[w] \in Places \ LivePlaces
          /\ pc'[w] # "idle" /\ Moves(w, pc'[w], EmptyState, NoEvent, 0)
      BY <1>5, ExitLeaves, ExitPlaces
    <2>2. pc'[w] \in {"exit_ok", "exit_failed"}
      BY <2>1, ExitPlaces
    <2>3. pc'[w] = "exit_ok" => journal.state.status = "COMPLETED"
      BY <2>1 DEF ExitCode
    <2>. QED
      BY <1>1, <1>2, <1>5, <2>1, <2>2, <2>3 DEF Leaves
  <1>6. CASE /\ journal.err = "ok" /\ ~JournalTerminal
             /\ pc' = [pc EXCEPT ![w] = "drive"]
             /\ state' = [state EXCEPT ![w] = journal.state]
             /\ env' = env /\ tries' = tries
    <2>1. Moves(w, "drive", journal.state, env[w], tries[w])
      BY <1>6 DEF LoopInv, WorkersInv, Moves
    <2>. QED
      BY <1>1, <1>2, <1>6, <2>1 DEF GoesOn, JournalTerminal
  <1>. QED
    BY <1>3, <1>4, <1>5, <1>6 DEF ResumeRun

LEMMA FencedKinds ==
    ASSUME LoopInv, NEW w \in Workers, RunFenced(w)
    PROVE  GoesOn(w) \/ \E e : Publishes(w, e)
  <1>1. /\ pc[w] = "drive" /\ NextAction(state[w]) = "RESOLVE_IN_FLIGHT_TOOL"
        /\ log' = log /\ journal' = journal /\ limbo' = limbo /\ effects' = effects
        /\ calls' = calls /\ faults' = faults /\ state' = state
        /\ faults' \in 0..MaxFaults
    BY DEF RunFenced, Drives, world, LoopInv, CountersType
  <1>2. CASE StartPublishing(w, RunFailed(w))
    BY <1>1, <1>2, EndPublishes DEF RunFailed
  <1>3. CASE pc' = [pc EXCEPT ![w] = "fence"] /\ env' = env /\ tries' = tries
    <2>1. Moves(w, "fence", state[w], env[w], tries[w])
      BY <1>1, <1>3, StayMoves DEF LoopInv
    <2>. QED
      BY <1>1, <2>1 DEF GoesOn
  <1>. QED
    BY <1>2, <1>3 DEF RunFenced

LEMMA AppliesKinds ==
    ASSUME LoopInv, NEW w \in Workers, FenceApplies(w)
    PROVE  Leaves(w) \/ GoesOn(w)
  <1>1. /\ pc[w] = "fence" /\ ~HasEffect(InFlightTool(state[w]).id)
        /\ effects' = effects \cup {<<InFlightTool(state[w]).id, w>>}
        /\ log' = log /\ journal' = journal /\ limbo' = limbo /\ calls' = calls
    BY DEF FenceApplies
  <1>2. CASE faults' = faults /\ pc' = pc /\ state' = state /\ env' = env /\ tries' = tries
    <2>1. Moves(w, "fence", state[w], env[w], tries[w])
      BY <1>1, <1>2 DEF LoopInv, WorkersInv, Moves
    <2>. QED
      BY <1>1, <1>2, <2>1 DEF GoesOn, LoopInv, CountersType
  <1>3. CASE Fault /\ Exit(w, "exit_fence_unavailable")
    <2>1. faults' \in 0..MaxFaults
      BY <1>3, FaultBound DEF LoopInv
    <2>2. /\ pc'[w] = "exit_fence_unavailable" /\ pc'[w] \in Places \ LivePlaces
          /\ Moves(w, pc'[w], EmptyState, NoEvent, 0)
      BY <1>3, ExitLeaves
    <2>. QED
      BY <1>1, <2>1, <2>2 DEF Leaves, Live
  <1>. QED
    BY <1>2, <1>3 DEF FenceApplies

LEMMA RepliesKinds ==
    ASSUME LoopInv, NEW w \in Workers, FenceReplies(w)
    PROVE  Leaves(w) \/ \E e : Publishes(w, e)
  <1>1. /\ pc[w] = "fence" /\ log' = log /\ journal' = journal /\ limbo' = limbo
        /\ effects' = effects /\ calls' = calls
    BY DEF FenceReplies
  <1>2. NextAction(state[w]) = "RESOLVE_IN_FLIGHT_TOOL"
    BY <1>1, DriveFacts DEF LoopInv
  <1>3. PICK x : x = InFlightTool(state[w])
    OBVIOUS
  <1>4. ASSUME NEW status \in {"success", "error"}, (status = "success") = HasEffect(x.id),
               StartPublishing(w, ToolResulted(w, status)), state' = state, faults' = faults
        PROVE  \E e : Publishes(w, e)
    <2>1. status = "success" => Backed(w, x.id, effects')
      BY <1>1, <1>4 DEF Backed, EffectIn, HasEffect
    <2>. QED
      BY <1>1, <1>2, <1>3, <1>4, <2>1, ResultPublishes
  <1>5. CASE StartPublishing(w, RunFailed(w)) /\ state' = state /\ faults' = faults
    BY <1>1, <1>5, EndPublishes DEF RunFailed
  <1>6. CASE Fault /\ Exit(w, "exit_fence_unavailable")
    <2>1. faults' \in 0..MaxFaults
      BY <1>6, FaultBound DEF LoopInv
    <2>2. /\ pc'[w] = "exit_fence_unavailable" /\ pc'[w] \in Places \ LivePlaces
          /\ Moves(w, pc'[w], EmptyState, NoEvent, 0)
      BY <1>6, ExitLeaves
    <2>. QED
      BY <1>1, <2>1, <2>2 DEF Leaves, Live
  <1>7. HasEffect(x.id) \in BOOLEAN
    BY DEF HasEffect
  <1>. QED
    BY <1>3, <1>4, <1>5, <1>6, <1>7 DEF FenceReplies

LEMMA CallKinds ==
    ASSUME LoopInv, NEW w \in Workers, CallLLM(w)
    PROVE  Leaves(w) \/ \E e : Publishes(w, e)
  <1>1. pc[w] = "drive" /\ NextAction(state[w]) = "CALL_LLM" /\ log' = log
        /\ journal' = journal /\ limbo' = limbo /\ effects' = effects
    BY DEF CallLLM, Drives
  <1>2. IsState(state[w]) /\ state[w].seen # <<>> /\ ~IsTerminal(state[w])
    BY <1>1, DriveFacts DEF LoopInv
  <1>3. CASE StartPublishing(w, RunFailed(w)) /\ UNCHANGED <<calls, state, faults>>
    BY <1>1, <1>3, EndPublishes DEF RunFailed
  <1>4. ASSUME NEW r \in Responses, calls < MaxCalls, calls' = calls + 1,
               StartPublishing(w,
                 [type |-> "LLMResponded", step |-> state[w].step + 1, stop |-> r.stop,
                  order |-> [i \in DOMAIN r.tools |->
                               [call |-> calls, pos |-> i, tool |-> r.tools[i]]]]),
               state' = state, faults' = faults
        PROVE  \E e : Publishes(w, e)
    <2>1. PICK n, t : n = calls /\ t = state[w] /\ n \in Nat
      BY LoopAssumption DEF LoopInv, CountersType
    <2>2. PICK o : o = Named(r, n)
      OBVIOUS
    <2>3. PICK p : p = [type |-> "LLMResponded", step |-> t.step + 1,
                        stop |-> r.stop, order |-> o]
      OBVIOUS
    <2>4. PICK e : e = Envelope(w, p)
      OBVIOUS
    <2>5. StartPublishing(w, p)
      BY <1>4, <2>1, <2>2, <2>3 DEF Named
    <2>6. /\ IsLogged(e) /\ Verdict(t, e) = "ok" /\ e.type = "LLMResponded"
          /\ e.order = o /\ \A id \in Ids(o) : id.call = n
      <3>1. e = Enveloped([seq |-> NextSequence(t), id |-> <<w, NextSequence(t)>>], p)
        BY <2>1, <2>4 DEF Envelope
      <3>2. IsState(t) /\ t.seen # <<>> /\ ~IsTerminal(t) /\ NextAction(t) = "CALL_LLM"
        BY <1>1, <1>2, <2>1
      <3>. QED
        BY <2>1, <2>2, <2>3, <3>1, <3>2, PublishesAnswer
    <2>7. Moves(w, "publish", state[w], e, 0) /\ e.id = <<w, NextSequence(state[w])>>
      BY <1>1, <1>4, <2>4, <2>5, PublishMoves DEF LoopInv
    <2>. QED
      BY <1>1, <1>4, <2>1, <2>6, <2>7 DEF Publishes
  <1>5. CASE Fault /\ Exit(w, "exit_failed") /\ calls' = calls
    <2>1. faults' \in 0..MaxFaults
      BY <1>5, FaultBound DEF LoopInv
    <2>2. /\ pc'[w] = "exit_failed" /\ pc'[w] \in Places \ LivePlaces
          /\ Moves(w, pc'[w], EmptyState, NoEvent, 0)
      BY <1>5, ExitLeaves
    <2>. QED
      BY <1>1, <1>5, <2>1, <2>2 DEF Leaves, Live
  <1>. QED
    BY <1>3, <1>4, <1>5 DEF CallLLM

LEMMA AckedKinds ==
    ASSUME LoopInv, NEW w \in Workers, PublishAcked(w)
    PROVE  Acked(w)
  <1>1. PICK s, e : s = state[w] /\ e = env[w]
    OBVIOUS
  <1>2. /\ pc[w] = "publish" /\ AppendToLog(e) /\ limbo' = limbo /\ effects' = effects
        /\ calls' = calls /\ faults' = faults
    BY <1>1 DEF PublishAcked
  <1>3. Verdict(s, e) = "ok"
    BY <1>1, <1>2 DEF LoopInv, WorkersInv, WorkerOK
  <1>4. PICK t : t = Applied(s, e)
    OBVIOUS
  <1>5. Apply(s, e).state = t
    BY <1>3, <1>4, ApplyKinds
  <1>6. CASE /\ ~IsTerminal(t) /\ pc' = [pc EXCEPT ![w] = "drive"]
             /\ state' = [state EXCEPT ![w] = t] /\ env' = [env EXCEPT ![w] = NoEvent]
             /\ tries' = [tries EXCEPT ![w] = 0]
    <2>1. Moves(w, "drive", t, NoEvent, 0)
      BY <1>6 DEF LoopInv, WorkersInv, Moves
    <2>. QED
      BY <1>1, <1>2, <1>4, <1>6, <2>1 DEF Acked
  <1>7. CASE IsTerminal(t) /\ Exit(w, ExitCode(t))
    <2>1. pc'[w] = ExitCode(t) /\ Moves(w, pc'[w], EmptyState, NoEvent, 0)
      BY <1>7, ExitLeaves, ExitPlaces
    <2>. QED
      BY <1>1, <1>2, <1>4, <1>7, <2>1 DEF Acked
  <1>. QED
    BY <1>1, <1>5, <1>6, <1>7 DEF PublishAcked

LEMMA UnansweredKinds ==
    ASSUME LoopInv, NEW w \in Workers, PublishUnanswered(w)
    PROVE  Leaves(w) \/ GoesOn(w)
  <1>1. /\ pc[w] = "publish" /\ limbo' = limbo \cup {env[w]} /\ effects' = effects
        /\ log' = log /\ journal' = journal /\ calls' = calls /\ faults' \in 0..MaxFaults
    BY FaultBound DEF PublishUnanswered, LoopInv
  <1>2. CASE /\ tries[w] + 1 < PublishMaxAttempts /\ tries' = [tries EXCEPT ![w] = tries[w] + 1]
             /\ pc' = pc /\ state' = state /\ env' = env
    <2>1. Moves(w, "publish", state[w], env[w], tries[w] + 1)
      BY <1>1, <1>2 DEF LoopInv, WorkersInv, Moves
    <2>. QED
      BY <1>1, <1>2, <2>1 DEF GoesOn
  <1>3. CASE Exit(w, "exit_publish_failed")
    BY <1>1, <1>3, ExitLeaves DEF Leaves, Live
  <1>. QED
    BY <1>2, <1>3 DEF PublishUnanswered

(* Every step is one of these.                                               *)
LEMMA StepKinds ==
    ASSUME LoopInv, Next
    PROVE  \/ \E w \in Workers : \E e : Publishes(w, e)
           \/ \E w \in Workers : Leaves(w) \/ GoesOn(w) \/ Acked(w)
           \/ \E e \in limbo : Land(e)
  <1>1. ASSUME NEW w \in Workers, StartupFails(w)
        PROVE  Leaves(w)
    <2>1. faults' \in 0..MaxFaults
      BY <1>1, FaultBound DEF LoopInv, StartupFails
    <2>. QED
      BY <1>1, <2>1, ExitLeaves DEF StartupFails, Leaves
  <1>2. ASSUME NEW w \in Workers, Crash(w)
        PROVE  Leaves(w)
    <2>1. faults' \in 0..MaxFaults
      BY <1>2, FaultBound DEF LoopInv, Crash
    <2>2. Live(w) /\ pc[w] # "idle"
      BY <1>2 DEF Crash, Live
    <2>. QED
      BY <1>2, <2>1, <2>2, ExitLeaves DEF Crash, Leaves
  <1>3. ASSUME NEW w \in Workers, FinishRun(w)
        PROVE  \E e : Publishes(w, e)
    <2>1. TerminalEvent(state[w]) \in {"RunCompleted", "RunFailed"}
      BY DEF TerminalEvent
    <2>. QED
      BY <1>3, <2>1, EndPublishes DEF FinishRun, Drives, world
  <1>4. ASSUME NEW w \in Workers, FailMaxSteps(w)
        PROVE  \E e : Publishes(w, e)
    BY <1>4, EndPublishes DEF FailMaxSteps, RunFailed, Drives, world
  <1>. QED
    BY <1>1, <1>2, <1>3, <1>4, StartPublishes, CallKinds, InvokePublishes,
       UnfencedPublishes, ResumeKinds, FencedKinds, AppliesKinds, RepliesKinds, AckedKinds,
       UnansweredKinds DEF Next, Step

-----------------------------------------------------------------------------
(* LoopInv is inductive, whoever else has the run and whenever writes land.  *)

LEMMA LoopInvInit == Init => LoopInv
  <1>1. SUFFICES ASSUME Init PROVE LoopInv
    OBVIOUS
  <1>2. Ids(log) = {} /\ log \in Seq(Ids(log))
    BY <1>1 DEF Init, Ids
  <1>3. JournalType
    BY <1>1, <1>2, EmptyIsState, NothingInvoked DEF Init, JournalType, NotFound
  <1>4. CountersType
    BY <1>1, LoopAssumption DEF Init, CountersType
  <1>5. "idle" \in Places \ LivePlaces
    BY DEF Places, LivePlaces
  <1>6. WorkersInv
    BY <1>1, <1>5, GoneIsOK, NothingInvoked DEF Init, WorkersInv
  <1>7. EffectsInv
    BY <1>1 DEF Init, EffectsInv, EffectIsJournaled
  <1>. QED
    BY <1>3, <1>4, <1>6, <1>7 DEF LoopInv

LEMMA PublishStep ==
    ASSUME LoopInv, NEW w \in Workers, NEW e, Publishes(w, e)
    PROVE  LoopInv'
  <1>1. JournalType'
    BY JournalStays DEF LoopInv, Publishes
  <1>2. CountersType'
    BY LoopAssumption DEF LoopInv, Publishes, CountersType
  <1>3. WorkersInv'
    <2>1. 0 \in 0..(PublishMaxAttempts - 1)
      BY LoopAssumption
    <2>2. IsState(state[w]) /\ InvokedIn(state[w], Ids(log))
      BY DEF LoopInv, WorkersInv, WorkerOK
    <2>3. "publish" \in Places /\ "publish" \in LivePlaces
      BY DEF Places, LivePlaces
    <2>4. WorkerOK("publish", state[w], e, 0)
      BY <2>1, <2>2, <2>3 DEF WorkerOK, Publishes
    <2>. QED
      BY <2>2, <2>4, MoveKeeps DEF LoopInv, Publishes
  <1>4. EffectsInv'
    <2>1. CASE effects' = effects
      BY <2>1, EffectsStay DEF LoopInv, Publishes
    <2>2. CASE effects' # effects
      <3>1. /\ NextAction(state[w]) = "RESOLVE_IN_FLIGHT_TOOL"
            /\ effects' = effects \cup {<<InFlightTool(state[w]).id, w>>}
            /\ e.type # "RunStarted" /\ log' = log
        BY <2>2 DEF Publishes
      <3>2. pc[w] \in {"drive", "fence"}
        BY <3>1 DEF Publishes
      <3>. QED
        BY <3>1, <3>2, EffectKeeps DEF LoopInv
    <2>. QED
      BY <2>1, <2>2
  <1>. QED
    BY <1>1, <1>2, <1>3, <1>4 DEF LoopInv

LEMMA LeaveStep ==
    ASSUME LoopInv, NEW w \in Workers, Leaves(w)
    PROVE  LoopInv'
  <1>1. JournalType'
    <2>1. pc[w] = "publish" => IsLogged(env[w])
      BY DEF LoopInv, WorkersInv, WorkerOK
    <2>. QED
      BY <2>1, JournalStays DEF LoopInv, Leaves
  <1>2. CountersType'
    BY DEF LoopInv, Leaves, CountersType
  <1>3. WorkersInv'
    BY GoneIsOK, NothingInvoked, MoveKeeps DEF LoopInv, Leaves
  <1>4. EffectsInv'
    <2>1. CASE effects' = effects
      BY <2>1, EffectsStay DEF LoopInv, Leaves
    <2>2. CASE effects' # effects
      <3>1. /\ pc[w] = "fence" /\ log' = log
            /\ effects' = effects \cup {<<InFlightTool(state[w]).id, w>>}
        BY <2>2 DEF Leaves
      <3>. QED
        BY <3>1, DriveFacts, EffectKeeps DEF LoopInv
    <2>. QED
      BY <2>1, <2>2
  <1>. QED
    BY <1>1, <1>2, <1>3, <1>4 DEF LoopInv

LEMMA GoOnStep ==
    ASSUME LoopInv, NEW w \in Workers, GoesOn(w)
    PROVE  LoopInv'
  <1>1. JournalType'
    <2>1. pc[w] = "publish" => IsLogged(env[w])
      BY DEF LoopInv, WorkersInv, WorkerOK
    <2>. QED
      BY <2>1, JournalStays DEF LoopInv, GoesOn
  <1>2. CountersType'
    BY DEF LoopInv, GoesOn, CountersType
  <1>3. WorkersInv'
    <2>1. /\ WorkerOK(pc[w], state[w], env[w], tries[w]) /\ InvokedIn(state[w], Ids(log))
          /\ WorkersInv /\ log' = log
      BY DEF LoopInv, WorkersInv, GoesOn
    <2>2. {"drive", "publish", "fence"} = LivePlaces /\ LivePlaces \subseteq Places
      BY DEF LivePlaces, Places
    <2>3. CASE /\ pc[w] = "idle" /\ journal.err = "ok" /\ ~IsTerminal(journal.state)
               /\ Moves(w, "drive", journal.state, env[w], tries[w])
      <3>1. /\ IsState(journal.state) /\ journal.state.seen # <<>>
            /\ InvokedIn(journal.state, Ids(log))
        BY <2>3 DEF LoopInv, JournalType
      <3>2. WorkerOK("drive", journal.state, env[w], tries[w])
        BY <2>1, <2>2, <2>3, <3>1 DEF WorkerOK
      <3>. QED
        BY <2>1, <2>3, <3>1, <3>2, MoveKeeps
    <2>4. CASE /\ pc[w] = "drive" /\ NextAction(state[w]) = "RESOLVE_IN_FLIGHT_TOOL"
               /\ Moves(w, "fence", state[w], env[w], tries[w])
      <3>1. WorkerOK("fence", state[w], env[w], tries[w])
        BY <2>1, <2>2, <2>4 DEF WorkerOK
      <3>. QED
        BY <2>1, <2>4, <3>1, MoveKeeps
    <2>5. CASE pc[w] = "fence" /\ Moves(w, "fence", state[w], env[w], tries[w])
      BY <2>1, <2>5, MoveKeeps
    <2>6. CASE /\ pc[w] = "publish" /\ tries[w] + 1 < PublishMaxAttempts
               /\ Moves(w, "publish", state[w], env[w], tries[w] + 1)
      <3>1. tries[w] + 1 \in 0..(PublishMaxAttempts - 1)
        BY <2>1, <2>6, LoopAssumption DEF WorkerOK
      <3>2. WorkerOK("publish", state[w], env[w], tries[w] + 1)
        BY <2>1, <2>2, <2>6, <3>1 DEF WorkerOK
      <3>. QED
        BY <2>1, <2>6, <3>2, MoveKeeps
    <2>. QED
      BY <2>3, <2>4, <2>5, <2>6 DEF GoesOn
  <1>4. EffectsInv'
    <2>1. CASE effects' = effects
      BY <2>1, EffectsStay DEF LoopInv, GoesOn
    <2>2. CASE effects' # effects
      <3>1. /\ pc[w] = "fence" /\ log' = log
            /\ effects' = effects \cup {<<InFlightTool(state[w]).id, w>>}
        BY <2>2 DEF GoesOn
      <3>. QED
        BY <3>1, DriveFacts, EffectKeeps DEF LoopInv
    <2>. QED
      BY <2>1, <2>2
  <1>. QED
    BY <1>1, <1>2, <1>3, <1>4 DEF LoopInv

LEMMA AckStep ==
    ASSUME LoopInv, NEW w \in Workers, Acked(w)
    PROVE  LoopInv'
  <1>1. PICK s, e, t : s = state[w] /\ e = env[w] /\ t = Applied(s, e)
    OBVIOUS
  <1>2. /\ pc[w] = "publish" /\ AppendToLog(e) /\ limbo' = limbo
        /\ effects' = effects /\ calls' = calls /\ faults' = faults
    BY <1>1 DEF Acked
  <1>3. /\ IsState(s) /\ IsLogged(e) /\ InvokedIn(s, Ids(log))
    BY <1>1, <1>2 DEF LoopInv, WorkersInv, WorkerOK
  <1>4. JournalType' /\ Ids(log') = Ids(log) \cup {e}
    BY <1>2, <1>3, AppendKeeps DEF LoopInv
  <1>5. WorkersInv'
    <2>1. InvokedIn(s, Ids(log')) /\ e \in Ids(log')
      BY <1>3, <1>4 DEF InvokedIn
    <2>2. IsState(t) /\ t.seen # <<>> /\ InvokedIn(t, Ids(log'))
      BY <1>1, <1>3, <2>1, AppliedState, InvokedAfter
    <2>3. CASE ~IsTerminal(t) /\ Moves(w, "drive", t, NoEvent, 0)
      <3>1. 0 \in 0..(PublishMaxAttempts - 1)
        BY LoopAssumption
      <3>2. WorkerOK("drive", t, NoEvent, 0)
        BY <2>2, <2>3, <3>1 DEF WorkerOK, Places, LivePlaces
      <3>. QED
        BY <1>4, <2>2, <2>3, <3>2, MoveKeeps DEF LoopInv
    <2>4. CASE pc'[w] = ExitCode(t) /\ Moves(w, pc'[w], EmptyState, NoEvent, 0)
      <3>1. pc'[w] \in Places \ LivePlaces
        BY <2>4, ExitPlaces
      <3>. QED
        BY <1>4, <2>4, <3>1, GoneIsOK, NothingInvoked, MoveKeeps DEF LoopInv
    <2>. QED
      BY <1>1, <2>3, <2>4 DEF Acked
  <1>6. EffectsInv'
    BY <1>2, <1>4, EffectsStay DEF LoopInv
  <1>. QED
    BY <1>2, <1>4, <1>5, <1>6 DEF LoopInv, CountersType

LEMMA LandStep ==
    ASSUME LoopInv, NEW e \in limbo, Land(e)
    PROVE  LoopInv' /\ Ids(log') = Ids(log) \cup {e}
  <1>1. /\ AppendToLog(e) /\ limbo' \subseteq limbo /\ IsLogged(e)
        /\ effects' = effects /\ calls' = calls /\ faults' = faults
        /\ pc' = pc /\ state' = state /\ env' = env /\ tries' = tries
    BY DEF Land, LoopInv, JournalType
  <1>2. JournalType' /\ Ids(log') = Ids(log) \cup {e}
    BY <1>1, AppendKeeps DEF LoopInv
  <1>3. WorkersInv'
    <2>1. ASSUME NEW v \in Workers
          PROVE  WorkerOK(pc[v], state[v], env[v], tries[v]) /\ InvokedIn(state[v], Ids(log'))
      BY <1>2 DEF LoopInv, WorkersInv, InvokedIn
    <2>. QED
      BY <1>1, <2>1 DEF LoopInv, WorkersInv
  <1>4. EffectsInv'
    BY <1>1, <1>2, EffectsStay DEF LoopInv
  <1>. QED
    BY <1>1, <1>2, <1>3, <1>4 DEF LoopInv, CountersType

LEMMA LoopInvNext == LoopInv /\ [Next]_vars => LoopInv'
  <1>1. SUFFICES ASSUME LoopInv, [Next]_vars PROVE LoopInv'
    OBVIOUS
  <1>2. CASE Next
    BY <1>1, <1>2, StepKinds, PublishStep, LeaveStep, GoOnStep, AckStep, LandStep
  <1>3. CASE UNCHANGED vars
    BY <1>1, <1>3 DEF vars, LoopInv, JournalType, CountersType, WorkersInv, EffectsInv,
                      EffectIsJournaled
  <1>. QED
    BY <1>1, <1>2, <1>3

(* Whoever has the run and whenever its writes land, a worker publishes only *)
(* what its own fold accepts, decides only from a run that has begun and not *)
(* ended, and its state holds no invocation that is not in the log.          *)
THEOREM LoopInvariant == Spec => []LoopInv
  BY LoopInvInit, LoopInvNext, PTL DEF Spec

(* The loop and its journal have their types.                                *)
THEOREM LoopTypes == Spec => []TypeOK
  <1>1. LoopInv => TypeOK
    <2>1. SUFFICES ASSUME LoopInv PROVE TypeOK
      OBVIOUS
    <2>2. \A e : IsLogged(e) => e.seq \in Nat /\ e.type # "none"
      BY DEF IsLogged, IsEvent, EventTypes, TerminalEvents
    <2>3. \A e \in limbo \cup Ids(log) : e.seq \in Nat /\ e.type # "none"
      BY <2>1, <2>2 DEF LoopInv, JournalType
    <2>4. \A e \in effects : e[2] \in Workers
      BY <2>1 DEF LoopInv, EffectsInv
    <2>5. ASSUME NEW w \in Workers
          PROVE  /\ pc[w] \in Exits \cup {"idle", "startup_failed", "crashed",
                                         "drive", "publish", "fence"}
                 /\ pc[w] = "publish" <=> env[w] # NoEvent
                 /\ tries[w] \in 0..(PublishMaxAttempts - 1)
      <3>1. WorkerOK(pc[w], state[w], env[w], tries[w])
        BY <2>1 DEF LoopInv, WorkersInv
      <3>2. NoEvent.type = "none"
        BY DEF NoEvent
      <3>3. pc[w] = "publish" => env[w] # NoEvent
        BY <2>2, <3>1, <3>2 DEF WorkerOK
      <3>. QED
        BY <3>1, <3>3 DEF WorkerOK, Places, LivePlaces
    <2>. QED
      BY <2>1, <2>3, <2>4, <2>5 DEF TypeOK, LoopInv, CountersType
  <1>. QED
    BY <1>1, LoopInvariant, PTL

(* Write-ahead: an effect exists only under a ToolInvoked in the log, even   *)
(* when two workers have the run and the log no longer folds.                *)
THEOREM WriteAhead == Spec => []EffectIsJournaled
  <1>1. LoopInv => EffectIsJournaled
    BY DEF LoopInv, EffectsInv
  <1>. QED
    BY <1>1, LoopInvariant, PTL

(* The journal that the loop's actions keep event by event is what a replay  *)
(* folds from the whole log, whatever was written to it and by whom: a       *)
(* resumed worker may be modelled as taking journal for its Fold.            *)
JournalIsFold == journal = Fold(log)

LEMMA JournalFolds ==
    ASSUME LoopInv, JournalIsFold, [Next]_vars
    PROVE  JournalIsFold'
  <1>1. log \in Seq(Ids(log))
    BY DEF LoopInv, JournalType
  <1>2. ASSUME NEW e, AppendToLog(e)
        PROVE  JournalIsFold'
    <2>1. Fold(Append(log, e)) = FoldStep(Fold(log), e)
      BY <1>1, FoldAppend
    <2>. QED
      BY <1>2, <2>1 DEF AppendToLog, JournalIsFold
  <1>3. CASE log' = log /\ journal' = journal
    BY <1>3 DEF JournalIsFold
  <1>4. CASE Next
    <2>1. ASSUME NEW w \in Workers, (\E e : Publishes(w, e)) \/ Leaves(w) \/ GoesOn(w)
          PROVE  log' = log /\ journal' = journal
      BY <2>1 DEF Publishes, Leaves, GoesOn
    <2>2. ASSUME NEW w \in Workers, Acked(w)
          PROVE  \E e : AppendToLog(e)
      BY <2>2 DEF Acked
    <2>3. ASSUME NEW e \in limbo, Land(e)
          PROVE  AppendToLog(e)
      BY <2>3 DEF Land
    <2>. QED
      BY <1>2, <1>3, <1>4, <2>1, <2>2, <2>3, StepKinds
  <1>5. CASE UNCHANGED vars
    BY <1>3, <1>5 DEF vars
  <1>. QED
    BY <1>4, <1>5

(* Replaying the log at any moment gives exactly journal.                    *)
THEOREM JournalIsReplay == Spec => []JournalIsFold
  <1>1. Init => JournalIsFold
    BY FoldEmpty DEF Init, JournalIsFold
  <1>2. LoopInv /\ JournalIsFold /\ [Next]_vars => JournalIsFold'
    BY JournalFolds
  <1>. QED
    BY <1>1, <1>2, LoopInvariant, PTL DEF Spec

-----------------------------------------------------------------------------
(* A run whose first tool call is journaled and has no result.               *)

LEMMA AfterEvent ==
    ASSUME NEW s, IsState(s), NEW e, IsLogged(e), NEW x, x = Applied(s, e)
    PROVE  /\ IsState(x) /\ x.seen # <<>>
           /\ NextSequence(x) = NextSequence(s) + 1
           /\ x.steps = StepsAfter(s, e)
           /\ e.type \notin TerminalEvents /\ ~IsTerminal(s) => ~IsTerminal(x)
  <1>1. s \in StateType(EventIds, ToolIds, Words) /\ IsEvent(e, EventIds, ToolIds, Words)
    BY DEF IsState, IsLogged
  <1>2. NextSequence(Applied(s, e)) = NextSequence(s) + 1
    BY <1>1, AppliedFields
  <1>3. Applied(s, e).steps = StepsAfter(s, e)
    BY <1>1, AppliedFields
  <1>4. e.type \notin TerminalEvents /\ ~IsTerminal(s) => ~IsTerminal(Applied(s, e))
    BY <1>1, AppliedStatus
  <1>5. IsState(Applied(s, e)) /\ Applied(s, e).seen # <<>>
    BY AppliedState
  <1>. QED
    BY <1>2, <1>3, <1>4, <1>5

LEMMA FirstCallJournaled ==
    ASSUME NEW w \in Workers, NEW id \in ToolIds, NEW a, NEW b, NEW c,
           a.type = "RunStarted", a.seq = 0, a.id = <<w, 0>>, a.maxSteps = MaxSteps,
           b.type = "LLMResponded", b.seq = 1, b.id = <<w, 1>>, b.step = 1,
           b.stop = "tool_use", b.order = <<id>>,
           c.type = "ToolInvoked", c.seq = 2, c.id = <<w, 2>>, c.tool = id, c.side = TRUE
    PROVE  /\ <<a, b, c>> \in Seq(Ids(<<a, b, c>>)) /\ Ids(<<a, b, c>>) = {a, b, c}
           /\ \A e \in {a, b, c} : IsLogged(e)
           /\ \E s : /\ Fold(<<a, b, c>>) = [err |-> "ok", state |-> s]
                    /\ IsState(s) /\ s.seen # <<>> /\ ~IsTerminal(s)
                    /\ InvokedIn(s, {a, b, c})
  <1>1. PICK r, t, u : r = <<a>> /\ t = <<a, b>> /\ u = <<a, b, c>>
    OBVIOUS
  <1>2. /\ r = Append(<<>>, a) /\ t = Append(r, b) /\ u = Append(t, c)
        /\ <<>> \in Seq(Ids(<<>>))
        /\ r \in Seq(Ids(r)) /\ t \in Seq(Ids(t))
        /\ u \in Seq(Ids(u)) /\ Ids(u) = {a, b, c}
    <2>1. Ids(<<>>) = {} /\ Ids(r) = {a} /\ Ids(t) = {a, b} /\ Ids(u) = {a, b, c}
      BY <1>1 DEF Ids
    <2>2. <<>> \in Seq({}) /\ r \in Seq({a}) /\ t \in Seq({a, b}) /\ u \in Seq({a, b, c})
      BY <1>1
    <2>3. r = Append(<<>>, a) /\ t = Append(r, b) /\ u = Append(t, c)
      BY <1>1
    <2>. QED
      BY <2>1, <2>2, <2>3, Zenon
  <1>4. /\ a.type = "RunStarted" /\ a.seq = 0 /\ a.id = <<w, 0>> /\ a.maxSteps = MaxSteps
        /\ b.type = "LLMResponded" /\ b.seq = 1 /\ b.id = <<w, 1>> /\ b.step = 1
        /\ b.stop = "tool_use" /\ b.order = <<id>>
        /\ c.type = "ToolInvoked" /\ c.seq = 2 /\ c.id = <<w, 2>> /\ c.tool = id
        /\ c.side = TRUE
    OBVIOUS
  <1>5. a.id \in EventIds /\ b.id \in EventIds /\ c.id \in EventIds
        /\ b.order \in Seq(ToolIds) /\ MaxSteps \in Int
    BY <1>4, LoopAssumption DEF EventIds
  <1>6. IsLogged(a) /\ IsLogged(b) /\ IsLogged(c)
    <2>1. /\ {"RunStarted", "LLMResponded", "ToolInvoked"} \subseteq EventTypes
          /\ "tool_use" \in Words
      BY DEF EventTypes, Words
    <2>2. IsLogged(a)
      BY <1>4, <1>5, <2>1 DEF IsLogged, IsEvent
    <2>3. IsLogged(b)
      BY <1>4, <1>5, <2>1 DEF IsLogged, IsEvent
    <2>4. IsLogged(c)
      <3>1. c.type \in EventTypes /\ c.seq \in Nat /\ c.type = "ToolInvoked"
        BY <1>4, <2>1
      <3>2. c.side \in BOOLEAN /\ c.tool \in ToolIds
        BY <1>4, Zenon
      <3>. QED
        BY <1>5, <3>1, <3>2 DEF IsLogged, IsEvent
    <2>. QED
      BY <2>2, <2>3, <2>4
  <1>7. PICK x : x = Applied(EmptyState, a)
    OBVIOUS
  <1>8. /\ IsState(EmptyState) /\ EmptyState.seen = <<>> /\ ~IsTerminal(EmptyState)
        /\ NextSequence(EmptyState) = 0 /\ EmptyState.steps = <<>>
    <2>1. EmptyState.seen = <<>> /\ EmptyState.steps = <<>>
      BY DEF EmptyState
    <2>2. NextSequence(EmptyState) = 0
      BY <2>1 DEF NextSequence
    <2>. QED
      BY <2>1, <2>2, EmptyIsState
  <1>9. /\ IsState(x) /\ x.seen # <<>> /\ ~IsTerminal(x) /\ NextSequence(x) = 1
        /\ x.steps = <<>>
    <2>1. a.type \notin TerminalEvents
      BY <1>4 DEF TerminalEvents
    <2>2. /\ IsState(x) /\ x.seen # <<>> /\ ~IsTerminal(x)
          /\ NextSequence(x) = NextSequence(EmptyState) + 1
          /\ x.steps = StepsAfter(EmptyState, a)
      BY <1>6, <1>7, <1>8, <2>1, AfterEvent
    <2>. QED
      BY <1>4, <1>8, <2>2 DEF StepsAfter
  <1>10. PICK y : y = Applied(x, b)
    OBVIOUS
  <1>11. /\ IsState(y) /\ y.seen # <<>> /\ ~IsTerminal(y) /\ NextSequence(y) = 2
         /\ y.steps = <<NewStep(b)>>
    <2>1. b.type \notin TerminalEvents
      BY <1>4 DEF TerminalEvents
    <2>2. /\ IsState(y) /\ y.seen # <<>> /\ ~IsTerminal(y)
          /\ NextSequence(y) = NextSequence(x) + 1
          /\ y.steps = StepsAfter(x, b)
      BY <1>6, <1>9, <1>10, <2>1, AfterEvent
    <2>3. y.steps = Append(<<>>, NewStep(b))
      BY <1>4, <1>9, <2>2 DEF StepsAfter
    <2>. QED
      BY <1>9, <2>2, <2>3
  <1>12. PICK z : z = Applied(y, c)
    OBVIOUS
  <1>13. IsState(z) /\ z.seen # <<>> /\ ~IsTerminal(z)
    <2>1. c.type \notin TerminalEvents
      BY <1>4 DEF TerminalEvents
    <2>. QED
      BY <1>6, <1>11, <1>12, <2>1, AfterEvent
  <1>14. /\ Verdict(EmptyState, a) = "ok" /\ Verdict(x, b) = "ok" /\ Verdict(y, c) = "ok"
    <2>1. BadPayload(EmptyState, a) = "ok" /\ BadPayload(x, b) = "ok"
      BY <1>4, <1>9 DEF BadPayload
    <2>2. Last(y) = NewStep(b)
      BY <1>11 DEF Last
    <2>3. NewStep(b).order = <<id>> /\ NewStep(b).invoked = {}
      BY <1>4 DEF NewStep
    <2>4. id \in Ids(<<id>>) /\ y.steps # <<>>
      BY <1>11 DEF Ids
    <2>5. BadPayload(y, c) = "ok"
      BY <1>4, <2>2, <2>3, <2>4 DEF BadPayload, BadToolEvent, InCurrentStep, IsInvoked
    <2>. QED
      BY <1>4, <1>8, <1>9, <1>11, <2>1, <2>5, Fits
  <1>15. InvokedIn(z, {a, b, c})
    BY <1>6, <1>7, <1>8, <1>9, <1>10, <1>11, <1>12, InvokedAfter, NothingInvoked
  <1>16. Fold(u) = [err |-> "ok", state |-> z]
    <2>1. Fold(r) = FoldStep(NotFound, a)
      BY <1>2, FoldAppend, FoldEmpty, Zenon
    <2>2. NotFound.err = "run_not_found" /\ NotFound.state = EmptyState
      BY DEF NotFound
    <2>3. Fold(r) = [err |-> "ok", state |-> x]
      BY <1>7, <1>14, <2>1, <2>2, FoldStepKinds
    <2>4. Fold(t) = FoldStep(Fold(r), b)
      BY <1>2, FoldAppend, Zenon
    <2>5. Fold(t) = [err |-> "ok", state |-> y]
      BY <1>10, <1>14, <2>3, <2>4, FoldStepKinds
    <2>6. Fold(u) = FoldStep(Fold(t), c)
      BY <1>2, FoldAppend, Zenon
    <2>. QED
      BY <1>12, <1>14, <2>5, <2>6, FoldStepKinds
  <1>. QED
    BY <1>1, <1>2, <1>6, <1>13, <1>15, <1>16, Zenon

-----------------------------------------------------------------------------
(* What a success in the journal rests on, however many workers have the run. *)

Substantiated(e, E) ==
    e.type = "ToolResulted" /\ e.status = "success" =>
        \E w \in Workers : Backed(w, e.tool, E)

(* A success in the journal is of a tool whose effect exists, or of one that *)
(* has none.  No worker, alone or not, journals a success on hearsay.        *)
SuccessIsBacked == \A e \in Ids(log) : Substantiated(e, effects)

SuccessInv ==
    /\ SuccessIsBacked
    /\ \A e \in limbo : Substantiated(e, effects)
    /\ \A w \in Workers : Substantiated(env[w], effects)

LEMMA BackedStays ==
    ASSUME NEW E, NEW F, E \subseteq F, NEW e, Substantiated(e, E)
    PROVE  Substantiated(e, F)
  BY DEF Substantiated, Backed, EffectIn

LEMMA SuccessInvNext ==
    ASSUME LoopInv, SuccessInv, [Next]_vars
    PROVE  SuccessInv'
  <1>1. \A e \in Ids(log) \cup limbo : Substantiated(e, effects)
    BY DEF SuccessInv, SuccessIsBacked
  <1>2. \A w \in Workers : Substantiated(env[w], effects)
    BY DEF SuccessInv
  <1>3. Substantiated(NoEvent, effects')
    BY DEF Substantiated, NoEvent
  <1>4. ASSUME effects \subseteq effects', Ids(log') \cup limbo' \subseteq
                 Ids(log) \cup limbo \cup {env[w] : w \in Workers},
               \A w \in Workers : env'[w] = env[w] \/ Substantiated(env'[w], effects')
        PROVE  SuccessInv'
    <2>1. \A e \in Ids(log) \cup limbo : Substantiated(e, effects')
      BY <1>1, <1>4, BackedStays
    <2>2. \A w \in Workers : Substantiated(env[w], effects')
      BY <1>2, <1>4, BackedStays
    <2>3. \A e \in Ids(log') \cup limbo' : Substantiated(e, effects')
      BY <1>4, <2>1, <2>2
    <2>4. \A w \in Workers : Substantiated(env'[w], effects')
      BY <1>4, <2>2
    <2>. QED
      BY <2>3, <2>4 DEF SuccessInv, SuccessIsBacked
  <1>5. ASSUME NEW w \in Workers, NEW e, Publishes(w, e)
        PROVE  SuccessInv'
    <2>1. effects \subseteq effects' /\ Ids(log') = Ids(log) /\ limbo' = limbo
      BY <1>5 DEF Publishes
    <2>2. Substantiated(e, effects')
      BY <1>5 DEF Publishes, Substantiated
    <2>3. \A v \in Workers : env'[v] = env[v] \/ env'[v] = e
      BY <1>5 DEF Publishes, Moves
    <2>. QED
      BY <1>4, <2>1, <2>2, <2>3
  <1>6. ASSUME NEW w \in Workers, Leaves(w)
        PROVE  SuccessInv'
    <2>1. effects \subseteq effects' /\ Ids(log') = Ids(log)
          /\ limbo' \subseteq limbo \cup {env[v] : v \in Workers}
      BY <1>6 DEF Leaves
    <2>2. \A v \in Workers : env'[v] = env[v] \/ env'[v] = NoEvent
      BY <1>6 DEF Leaves, Moves
    <2>. QED
      BY <1>3, <1>4, <2>1, <2>2
  <1>7. ASSUME NEW w \in Workers, GoesOn(w)
        PROVE  SuccessInv'
    <2>1. effects \subseteq effects' /\ Ids(log') = Ids(log)
          /\ limbo' \subseteq limbo \cup {env[v] : v \in Workers}
      BY <1>7 DEF GoesOn
    <2>2. \A v \in Workers : env'[v] = env[v]
      BY <1>7 DEF GoesOn, Moves
    <2>. QED
      BY <1>4, <2>1, <2>2
  <1>8. ASSUME NEW w \in Workers, Acked(w)
        PROVE  SuccessInv'
    <2>1. Ids(log') = Ids(log) \cup {env[w]}
      BY <1>8, AppendIds DEF Acked, AppendToLog, LoopInv, JournalType
    <2>2. effects' = effects /\ limbo' = limbo
      BY <1>8 DEF Acked
    <2>3. \A v \in Workers : env'[v] = env[v] \/ env'[v] = NoEvent
      BY <1>8 DEF Acked, Moves
    <2>. QED
      BY <1>3, <1>4, <2>1, <2>2, <2>3
  <1>9. ASSUME NEW e \in limbo, Land(e)
        PROVE  SuccessInv'
    <2>1. Ids(log') = Ids(log) \cup {e}
      BY <1>9, AppendIds DEF Land, AppendToLog, LoopInv, JournalType
    <2>. QED
      BY <1>4, <1>9, <2>1 DEF Land
  <1>10. CASE UNCHANGED vars
    BY <1>4, <1>10 DEF vars
  <1>. QED
    BY <1>5, <1>6, <1>7, <1>8, <1>9, <1>10, StepKinds

(* A success in the journal rests on an effect, or is of a tool without one, *)
(* even when two workers have the run, writes land late and the log no       *)
(* longer folds.                                                             *)
THEOREM SuccessBacked == Spec => []SuccessIsBacked
  <1>1. Init => SuccessInv
    BY DEF Init, SuccessInv, SuccessIsBacked, Substantiated, NoEvent, Ids
  <1>2. LoopInv /\ SuccessInv /\ [Next]_vars => SuccessInv'
    BY SuccessInvNext
  <1>3. SuccessInv => SuccessIsBacked
    BY DEF SuccessInv
  <1>. QED
    BY <1>1, <1>2, <1>3, LoopInvariant, PTL DEF Spec

-----------------------------------------------------------------------------
(* What every LLM call is based on, however many workers have the run.       *)

(* Every step but the last called tools and has all their results.           *)
Spoken(s) == \A i \in DOMAIN s.steps : i < Len(s.steps) => s.steps[i].order # <<>>
Complete(s) == Spoken(s) /\ ClosedButLast(s)

(* A log that folds so far.                                                  *)
Folds(r) == r.err \in {"ok", "run_not_found"}

(* The fold has the event's id at its place.                                 *)
Seen(s, e) == e.seq < Len(s.seen) /\ s.seen[e.seq + 1] = e.id

(* A worker in state s is not ahead of the log's fold t, and where they have *)
(* seen as many events they are equal; when t has just moved by the event e  *)
(* that s is about to take, then s will move to t.                           *)
Behind(s, t) == NextSequence(s) <= NextSequence(t) /\ (NextSequence(s) = NextSequence(t) => s = t)
MovesAlike(s, e, t) ==
    NextSequence(t) = NextSequence(s) + 1 /\ t.seen[NextSequence(t)] = e.id =>
        t = Applied(s, e)

(* An answer of the LLM that the log takes is one to a call it asked for.    *)
Answers(e, t) ==
    e.type = "LLMResponded" =>
        /\ e.seq <= NextSequence(t)
        /\ e.seq = NextSequence(t) => NextAction(t) = "CALL_LLM"

(* One worker: S are the events that were sent, r the journal.               *)
PathOK(w, p, s, e, S, r) ==
    /\ Complete(s)
    /\ \A f \in S : f.id[1] = w =>
         /\ p # "idle"
         /\ p \in LivePlaces => f.id[2] < NextSequence(s) \/ (p = "publish" /\ f = e)
    /\ p = "publish" => /\ e.id = <<w, NextSequence(s)>>
                        /\ e.type = "LLMResponded" => NextAction(s) = "CALL_LLM"
    /\ p \in LivePlaces /\ Folds(r) => Behind(s, r.state)
    /\ p = "publish" /\ Folds(r) => MovesAlike(s, e, r.state)

SeenIsLogged ==
    \A i \in DOMAIN journal.state.seen : \E f \in Ids(log) : f.id = journal.state.seen[i]

PathInv ==
    /\ SeenIsLogged
    /\ Complete(journal.state)
    /\ \A w \in Workers : PathOK(w, pc[w], state[w], env[w], Ids(log) \cup limbo, journal)
    /\ Folds(journal) => \A e \in limbo : Answers(e, journal.state)

LEMMA CompleteAfter ==
    ASSUME NEW s, IsState(s), NEW e, IsLogged(e), Verdict(s, e) = "ok", Complete(s),
           e.type = "LLMResponded" => NextAction(s) = "CALL_LLM"
    PROVE  Complete(Applied(s, e))
  <1>1. PICK t, u, q : t = Applied(s, e) /\ u = t.steps /\ q = s.steps
    OBVIOUS
  <1>2. StepsMoved(q, u, e)
    BY <1>1, StepsMove
  <1>3. PICK m \in Nat : m = Len(u) /\ DOMAIN u = 1..m
    BY <1>1, AppliedState DEF IsState, StateType
  <1>4. PICK n \in Nat : n = Len(q) /\ DOMAIN q = 1..n
    BY <1>2 DEF StepsMoved
  <1>5. ClosedButLast(t) /\ \A i \in 1..n : u[i].order = q[i].order
    BY <1>1, <1>2, <1>4, ClosedSteps DEF StepsMoved, IsState, IsLogged, Complete
  <1>6. \A i \in 1..n : i < n => q[i].order # <<>>
    BY <1>1, <1>4 DEF Complete, Spoken
  <1>7. \A i \in 1..m : i < m => u[i].order # <<>>
    <2>1. CASE e.type = "LLMResponded"
      <3>1. 1..m = 1..(n + 1)
        BY <1>2, <1>3, <1>4, <2>1 DEF StepsMoved
      <3>2. m = n + 1
        BY <3>1
      <3>3. n \in 1..n => q[n].order # <<>>
        <4>1. n \in 1..n => q # <<>>
          BY <1>4
        <4>2. NextAction(s) = "CALL_LLM" => q = <<>> \/ Last(s).order # <<>>
          BY <1>1 DEF NextAction
        <4>. QED
          BY <1>1, <1>4, <2>1, <4>1, <4>2 DEF Last
      <3>4. \A i \in 1..m : i < m => i \in 1..n /\ (i < n \/ i = n)
        BY <3>2
      <3>. QED
        BY <1>5, <1>6, <3>3, <3>4
    <2>2. CASE e.type # "LLMResponded"
      <3>1. 1..m = 1..n
        BY <1>2, <1>3, <1>4, <2>2 DEF StepsMoved
      <3>2. m = n
        BY <3>1
      <3>. QED
        BY <1>5, <1>6, <3>2
    <2>. QED
      BY <2>1, <2>2
  <1>. QED
    BY <1>1, <1>3, <1>5, <1>7 DEF Complete, Spoken

LEMMA EmptyIsComplete == Complete(EmptyState)
  <1>1. EmptyState.steps = <<>> /\ Len(<<>>) = 0 /\ DOMAIN <<>> = {}
    BY DEF EmptyState
  <1>2. 1..(0 - 1) = {}
    OBVIOUS
  <1>. QED
    BY <1>1, <1>2 DEF Complete, Spoken, ClosedButLast

(* What the journal does with one more event.                                *)
LEMMA JournalTakes ==
    ASSUME JournalType, NEW e, IsLogged(e), AppendToLog(e)
    PROVE  \/ ~Folds(journal') /\ journal'.state = journal.state
           \/ Folds(journal) /\ Seen(journal.state, e) /\ journal'.state = journal.state
           \/ /\ Folds(journal) /\ Verdict(journal.state, e) = "ok"
              /\ journal'.state = Applied(journal.state, e)
  <1>1. PICK r, s : r = journal /\ s = r.state /\ IsState(s) /\ journal' = FoldStep(r, e)
    BY DEF JournalType, AppendToLog
  <1>2. CASE r.err \in {"ok", "run_not_found"} /\ Verdict(s, e) = "ok"
             /\ FoldStep(r, e) = [err |-> "ok", state |-> Applied(s, e)]
    BY <1>1, <1>2 DEF Folds
  <1>3. CASE r.err \in {"ok", "run_not_found"} /\ Verdict(s, e) = "redelivery"
             /\ FoldStep(r, e) = [err |-> "ok", state |-> s]
    <2>1. Seen(s, e)
      BY <1>1, <1>3, RedeliveryIsSeen DEF Seen, NextSequence
    <2>. QED
      BY <1>1, <1>3, <2>1 DEF Folds
  <1>4. CASE Verdict(s, e) \notin {"ok", "redelivery"}
             /\ FoldStep(r, e) = [err |-> Verdict(s, e), state |-> s]
    <2>1. Verdict(s, e) # "run_not_found"
      BY DEF Verdict, Structural, BadPayload, BadToolEvent
    <2>2. journal'.err = Verdict(s, e) /\ journal'.state = s
      BY <1>1, <1>4
    <2>. QED
      BY <1>1, <1>4, <2>1, <2>2 DEF Folds
  <1>5. CASE r.err \notin {"ok", "run_not_found"} /\ FoldStep(r, e) = r
    BY <1>1, <1>5 DEF Folds
  <1>. QED
    BY <1>1, <1>2, <1>3, <1>4, <1>5, FoldStepKinds

(* A fold grows by one id when it takes an event.                            *)
LEMMA Grows ==
    ASSUME NEW s, IsState(s), NEW e, IsLogged(e), NEW t, t = Applied(s, e)
    PROVE  /\ NextSequence(s) \in Nat /\ NextSequence(t) = NextSequence(s) + 1
           /\ DOMAIN s.seen = 1..NextSequence(s) /\ DOMAIN t.seen = 1..NextSequence(t)
           /\ t.seen[NextSequence(t)] = e.id
           /\ \A i \in DOMAIN s.seen : t.seen[i] = s.seen[i]
  <1>1. PICK q, x, u : q = s.seen /\ x = e.id /\ u = t.seen
    OBVIOUS
  <1>2. u = Append(q, x) /\ q \in Seq(EventIds) /\ x \in EventIds
    <2>1. u = Append(q, x)
      BY <1>1, AppliedFields DEF IsState, IsLogged
    <2>. QED
      BY <1>1, <2>1 DEF IsState, IsLogged, StateType, IsEvent
  <1>3. /\ Len(q) \in Nat /\ Len(u) = Len(q) + 1 /\ DOMAIN q = 1..Len(q) /\ DOMAIN u = 1..Len(u)
        /\ u[Len(u)] = x /\ \A i \in DOMAIN q : u[i] = q[i]
    BY <1>2
  <1>. QED
    BY <1>1, <1>3 DEF NextSequence

(* A worker whose own values stay: others send events, and the journal takes *)
(* at most one, which is not another one under the worker's next id.         *)
LEMMA PathStays ==
    ASSUME NEW w \in Workers, NEW p, NEW s, IsState(s), NEW e, NEW S, NEW r, IsState(r.state),
           PathOK(w, p, s, e, S, r), NEW S2, NEW r2,
           \A f \in S2 : f \in S \/ f.id[1] # w \/ (p = "publish" /\ f = e),
           Folds(r2) =>
             /\ Folds(r)
             /\ \/ r2.state = r.state
                \/ \E f : /\ IsLogged(f) /\ r2.state = Applied(r.state, f)
                          /\ f \in S \/ f.id[1] # w
    PROVE  PathOK(w, p, s, e, S2, r2)
  <1>1. \A f \in S2 : f.id[1] = w =>
          /\ p # "idle"
          /\ p \in LivePlaces => f.id[2] < NextSequence(s) \/ (p = "publish" /\ f = e)
    BY DEF PathOK
  <1>2. ASSUME Folds(r2), p \in LivePlaces
        PROVE  Behind(s, r2.state) /\ (p = "publish" => MovesAlike(s, e, r2.state))
    <2>1. Behind(s, r.state) /\ (p = "publish" => MovesAlike(s, e, r.state))
      BY <1>2 DEF PathOK
    <2>2. CASE r2.state = r.state
      BY <2>1, <2>2
    <2>3. ASSUME NEW f, IsLogged(f), r2.state = Applied(r.state, f), f \in S \/ f.id[1] # w
          PROVE  Behind(s, r2.state) /\ (p = "publish" => MovesAlike(s, e, r2.state))
      <3>1. PICK t, u : t = r.state /\ u = Applied(t, f) /\ u = r2.state
        BY <2>3
      <3>2. /\ NextSequence(t) \in Nat /\ NextSequence(u) = NextSequence(t) + 1
            /\ u.seen[NextSequence(u)] = f.id
        BY <2>3, <3>1, Grows
      <3>3. NextSequence(s) \in Nat
        BY DEF IsState, StateType, NextSequence
      <3>4. Behind(s, u)
        BY <2>1, <3>1, <3>2, <3>3 DEF Behind
      <3>5. ASSUME p = "publish", NextSequence(u) = NextSequence(s) + 1, f.id = e.id
            PROVE  u = Applied(s, e)
        <4>1. s = t
          BY <2>1, <3>1, <3>2, <3>3, <3>5 DEF Behind
        <4>2. f.id[1] = w /\ f.id[2] = NextSequence(s)
          BY <3>5 DEF PathOK
        <4>3. f \in S
          BY <2>3, <4>2
        <4>4. f = e
          BY <1>2, <3>3, <4>2, <4>3 DEF PathOK
        <4>. QED
          BY <3>1, <4>1, <4>4
      <3>. QED
        BY <3>1, <3>2, <3>4, <3>5 DEF MovesAlike
    <2>. QED
      BY <1>2, <2>2, <2>3
  <1>3. p = "publish" => p \in LivePlaces
    BY DEF LivePlaces
  <1>. QED
    BY <1>1, <1>2, <1>3 DEF PathOK

(* What a worker publishes answers the call its state asked for.             *)
LEMMA OwnAnswers ==
    ASSUME NEW w, NEW s, IsState(s), NEW e, IsLogged(e), NEW S, NEW r,
           PathOK(w, "publish", s, e, S, r), Verdict(s, e) = "ok", Folds(r)
    PROVE  Answers(e, r.state)
  <1>1. e.seq = NextSequence(s)
    BY Accepted DEF IsState, IsLogged
  <1>2. Behind(s, r.state)
    BY DEF PathOK, LivePlaces
  <1>. QED
    BY <1>1, <1>2 DEF Answers, Behind, PathOK

(* A step of w that leaves the log alone.                                    *)
LEMMA PathMove ==
    ASSUME LoopInv, PathInv, NEW w \in Workers, NEW p, NEW s, NEW e, NEW t, Moves(w, p, s, e, t),
           log' = log, journal' = journal,
           \A f \in limbo' : f \in limbo \/ (pc[w] = "publish" /\ f = env[w]),
           PathOK(w, p, s, e, Ids(log) \cup limbo', journal)
    PROVE  PathInv'
  <1>1. PICK S, S2 : S = Ids(log) \cup limbo /\ S2 = Ids(log) \cup limbo'
    OBVIOUS
  <1>2. ASSUME NEW v \in Workers
        PROVE  PathOK(v, pc'[v], state'[v], env'[v], S2, journal)
    <2>1. CASE v = w
      BY <1>1, <2>1 DEF Moves
    <2>2. CASE v # w
      <3>1. PICK q, x, y : q = pc[v] /\ x = state[v] /\ y = env[v]
        OBVIOUS
      <3>2. q = pc'[v] /\ x = state'[v] /\ y = env'[v]
        BY <2>2, <3>1 DEF Moves
      <3>3. IsState(x) /\ IsState(journal.state) /\ PathOK(v, q, x, y, S, journal)
        BY <1>1, <3>1 DEF LoopInv, JournalType, WorkersInv, WorkerOK, PathInv
      <3>4. \A f \in S2 : f \in S \/ f.id[1] # v
        <4>1. pc[w] = "publish" => env[w].id = <<w, NextSequence(state[w])>>
          BY DEF PathInv, PathOK
        <4>. QED
          BY <1>1, <2>2, <4>1
      <3>5. PathOK(v, q, x, y, S2, journal)
        BY <3>3, <3>4, PathStays
      <3>. QED
        BY <3>2, <3>5
    <2>. QED
      BY <2>1, <2>2
  <1>3. Folds(journal) /\ pc[w] = "publish" => Answers(env[w], journal.state)
    <2>1. SUFFICES ASSUME Folds(journal), pc[w] = "publish"
                   PROVE  Answers(env[w], journal.state)
      OBVIOUS
    <2>2. PICK x, y : x = state[w] /\ y = env[w]
      OBVIOUS
    <2>3. /\ IsState(x) /\ IsLogged(y) /\ Verdict(x, y) = "ok"
          /\ PathOK(w, "publish", x, y, S2, journal) \/ PathOK(w, "publish", x, y, S, journal)
      BY <1>1, <2>1, <2>2 DEF LoopInv, WorkersInv, WorkerOK, PathInv
    <2>. QED
      BY <2>1, <2>2, <2>3, OwnAnswers
  <1>4. \A f \in limbo' : Folds(journal) => Answers(f, journal.state)
    BY <1>3 DEF PathInv
  <1>5. SeenIsLogged' /\ Complete(journal'.state)
    BY DEF PathInv, SeenIsLogged
  <1>. QED
    BY <1>1, <1>2, <1>4, <1>5 DEF PathInv

(* The journal of a run that has not begun.                                  *)
LEMMA NothingBehind ==
    ASSUME JournalType, Folds(journal)
    PROVE  Behind(EmptyState, journal.state)
  <1>1. NextSequence(EmptyState) = 0
    BY EmptyIsState DEF NextSequence
  <1>2. CASE journal.err = "run_not_found"
    <2>1. journal.state = EmptyState
      BY <1>2 DEF JournalType, NotFound
    <2>. QED
      BY <1>1, <2>1 DEF Behind
  <1>3. CASE journal.err = "ok"
    <2>1. PICK q : q = journal.state.seen /\ q \in Seq(EventIds) /\ q # <<>>
      BY <1>3 DEF JournalType, IsState, StateType
    <2>2. Len(q) \in Nat /\ Len(q) # 0
      BY <2>1
    <2>. QED
      BY <1>1, <2>1, <2>2 DEF Behind, NextSequence
  <1>. QED
    BY <1>2, <1>3 DEF Folds

LEMMA PathPublish ==
    ASSUME LoopInv, PathInv, NEW w \in Workers, NEW e, Publishes(w, e)
    PROVE  PathInv'
  <1>1. PICK s, p, S, n : s = state[w] /\ p = pc[w] /\ S = Ids(log) \cup limbo /\ n = NextSequence(s)
    OBVIOUS
  <1>2. /\ p \in {"idle", "drive", "fence"} /\ Moves(w, "publish", s, e, 0)
        /\ log' = log /\ journal' = journal /\ limbo' = limbo /\ e.id = <<w, n>>
        /\ e.type = "LLMResponded" => NextAction(s) = "CALL_LLM"
    BY <1>1 DEF Publishes
  <1>3. /\ IsState(s) /\ IsState(journal.state) /\ (p = "idle" => s = EmptyState)
        /\ PathOK(w, p, s, env[w], S, journal)
    BY <1>1 DEF LoopInv, JournalType, WorkersInv, WorkerOK, PathInv, LivePlaces
  <1>4. \A f \in S : f.id[1] = w => f.id[2] < n
    BY <1>1, <1>2, <1>3 DEF PathOK, LivePlaces
  <1>5. n \in Nat
    BY <1>1, <1>3 DEF IsState, StateType, NextSequence
  <1>6. Folds(journal) => Behind(s, journal.state)
    <2>1. CASE p = "idle"
      BY <1>3, <2>1, NothingBehind DEF LoopInv
    <2>2. CASE p # "idle"
      BY <1>2, <1>3, <2>2 DEF PathOK, LivePlaces
    <2>. QED
      BY <2>1, <2>2
  <1>7. MovesAlike(s, e, journal.state)
    <2>1. PICK t : t = journal.state /\ IsState(t)
      BY <1>3
    <2>2. DOMAIN t.seen = 1..NextSequence(t)
      BY <2>1 DEF IsState, StateType, NextSequence
    <2>3. ASSUME NextSequence(t) = n + 1, t.seen[NextSequence(t)] = <<w, n>>
          PROVE  FALSE
      <3>1. NextSequence(t) \in DOMAIN t.seen
        BY <1>5, <2>2, <2>3
      <3>2. PICK f \in S : f.id = <<w, n>>
        BY <1>1, <2>1, <2>3, <3>1 DEF PathInv, SeenIsLogged
      <3>. QED
        BY <1>4, <1>5, <3>2
    <2>. QED
      BY <1>1, <1>2, <2>1, <2>3 DEF MovesAlike
  <1>8. PathOK(w, "publish", s, e, S, journal)
    BY <1>1, <1>2, <1>3, <1>4, <1>6, <1>7 DEF PathOK
  <1>. QED
    BY <1>1, <1>2, <1>8, PathMove

LEMMA PathLeave ==
    ASSUME LoopInv, PathInv, NEW w \in Workers, Leaves(w)
    PROVE  PathInv'
  <1>1. PICK p : p = pc'[w]
    OBVIOUS
  <1>2. /\ p \notin LivePlaces /\ p # "idle" /\ Moves(w, p, EmptyState, NoEvent, 0)
        /\ log' = log /\ journal' = journal
        /\ \A f \in limbo' : f \in limbo \/ (pc[w] = "publish" /\ f = env[w])
    BY <1>1 DEF Leaves
  <1>3. PathOK(w, p, EmptyState, NoEvent, Ids(log) \cup limbo', journal)
    BY <1>2, EmptyIsComplete DEF PathOK, LivePlaces
  <1>. QED
    BY <1>2, <1>3, PathMove

LEMMA PathGoOn ==
    ASSUME LoopInv, PathInv, NEW w \in Workers, GoesOn(w)
    PROVE  PathInv'
  <1>1. PICK s, p, e, S, S2, t : /\ s = state[w] /\ p = pc[w] /\ e = env[w] /\ t = journal.state
                                /\ S = Ids(log) \cup limbo /\ S2 = Ids(log) \cup limbo'
    OBVIOUS
  <1>2. /\ log' = log /\ journal' = journal
        /\ \A f \in limbo' : f \in limbo \/ (p = "publish" /\ f = e)
        /\ PathOK(w, p, s, e, S, journal)
    BY <1>1 DEF GoesOn, PathInv
  <1>3. CASE p = "idle" /\ Moves(w, "drive", t, e, tries[w])
    <2>1. Complete(t) /\ Behind(t, t)
      BY <1>1 DEF PathInv, Behind, LoopInv, JournalType, IsState, StateType, NextSequence
    <2>2. PathOK(w, "drive", t, e, S2, journal)
      BY <1>1, <1>2, <1>3, <2>1 DEF PathOK
    <2>. QED
      BY <1>1, <1>2, <1>3, <2>2, PathMove
  <1>4. CASE p = "drive" /\ Moves(w, "fence", s, e, tries[w])
    <2>1. PathOK(w, "fence", s, e, S2, journal)
      BY <1>1, <1>2, <1>4 DEF PathOK, LivePlaces
    <2>. QED
      BY <1>1, <1>2, <1>4, <2>1, PathMove
  <1>5. CASE p = "fence" /\ Moves(w, "fence", s, e, tries[w])
    <2>1. PathOK(w, "fence", s, e, S2, journal)
      BY <1>1, <1>2, <1>5 DEF PathOK
    <2>. QED
      BY <1>1, <1>2, <1>5, <2>1, PathMove
  <1>6. CASE p = "publish" /\ Moves(w, "publish", s, e, tries[w] + 1)
    <2>1. PathOK(w, "publish", s, e, S2, journal)
      BY <1>1, <1>2, <1>6 DEF PathOK
    <2>. QED
      BY <1>1, <1>2, <1>6, <2>1, PathMove
  <1>. QED
    BY <1>1, <1>3, <1>4, <1>5, <1>6 DEF GoesOn

(* The journal's own part, after an event that is one to a call it asked for *)
(* if it is an answer of the LLM.                                            *)
LEMMA PathJournal ==
    ASSUME LoopInv, PathInv, NEW e, IsLogged(e), AppendToLog(e), limbo' \subseteq limbo,
           Folds(journal) => Answers(e, journal.state)
    PROVE  /\ SeenIsLogged' /\ Complete(journal'.state)
           /\ Folds(journal') => \A f \in limbo' : Answers(f, journal'.state)
  <1>1. PICK t : t = journal.state /\ IsState(t) /\ Complete(t)
    BY DEF LoopInv, JournalType, PathInv
  <1>2. Ids(log') = Ids(log) \cup {e}
    BY AppendKeeps DEF LoopInv
  <1>3. \A i \in DOMAIN t.seen : \E f \in Ids(log') : f.id = t.seen[i]
    BY <1>1, <1>2 DEF PathInv, SeenIsLogged
  <1>4. \A f \in limbo' : Folds(journal) => Answers(f, t)
    BY <1>1 DEF PathInv
  <1>5. CASE journal'.state = t /\ (Folds(journal') => Folds(journal))
    BY <1>1, <1>3, <1>4, <1>5 DEF SeenIsLogged
  <1>6. CASE Folds(journal) /\ Verdict(t, e) = "ok" /\ journal'.state = Applied(t, e)
    <2>1. PICK u : u = Applied(t, e)
      OBVIOUS
    <2>2. /\ NextSequence(t) \in Nat /\ NextSequence(u) = NextSequence(t) + 1
          /\ DOMAIN t.seen = 1..NextSequence(t) /\ DOMAIN u.seen = 1..NextSequence(u)
          /\ u.seen[NextSequence(u)] = e.id /\ \A i \in DOMAIN t.seen : u.seen[i] = t.seen[i]
      BY <1>1, <2>1, Grows
    <2>3. e.seq = NextSequence(t)
      BY <1>1, <1>6, Accepted DEF IsState, IsLogged
    <2>4. Complete(u)
      BY <1>1, <1>6, <2>1, <2>3, CompleteAfter DEF Answers
    <2>5. ASSUME NEW i \in DOMAIN u.seen
          PROVE  \E f \in Ids(log') : f.id = u.seen[i]
      <3>1. i \in DOMAIN t.seen \/ i = NextSequence(u)
        BY <2>2
      <3>. QED
        BY <1>2, <1>3, <2>2, <3>1
    <2>6. ASSUME NEW f \in limbo' PROVE Answers(f, u)
      <3>1. IsLogged(f) /\ Answers(f, t)
        BY <1>4, <1>6 DEF LoopInv, JournalType
      <3>2. f.seq \in Nat
        BY <3>1 DEF IsLogged, IsEvent
      <3>. QED
        BY <2>2, <3>1, <3>2 DEF Answers
    <2>. QED
      BY <1>6, <2>1, <2>4, <2>5, <2>6 DEF SeenIsLogged
  <1>. QED
    BY <1>1, <1>5, <1>6, JournalTakes DEF LoopInv

LEMMA PathLand ==
    ASSUME LoopInv, PathInv, NEW e \in limbo, Land(e)
    PROVE  PathInv'
  <1>1. PICK S, S2 : S = Ids(log) \cup limbo /\ S2 = Ids(log') \cup limbo'
    OBVIOUS
  <1>2. /\ AppendToLog(e) /\ limbo' \subseteq limbo /\ IsLogged(e) /\ pc' = pc /\ env' = env
        /\ state' = state /\ S2 \subseteq S /\ e \in S
    BY <1>1, LandStep DEF Land, LoopInv, JournalType
  <1>3. ASSUME NEW w \in Workers
        PROVE  PathOK(w, pc[w], state[w], env[w], S2, journal')
    <2>1. PICK q, x, y : q = pc[w] /\ x = state[w] /\ y = env[w]
      OBVIOUS
    <2>2. IsState(x) /\ IsState(journal.state) /\ PathOK(w, q, x, y, S, journal)
      BY <1>1, <2>1 DEF LoopInv, JournalType, WorkersInv, WorkerOK, PathInv
    <2>3. Folds(journal') =>
            /\ Folds(journal)
            /\ journal'.state = journal.state \/ journal'.state = Applied(journal.state, e)
      BY <1>2, JournalTakes DEF LoopInv
    <2>4. PathOK(w, q, x, y, S2, journal')
      BY <1>2, <2>2, <2>3, PathStays
    <2>. QED
      BY <2>1, <2>4
  <1>4. Folds(journal) => Answers(e, journal.state)
    BY DEF PathInv
  <1>5. /\ SeenIsLogged' /\ Complete(journal'.state)
        /\ Folds(journal') => \A f \in limbo' : Answers(f, journal'.state)
    BY <1>2, <1>4, PathJournal
  <1>. QED
    BY <1>1, <1>2, <1>3, <1>5 DEF PathInv

LEMMA PathAck ==
    ASSUME LoopInv, PathInv, NEW w \in Workers, Acked(w)
    PROVE  PathInv'
  <1>1. PICK s, e, t, n, S, S2 : /\ s = state[w] /\ e = env[w] /\ t = Applied(s, e)
                                /\ n = NextSequence(s) /\ S = Ids(log) \cup limbo
                                /\ S2 = Ids(log') \cup limbo'
    OBVIOUS
  <1>2. pc[w] = "publish" /\ AppendToLog(e) /\ limbo' = limbo
    BY <1>1 DEF Acked
  <1>3. /\ IsState(s) /\ IsLogged(e) /\ Verdict(s, e) = "ok" /\ IsState(journal.state)
        /\ PathOK(w, "publish", s, e, S, journal)
    BY <1>1, <1>2 DEF LoopInv, JournalType, WorkersInv, WorkerOK, PathInv
  <1>4. e.id = <<w, n>> /\ e.seq = n /\ n \in Nat /\ NextSequence(t) = n + 1
    <2>1. e.seq = n
      BY <1>1, <1>3, Accepted DEF IsState, IsLogged
    <2>. QED
      BY <1>1, <1>3, <2>1, Grows DEF PathOK
  <1>5. S2 = S \cup {e}
    <2>1. Ids(log') = Ids(log) \cup {e}
      BY <1>2, <1>3, AppendKeeps DEF LoopInv
    <2>. QED
      BY <1>1, <1>2, <2>1
  <1>6. Folds(journal) => Answers(e, journal.state)
    BY <1>3, OwnAnswers
  <1>7. /\ SeenIsLogged' /\ Complete(journal'.state)
        /\ Folds(journal') => \A f \in limbo' : Answers(f, journal'.state)
    BY <1>2, <1>3, <1>6, PathJournal
  <1>8. Folds(journal') =>
          /\ Folds(journal)
          /\ \/ Seen(journal.state, e) /\ journal'.state = journal.state
             \/ /\ Verdict(journal.state, e) = "ok"
                /\ journal'.state = Applied(journal.state, e)
    BY <1>2, <1>3, JournalTakes DEF LoopInv
  <1>9. ASSUME NEW v \in Workers, v # w
        PROVE  PathOK(v, pc'[v], state'[v], env'[v], S2, journal')
    <2>1. PICK q, x, y : q = pc[v] /\ x = state[v] /\ y = env[v]
      OBVIOUS
    <2>2. IsState(x) /\ PathOK(v, q, x, y, S, journal)
      BY <1>1, <2>1 DEF LoopInv, WorkersInv, WorkerOK, PathInv
    <2>3. e.id[1] # v
      BY <1>4, <1>9
    <2>4. PathOK(v, q, x, y, S2, journal')
      BY <1>3, <1>5, <1>8, <2>2, <2>3, PathStays
    <2>5. q = pc'[v] /\ x = state'[v] /\ y = env'[v]
      BY <1>9, <2>1 DEF Acked, Moves
    <2>. QED
      BY <2>4, <2>5
  <1>10. CASE Moves(w, "drive", t, NoEvent, 0)
    <2>1. Complete(t)
      BY <1>1, <1>3, CompleteAfter DEF PathOK
    <2>2. ASSUME NEW f \in S2, f.id[1] = w PROVE f.id[2] < n + 1
      <3>1. f \in S => IsLogged(f)
        BY <1>1 DEF LoopInv, JournalType
      <3>2. f \in S => f.id \in Workers \X Nat
        BY <3>1 DEF IsLogged, IsEvent, EventIds
      <3>3. f \in S => f.id[2] < n \/ f = e
        BY <1>1, <1>3, <2>2 DEF PathOK, LivePlaces
      <3>. QED
        BY <1>4, <1>5, <2>2, <3>2, <3>3
    <2>3. ASSUME Folds(journal') PROVE Behind(t, journal'.state)
      <3>1. PICK x : x = journal.state /\ IsState(x) /\ Behind(s, x) /\ MovesAlike(s, e, x)
        BY <1>3, <1>8, <2>3 DEF PathOK, LivePlaces
      <3>2. NextSequence(x) \in Nat
        BY <3>1 DEF IsState, StateType, NextSequence
      <3>3. CASE Seen(x, e) /\ journal'.state = x
        BY <1>1, <1>4, <3>1, <3>2, <3>3 DEF Seen, NextSequence, Behind, MovesAlike
      <3>4. CASE Verdict(x, e) = "ok" /\ journal'.state = Applied(x, e)
        <4>1. e.seq = NextSequence(x)
          BY <1>3, <3>1, <3>4, Accepted DEF IsState, IsLogged
        <4>2. x = s
          BY <1>1, <1>4, <3>1, <4>1 DEF Behind
        <4>. QED
          BY <1>1, <1>4, <3>4, <4>2 DEF Behind
      <3>. QED
        BY <1>8, <2>3, <3>1, <3>3, <3>4
    <2>4. PathOK(w, "drive", t, NoEvent, S2, journal')
      BY <1>4, <2>1, <2>2, <2>3 DEF PathOK
    <2>. QED
      BY <1>1, <1>7, <1>9, <1>10, <2>4 DEF PathInv, Moves
  <1>11. CASE Moves(w, pc'[w], EmptyState, NoEvent, 0) /\ pc'[w] = ExitCode(t)
    <2>1. PICK p : p = pc'[w] /\ p \notin LivePlaces /\ p # "idle"
      BY <1>11, ExitPlaces DEF LivePlaces
    <2>2. PathOK(w, p, EmptyState, NoEvent, S2, journal')
      BY <2>1, EmptyIsComplete DEF PathOK, LivePlaces
    <2>. QED
      BY <1>1, <1>7, <1>9, <1>11, <2>1, <2>2 DEF PathInv, Moves
  <1>. QED
    BY <1>1, <1>10, <1>11 DEF Acked

LEMMA PathInvInit == Init => PathInv
  <1>1. SUFFICES ASSUME Init PROVE PathInv
    OBVIOUS
  <1>2. /\ journal.state = EmptyState /\ Ids(log) = {} /\ limbo = {}
        /\ \A w \in Workers : pc[w] = "idle" /\ state[w] = EmptyState
    BY <1>1 DEF Init, NotFound, Ids
  <1>3. EmptyState.seen = <<>> /\ DOMAIN <<>> = {}
    BY DEF EmptyState
  <1>4. SeenIsLogged
    BY <1>2, <1>3 DEF SeenIsLogged
  <1>5. \A w \in Workers : PathOK(w, pc[w], state[w], env[w], {}, journal)
    BY <1>2, EmptyIsComplete DEF PathOK, LivePlaces
  <1>. QED
    BY <1>2, <1>4, <1>5, EmptyIsComplete DEF PathInv

LEMMA PathInvNext == LoopInv /\ PathInv /\ [Next]_vars => PathInv'
  <1>1. SUFFICES ASSUME LoopInv, PathInv, [Next]_vars PROVE PathInv'
    OBVIOUS
  <1>2. CASE Next
    BY <1>1, <1>2, StepKinds, PathPublish, PathLeave, PathGoOn, PathAck, PathLand
  <1>3. CASE UNCHANGED vars
    BY <1>1, <1>3 DEF vars, PathInv, SeenIsLogged
  <1>. QED
    BY <1>1, <1>2, <1>3

(* However many workers have the run and whenever their writes land: while   *)
(* the log folds, no live worker is ahead of it or differs from it where     *)
(* they are level, and the log takes an answer of the LLM only after steps   *)
(* that called tools and have all their results.                             *)
THEOREM PathInvariant == Spec => []PathInv
  BY PathInvInit, PathInvNext, LoopInvariant, PTL DEF Spec

(* Every LLM call is made with a conversation the Messages API accepts, also *)
(* by two workers that have the run at once and after writes that land late. *)
THEOREM PromptAlwaysComplete == Spec => []PromptIsComplete
  <1>1. LoopInv /\ PathInv => PromptIsComplete
    <2>1. SUFFICES ASSUME LoopInv, PathInv, NEW w \in Workers, Drives(w, "CALL_LLM"),
                          NEW m, m = Messages(state[w])
                   PROVE  /\ Len(m) = 2 * Len(state[w].steps) + 1
                          /\ \A i \in DOMAIN m : m[i] = IF i % 2 = 1 THEN "user" ELSE "assistant"
      BY DEF PromptIsComplete
    <2>2. PICK s, q : s = state[w] /\ q = s.steps
      OBVIOUS
    <2>3. IsState(s) /\ Complete(s) /\ NextAction(s) = "CALL_LLM"
      BY <2>1, <2>2 DEF LoopInv, WorkersInv, WorkerOK, PathInv, PathOK, Drives
    <2>4. PICK n \in Nat : n = Len(q) /\ DOMAIN q = 1..n
      BY <2>2, <2>3 DEF IsState, StateType
    <2>5. \A i \in 1..n : i < n => AllResulted(q[i]) /\ q[i].order # <<>>
      <3>1. \A i \in 1..n : i < n => i \in 1..(n - 1)
        OBVIOUS
      <3>. QED
        BY <2>2, <2>3, <2>4, <3>1 DEF Complete, Spoken, ClosedButLast
    <2>6. n \in 1..n => AllResulted(q[n]) /\ q[n].order # <<>>
      <3>1. n \in 1..n => q # <<>>
        BY <2>4
      <3>2. q = <<>> \/ (AllResulted(q[n]) /\ q[n].order # <<>>)
        BY <2>2, <2>3, <2>4, ActionMeans DEF NextAction, Last
      <3>. QED
        BY <3>1, <3>2
    <2>7. \A i \in 1..n : AllResulted(q[i]) /\ q[i].order # <<>>
      <3>1. \A i \in 1..n : i < n \/ i = n
        OBVIOUS
      <3>. QED
        BY <2>5, <2>6, <3>1
    <2>8. m = Alternating(n)
      BY <2>1, <2>2, <2>4, <2>7, MessagesAlternate
    <2>9. Len(m) = 2 * n + 1 /\ DOMAIN m = 1..(2 * n + 1)
      BY <2>8 DEF Alternating
    <2>. QED
      BY <2>2, <2>4, <2>8, <2>9 DEF Alternating
  <1>. QED
    BY <1>1, LoopInvariant, PathInvariant, PTL

-----------------------------------------------------------------------------
(* One worker at a time, and a write lands before the next one replays.      *)

(* The event is in the log, and the fold has its id.                         *)
Delivered(e) == Seen(journal.state, e) /\ e \in Ids(log)

(* The event is the one the journal accepts next.                            *)
Awaited(e) == Verdict(journal.state, e) = "ok"

OneLive == \A v, w \in Workers : Live(v) /\ Live(w) => v = w

NothingBeforeStart == ~Started => log = <<>> /\ limbo = {} /\ journal = NotFound

(* While a worker publishes, the log has its state or is one event ahead.    *)
PublishMatches ==
    \A w \in Workers : pc[w] = "publish" =>
        \/ journal.state = state[w]
        \/ /\ journal = [err |-> "ok", state |-> Applied(state[w], env[w])]
           /\ env[w] \in Ids(log)

(* A write without acknowledgement is in the log or is the next event; the   *)
(* worker that is alive is then still trying to publish just that one.       *)
LimboInv ==
    /\ \A e \in limbo :
         \/ Delivered(e)
         \/ /\ Awaited(e)
            /\ \A w \in Workers : Live(w) => pc[w] = "publish" /\ env[w] = e
    /\ \A e, f \in limbo : Awaited(e) /\ Awaited(f) => e = f

JournalInv ==
    /\ OneLive
    /\ NothingBeforeStart
    /\ journal.err \in {"ok", "run_not_found"}
    /\ LiveMatchesJournal
    /\ PublishMatches
    /\ LimboInv

(* The steps a replay gives: their tool_use ids are those of different LLM   *)
(* answers among the first n, a tool is invoked once and has a result only   *)
(* after that, and the result of a fenced tool is true of the effects.       *)
IdsFresh(q, n) == \A i \in DOMAIN q : \A id \in Ids(q[i].order) : id.call < n
IdsApart(q) ==
    \A i, j \in DOMAIN q : \A id \in Ids(q[i].order) : id \in Ids(q[j].order) => i = j
InvokedHere(q) == \A i \in DOMAIN q : \A x \in q[i].invoked : x.id \in Ids(q[i].order)
ResultedInvoked(q) ==
    \A i \in DOMAIN q : \A r \in q[i].results : \E x \in q[i].invoked : x.id = r.id
InvokedOnce(q) == \A i \in DOMAIN q : \A x, y \in q[i].invoked : x.id = y.id => x = y
ResultsTrue(q, E) ==
    \A i \in DOMAIN q : \A x \in q[i].invoked : \A r \in q[i].results :
        x.side /\ r.id = x.id => ((r.status = "success") <=> EffectIn(E, r.id))

StepsTrue(q, n, E) ==
    /\ IdsFresh(q, n) /\ IdsApart(q)
    /\ InvokedHere(q) /\ ResultedInvoked(q) /\ InvokedOnce(q)
    /\ ResultsTrue(q, E)

LogInSteps(q, L) ==
    \A e \in L :
        /\ e.type = "ToolInvoked" =>
             \E i \in DOMAIN q : [id |-> e.tool, side |-> e.side] \in q[i].invoked
        /\ e.type = "ToolResulted" =>
             \E i \in DOMAIN q : [id |-> e.tool, status |-> e.status] \in q[i].results

(* The next event keeps it so.                                               *)
NextTrue(q, e, n, E) ==
    /\ e.type = "LLMResponded" => \A id \in Ids(e.order) :
         id.call < n /\ \A i \in DOMAIN q : id \notin Ids(q[i].order)
    /\ e.type = "ToolResulted" => \A x \in q[Len(q)].invoked :
         x.side /\ x.id = e.tool => ((e.status = "success") <=> EffectIn(E, e.tool))

TruthInv ==
    /\ StepsTrue(journal.state.steps, calls, effects)
    /\ LogInSteps(journal.state.steps, Ids(log))
    /\ \A e \in limbo : Awaited(e) => NextTrue(journal.state.steps, e, calls, effects)
    /\ \A w \in Workers : pc[w] = "publish" /\ Awaited(env[w]) =>
         NextTrue(journal.state.steps, env[w], calls, effects)

-----------------------------------------------------------------------------
(* What the fold has seen.                                                   *)

LEMMA SeenIsRedelivery ==
    ASSUME NEW s, NEW e, Seen(s, e)
    PROVE  Verdict(s, e) = "redelivery"
  BY DEF Verdict, Structural, NextSequence, Seen

LEMMA SeenStays ==
    ASSUME NEW s, IsState(s), NEW e, IsLogged(e), NEW f, IsLogged(f), Seen(s, e)
    PROVE  Seen(Applied(s, f), e)
  <1>1. PICK q, x, u : q = s.seen /\ x = f.id /\ u = Applied(s, f).seen
    OBVIOUS
  <1>2. u = Append(q, x) /\ q \in Seq(EventIds) /\ x \in EventIds
    <2>1. u = Append(q, x)
      BY <1>1, AppliedFields DEF IsState, IsLogged
    <2>. QED
      BY <1>1, <2>1 DEF IsState, IsLogged, StateType, IsEvent
  <1>3. e.seq \in Nat /\ e.seq < Len(q) /\ q[e.seq + 1] = e.id
    BY <1>1 DEF Seen, IsLogged, IsEvent
  <1>4. Len(u) = Len(q) + 1 /\ Len(q) \in Nat /\ \A i \in 1..Len(q) : u[i] = q[i]
    BY <1>2
  <1>5. e.seq + 1 \in 1..Len(q) /\ e.seq < Len(u)
    BY <1>3, <1>4
  <1>. QED
    BY <1>1, <1>3, <1>4, <1>5 DEF Seen

LEMMA AppliedIsSeen ==
    ASSUME NEW s, IsState(s), NEW e, IsLogged(e), Verdict(s, e) = "ok"
    PROVE  Seen(Applied(s, e), e)
  <1>1. PICK q, x, u : q = s.seen /\ x = e.id /\ u = Applied(s, e).seen
    OBVIOUS
  <1>2. u = Append(q, x) /\ q \in Seq(EventIds) /\ x \in EventIds
    <2>1. u = Append(q, x)
      BY <1>1, AppliedFields DEF IsState, IsLogged
    <2>. QED
      BY <1>1, <2>1 DEF IsState, IsLogged, StateType, IsEvent
  <1>3. e.seq = Len(q)
    BY <1>1, Accepted DEF IsState, IsLogged, NextSequence
  <1>4. Len(u) = Len(q) + 1 /\ Len(q) \in Nat /\ u[Len(q) + 1] = x
    BY <1>2
  <1>5. Len(q) < Len(u)
    BY <1>4
  <1>. QED
    BY <1>1, <1>3, <1>4, <1>5 DEF Seen

(* The journal takes an event that it awaits, and ignores one it has.        *)
LEMMA TakesAwaited ==
    ASSUME LoopInv, JournalInv, NEW e, IsLogged(e), AppendToLog(e), Awaited(e)
    PROVE  /\ journal' = [err |-> "ok", state |-> Applied(journal.state, e)]
           /\ Seen(journal'.state, e)
           /\ \A f : IsLogged(f) /\ Seen(journal.state, f) => Seen(journal'.state, f)
  <1>1. PICK s : s = journal.state /\ IsState(s)
    BY DEF LoopInv, JournalType
  <1>2. FoldStep(journal, e) = [err |-> "ok", state |-> Applied(s, e)]
    BY <1>1, FoldStepKinds DEF JournalInv, Awaited
  <1>3. journal' = [err |-> "ok", state |-> Applied(s, e)]
    BY <1>2 DEF AppendToLog
  <1>4. Seen(Applied(s, e), e)
    BY <1>1, AppliedIsSeen DEF Awaited
  <1>5. \A f : IsLogged(f) /\ Seen(s, f) => Seen(Applied(s, e), f)
    BY <1>1, SeenStays
  <1>. QED
    BY <1>1, <1>3, <1>4, <1>5

LEMMA IgnoresSeen ==
    ASSUME LoopInv, JournalInv, NEW e, IsLogged(e), AppendToLog(e), Seen(journal.state, e)
    PROVE  journal' = journal /\ journal.err = "ok"
  <1>1. Verdict(journal.state, e) = "redelivery" /\ IsState(journal.state)
    BY SeenIsRedelivery DEF LoopInv, JournalType
  <1>2. journal.state.seen # <<>>
    BY <1>1, RedeliveryIsSeen
  <1>3. journal.err = "ok"
    BY <1>2, EmptyIsState DEF LoopInv, JournalType, JournalInv, NotFound
  <1>4. FoldStep(journal, e) = [err |-> "ok", state |-> journal.state]
    BY <1>1, <1>3, FoldStepKinds
  <1>. QED
    BY <1>3, <1>4 DEF AppendToLog, LoopInv, JournalType

(* Behind a worker that drives there is nothing left to land.                *)
LEMMA NothingAwaited ==
    ASSUME JournalInv, NEW w \in Workers, pc[w] \in {"drive", "fence"}
    PROVE  \A e \in limbo : Delivered(e) /\ ~Awaited(e)
  <1>1. \A e \in limbo : Delivered(e)
    BY DEF JournalInv, LimboInv, Live
  <1>. QED
    BY <1>1, SeenIsRedelivery DEF Delivered, Awaited

-----------------------------------------------------------------------------
(* JournalInv is inductive.                                                  *)

LEMMA MovePlaces ==
    ASSUME NEW w \in Workers, NEW p, NEW s, NEW e, NEW t, Moves(w, p, s, e, t)
    PROVE  /\ Live(w)' <=> p \in {"drive", "publish", "fence"}
           /\ \A v \in Workers : v # w => (Live(v)' <=> Live(v))
  BY DEF Moves, Live

LEMMA JournalInvInit == Init => JournalInv
  BY DEF Init, JournalInv, OneLive, NothingBeforeStart, LiveMatchesJournal, PublishMatches,
         LimboInv, Live, NotFound

(* A worker begins to publish from what the journal says, with nobody else   *)
(* alive and nothing left to land.                                           *)
LEMMA PublishesAlone ==
    ASSUME LoopInv, JournalInv, NEW w \in Workers, NEW e, Publishes(w, e)
    PROVE  /\ \A v \in Workers : v # w => ~Live(v)
           /\ journal.state = state[w]
           /\ \A f \in limbo : Delivered(f) /\ ~Awaited(f)
  <1>1. pc[w] \in {"idle", "drive", "fence"} /\ (pc[w] = "idle" => ~Started)
    BY DEF Publishes
  <1>2. \A v \in Workers : v # w => ~Live(v)
    BY <1>1 DEF JournalInv, OneLive, Live, Started
  <1>3. CASE pc[w] = "idle"
    BY <1>1, <1>2, <1>3 DEF JournalInv, NothingBeforeStart, NotFound, LoopInv, WorkersInv,
                            WorkerOK, LivePlaces
  <1>4. CASE pc[w] # "idle"
    <2>1. journal.state = state[w]
      BY <1>1, <1>4 DEF JournalInv, LiveMatchesJournal
    <2>2. \A f \in limbo : Delivered(f) /\ ~Awaited(f)
      BY <1>1, <1>4, NothingAwaited
    <2>. QED
      BY <1>2, <2>1, <2>2
  <1>. QED
    BY <1>3, <1>4

LEMMA JournalPublish ==
    ASSUME LoopInv, JournalInv, NEW w \in Workers, NEW e, Publishes(w, e)
    PROVE  JournalInv'
  <1>1. /\ Moves(w, "publish", state[w], e, 0) /\ log' = log /\ journal' = journal /\ limbo' = limbo
    BY DEF Publishes
  <1>2. /\ \A v \in Workers : v # w => ~Live(v)
        /\ journal.state = state[w]
        /\ \A f \in limbo : Delivered(f) /\ ~Awaited(f)
    BY PublishesAlone
  <1>3. \A v \in Workers : Live(v)' => v = w
    BY <1>1, <1>2, MovePlaces
  <1>6. pc'[w] = "publish" /\ state'[w] = state[w]
    BY <1>1 DEF Moves
  <1>7. OneLive'
    BY <1>3 DEF OneLive
  <1>8. NothingBeforeStart'
    BY <1>6 DEF NothingBeforeStart, Started
  <1>9. LiveMatchesJournal'
    BY <1>3, <1>6 DEF LiveMatchesJournal, Live
  <1>10. PublishMatches'
    BY <1>1, <1>2, <1>3, <1>6 DEF PublishMatches, Live
  <1>11. LimboInv'
    BY <1>1, <1>2 DEF LimboInv, Delivered, Awaited
  <1>. QED
    BY <1>1, <1>7, <1>8, <1>9, <1>10, <1>11 DEF JournalInv

(* A process that goes away leaves at most its last event behind.            *)
LEMMA JournalLeave ==
    ASSUME OneAtATime, ~LateWrites, LoopInv, JournalInv, NEW w \in Workers, Leaves(w)
    PROVE  JournalInv'
  <1>1. /\ Moves(w, pc'[w], EmptyState, NoEvent, 0) /\ log' = log /\ journal' = journal
        /\ pc'[w] \notin LivePlaces /\ pc'[w] # "idle"
        /\ pc'[w] = "startup_failed" => pc[w] = "idle"
    BY DEF Leaves
  <1>2. ~Live(w)' /\ \A v \in Workers : Live(v)' => Live(v)
    BY <1>1, MovePlaces DEF LivePlaces
  <1>3. \A v \in Workers : Live(v)' => /\ pc'[v] = pc[v] /\ state'[v] = state[v]
                                       /\ env'[v] = env[v]
    BY <1>1, <1>2 DEF Moves
  <1>4. Started => Started'
    <2>1. SUFFICES ASSUME NEW v \in Workers, pc[v] \notin {"idle", "startup_failed"}
                   PROVE  pc'[v] \notin {"idle", "startup_failed"}
      BY DEF Started
    <2>. QED
      BY <1>1, <2>1 DEF Moves
  <1>5. OneLive'
    BY <1>2 DEF JournalInv, OneLive
  <1>6. LiveMatchesJournal'
    BY <1>1, <1>3 DEF JournalInv, LiveMatchesJournal, Live
  <1>7. PublishMatches'
    BY <1>1, <1>3 DEF JournalInv, PublishMatches, Live
  <1>8. CASE pc[w] = "idle"
    <2>1. /\ limbo' = limbo \/ limbo' = {}
          /\ Started' \/ limbo' = limbo
      BY <1>4, <1>8 DEF Leaves
    <2>2. NothingBeforeStart'
      BY <1>1, <1>4, <2>1 DEF JournalInv, NothingBeforeStart
    <2>3. LimboInv'
      BY <1>1, <1>3, <2>1 DEF JournalInv, LimboInv, Delivered, Awaited, Live
    <2>. QED
      BY <1>1, <1>5, <1>6, <1>7, <2>2, <2>3 DEF JournalInv
  <1>9. CASE pc[w] # "idle"
    <2>1. Live(w) /\ (limbo' = limbo \/ (pc[w] = "publish" /\ limbo' = limbo \cup {env[w]}))
      BY <1>9 DEF Leaves
    <2>2. \A v \in Workers : ~Live(v)'
      BY <1>2, <2>1 DEF JournalInv, OneLive
    <2>3. Started'
      BY <1>4, <2>1 DEF Started, Live
    <2>4. pc[w] = "publish" => Delivered(env[w]) \/ Awaited(env[w])
      <3>1. SUFFICES ASSUME pc[w] = "publish" PROVE Delivered(env[w]) \/ Awaited(env[w])
        OBVIOUS
      <3>2. IsState(state[w]) /\ IsLogged(env[w]) /\ Verdict(state[w], env[w]) = "ok"
        BY <3>1 DEF LoopInv, WorkersInv, WorkerOK
      <3>3. CASE journal.state = state[w]
        BY <3>2, <3>3 DEF Awaited
      <3>4. CASE /\ journal = [err |-> "ok", state |-> Applied(state[w], env[w])]
                 /\ env[w] \in Ids(log)
        BY <3>2, <3>4, AppliedIsSeen DEF Delivered
      <3>. QED
        BY <3>1, <3>3, <3>4 DEF JournalInv, PublishMatches
    <2>5. \A e \in limbo : Delivered(e) \/ (Awaited(e) /\ pc[w] = "publish" /\ env[w] = e)
      BY <2>1 DEF JournalInv, LimboInv
    <2>6. \A e \in limbo : ~(Delivered(e) /\ Awaited(e))
      BY SeenIsRedelivery DEF Delivered, Awaited
    <2>7. \A e \in limbo' : Delivered(e) \/ Awaited(e)
      BY <2>1, <2>4, <2>5
    <2>8. \A e \in limbo' : Awaited(e) => e = env[w]
      BY <2>1, <2>5, <2>6
    <2>9. \A e : (Delivered(e)' <=> Delivered(e)) /\ (Awaited(e)' <=> Awaited(e))
      BY <1>1 DEF Delivered, Awaited
    <2>10. LimboInv'
      BY <2>2, <2>7, <2>8, <2>9 DEF LimboInv
    <2>. QED
      BY <1>1, <1>5, <1>6, <1>7, <2>3, <2>10 DEF JournalInv, NothingBeforeStart
  <1>. QED
    BY <1>8, <1>9

LEMMA JournalGoOn ==
    ASSUME OneAtATime, ~LateWrites, LoopInv, JournalInv, NEW w \in Workers, GoesOn(w)
    PROVE  JournalInv'
  <1>1. log' = log /\ journal' = journal
    BY DEF GoesOn
  <1>2. \A e : (Delivered(e)' <=> Delivered(e)) /\ (Awaited(e)' <=> Awaited(e))
    BY <1>1 DEF Delivered, Awaited
  <1>3. CASE /\ pc[w] = "idle" /\ limbo' = {} /\ journal.err = "ok"
             /\ Moves(w, "drive", journal.state, env[w], tries[w])
             /\ \A v \in Workers : ~Live(v)
    <2>1. Live(w)' /\ (\A v \in Workers : Live(v)' => v = w) /\ pc'[w] = "drive"
          /\ state'[w] = journal.state
      BY <1>3, MovePlaces DEF Moves
    <2>2. journal' = [err |-> "ok", state |-> state'[w]]
      BY <1>1, <1>3, <2>1 DEF LoopInv, JournalType
    <2>3. LiveMatchesJournal' /\ PublishMatches' /\ OneLive'
      BY <2>1, <2>2 DEF LiveMatchesJournal, PublishMatches, OneLive, Live
    <2>4. NothingBeforeStart' /\ LimboInv'
      BY <1>3, <2>1 DEF NothingBeforeStart, Started, LimboInv
    <2>. QED
      BY <1>1, <2>3, <2>4 DEF JournalInv
  <1>4. CASE \E p \in {"drive", "fence"} : /\ pc[w] = p /\ limbo' = limbo
                                           /\ Moves(w, "fence", state[w], env[w], tries[w])
    <2>1. Live(w) /\ (\A v \in Workers : Live(v)' => v = w) /\ pc'[w] = "fence"
          /\ state'[w] = state[w]
      BY <1>4, MovePlaces DEF Moves, JournalInv, OneLive, Live
    <2>2. journal' = [err |-> "ok", state |-> state'[w]]
      BY <1>1, <1>4, <2>1 DEF JournalInv, LiveMatchesJournal
    <2>3. LiveMatchesJournal' /\ PublishMatches' /\ OneLive'
      BY <2>1, <2>2 DEF LiveMatchesJournal, PublishMatches, OneLive, Live
    <2>4. \A e \in limbo : Delivered(e) /\ ~Awaited(e)
      BY <1>4, NothingAwaited
    <2>5. LimboInv'
      BY <1>2, <1>4, <2>4 DEF LimboInv
    <2>6. NothingBeforeStart'
      BY <2>1 DEF NothingBeforeStart, Started
    <2>. QED
      BY <1>1, <2>3, <2>5, <2>6 DEF JournalInv
  <1>5. CASE /\ pc[w] = "publish" /\ limbo' = limbo \cup {env[w]}
             /\ Moves(w, "publish", state[w], env[w], tries[w] + 1)
    <2>1. Live(w) /\ (\A v \in Workers : Live(v)' => v = w) /\ pc'[w] = "publish"
          /\ state'[w] = state[w] /\ env'[w] = env[w]
      BY <1>5, MovePlaces DEF Moves, JournalInv, OneLive, Live
    <2>2. /\ IsState(state[w]) /\ IsLogged(env[w]) /\ Verdict(state[w], env[w]) = "ok"
      BY <1>5 DEF LoopInv, WorkersInv, WorkerOK
    <2>3. \/ journal.state = state[w]
          \/ /\ journal = [err |-> "ok", state |-> Applied(state[w], env[w])]
             /\ env[w] \in Ids(log)
      BY <1>5 DEF JournalInv, PublishMatches
    <2>4. Delivered(env[w]) \/ Awaited(env[w])
      BY <2>2, <2>3, AppliedIsSeen DEF Delivered, Awaited
    <2>5. \A e \in limbo : Delivered(e) \/ (Awaited(e) /\ env[w] = e)
      BY <2>1 DEF JournalInv, LimboInv
    <2>6. \A e \in limbo : ~(Delivered(e) /\ Awaited(e))
      BY SeenIsRedelivery DEF Delivered, Awaited
    <2>7. \A e \in limbo' : Delivered(e) \/ (Awaited(e) /\ env[w] = e)
      BY <1>5, <2>4, <2>5
    <2>8. \A e \in limbo' : Awaited(e) => e = env[w]
      BY <1>5, <2>5, <2>6
    <2>9. LimboInv'
      BY <1>2, <2>1, <2>7, <2>8 DEF LimboInv
    <2>10. LiveMatchesJournal' /\ PublishMatches' /\ OneLive'
      BY <1>1, <2>1, <2>3 DEF LiveMatchesJournal, PublishMatches, OneLive, Live
    <2>11. NothingBeforeStart'
      BY <2>1 DEF NothingBeforeStart, Started
    <2>. QED
      BY <1>1, <2>9, <2>10, <2>11 DEF JournalInv
  <1>. QED
    BY <1>3, <1>4, <1>5 DEF GoesOn

(* An acknowledgement: the event is in the log now if it was not before.     *)
LEMMA AckJournal ==
    ASSUME LoopInv, JournalInv, NEW w \in Workers, Acked(w), NEW t, t = Applied(state[w], env[w])
    PROVE  /\ journal' = [err |-> "ok", state |-> t]
           /\ Ids(log') = Ids(log) \cup {env[w]}
           /\ \A e \in limbo : Delivered(e)'
  <1>1. PICK s, e : s = state[w] /\ e = env[w]
    OBVIOUS
  <1>2. /\ pc[w] = "publish" /\ AppendToLog(e) /\ limbo' = limbo
    BY <1>1 DEF Acked
  <1>3. IsState(s) /\ IsLogged(e) /\ Verdict(s, e) = "ok"
    BY <1>1, <1>2 DEF LoopInv, WorkersInv, WorkerOK
  <1>4. Ids(log') = Ids(log) \cup {e} /\ \A f \in limbo : IsLogged(f)
    BY <1>2, <1>3, AppendKeeps DEF LoopInv, JournalType
  <1>5. \A f \in limbo : Delivered(f) \/ f = e
    BY <1>1, <1>2 DEF JournalInv, LimboInv, Live
  <1>6. CASE journal.state = s
    <2>1. /\ journal' = [err |-> "ok", state |-> t] /\ Seen(journal'.state, e)
          /\ \A f : IsLogged(f) /\ Seen(journal.state, f) => Seen(journal'.state, f)
      BY <1>1, <1>2, <1>3, <1>6, TakesAwaited DEF Awaited
    <2>. QED
      BY <1>1, <1>4, <1>5, <2>1 DEF Delivered
  <1>7. CASE journal = [err |-> "ok", state |-> t] /\ e \in Ids(log)
    <2>1. Seen(journal.state, e)
      BY <1>1, <1>3, <1>7, AppliedIsSeen
    <2>2. journal' = journal
      BY <1>2, <1>3, <2>1, IgnoresSeen
    <2>. QED
      BY <1>1, <1>4, <1>5, <1>7, <2>1, <2>2 DEF Delivered
  <1>. QED
    BY <1>1, <1>2, <1>6, <1>7 DEF JournalInv, PublishMatches

LEMMA JournalAck ==
    ASSUME LoopInv, JournalInv, NEW w \in Workers, Acked(w)
    PROVE  JournalInv'
  <1>1. PICK t : t = Applied(state[w], env[w])
    OBVIOUS
  <1>2. /\ journal' = [err |-> "ok", state |-> t] /\ \A e \in limbo : Delivered(e)'
    BY <1>1, AckJournal
  <1>3. pc[w] = "publish" /\ limbo' = limbo
    BY DEF Acked
  <1>4. \/ Moves(w, "drive", t, NoEvent, 0)
        \/ Moves(w, pc'[w], EmptyState, NoEvent, 0) /\ pc'[w] \in {"exit_ok", "exit_failed"}
    BY <1>1, ExitPlaces DEF Acked
  <1>5. /\ \A v \in Workers : Live(v)' => v = w
        /\ pc'[w] \in {"drive", "exit_ok", "exit_failed"} /\ (pc'[w] = "drive" => state'[w] = t)
    BY <1>3, <1>4, MovePlaces DEF Moves, JournalInv, OneLive, Live
  <1>6. LiveMatchesJournal' /\ PublishMatches' /\ OneLive'
    BY <1>2, <1>5 DEF LiveMatchesJournal, PublishMatches, OneLive, Live
  <1>7. LimboInv'
    <2>1. \A e \in limbo' : ~Awaited(e)'
      BY <1>2, <1>3, SeenIsRedelivery DEF Delivered, Awaited
    <2>. QED
      BY <1>2, <1>3, <2>1 DEF LimboInv
  <1>8. NothingBeforeStart'
    BY <1>5 DEF NothingBeforeStart, Started
  <1>. QED
    BY <1>2, <1>6, <1>7, <1>8 DEF JournalInv

(* A write that lands late is ignored, or is what the worker publishes or    *)
(* the last one published.                                                   *)
LEMMA JournalLand ==
    ASSUME LoopInv, JournalInv, NEW e \in limbo, Land(e)
    PROVE  /\ JournalInv' /\ \A f \in limbo' : Delivered(f)' \/ ~Awaited(e)
           /\ ~Awaited(e) => journal' = journal
  <1>1. /\ AppendToLog(e) /\ limbo' = limbo \ {e} /\ IsLogged(e)
        /\ pc' = pc /\ state' = state /\ env' = env
    BY DEF Land, LoopInv, JournalType
  <1>2. Ids(log') = Ids(log) \cup {e} /\ \A f \in limbo : IsLogged(f)
    BY LandStep DEF LoopInv, JournalType
  <1>3. Started
    BY DEF JournalInv, NothingBeforeStart
  <1>4. OneLive' /\ NothingBeforeStart'
    BY <1>1, <1>3 DEF JournalInv, OneLive, Live, NothingBeforeStart, Started
  <1>5. CASE Delivered(e)
    <2>1. journal' = journal /\ journal.err = "ok" /\ Ids(log') = Ids(log)
      BY <1>1, <1>2, <1>5, IgnoresSeen DEF Delivered
    <2>2. ~Awaited(e)
      BY <1>5, SeenIsRedelivery DEF Delivered, Awaited
    <2>3. LiveMatchesJournal' /\ PublishMatches'
      BY <1>1, <2>1 DEF JournalInv, LiveMatchesJournal, PublishMatches
    <2>4. LimboInv'
      BY <1>1, <2>1 DEF JournalInv, LimboInv, Delivered, Awaited, Live
    <2>. QED
      BY <1>4, <2>1, <2>2, <2>3, <2>4 DEF JournalInv
  <1>6. CASE Awaited(e) /\ \A w \in Workers : Live(w) => pc[w] = "publish" /\ env[w] = e
    <2>1. PICK t : t = Applied(journal.state, e)
      OBVIOUS
    <2>2. /\ journal' = [err |-> "ok", state |-> t] /\ Seen(journal'.state, e)
          /\ \A f : IsLogged(f) /\ Seen(journal.state, f) => Seen(journal'.state, f)
      BY <1>1, <1>6, <2>1, TakesAwaited
    <2>3. \A f \in limbo : Delivered(f) \/ f = e
      BY <1>6 DEF JournalInv, LimboInv
    <2>4. \A f \in limbo' : Delivered(f)'
      BY <1>1, <1>2, <2>2, <2>3 DEF Delivered
    <2>5. \A f \in limbo' : ~Awaited(f)'
      BY <2>4, SeenIsRedelivery DEF Delivered, Awaited
    <2>6. LimboInv'
      BY <2>4, <2>5 DEF LimboInv
    <2>7. LiveMatchesJournal'
      BY <1>1, <1>6 DEF LiveMatchesJournal, Live
    <2>8. ASSUME NEW w \in Workers, pc[w] = "publish"
          PROVE  /\ journal' = [err |-> "ok", state |-> Applied(state[w], env[w])]
                 /\ env[w] \in Ids(log')
      <3>1. env[w] = e
        BY <1>6, <2>8 DEF Live
      <3>2. IsState(state[w]) /\ Verdict(state[w], e) = "ok"
        BY <2>8, <3>1 DEF LoopInv, WorkersInv, WorkerOK
      <3>3. journal.state # Applied(state[w], e)
        BY <1>1, <1>6, <3>2, AppliedIsSeen, SeenIsRedelivery DEF Awaited
      <3>4. journal.state = state[w]
        BY <2>8, <3>1, <3>3 DEF JournalInv, PublishMatches
      <3>. QED
        BY <1>2, <2>1, <2>2, <3>1, <3>4
    <2>9. PublishMatches'
      BY <1>1, <2>8 DEF PublishMatches
    <2>. QED
      BY <1>4, <1>6, <2>2, <2>4, <2>6, <2>7, <2>9 DEF JournalInv
  <1>. QED
    BY <1>5, <1>6 DEF JournalInv, LimboInv

LEMMA JournalInvNext ==
    ASSUME OneAtATime, ~LateWrites, LoopInv, JournalInv, [Next]_vars
    PROVE  JournalInv'
  <1>1. CASE Next
    BY <1>1, StepKinds, JournalPublish, JournalLeave, JournalGoOn, JournalAck, JournalLand
  <1>2. CASE UNCHANGED vars
    BY <1>2 DEF vars, JournalInv, OneLive, NothingBeforeStart, LiveMatchesJournal,
                PublishMatches, LimboInv, Delivered, Awaited, Live, Started
  <1>. QED
    BY <1>1, <1>2

(* With one worker at a time and no late writes, the journal is what the     *)
(* worker that is alive believes, or one event ahead of it.                  *)
THEOREM JournalInvariant ==
    ASSUME OneAtATime, ~LateWrites
    PROVE  Spec => []JournalInv
  <1>1. Init => JournalInv
    BY JournalInvInit
  <1>2. LoopInv /\ JournalInv /\ [Next]_vars => JournalInv'
    BY JournalInvNext
  <1>. QED
    BY <1>1, <1>2, LoopInvariant, PTL DEF Spec

(* The log of a run always folds, whatever was lost, repeated or reordered   *)
(* on the way to Kafka.                                                      *)
THEOREM JournalAlwaysReplays ==
    ASSUME OneAtATime, ~LateWrites
    PROVE  Spec => []JournalReplays
  <1>1. LoopInv /\ JournalInv => JournalReplays
    BY DEF LoopInv, JournalType, JournalInv, JournalReplays
  <1>. QED
    BY <1>1, LoopInvariant, JournalInvariant, PTL

(* The state that a worker decides from is what a replay of the log gives.   *)
THEOREM LiveMatches ==
    ASSUME OneAtATime, ~LateWrites
    PROVE  Spec => []LiveMatchesJournal
  <1>1. JournalInv => LiveMatchesJournal
    BY DEF JournalInv
  <1>. QED
    BY <1>1, JournalInvariant, PTL

(* Exit code 4 leaves a run whose next action is the tool in flight, and     *)
(* exit code 0 means that the log says COMPLETED.                            *)
THEOREM ExitHonest ==
    ASSUME OneAtATime, ~LateWrites
    PROVE  Spec => ExitIsHonest
  <1> DEFINE Honest(w) ==
        pc'[w] # pc[w] =>
          /\ pc'[w] = "exit_fence_unavailable" =>
               /\ journal'.err = "ok"
               /\ NextAction(journal'.state) = "RESOLVE_IN_FLIGHT_TOOL"
          /\ pc'[w] = "exit_ok" =>
               journal'.err = "ok" /\ journal'.state.status = "COMPLETED"
  <1>1. ASSUME LoopInv, JournalInv, Next, NEW v \in Workers
        PROVE  Honest(v)
    <2>1. ASSUME NEW w \in Workers, NEW e, Publishes(w, e)
          PROVE  Honest(v)
      BY <2>1 DEF Publishes, Moves
    <2>2. ASSUME NEW w \in Workers, Leaves(w)
          PROVE  Honest(v)
      <3>1. /\ v # w => pc'[v] = pc[v]
            /\ journal' = journal
            /\ pc'[w] = "exit_ok" => journal.err = "ok" /\ journal.state.status = "COMPLETED"
        BY <2>2 DEF Leaves, Moves
      <3>2. pc'[w] = "exit_fence_unavailable" =>
                journal.err = "ok" /\ NextAction(journal.state) = "RESOLVE_IN_FLIGHT_TOOL"
        <4>1. SUFFICES ASSUME pc'[w] = "exit_fence_unavailable"
                       PROVE  /\ journal.err = "ok"
                              /\ NextAction(journal.state) = "RESOLVE_IN_FLIGHT_TOOL"
          OBVIOUS
        <4>2. pc[w] = "fence"
          BY <2>2, <4>1 DEF Leaves
        <4>3. NextAction(state[w]) = "RESOLVE_IN_FLIGHT_TOOL"
          BY <1>1, <4>2, DriveFacts DEF LoopInv
        <4>4. journal = [err |-> "ok", state |-> state[w]]
          BY <1>1, <4>2 DEF JournalInv, LiveMatchesJournal
        <4>. QED
          BY <4>3, <4>4
      <3>. QED
        BY <3>1, <3>2
    <2>3. ASSUME NEW w \in Workers, GoesOn(w)
          PROVE  Honest(v)
      BY <2>3 DEF GoesOn, Moves
    <2>4. ASSUME NEW w \in Workers, Acked(w)
          PROVE  Honest(v)
      <3>1. PICK t : t = Applied(state[w], env[w])
        OBVIOUS
      <3>2. journal' = [err |-> "ok", state |-> t]
        BY <1>1, <2>4, <3>1, AckJournal
      <3>3. /\ v # w => pc'[v] = pc[v]
            /\ pc'[w] = "drive" \/ pc'[w] = ExitCode(t)
        BY <2>4, <3>1 DEF Acked, Moves
      <3>. QED
        BY <3>2, <3>3 DEF ExitCode
    <2>5. ASSUME NEW e \in limbo, Land(e)
          PROVE  Honest(v)
      BY <2>5 DEF Land
    <2>. HIDE DEF Honest
    <2>. QED
      BY <1>1, <2>1, <2>2, <2>3, <2>4, <2>5, StepKinds
  <1>2. LoopInv /\ JournalInv /\ [Next]_vars => [\A w \in Workers : Honest(w)]_vars
    <2>. HIDE DEF Honest
    <2>. QED
      BY <1>1
  <1>3. Spec => [][\A w \in Workers : Honest(w)]_vars
    <2>. HIDE DEF Honest
    <2>. QED
      BY <1>2, LoopInvariant, JournalInvariant, PTL DEF Spec
  <1>. QED
    BY <1>3 DEF ExitIsHonest

-----------------------------------------------------------------------------
(* The truth about effects.                                                  *)

LEMMA NextKeepsTrue ==
    ASSUME NEW s, IsState(s), NEW e, IsLogged(e), Verdict(s, e) = "ok",
           NEW q, q = s.steps, NEW u, u = Applied(s, e).steps,
           NEW n, NEW E, NEW L, StepsTrue(q, n, E), LogInSteps(q, L), NextTrue(q, e, n, E)
    PROVE  StepsTrue(u, n, E) /\ LogInSteps(u, L \cup {e})
  <1>1. StepsMoved(q, u, e)
    BY StepsMove
  <1>2. PICK m \in Nat : m = Len(q) /\ DOMAIN q = 1..m
    BY <1>1 DEF StepsMoved
  <1>3. \A i \in DOMAIN q : u[i].order = q[i].order /\ i \in DOMAIN u
    BY <1>1, <1>2 DEF StepsMoved
  <1>4. e.type \in {"ToolInvoked", "ToolResulted"} =>
          q # <<>> /\ m \in DOMAIN q /\ e.tool \in Ids(q[m].order)
    <2>1. q # <<>> => m \in DOMAIN q
      BY <1>2 DEF IsState, StateType
    <2>2. e.type \in {"ToolInvoked", "ToolResulted"} => InCurrentStep(s, e.tool)
      BY Accepted DEF IsState, IsLogged, BadPayload, BadToolEvent
    <2>. QED
      BY <1>2, <2>1, <2>2 DEF InCurrentStep, Last
  <1>5. /\ e.type = "ToolInvoked" => ~\E x \in q[m].invoked : x.id = e.tool
        /\ e.type = "ToolResulted" => \E x \in q[m].invoked : x.id = e.tool
    <2>1. /\ e.type = "ToolInvoked" => ~IsInvoked(Last(s), e.tool)
          /\ e.type = "ToolResulted" => IsInvoked(Last(s), e.tool)
      BY Accepted DEF IsState, IsLogged, BadPayload, BadToolEvent
    <2>. QED
      BY <1>2, <2>1 DEF IsInvoked, Last
  <1>6. CASE e.type = "LLMResponded"
    <2>1. /\ DOMAIN u = 1..(m + 1) /\ u[m + 1].order = e.order
          /\ u[m + 1].invoked = {} /\ u[m + 1].results = {}
          /\ \A i \in 1..m : /\ u[i].order = q[i].order /\ u[i].invoked = q[i].invoked
                             /\ u[i].results = q[i].results
      BY <1>1, <1>2, <1>6 DEF StepsMoved
    <2>2. \A i \in DOMAIN u : i \in 1..m \/ i = m + 1
      BY <2>1
    <2>3. /\ \A id \in Ids(e.order) : id.call < n
          /\ \A id \in Ids(e.order) : \A i \in 1..m : id \notin Ids(q[i].order)
      BY <1>2, <1>6 DEF NextTrue
    <2>4. StepsTrue(u, n, E)
      <3>0. /\ IdsFresh(q, n) /\ IdsApart(q) /\ InvokedHere(q) /\ ResultedInvoked(q)
            /\ InvokedOnce(q) /\ ResultsTrue(q, E)
        BY DEF StepsTrue
      <3>1. IdsFresh(u, n)
        BY <1>2, <2>1, <2>2, <2>3, <3>0 DEF IdsFresh
      <3>2. IdsApart(u)
        <4>1. SUFFICES ASSUME NEW i \in DOMAIN u, NEW j \in DOMAIN u,
                              NEW id \in Ids(u[i].order), id \in Ids(u[j].order)
                       PROVE  i = j
          BY DEF IdsApart
        <4>2. CASE i \in 1..m /\ j \in 1..m
          BY <1>2, <2>1, <3>0, <4>1, <4>2 DEF IdsApart
        <4>3. CASE i = m + 1
          BY <2>1, <2>2, <2>3, <4>1, <4>3
        <4>4. CASE j = m + 1
          BY <2>1, <2>2, <2>3, <4>1, <4>4
        <4>. QED
          BY <2>2, <4>2, <4>3, <4>4
      <3>3. InvokedHere(u)
        BY <1>2, <2>1, <2>2, <3>0 DEF InvokedHere
      <3>4. ResultedInvoked(u)
        BY <1>2, <2>1, <2>2, <3>0 DEF ResultedInvoked
      <3>5. InvokedOnce(u)
        BY <1>2, <2>1, <2>2, <3>0 DEF InvokedOnce
      <3>6. ResultsTrue(u, E)
        BY <1>2, <2>1, <2>2, <3>0 DEF ResultsTrue
      <3>. QED
        BY <3>1, <3>2, <3>3, <3>4, <3>5, <3>6 DEF StepsTrue
    <2>5. LogInSteps(u, L \cup {e})
      <3>1. \A i \in DOMAIN q : /\ i \in DOMAIN u /\ u[i].invoked = q[i].invoked
                                /\ u[i].results = q[i].results
        BY <1>2, <1>3, <2>1
      <3>. QED
        BY <1>6, <3>1 DEF LogInSteps
    <2>. QED
      BY <2>4, <2>5
  <1>7. CASE e.type = "ToolInvoked"
    <2>1. PICK a : a = [id |-> e.tool, side |-> e.side]
      OBVIOUS
    <2>0. a.id = e.tool
      BY <2>1
    <2>2. u[m].invoked = q[m].invoked \cup {a}
      BY <1>1, <1>2, <1>4, <1>7, <2>1 DEF StepsMoved
    <2>3. /\ DOMAIN u = DOMAIN q
          /\ \A i \in DOMAIN q : u[i].order = q[i].order /\ u[i].results = q[i].results
          /\ \A i \in DOMAIN q : i # m => u[i].invoked = q[i].invoked
      BY <1>1, <1>2, <1>7 DEF StepsMoved
    <2>4. \A i \in DOMAIN q : \A x \in u[i].invoked : x \in q[i].invoked \/ (i = m /\ x = a)
      BY <2>2, <2>3
    <2>5. \A i \in DOMAIN q : q[i].invoked \subseteq u[i].invoked
      BY <2>2, <2>3
    <2>6. \A x \in q[m].invoked : x.id # a.id
      BY <1>5, <1>7, <2>0
    <2>7. StepsTrue(u, n, E)
      <3>0. /\ IdsFresh(q, n) /\ IdsApart(q) /\ InvokedHere(q) /\ ResultedInvoked(q)
            /\ InvokedOnce(q) /\ ResultsTrue(q, E)
        BY DEF StepsTrue
      <3>1. \A r \in q[m].results : r.id # a.id
        BY <1>4, <1>7, <2>6, <3>0 DEF ResultedInvoked
      <3>2. IdsFresh(u, n) /\ IdsApart(u)
        BY <2>3, <3>0 DEF IdsFresh, IdsApart
      <3>3. InvokedHere(u)
        BY <1>4, <1>7, <2>0, <2>3, <2>4, <3>0 DEF InvokedHere
      <3>4. ResultedInvoked(u)
        BY <2>3, <2>5, <3>0 DEF ResultedInvoked
      <3>5. InvokedOnce(u)
        BY <2>3, <2>4, <2>6, <3>0 DEF InvokedOnce
      <3>6. ResultsTrue(u, E)
        BY <2>3, <2>4, <3>0, <3>1 DEF ResultsTrue
      <3>. QED
        BY <3>2, <3>3, <3>4, <3>5, <3>6 DEF StepsTrue
    <2>8. LogInSteps(u, L \cup {e})
      <3>1. a \in u[m].invoked /\ m \in DOMAIN u
        BY <1>4, <1>7, <2>2, <2>3
      <3>. QED
        BY <1>7, <2>1, <2>3, <2>5, <3>1 DEF LogInSteps
    <2>. QED
      BY <2>7, <2>8
  <1>8. CASE e.type = "ToolResulted"
    <2>1. PICK a : a = [id |-> e.tool, status |-> e.status]
      OBVIOUS
    <2>0. a.id = e.tool /\ a.status = e.status
      BY <2>1
    <2>2. u[m].results = q[m].results \cup {a}
      BY <1>1, <1>2, <1>4, <1>8, <2>1 DEF StepsMoved
    <2>3. /\ DOMAIN u = DOMAIN q
          /\ \A i \in DOMAIN q : u[i].order = q[i].order /\ u[i].invoked = q[i].invoked
          /\ \A i \in DOMAIN q : i # m => u[i].results = q[i].results
      BY <1>1, <1>2, <1>8 DEF StepsMoved
    <2>4. \A i \in DOMAIN q : \A x \in u[i].results : x \in q[i].results \/ (i = m /\ x = a)
      BY <2>2, <2>3
    <2>5. \A i \in DOMAIN q : q[i].results \subseteq u[i].results
      BY <2>2, <2>3
    <2>6. \A x \in q[m].invoked :
            x.side /\ x.id = a.id => ((a.status = "success") <=> EffectIn(E, a.id))
      BY <1>2, <1>8, <2>0 DEF NextTrue
    <2>7. StepsTrue(u, n, E)
      <3>0. /\ IdsFresh(q, n) /\ IdsApart(q) /\ InvokedHere(q) /\ ResultedInvoked(q)
            /\ InvokedOnce(q) /\ ResultsTrue(q, E)
        BY DEF StepsTrue
      <3>1. IdsFresh(u, n) /\ IdsApart(u)
        BY <2>3, <3>0 DEF IdsFresh, IdsApart
      <3>2. InvokedHere(u) /\ InvokedOnce(u)
        BY <2>3, <3>0 DEF InvokedHere, InvokedOnce
      <3>3. ResultedInvoked(u)
        BY <1>5, <1>8, <2>0, <2>3, <2>4, <3>0 DEF ResultedInvoked
      <3>4. ResultsTrue(u, E)
        BY <2>3, <2>4, <2>6, <3>0 DEF ResultsTrue
      <3>. QED
        BY <3>1, <3>2, <3>3, <3>4 DEF StepsTrue
    <2>8. LogInSteps(u, L \cup {e})
      <3>1. a \in u[m].results /\ m \in DOMAIN u
        BY <1>4, <1>8, <2>2, <2>3
      <3>. QED
        BY <1>8, <2>1, <2>3, <2>5, <3>1 DEF LogInSteps
    <2>. QED
      BY <2>7, <2>8
  <1>9. CASE e.type \notin {"LLMResponded", "ToolInvoked", "ToolResulted"}
    <2>1. /\ DOMAIN u = DOMAIN q
          /\ \A i \in DOMAIN q : /\ u[i].order = q[i].order /\ u[i].invoked = q[i].invoked
                                 /\ u[i].results = q[i].results
      BY <1>1, <1>9 DEF StepsMoved
    <2>2. StepsTrue(u, n, E)
      <3>1. /\ IdsFresh(q, n) /\ IdsApart(q) /\ InvokedHere(q) /\ ResultedInvoked(q)
            /\ InvokedOnce(q) /\ ResultsTrue(q, E)
        BY DEF StepsTrue
      <3>2. IdsFresh(u, n) /\ IdsApart(u)
        BY <2>1, <3>1 DEF IdsFresh, IdsApart
      <3>3. InvokedHere(u) /\ ResultedInvoked(u) /\ InvokedOnce(u)
        BY <2>1, <3>1 DEF InvokedHere, ResultedInvoked, InvokedOnce
      <3>4. ResultsTrue(u, E)
        BY <2>1, <3>1 DEF ResultsTrue
      <3>. QED
        BY <3>2, <3>3, <3>4 DEF StepsTrue
    <2>3. LogInSteps(u, L \cup {e})
      BY <1>9, <2>1 DEF LogInSteps
    <2>. QED
      BY <2>2, <2>3
  <1>. QED
    BY <1>6, <1>7, <1>8, <1>9 DEF IsLogged, IsEvent

(* An effect of the tool in flight concerns no result.                       *)
LEMMA EffectKeepsTrue ==
    ASSUME NEW s, IsState(s), NextAction(s) = "RESOLVE_IN_FLIGHT_TOOL", NEW q, q = s.steps,
           NEW n, NEW E, NEW w, StepsTrue(q, n, E),
           NEW F, F = E \cup {<<InFlightTool(s).id, w>>}
    PROVE  StepsTrue(q, n, F)
  <1>1. PICK x : x = InFlightTool(s)
    OBVIOUS
  <1>2. /\ q # <<>> /\ x \in q[Len(q)].invoked /\ ~\E r \in q[Len(q)].results : r.id = x.id
    BY <1>1, FlyingTool DEF Last, IsResulted
  <1>3. Len(q) \in DOMAIN q
    BY <1>2 DEF IsState, StateType
  <1>4. \A id : id # x.id => (EffectIn(F, id) <=> EffectIn(E, id))
    BY <1>1 DEF EffectIn
  <1>5. /\ IdsFresh(q, n) /\ IdsApart(q) /\ InvokedHere(q) /\ ResultedInvoked(q)
        /\ InvokedOnce(q) /\ ResultsTrue(q, E)
    BY DEF StepsTrue
  <1>6. \A i \in DOMAIN q : \A r \in q[i].results : r.id # x.id
    <2>1. SUFFICES ASSUME NEW i \in DOMAIN q, NEW r \in q[i].results, r.id = x.id
                   PROVE  FALSE
      OBVIOUS
    <2>2. r.id \in Ids(q[i].order)
      BY <1>5, <2>1 DEF ResultedInvoked, InvokedHere
    <2>3. x.id \in Ids(q[Len(q)].order)
      BY <1>2, <1>3, <1>5 DEF InvokedHere
    <2>4. i = Len(q)
      BY <1>3, <1>5, <2>1, <2>2, <2>3 DEF IdsApart
    <2>. QED
      BY <1>2, <2>1, <2>4
  <1>7. ResultsTrue(q, F)
    BY <1>4, <1>5, <1>6 DEF ResultsTrue
  <1>. QED
    BY <1>5, <1>7 DEF StepsTrue

-----------------------------------------------------------------------------
(* TruthInv is inductive.                                                    *)

LEMMA TruthInvInit == Init => TruthInv
  <1>1. SUFFICES ASSUME Init PROVE TruthInv
    OBVIOUS
  <1>2. journal.state.steps = <<>> /\ Ids(log) = {} /\ limbo = {}
    BY <1>1 DEF Init, NotFound, EmptyState, Ids
  <1>3. StepsTrue(<<>>, calls, effects)
    BY DEF StepsTrue, IdsFresh, IdsApart, InvokedHere, ResultedInvoked, InvokedOnce, ResultsTrue
  <1>4. LogInSteps(<<>>, {})
    BY DEF LogInSteps
  <1>5. \A w \in Workers : pc[w] # "publish"
    BY <1>1 DEF Init
  <1>. QED
    BY <1>2, <1>3, <1>4, <1>5 DEF TruthInv

LEMMA OneMoreCall ==
    ASSUME NEW s, IsState(s), NEW q, q = s.steps, NEW E, NEW n \in Nat, StepsTrue(q, n, E)
    PROVE  StepsTrue(q, n + 1, E)
  <1>1. SUFFICES IdsFresh(q, n + 1)
    BY DEF StepsTrue
  <1>2. SUFFICES ASSUME NEW i \in DOMAIN q, NEW id \in Ids(q[i].order)
                 PROVE  id.call < n + 1
    BY DEF IdsFresh
  <1>3. PICK o : o = q[i].order /\ o \in Seq(ToolIds)
    <2>1. q \in Seq(StepType(ToolIds, Words))
      BY DEF IsState, StateType
    <2>2. q[i] \in StepType(ToolIds, Words)
      BY <1>2, <2>1
    <2>. QED
      BY <2>2 DEF StepType
  <1>4. id \in ToolIds
    BY <1>2, <1>3 DEF Ids
  <1>5. id.call \in Nat
    BY <1>4 DEF ToolIds
  <1>6. id.call < n
    BY <1>2 DEF StepsTrue, IdsFresh
  <1>. QED
    BY <1>5, <1>6

LEMMA TruthPublish ==
    ASSUME LoopInv, JournalInv, TruthInv, NEW w \in Workers, NEW e, Publishes(w, e)
    PROVE  TruthInv'
  <1>1. PICK s, q : s = journal.state /\ q = s.steps
    OBVIOUS
  <1>2. /\ \A v \in Workers : v # w => ~Live(v)
        /\ s = state[w] /\ \A f \in limbo : ~Awaited(f)
    BY <1>1, PublishesAlone
  <1>3. IsState(s) /\ StepsTrue(q, calls, effects) /\ LogInSteps(q, Ids(log)) /\ calls \in Nat
    BY <1>1, LoopAssumption DEF LoopInv, JournalType, TruthInv, CountersType
  <1>4. log' = log /\ journal' = journal /\ limbo' = limbo /\ Moves(w, "publish", state[w], e, 0)
    BY DEF Publishes
  <1>5. StepsTrue(q, calls', effects')
    <2>1. CASE e.type = "LLMResponded"
      <3>1. calls' = calls + 1 /\ effects' = effects
        BY <2>1 DEF Publishes
      <3>. QED
        BY <1>1, <1>3, <3>1, OneMoreCall
    <2>2. CASE e.type = "ToolResulted"
      <3>1. /\ calls' = calls /\ NextAction(s) = "RESOLVE_IN_FLIGHT_TOOL"
            /\ effects' = effects \/ effects' = effects \cup {<<InFlightTool(s).id, w>>}
        BY <1>2, <2>2 DEF Publishes
      <3>. QED
        BY <1>1, <1>3, <3>1, EffectKeepsTrue
    <2>3. CASE e.type \notin {"LLMResponded", "ToolResulted"}
      BY <1>3, <2>3 DEF Publishes
    <2>. QED
      BY <2>1, <2>2, <2>3
  <1>6. NextTrue(q, e, calls', effects')
    <2>1. CASE e.type = "LLMResponded"
      <3>1. calls' = calls + 1 /\ \A id \in Ids(e.order) : id.call = calls
        BY <2>1 DEF Publishes
      <3>2. \A i \in DOMAIN q : \A id \in Ids(q[i].order) : id.call < calls
        BY <1>3 DEF StepsTrue, IdsFresh
      <3>3. ~(calls < calls) /\ calls < calls + 1
        BY <1>3
      <3>. QED
        BY <2>1, <3>1, <3>2, <3>3 DEF NextTrue
    <2>2. CASE e.type = "ToolResulted"
      <3>1. PICK y : y = InFlightTool(s)
        OBVIOUS
      <3>2. /\ NextAction(s) = "RESOLVE_IN_FLIGHT_TOOL" /\ e.tool = y.id
            /\ effects' = effects \/ ~y.side
            /\ y.side => (e.status = "success") = HasEffect(e.tool)
        BY <1>2, <2>2, <3>1 DEF Publishes
      <3>3. q # <<>> /\ y \in q[Len(q)].invoked
        BY <1>1, <1>3, <3>1, <3>2, FlyingTool DEF Last
      <3>4. Len(q) \in DOMAIN q
        BY <1>1, <1>3, <3>3 DEF IsState, StateType
      <3>5. \A x \in q[Len(q)].invoked : x.id = e.tool => x = y
        BY <1>3, <3>2, <3>3, <3>4 DEF StepsTrue, InvokedOnce
      <3>6. y.side => ((e.status = "success") <=> EffectIn(effects', e.tool))
        BY <3>2 DEF HasEffect, EffectIn
      <3>. QED
        BY <2>2, <3>5, <3>6 DEF NextTrue
    <2>3. CASE e.type \notin {"LLMResponded", "ToolResulted"}
      BY <2>3 DEF NextTrue
    <2>. QED
      BY <2>1, <2>2, <2>3
  <1>7. \A v \in Workers : pc'[v] = "publish" => env'[v] = e
    BY <1>2, <1>4 DEF Moves, Live
  <1>8. \A f \in limbo' : ~Awaited(f)'
    BY <1>2, <1>4 DEF Awaited
  <1>. QED
    BY <1>1, <1>3, <1>4, <1>5, <1>6, <1>7, <1>8 DEF TruthInv

(* A step that leaves the log alone.                                         *)
LEMMA TruthMove ==
    ASSUME LoopInv, JournalInv, TruthInv, NEW w \in Workers,
           log' = log, journal' = journal, calls' = calls,
           \A e \in limbo' : e \in limbo \/ (pc[w] = "publish" /\ e = env[w]),
           \A v \in Workers : pc'[v] = "publish" => pc[v] = "publish" /\ env'[v] = env[v],
           \/ effects' = effects
           \/ /\ pc[w] = "fence"
              /\ effects' = effects \cup {<<InFlightTool(state[w]).id, w>>}
    PROVE  TruthInv'
  <1>1. PICK s, q : s = journal.state /\ q = s.steps
    OBVIOUS
  <1>2. IsState(s) /\ StepsTrue(q, calls, effects) /\ LogInSteps(q, Ids(log))
    BY <1>1 DEF LoopInv, JournalType, TruthInv
  <1>3. \A e : Awaited(e)' <=> Awaited(e)
    BY DEF Awaited
  <1>4. CASE effects' = effects
    BY <1>1, <1>2, <1>3, <1>4 DEF TruthInv
  <1>5. CASE /\ pc[w] = "fence"
             /\ effects' = effects \cup {<<InFlightTool(state[w]).id, w>>}
    <2>1. s = state[w] /\ NextAction(s) = "RESOLVE_IN_FLIGHT_TOOL"
      BY <1>1, <1>5, DriveFacts DEF JournalInv, LiveMatchesJournal, LoopInv
    <2>2. StepsTrue(q, calls, effects')
      BY <1>1, <1>2, <1>5, <2>1, EffectKeepsTrue
    <2>3. \A e \in limbo' : ~Awaited(e)'
      BY <1>3, <1>5, NothingAwaited
    <2>4. \A v \in Workers : pc'[v] # "publish"
      BY <1>5 DEF JournalInv, OneLive, Live
    <2>. QED
      BY <1>1, <1>2, <2>2, <2>3, <2>4 DEF TruthInv
  <1>. QED
    BY <1>4, <1>5

LEMMA TruthAck ==
    ASSUME LoopInv, JournalInv, TruthInv, NEW w \in Workers, Acked(w)
    PROVE  TruthInv'
  <1>1. PICK s, e, t, q : s = state[w] /\ e = env[w] /\ t = Applied(s, e) /\ q = t.steps
    OBVIOUS
  <1>2. /\ journal' = [err |-> "ok", state |-> t] /\ Ids(log') = Ids(log) \cup {e}
        /\ \A f \in limbo : Delivered(f)'
    BY <1>1, AckJournal
  <1>3. pc[w] = "publish" /\ limbo' = limbo /\ effects' = effects /\ calls' = calls
    BY DEF Acked
  <1>4. IsState(s) /\ IsLogged(e) /\ Verdict(s, e) = "ok"
    BY <1>1, <1>3 DEF LoopInv, WorkersInv, WorkerOK
  <1>5. StepsTrue(q, calls, effects) /\ LogInSteps(q, Ids(log) \cup {e})
    <2>1. CASE journal.state = s
      <3>1. NextTrue(s.steps, e, calls, effects)
        BY <1>1, <1>3, <1>4, <2>1 DEF TruthInv, Awaited
      <3>2. StepsTrue(s.steps, calls, effects) /\ LogInSteps(s.steps, Ids(log))
        BY <2>1 DEF TruthInv
      <3>. QED
        BY <1>1, <1>4, <3>1, <3>2, NextKeepsTrue
    <2>2. CASE journal = [err |-> "ok", state |-> t] /\ e \in Ids(log)
      <3>1. journal.state = t /\ Ids(log) \cup {e} = Ids(log)
        BY <2>2
      <3>. QED
        BY <1>1, <3>1 DEF TruthInv
    <2>. QED
      BY <1>1, <1>3, <2>1, <2>2 DEF JournalInv, PublishMatches
  <1>6. \A f \in limbo' : ~Awaited(f)'
    BY <1>2, <1>3, SeenIsRedelivery DEF Delivered, Awaited
  <1>7. \A v \in Workers : pc'[v] # "publish"
    <2>1. pc'[w] # "publish"
      BY ExitPlaces DEF Acked, Moves, LivePlaces
    <2>2. \A v \in Workers : v # w => pc'[v] = pc[v] /\ pc[v] # "publish"
      BY <1>3 DEF Acked, Moves, JournalInv, OneLive, Live
    <2>. QED
      BY <2>1, <2>2
  <1>. QED
    BY <1>1, <1>2, <1>3, <1>5, <1>6, <1>7 DEF TruthInv

LEMMA TruthLand ==
    ASSUME LoopInv, JournalInv, TruthInv, NEW e \in limbo, Land(e)
    PROVE  TruthInv'
  <1>1. /\ AppendToLog(e) /\ limbo' = limbo \ {e} /\ IsLogged(e) /\ pc' = pc /\ env' = env
        /\ effects' = effects /\ calls' = calls /\ Ids(log') = Ids(log) \cup {e}
    BY LandStep DEF Land, LoopInv, JournalType
  <1>2. CASE Delivered(e)
    <2>1. journal' = journal /\ Ids(log') = Ids(log)
      BY <1>1, <1>2, IgnoresSeen DEF Delivered
    <2>2. \A f : Awaited(f)' <=> Awaited(f)
      BY <2>1 DEF Awaited
    <2>. QED
      BY <1>1, <2>1, <2>2 DEF TruthInv
  <1>3. CASE Awaited(e) /\ \A w \in Workers : Live(w) => pc[w] = "publish" /\ env[w] = e
    <2>1. PICK s, t, q : s = journal.state /\ t = Applied(s, e) /\ q = t.steps
      OBVIOUS
    <2>2. journal' = [err |-> "ok", state |-> t] /\ Seen(journal'.state, e)
      BY <1>1, <1>3, <2>1, TakesAwaited
    <2>3. /\ IsState(s) /\ Verdict(s, e) = "ok" /\ NextTrue(s.steps, e, calls, effects)
          /\ StepsTrue(s.steps, calls, effects) /\ LogInSteps(s.steps, Ids(log))
      BY <1>3, <2>1 DEF LoopInv, JournalType, TruthInv, Awaited
    <2>4. StepsTrue(q, calls, effects) /\ LogInSteps(q, Ids(log) \cup {e})
      BY <1>1, <2>1, <2>3, NextKeepsTrue
    <2>5. \A f \in limbo' : ~Awaited(f)'
      <3>1. \A f \in limbo' : Delivered(f)'
        BY <1>3, JournalLand
      <3>. QED
        BY <3>1, SeenIsRedelivery DEF Delivered, Awaited
    <2>6. \A v \in Workers : (pc[v] = "publish" => ~Awaited(env[v]))'
      BY <1>1, <1>3, <2>2, SeenIsRedelivery DEF Live, Awaited
    <2>. QED
      BY <1>1, <2>1, <2>2, <2>4, <2>5, <2>6 DEF TruthInv
  <1>. QED
    BY <1>2, <1>3 DEF JournalInv, LimboInv

LEMMA TruthInvNext ==
    ASSUME LoopInv, JournalInv, TruthInv, [Next]_vars
    PROVE  TruthInv'
  <1>1. ASSUME NEW w \in Workers, Leaves(w)
        PROVE  TruthInv'
    <2>1. /\ log' = log /\ journal' = journal /\ calls' = calls
          /\ \A e \in limbo' : e \in limbo \/ (pc[w] = "publish" /\ e = env[w])
          /\ \/ effects' = effects
             \/ /\ pc[w] = "fence"
                /\ effects' = effects \cup {<<InFlightTool(state[w]).id, w>>}
      BY <1>1 DEF Leaves
    <2>2. \A v \in Workers : pc'[v] = "publish" => pc[v] = "publish" /\ env'[v] = env[v]
      BY <1>1 DEF Leaves, Moves, LivePlaces
    <2>. QED
      BY <2>1, <2>2, TruthMove
  <1>2. ASSUME NEW w \in Workers, GoesOn(w)
        PROVE  TruthInv'
    <2>1. /\ log' = log /\ journal' = journal /\ calls' = calls
          /\ \A e \in limbo' : e \in limbo \/ (pc[w] = "publish" /\ e = env[w])
          /\ \/ effects' = effects
             \/ /\ pc[w] = "fence"
                /\ effects' = effects \cup {<<InFlightTool(state[w]).id, w>>}
      BY <1>2 DEF GoesOn
    <2>2. \A v \in Workers : pc'[v] = "publish" => pc[v] = "publish" /\ env'[v] = env[v]
      BY <1>2 DEF GoesOn, Moves
    <2>. QED
      BY <2>1, <2>2, TruthMove
  <1>3. CASE Next
    BY <1>1, <1>2, <1>3, StepKinds, TruthPublish, TruthAck, TruthLand
  <1>4. CASE UNCHANGED vars
    BY <1>4 DEF vars, TruthInv, Awaited
  <1>. QED
    BY <1>3, <1>4

(* With one worker at a time and no late writes, the results in the journal  *)
(* and the next event, published, unacknowledged or lost, are true of the    *)
(* effects.                                                                  *)
THEOREM TruthInvariant ==
    ASSUME OneAtATime, ~LateWrites
    PROVE  Spec => []TruthInv
  <1>1. Init => TruthInv
    BY TruthInvInit
  <1>2. LoopInv /\ JournalInv /\ TruthInv /\ [Next]_vars => TruthInv'
    BY TruthInvNext
  <1>. QED
    BY <1>1, <1>2, LoopInvariant, JournalInvariant, PTL DEF Spec

(* A journaled result of a fenced tool says success iff the tool's effect    *)
(* exists, and goes on being true, over any crashes and builds.              *)
THEOREM ResultsStayTrue ==
    ASSUME OneAtATime, ~LateWrites
    PROVE  Spec => []ResultIsTrue
  <1>1. TruthInv => ResultIsTrue
    <2>1. SUFFICES ASSUME TruthInv, NEW e \in Ids(log), e.type = "ToolResulted",
                          NEW f \in Ids(log), f.type = "ToolInvoked", f.tool = e.tool, f.side
                   PROVE  (e.status = "success") = HasEffect(e.tool)
      BY DEF ResultIsTrue
    <2>2. PICK q : q = journal.state.steps /\ StepsTrue(q, calls, effects) /\ LogInSteps(q, Ids(log))
      BY <2>1 DEF TruthInv
    <2>3. /\ IdsApart(q) /\ InvokedHere(q) /\ ResultedInvoked(q) /\ ResultsTrue(q, effects)
      BY <2>2 DEF StepsTrue
    <2>4. PICK r, x : /\ r = [id |-> e.tool, status |-> e.status]
                      /\ x = [id |-> f.tool, side |-> f.side]
      OBVIOUS
    <2>5. r.id = e.tool /\ r.status = e.status /\ x.id = e.tool /\ x.side
      BY <2>1, <2>4
    <2>6. PICK i \in DOMAIN q : r \in q[i].results
      BY <2>1, <2>2, <2>4 DEF LogInSteps
    <2>7. PICK j \in DOMAIN q : x \in q[j].invoked
      BY <2>1, <2>2, <2>4 DEF LogInSteps
    <2>8. i = j
      <3>1. e.tool \in Ids(q[i].order)
        BY <2>3, <2>5, <2>6 DEF ResultedInvoked, InvokedHere
      <3>2. e.tool \in Ids(q[j].order)
        BY <2>3, <2>5, <2>7 DEF InvokedHere
      <3>. QED
        BY <2>3, <2>6, <2>7, <3>1, <3>2 DEF IdsApart
    <2>9. (e.status = "success") <=> EffectIn(effects, e.tool)
      BY <2>3, <2>5, <2>6, <2>7, <2>8 DEF ResultsTrue
    <2>. QED
      BY <2>9 DEF EffectIn, HasEffect
  <1>. QED
    BY <1>1, TruthInvariant, PTL
=============================================================================
