---------------------------- MODULE RunFoldProofs ----------------------------
(***************************************************************************)
(* What Apply does with one event and Fold with a log: the lemmas about the *)
(* replay that the proofs about its users rest on.  For the user, I is the  *)
(* set of event ids, T the set of tool_use ids and X the stop reasons and   *)
(* the statuses of tool results.                                            *)
(***************************************************************************)
EXTENDS RunFold, WellFoundedInduction, FiniteSetTheorems, SequenceTheorems, TLAPS

Statuses == {"NONE", "RUNNING", "AWAITING_APPROVAL"} \cup TerminalStatuses

StepType(T, X) ==
    [stop : X, order : Seq(T), invoked : SUBSET [id : T, side : BOOLEAN],
     results : SUBSET [id : T, status : X]]

StateType(I, T, X) ==
    [status : Statuses, step : Int, maxSteps : Int, steps : Seq(StepType(T, X)),
     seen : Seq(I)]

TerminalEvents == {"RunCompleted", "RunFailed", "RunCancelled"}

EventTypes ==
    {"RunStarted", "LLMResponded", "ToolInvoked", "ToolResulted",
     "AwaitingApproval", "RunApproved"} \cup TerminalEvents

(* An event whose payload has the fields of its type.                        *)
IsEvent(e, I, T, X) ==
    /\ e.type \in EventTypes /\ e.seq \in Nat /\ e.id \in I
    /\ e.type = "RunStarted" => e.maxSteps \in Int
    /\ e.type = "LLMResponded" => e.step \in Int /\ e.stop \in X /\ e.order \in Seq(T)
    /\ e.type \in {"ToolInvoked", "ToolResulted"} => e.tool \in T
    /\ e.type = "ToolInvoked" => e.side \in BOOLEAN
    /\ e.type = "ToolResulted" => e.status \in X

-----------------------------------------------------------------------------
(* The verdict "ok", spelled out.                                            *)
LEMMA Accepted ==
    ASSUME NEW I, NEW T, NEW X, NEW s \in StateType(I, T, X), NEW e, IsEvent(e, I, T, X),
           Verdict(s, e) = "ok"
    PROVE  /\ e.seq = NextSequence(s)
           /\ s.seen = <<>> => e.type = "RunStarted"
           /\ s.seen # <<>> => ~IsTerminal(s)
           /\ BadPayload(s, e) = "ok"
  <1>1. Structural(s, e) = "ok" /\ BadPayload(s, e) = "ok"
    BY DEF Verdict
  <1>2. s.seen \in Seq(I) /\ Len(s.seen) \in Nat /\ e.seq \in Nat
    BY DEF StateType, IsEvent
  <1>3. s.seen = <<>> => Len(s.seen) = 0
    OBVIOUS
  <1>4. /\ e.seq >= Len(s.seen)
        /\ s.seen = <<>> => e.seq = 0 /\ e.type = "RunStarted"
        /\ s.seen # <<>> => ~IsTerminal(s) /\ e.seq = Len(s.seen)
    BY <1>1, <1>2 DEF Structural, NextSequence
  <1>. QED
    BY <1>1, <1>2, <1>3, <1>4 DEF NextSequence

(* An accepted event whose sequence number is the next one is applied, not   *)
(* taken for a redelivery.                                                   *)
LEMMA ApplyNext ==
    ASSUME NEW I, NEW T, NEW X, NEW s \in StateType(I, T, X), NEW e, IsEvent(e, I, T, X),
           e.seq = NextSequence(s), Apply(s, e).err = "ok"
    PROVE  Verdict(s, e) = "ok" /\ Apply(s, e).state = Applied(s, e)
  <1>1. Len(s.seen) \in Nat /\ e.seq = Len(s.seen)
    BY DEF StateType, NextSequence
  <1>2. Structural(s, e) # "redelivery"
    BY <1>1 DEF Structural, NextSequence
  <1>3. BadPayload(s, e) # "redelivery"
    BY DEF BadPayload, BadToolEvent
  <1>4. Verdict(s, e) # "redelivery"
    BY <1>2, <1>3 DEF Verdict
  <1>. QED
    BY <1>4 DEF Apply

(* What each type of event does to the state.                                *)
LEMMA PayloadCases ==
    ASSUME NEW s, NEW e
    PROVE  /\ e.type = "RunStarted" => ApplyPayload(s, e) =
                [s EXCEPT !.status = "RUNNING", !.step = 0, !.maxSteps = e.maxSteps]
           /\ e.type = "LLMResponded" => ApplyPayload(s, e) =
                [s EXCEPT !.step = e.step,
                          !.steps = Append(s.steps, [stop |-> e.stop, order |-> e.order,
                                                     invoked |-> {}, results |-> {}])]
           /\ e.type = "ToolInvoked" => ApplyPayload(s, e) =
                [s EXCEPT !.steps = [s.steps EXCEPT ![Len(s.steps)] =
                   [Last(s) EXCEPT !.invoked =
                       Last(s).invoked \cup {[id |-> e.tool, side |-> e.side]}]]]
           /\ e.type = "ToolResulted" => ApplyPayload(s, e) =
                [s EXCEPT !.steps = [s.steps EXCEPT ![Len(s.steps)] =
                   [Last(s) EXCEPT !.results =
                       Last(s).results \cup {[id |-> e.tool, status |-> e.status]}]]]
           /\ e.type = "AwaitingApproval" =>
                ApplyPayload(s, e) = [s EXCEPT !.status = "AWAITING_APPROVAL"]
           /\ e.type = "RunApproved" => ApplyPayload(s, e) = [s EXCEPT !.status = "RUNNING"]
           /\ e.type = "RunCompleted" => ApplyPayload(s, e) = [s EXCEPT !.status = "COMPLETED"]
           /\ e.type = "RunFailed" => ApplyPayload(s, e) = [s EXCEPT !.status = "FAILED"]
           /\ e.type = "RunCancelled" => ApplyPayload(s, e) = [s EXCEPT !.status = "CANCELLED"]
  BY DEF ApplyPayload, Last

(* A sequence with one element replaced.                                     *)
LEMMA Replaced ==
    ASSUME NEW S, NEW q \in Seq(S), NEW n, NEW x, n \in DOMAIN q => x \in S,
           NEW r, r = [q EXCEPT ![n] = x]
    PROVE  /\ r \in Seq(S) /\ Len(r) = Len(q) /\ DOMAIN r = DOMAIN q
           /\ \A i \in DOMAIN q : i # n => r[i] = q[i]
           /\ n \in DOMAIN q => r[n] = x
  <1>1. Len(q) \in Nat /\ DOMAIN q = 1..Len(q) /\ \A i \in DOMAIN q : q[i] \in S
    OBVIOUS
  <1>2. r = [i \in 1..Len(q) |-> IF i = n THEN x ELSE q[i]]
    BY <1>1
  <1>3. r \in [1..Len(q) -> S]
    BY <1>1, <1>2
  <1>. QED
    BY <1>1, <1>2, <1>3

LEMMA ApplyPayloadType ==
    ASSUME NEW I, NEW T, NEW X, NEW s \in StateType(I, T, X), NEW e, IsEvent(e, I, T, X)
    PROVE  /\ ApplyPayload(s, e) \in StateType(I, T, X)
           /\ ApplyPayload(s, e).seen = s.seen
  <1>1. CASE e.type = "RunStarted"
    <2>1. ApplyPayload(s, e) =
            [s EXCEPT !.status = "RUNNING", !.step = 0, !.maxSteps = e.maxSteps]
      BY <1>1, PayloadCases
    <2>2. PICK m \in Int : m = e.maxSteps
      BY <1>1 DEF IsEvent
    <2>3. "RUNNING" \in Statuses /\ 0 \in Int
      BY DEF Statuses
    <2>4. [s EXCEPT !.status = "RUNNING", !.step = 0, !.maxSteps = m] \in StateType(I, T, X)
      BY <2>3 DEF StateType
    <2>5. ApplyPayload(s, e) \in StateType(I, T, X)
      BY <2>1, <2>2, <2>4
    <2>6. ApplyPayload(s, e).seen = s.seen
      BY <2>1 DEF StateType
    <2>. QED
      BY <2>5, <2>6
  <1>2. CASE e.type = "LLMResponded"
    <2> DEFINE new == [stop |-> e.stop, order |-> e.order, invoked |-> {}, results |-> {}]
    <2>1. ApplyPayload(s, e) = [s EXCEPT !.step = e.step, !.steps = Append(s.steps, new)]
      BY <1>2, PayloadCases
    <2>2. e.step \in Int /\ e.stop \in X /\ e.order \in Seq(T)
      BY <1>2 DEF IsEvent
    <2>3. new \in StepType(T, X)
      BY <2>2 DEF StepType
    <2>. HIDE DEF new
    <2>4. Append(s.steps, new) \in Seq(StepType(T, X))
      BY <2>3 DEF StateType
    <2>. QED
      BY <2>1, <2>2, <2>4 DEF StateType
  <1>3. CASE e.type = "ToolInvoked"
    <2> DEFINE new == [Last(s) EXCEPT !.invoked =
                          Last(s).invoked \cup {[id |-> e.tool, side |-> e.side]}]
               n == Len(s.steps)
    <2>1. ApplyPayload(s, e) = [s EXCEPT !.steps = [s.steps EXCEPT ![n] = new]]
      BY <1>3, PayloadCases
    <2>2. s.steps \in Seq(StepType(T, X))
      BY DEF StateType
    <2>3. [id |-> e.tool, side |-> e.side] \in [id : T, side : BOOLEAN]
      BY <1>3 DEF IsEvent
    <2>4. n \in DOMAIN s.steps => new \in StepType(T, X)
      <3>1. n \in DOMAIN s.steps => Last(s) \in StepType(T, X)
        BY <2>2 DEF Last
      <3>. QED
        BY <2>3, <3>1 DEF StepType
    <2>. HIDE DEF new
    <2>5. [s.steps EXCEPT ![n] = new] \in Seq(StepType(T, X))
      <3>1. PICK r : r = [s.steps EXCEPT ![n] = new]
        OBVIOUS
      <3>. HIDE DEF n
      <3>. QED
        BY <2>2, <2>4, <3>1, Replaced
    <2>. QED
      BY <2>1, <2>5 DEF StateType
  <1>4. CASE e.type = "ToolResulted"
    <2> DEFINE new == [Last(s) EXCEPT !.results =
                          Last(s).results \cup {[id |-> e.tool, status |-> e.status]}]
               n == Len(s.steps)
    <2>1. ApplyPayload(s, e) = [s EXCEPT !.steps = [s.steps EXCEPT ![n] = new]]
      BY <1>4, PayloadCases
    <2>2. s.steps \in Seq(StepType(T, X))
      BY DEF StateType
    <2>3. [id |-> e.tool, status |-> e.status] \in [id : T, status : X]
      BY <1>4 DEF IsEvent
    <2>4. n \in DOMAIN s.steps => new \in StepType(T, X)
      <3>1. n \in DOMAIN s.steps => Last(s) \in StepType(T, X)
        BY <2>2 DEF Last
      <3>. QED
        BY <2>3, <3>1 DEF StepType
    <2>. HIDE DEF new
    <2>5. [s.steps EXCEPT ![n] = new] \in Seq(StepType(T, X))
      <3>1. PICK r : r = [s.steps EXCEPT ![n] = new]
        OBVIOUS
      <3>. HIDE DEF n
      <3>. QED
        BY <2>2, <2>4, <3>1, Replaced
    <2>. QED
      BY <2>1, <2>5 DEF StateType
  <1>5. CASE e.type \in {"AwaitingApproval", "RunApproved"} \cup TerminalEvents
    <2>1. \E x : x \in Statuses /\ ApplyPayload(s, e) = [s EXCEPT !.status = x]
      <3>1. /\ "AWAITING_APPROVAL" \in Statuses /\ "RUNNING" \in Statuses
            /\ "COMPLETED" \in Statuses /\ "FAILED" \in Statuses /\ "CANCELLED" \in Statuses
        BY DEF Statuses, TerminalStatuses
      <3>2. CASE e.type = "AwaitingApproval"
        BY <3>1, <3>2, PayloadCases
      <3>3. CASE e.type = "RunApproved"
        BY <3>1, <3>3, PayloadCases
      <3>4. CASE e.type = "RunCompleted"
        BY <3>1, <3>4, PayloadCases
      <3>5. CASE e.type = "RunFailed"
        BY <3>1, <3>5, PayloadCases
      <3>6. CASE e.type = "RunCancelled"
        BY <3>1, <3>6, PayloadCases
      <3>. QED
        BY <1>5, <3>2, <3>3, <3>4, <3>5, <3>6 DEF TerminalEvents
    <2>. QED
      BY <2>1 DEF StateType
  <1>. QED
    BY <1>1, <1>2, <1>3, <1>4, <1>5 DEF IsEvent, EventTypes

(* The steps after an event: one more, the last one changed, or the ones     *)
(* there were.                                                               *)
NewStep(e) == [stop |-> e.stop, order |-> e.order, invoked |-> {}, results |-> {}]
InvokedStep(s, e) ==
    [Last(s) EXCEPT !.invoked = Last(s).invoked \cup {[id |-> e.tool, side |-> e.side]}]
ResultedStep(s, e) ==
    [Last(s) EXCEPT !.results = Last(s).results \cup {[id |-> e.tool, status |-> e.status]}]

StepsAfter(s, e) ==
    IF e.type = "LLMResponded" THEN Append(s.steps, NewStep(e))
    ELSE IF e.type = "ToolInvoked" THEN [s.steps EXCEPT ![Len(s.steps)] = InvokedStep(s, e)]
    ELSE IF e.type = "ToolResulted" THEN [s.steps EXCEPT ![Len(s.steps)] = ResultedStep(s, e)]
    ELSE s.steps

StatusAfter(s, e) ==
    IF e.type \in {"RunStarted", "RunApproved"} THEN "RUNNING"
    ELSE IF e.type = "AwaitingApproval" THEN "AWAITING_APPROVAL"
    ELSE IF e.type = "RunCompleted" THEN "COMPLETED"
    ELSE IF e.type = "RunFailed" THEN "FAILED"
    ELSE IF e.type = "RunCancelled" THEN "CANCELLED"
    ELSE s.status

LEMMA PayloadFields ==
    ASSUME NEW I, NEW T, NEW X, NEW s \in StateType(I, T, X), NEW e, IsEvent(e, I, T, X)
    PROVE  /\ ApplyPayload(s, e).status = StatusAfter(s, e)
           /\ ApplyPayload(s, e).steps = StepsAfter(s, e)
           /\ e.type # "RunStarted" => ApplyPayload(s, e).maxSteps = s.maxSteps
           /\ e.type \notin {"RunStarted", "LLMResponded"} => ApplyPayload(s, e).step = s.step
           /\ e.type = "LLMResponded" => ApplyPayload(s, e).step = e.step
  <1> DEFINE t == ApplyPayload(s, e)
             Goal == /\ t.status = StatusAfter(s, e)
                     /\ t.steps = StepsAfter(s, e)
                     /\ e.type # "RunStarted" => t.maxSteps = s.maxSteps
                     /\ e.type \notin {"RunStarted", "LLMResponded"} => t.step = s.step
                     /\ e.type = "LLMResponded" => t.step = e.step
  <1>1. SUFFICES Goal
    OBVIOUS
  <1>2. ASSUME NEW x
        PROVE  LET u == [s EXCEPT !.status = x] IN
               u.status = x /\ u.steps = s.steps /\ u.maxSteps = s.maxSteps /\ u.step = s.step
    BY DEF StateType
  <1>3. ASSUME NEW q
        PROVE  LET u == [s EXCEPT !.steps = q] IN
               u.status = s.status /\ u.steps = q /\ u.maxSteps = s.maxSteps /\ u.step = s.step
    BY DEF StateType
  <1>4. CASE e.type = "RunStarted"
    <2>1. t = [s EXCEPT !.status = "RUNNING", !.step = 0, !.maxSteps = e.maxSteps]
      BY <1>4, PayloadCases
    <2>2. t.status = "RUNNING" /\ t.steps = s.steps
      BY <2>1 DEF StateType
    <2>. HIDE DEF t
    <2>. QED
      BY <1>4, <2>2 DEF StatusAfter, StepsAfter
  <1>5. CASE e.type = "LLMResponded"
    <2>1. t = [s EXCEPT !.step = e.step, !.steps = Append(s.steps, NewStep(e))]
      BY <1>5, PayloadCases DEF NewStep
    <2>2. PICK q, n : q = Append(s.steps, NewStep(e)) /\ n = e.step
      OBVIOUS
    <2>3. t = [s EXCEPT !.step = n, !.steps = q]
      BY <2>1, <2>2
    <2>4. t.status = s.status /\ t.steps = q /\ t.step = n /\ t.maxSteps = s.maxSteps
      BY <2>3 DEF StateType
    <2>. HIDE DEF t
    <2>. QED
      BY <1>5, <2>2, <2>4 DEF StatusAfter, StepsAfter
  <1>6. CASE e.type = "ToolInvoked"
    <2>1. t = [s EXCEPT !.steps = [s.steps EXCEPT ![Len(s.steps)] = InvokedStep(s, e)]]
      BY <1>6, PayloadCases DEF InvokedStep
    <2>2. PICK q : q = [s.steps EXCEPT ![Len(s.steps)] = InvokedStep(s, e)]
      OBVIOUS
    <2>3. t = [s EXCEPT !.steps = q]
      BY <2>1, <2>2
    <2>4. t.status = s.status /\ t.steps = q /\ t.step = s.step /\ t.maxSteps = s.maxSteps
      BY <1>3, <2>3
    <2>. HIDE DEF t
    <2>. QED
      BY <1>6, <2>2, <2>4 DEF StatusAfter, StepsAfter
  <1>7. CASE e.type = "ToolResulted"
    <2>1. t = [s EXCEPT !.steps = [s.steps EXCEPT ![Len(s.steps)] = ResultedStep(s, e)]]
      BY <1>7, PayloadCases DEF ResultedStep
    <2>2. PICK q : q = [s.steps EXCEPT ![Len(s.steps)] = ResultedStep(s, e)]
      OBVIOUS
    <2>3. t = [s EXCEPT !.steps = q]
      BY <2>1, <2>2
    <2>4. t.status = s.status /\ t.steps = q /\ t.step = s.step /\ t.maxSteps = s.maxSteps
      BY <1>3, <2>3
    <2>. HIDE DEF t
    <2>. QED
      BY <1>7, <2>2, <2>4 DEF StatusAfter, StepsAfter
  <1>8. CASE e.type \in {"AwaitingApproval", "RunApproved"} \cup TerminalEvents
    <2>1. t = [s EXCEPT !.status = StatusAfter(s, e)]
      <3>1. CASE e.type = "AwaitingApproval"
        BY <3>1, PayloadCases DEF StatusAfter
      <3>2. CASE e.type = "RunApproved"
        BY <3>2, PayloadCases DEF StatusAfter
      <3>3. CASE e.type = "RunCompleted"
        BY <3>3, PayloadCases DEF StatusAfter
      <3>4. CASE e.type = "RunFailed"
        BY <3>4, PayloadCases DEF StatusAfter
      <3>5. CASE e.type = "RunCancelled"
        BY <3>5, PayloadCases DEF StatusAfter
      <3>. QED
        BY <1>8, <3>1, <3>2, <3>3, <3>4, <3>5 DEF TerminalEvents
    <2>2. /\ t.status = StatusAfter(s, e) /\ t.steps = s.steps
          /\ t.step = s.step /\ t.maxSteps = s.maxSteps
      BY <1>2, <2>1
    <2>. HIDE DEF t
    <2>. QED
      BY <1>8, <2>2 DEF StepsAfter, TerminalEvents
  <1>. QED
    BY <1>4, <1>5, <1>6, <1>7, <1>8 DEF IsEvent, EventTypes

(* The state after an accepted event.                                        *)
LEMMA AppliedFields ==
    ASSUME NEW I, NEW T, NEW X, NEW s \in StateType(I, T, X), NEW e, IsEvent(e, I, T, X)
    PROVE  /\ Applied(s, e) \in StateType(I, T, X)
           /\ Applied(s, e).seen = Append(s.seen, e.id)
           /\ NextSequence(Applied(s, e)) = NextSequence(s) + 1
           /\ Applied(s, e).status = StatusAfter(s, e)
           /\ Applied(s, e).steps = StepsAfter(s, e)
  <1>1. PICK t \in StateType(I, T, X) : t = ApplyPayload(s, e) /\ t.seen = s.seen
    BY ApplyPayloadType
  <1>2. PICK r \in Seq(I), x \in I : r = s.seen /\ x = e.id
    BY DEF StateType, IsEvent
  <1>3. PICK q : q = Append(r, x)
    OBVIOUS
  <1>4. q \in Seq(I) /\ Len(q) = Len(r) + 1
    BY <1>3
  <1>5. PICK u : u = [t EXCEPT !.seen = q]
    OBVIOUS
  <1>6. Applied(s, e) = u
    BY <1>1, <1>2, <1>3, <1>5 DEF Applied
  <1>7. /\ u \in StateType(I, T, X) /\ u.seen = q /\ u.status = t.status
        /\ u.steps = t.steps
    BY <1>4, <1>5 DEF StateType
  <1>8. t.status = StatusAfter(s, e) /\ t.steps = StepsAfter(s, e)
    BY <1>1, PayloadFields
  <1>. QED
    BY <1>2, <1>3, <1>4, <1>6, <1>7, <1>8 DEF NextSequence

LEMMA AppliedStatus ==
    ASSUME NEW I, NEW T, NEW X, NEW s \in StateType(I, T, X), NEW e, IsEvent(e, I, T, X)
    PROVE  /\ e.type \in TerminalEvents => IsTerminal(Applied(s, e))
           /\ e.type \notin TerminalEvents =>
                (IsTerminal(Applied(s, e)) => IsTerminal(s))
  <1>1. Applied(s, e).status = StatusAfter(s, e)
    BY AppliedFields
  <1>. QED
    BY <1>1 DEF StatusAfter, IsTerminal, TerminalStatuses, TerminalEvents

(* An event that Apply does not accept leaves the state alone, so what Apply *)
(* returns is one or the other.                                              *)
LEMMA ApplyKinds ==
    ASSUME NEW s, NEW e
    PROVE  \/ Verdict(s, e) = "ok" /\ Apply(s, e) = [err |-> "ok", state |-> Applied(s, e)]
           \/ Verdict(s, e) = "redelivery" /\ Apply(s, e) = [err |-> "ok", state |-> s]
           \/ /\ Verdict(s, e) \notin {"ok", "redelivery"}
              /\ Apply(s, e) = [err |-> Verdict(s, e), state |-> s]
  BY DEF Apply

(* Every step but the last has all its results.                              *)
ClosedButLast(s) == \A i \in 1..(Len(s.steps) - 1) : AllResulted(s.steps[i])

(* applyLLMResponded opens a step only behind closed ones.                   *)
LEMMA ClosedSteps ==
    ASSUME NEW I, NEW T, NEW X, NEW s \in StateType(I, T, X), NEW e, IsEvent(e, I, T, X),
           Verdict(s, e) = "ok", ClosedButLast(s)
    PROVE  ClosedButLast(Applied(s, e))
  <1>1. PICK u, q : u = Applied(s, e).steps /\ u = StepsAfter(s, e) /\ q = s.steps
    BY AppliedFields
  <1>2. q \in Seq(StepType(T, X)) /\ Len(q) \in Nat /\ DOMAIN q = 1..Len(q)
    BY <1>1 DEF StateType
  <1>3. \A i \in 1..(Len(q) - 1) : AllResulted(q[i])
    BY <1>1 DEF ClosedButLast
  <1>4. SUFFICES \A i \in 1..(Len(u) - 1) : AllResulted(u[i])
    BY <1>1 DEF ClosedButLast
  <1>5. CASE e.type = "LLMResponded"
    <2>1. PICK x : x = NewStep(e)
      OBVIOUS
    <2>2. u = Append(q, x)
      BY <1>1, <1>5, <2>1 DEF StepsAfter
    <2>3. q = <<>> \/ AllResulted(q[Len(q)])
      BY <1>1, <1>5, Accepted DEF BadPayload, Last
    <2>4. q # <<>> => Len(q) # 0
      BY <1>2
    <2>5. \A i \in 1..Len(q) : AllResulted(q[i])
      BY <1>2, <1>3, <2>3, <2>4
    <2>6. Len(u) = Len(q) + 1 /\ \A i \in 1..Len(q) : u[i] = q[i]
      BY <1>2, <2>2
    <2>7. 1..(Len(u) - 1) = 1..Len(q)
      BY <1>2, <2>6
    <2>. QED
      BY <2>5, <2>6, <2>7
  <1>6. CASE e.type \in {"ToolInvoked", "ToolResulted"}
    <2>1. PICK n \in Nat : n = Len(q)
      BY <1>2
    <2>2. PICK x : u = [q EXCEPT ![n] = x]
      BY <1>1, <1>6, <2>1 DEF StepsAfter
    <2>3. PICK S : S = StepType(T, X) \cup {x}
      OBVIOUS
    <2>4. q \in Seq(S) /\ x \in S
      BY <1>2, <2>3
    <2>5. Len(u) = Len(q) /\ \A i \in DOMAIN q : i # n => u[i] = q[i]
      BY <2>2, <2>4, Replaced
    <2>6. Len(u) = n /\ \A i \in 1..n : i # n => u[i] = q[i]
      BY <1>2, <2>1, <2>5
    <2>7. \A i \in 1..(n - 1) : i \in 1..n /\ i # n
      OBVIOUS
    <2>. QED
      BY <1>3, <2>1, <2>6, <2>7
  <1>7. CASE e.type \notin {"LLMResponded", "ToolInvoked", "ToolResulted"}
    BY <1>1, <1>3, <1>7 DEF StepsAfter
  <1>. QED
    BY <1>5, <1>6, <1>7

(* With nothing in flight and nothing pending the last step is closed.       *)
LEMMA NothingOpen ==
    ASSUME NEW s, s.steps # <<>>, InFlightTools(s) = {}, PendingToolCalls(s) = {}
    PROVE  AllResulted(Last(s))
  BY DEF InFlightTools, PendingToolCalls, Positions, AllResulted, Ids

(* What computeNextAction's answers say of the state.                        *)
LEMMA ActionMeans ==
    ASSUME NEW s, NEW a, a = NextAction(s)
    PROVE  /\ a \in {"CALL_LLM", "FAIL_MAX_STEPS"} =>
                s.steps = <<>> \/ AllResulted(Last(s))
           /\ a \in {"EXECUTE_TOOL", "FINISH_RUN"} =>
                s.steps # <<>> /\ InFlightTools(s) = {}
           /\ a = "EXECUTE_TOOL" =>
                Last(s).stop = "tool_use" /\ PendingToolCalls(s) # {}
           /\ a = "RESOLVE_IN_FLIGHT_TOOL" =>
                s.steps # <<>> /\ InFlightTools(s) # {}
           /\ s.status = "RUNNING" => a # "NONE"
           /\ a # "NONE" => ~IsTerminal(s)
  BY NothingOpen DEF NextAction, IsTerminal, TerminalStatuses

-----------------------------------------------------------------------------
(* Logs and envelopes.                                                       *)

LEMMA AppendIds ==
    ASSUME NEW q, q \in Seq(Ids(q)), NEW x
    PROVE  /\ Append(q, x) \in Seq(Ids(Append(q, x)))
           /\ Ids(Append(q, x)) = Ids(q) \cup {x}
           /\ Len(Append(q, x)) = Len(q) + 1 /\ Len(q) \in Nat
           /\ DOMAIN Append(q, x) = DOMAIN q \cup {Len(q) + 1}
           /\ DOMAIN q = 1..Len(q)
           /\ \A i \in DOMAIN q : Append(q, x)[i] = q[i]
           /\ Append(q, x)[Len(q) + 1] = x
  <1> DEFINE S == Ids(q) \cup {x}
  <1>1. PICK r : r = Append(q, x)
    OBVIOUS
  <1>2. q \in Seq(S) /\ x \in S /\ DOMAIN q = 1..Len(q) /\ Len(q) \in Nat
    <2>1. Ids(q) \subseteq S
      OBVIOUS
    <2>. QED
      BY <2>1
  <1>3. r \in Seq(S) /\ Len(r) = Len(q) + 1 /\ DOMAIN r = 1..(Len(q) + 1)
        /\ (\A i \in DOMAIN q : r[i] = q[i]) /\ r[Len(q) + 1] = x
    <2>. HIDE DEF S
    <2>. QED
      BY <1>1, <1>2
  <1>4. DOMAIN r = DOMAIN q \cup {Len(q) + 1}
    BY <1>2, <1>3
  <1>5. Ids(r) = S
    BY <1>3, <1>4 DEF Ids
  <1>. QED
    BY <1>1, <1>2, <1>3, <1>4, <1>5

LEMMA EnvelopedFields ==
    ASSUME NEW v, NEW p, NEW e, e = Enveloped(v, p)
    PROVE  /\ DOMAIN e = DOMAIN v \cup DOMAIN p /\ e = [f \in DOMAIN e |-> e[f]]
           /\ \A f \in DOMAIN v : e[f] = v[f]
           /\ \A f \in DOMAIN p : f \notin DOMAIN v => e[f] = p[f]
  BY DEF Enveloped

-----------------------------------------------------------------------------
(* Induction.  The library's rules take the property as an operator; here it *)
(* is a set of numbers.                                                      *)

LEMMA FirstPosition ==
    ASSUME NEW P, P \subseteq Nat, P # {}
    PROVE  (CHOOSE i \in P : \A j \in P : i <= j) \in P
           /\ \A k \in P : (CHOOSE i \in P : \A j \in P : i <= j) <= k
  <1>1. PICK x \in P : \A y \in P : ~(<<y, x>> \in OpToRel(<, Nat))
    BY WFMin, NatLessThanWellFounded
  <1>2. \A y \in P : x <= y
    <2>1. SUFFICES ASSUME NEW y \in P PROVE x <= y
      OBVIOUS
    <2>2. x \in Nat /\ y \in Nat
      OBVIOUS
    <2>3. ~(y < x)
      BY <1>1, <2>2 DEF OpToRel
    <2>. QED
      BY <2>2, <2>3
  <1>. QED
    BY <1>2

LEMMA NatSetInduction ==
    ASSUME NEW S, 0 \in S, \A n \in Nat : n \in S => n + 1 \in S
    PROVE  Nat \subseteq S
  <1>1. SUFFICES ASSUME Nat \ S # {} PROVE FALSE
    OBVIOUS
  <1>2. PICK x \in Nat \ S : \A y \in Nat \ S : x <= y
    BY <1>1, FirstPosition
  <1>3. x # 0 /\ x - 1 \in Nat /\ ~(x <= x - 1) /\ (x - 1) + 1 = x
    BY <1>2
  <1>4. x - 1 \in S
    BY <1>2, <1>3
  <1>. QED
    BY <1>2, <1>3, <1>4

-----------------------------------------------------------------------------
(* Fold, for a log of any length.                                            *)

(* g[i] is the fold of the first i events.                                   *)
FoldsTo(g, evs, n) ==
    g = [i \in 0..n |-> IF i = 0 THEN NotFound ELSE FoldStep(g[i - 1], evs[i])]

(* Fold's CHOOSE is over a function that exists (FoldExists).                *)
LEMMA FoldIs ==
    ASSUME NEW evs, NEW g, FoldsTo(g, evs, Len(evs))
    PROVE  \E f : FoldsTo(f, evs, Len(evs)) /\ Fold(evs) = f[Len(evs)]
  BY Zenon DEF FoldsTo, Fold

LEMMA FoldsMeans ==
    ASSUME NEW g, NEW evs, NEW n \in Nat, FoldsTo(g, evs, n)
    PROVE  /\ g[0] = NotFound
           /\ \A i \in 1..n : g[i] = FoldStep(g[i - 1], evs[i])
  <1>1. \A i \in 0..n : g[i] = IF i = 0 THEN NotFound ELSE FoldStep(g[i - 1], evs[i])
    BY DEF FoldsTo
  <1>2. 0 \in 0..n /\ \A i \in 1..n : i \in 0..n /\ i # 0
    OBVIOUS
  <1>. QED
    BY <1>1, <1>2

LEMMA FoldExists ==
    ASSUME NEW evs, NEW n \in Nat
    PROVE  \E g : FoldsTo(g, evs, n)
  <1> DEFINE S == {m \in Nat : \E g : FoldsTo(g, evs, m)}
  <1>1. 0 \in S
    <2>1. PICK g : g = [i \in 0..0 |-> NotFound]
      OBVIOUS
    <2>2. g = [i \in 0..0 |-> IF i = 0 THEN NotFound ELSE FoldStep(g[i - 1], evs[i])]
      <3>1. \A i \in 0..0 : i = 0
        OBVIOUS
      <3>. QED
        BY <2>1, <3>1
    <2>. QED
      BY <2>2 DEF FoldsTo
  <1>2. ASSUME NEW m \in Nat, m \in S PROVE m + 1 \in S
    <2>1. PICK g : FoldsTo(g, evs, m)
      BY <1>2
    <2>2. PICK h : h = [i \in 0..(m + 1) |->
                          IF i = m + 1 THEN FoldStep(g[m], evs[m + 1]) ELSE g[i]]
      OBVIOUS
    <2>3. /\ \A i \in 0..m : i \in 0..(m + 1) /\ i # m + 1
          /\ \A i \in 0..(m + 1) : i # m + 1 => i \in 0..m
          /\ \A i \in 0..(m + 1) : i # 0 => i - 1 \in 0..m /\ i - 1 # m + 1
          /\ m + 1 \in 0..(m + 1) /\ m + 1 # 0 /\ (m + 1) - 1 = m
      OBVIOUS
    <2>4. \A i \in 0..m : h[i] = g[i]
      BY <2>2, <2>3
    <2>5. ASSUME NEW i \in 0..(m + 1)
          PROVE  h[i] = IF i = 0 THEN NotFound ELSE FoldStep(h[i - 1], evs[i])
      <3>1. CASE i = m + 1
        BY <2>2, <2>3, <2>4, <3>1
      <3>2. CASE i # m + 1
        <4>1. i \in 0..m /\ (i # 0 => i - 1 \in 0..m)
          BY <2>3, <3>2
        <4>2. g[i] = IF i = 0 THEN NotFound ELSE FoldStep(g[i - 1], evs[i])
          BY <2>1, <4>1 DEF FoldsTo
        <4>. QED
          BY <2>4, <4>1, <4>2
      <3>. QED
        BY <3>1, <3>2
    <2>6. h = [i \in 0..(m + 1) |-> h[i]]
      BY <2>2
    <2>7. FoldsTo(h, evs, m + 1)
      BY <2>5, <2>6 DEF FoldsTo
    <2>. QED
      BY <2>7
  <1>3. Nat \subseteq S
    <2>. HIDE DEF S
    <2>. QED
      BY <1>1, <1>2, NatSetInduction
  <1>. QED
    BY <1>3

(* The fold of a prefix depends on the prefix only.                          *)
LEMMA FoldUnique ==
    ASSUME NEW evs, NEW evt, NEW n \in Nat, NEW m \in Nat, NEW g, NEW h,
           FoldsTo(g, evs, n), FoldsTo(h, evt, m), n <= m,
           \A i \in 1..n : evs[i] = evt[i]
    PROVE  \A i \in 0..n : g[i] = h[i]
  <1> DEFINE S == {j \in Nat : j <= n => g[j] = h[j]}
  <1>1. 0 \in S
    BY FoldsMeans
  <1>2. ASSUME NEW j \in Nat, j \in S PROVE j + 1 \in S
    <2>1. SUFFICES ASSUME j + 1 <= n PROVE g[j + 1] = h[j + 1]
      OBVIOUS
    <2>2. g[j] = h[j]
      BY <1>2, <2>1
    <2>3. j + 1 \in 1..n /\ j + 1 \in 1..m /\ (j + 1) - 1 = j
      BY <2>1
    <2>4. g[j + 1] = FoldStep(g[(j + 1) - 1], evs[j + 1])
          /\ h[j + 1] = FoldStep(h[(j + 1) - 1], evt[j + 1])
      BY <2>3, FoldsMeans
    <2>. QED
      BY <2>2, <2>3, <2>4
  <1>3. Nat \subseteq S
    <2>. HIDE DEF S
    <2>. QED
      BY <1>1, <1>2, NatSetInduction
  <1>. QED
    BY <1>3

LEMMA FoldValue ==
    ASSUME NEW evs, Len(evs) \in Nat, NEW g, FoldsTo(g, evs, Len(evs))
    PROVE  Fold(evs) = g[Len(evs)]
  <1>1. PICK f : FoldsTo(f, evs, Len(evs)) /\ Fold(evs) = f[Len(evs)]
    BY FoldIs
  <1>2. \A i \in 0..Len(evs) : f[i] = g[i]
    BY <1>1, FoldUnique
  <1>. QED
    BY <1>1, <1>2

LEMMA FoldEmpty == Fold(<<>>) = NotFound
  <1>1. Len(<<>>) = 0
    OBVIOUS
  <1>2. PICK g : FoldsTo(g, <<>>, 0)
    BY FoldExists
  <1>. QED
    BY <1>1, <1>2, FoldValue, FoldsMeans

(* Fold is taken event by event.                                             *)
LEMMA FoldAppend ==
    ASSUME NEW evs, evs \in Seq(Ids(evs)), NEW e
    PROVE  Fold(Append(evs, e)) = FoldStep(Fold(evs), e)
  <1>1. PICK n \in Nat : n = Len(evs)
    OBVIOUS
  <1>2. PICK evt : evt = Append(evs, e)
    OBVIOUS
  <1>3. Len(evt) = n + 1 /\ evt[n + 1] = e /\ \A i \in 1..n : evs[i] = evt[i]
    <2>1. PICK U : U = Ids(evs) \cup {e}
      OBVIOUS
    <2>2. evs \in Seq(U) /\ e \in U
      BY <2>1
    <2>. QED
      BY <1>1, <1>2, <2>2
  <1>4. PICK g : FoldsTo(g, evs, n)
    BY FoldExists
  <1>5. PICK h : FoldsTo(h, evt, n + 1)
    BY FoldExists
  <1>6. g[n] = h[n]
    <2>1. \A i \in 1..n : evs[i] = evt[i]
      BY <1>3
    <2>2. n + 1 \in Nat /\ n <= n + 1
      OBVIOUS
    <2>3. \A i \in 0..n : g[i] = h[i]
      BY <1>4, <1>5, <2>1, <2>2, FoldUnique
    <2>. QED
      BY <2>3
  <1>7. h[n + 1] = FoldStep(h[n], e)
    <2>1. n + 1 \in 1..(n + 1) /\ (n + 1) - 1 = n
      OBVIOUS
    <2>2. h[n + 1] = FoldStep(h[(n + 1) - 1], evt[n + 1])
      BY <1>5, <2>1, FoldsMeans
    <2>. QED
      BY <1>3, <2>1, <2>2
  <1>8. Fold(evs) = g[n]
    BY <1>1, <1>4, FoldValue
  <1>9. Fold(evt) = h[n + 1]
    BY <1>3, <1>5, FoldValue
  <1>. QED
    BY <1>2, <1>6, <1>7, <1>8, <1>9

-----------------------------------------------------------------------------
(* Rows ORDER BY sequence_number.                                            *)

Ordered(S) == [i \in 1..Cardinality(S) |-> CHOOSE e \in S : e.seq = i - 1]

(* S has one row for each sequence number below n.                           *)
Numbered(S, n) ==
    /\ IsFiniteSet(S) /\ Cardinality(S) = n
    /\ \A e \in S : e.seq \in 0..(n - 1)
    /\ \A i \in 0..(n - 1) : \E e \in S : e.seq = i
    /\ \A e, f \in S : e.seq = f.seq => e = f

LEMMA OrderedEmpty == Numbered({}, 0) /\ Ordered({}) = <<>>
  <1>1. IsFiniteSet({}) /\ Cardinality({}) = 0
    BY FS_EmptySet
  <1>2. 0..(0 - 1) = {} /\ 1..0 = {}
    OBVIOUS
  <1>3. Ordered({}) = <<>>
    BY <1>1, <1>2 DEF Ordered
  <1>. QED
    BY <1>1, <1>2, <1>3 DEF Numbered

LEMMA OrderedRows ==
    ASSUME NEW S, NEW n \in Nat, Numbered(S, n)
    PROVE  /\ Ordered(S) = [i \in 1..n |-> Ordered(S)[i]]
           /\ \A i \in 1..n : Ordered(S)[i] \in S /\ Ordered(S)[i].seq = i - 1
           /\ Ordered(S) \in Seq(S) /\ Len(Ordered(S)) = n
           /\ Ordered(S) \in Seq(Ids(Ordered(S)))
  <1>1. PICK q : q = Ordered(S)
    OBVIOUS
  <1>2. q = [i \in 1..n |-> CHOOSE e \in S : e.seq = i - 1]
    BY <1>1 DEF Ordered, Numbered
  <1>3. ASSUME NEW i \in 1..n PROVE q[i] \in S /\ q[i].seq = i - 1
    <2>1. i - 1 \in 0..(n - 1)
      OBVIOUS
    <2>2. \E e \in S : e.seq = i - 1
      BY <2>1 DEF Numbered
    <2>. QED
      BY <1>2, <2>2
  <1>4. q \in Seq(S) /\ Len(q) = n /\ DOMAIN q = 1..n
    BY <1>2, <1>3
  <1>5. q \in Seq(Ids(q))
    <2>1. \A i \in 1..n : q[i] \in Ids(q)
      BY <1>4 DEF Ids
    <2>. QED
      BY <1>2, <1>4, <2>1
  <1>. QED
    BY <1>1, <1>2, <1>3, <1>4, <1>5

(* A new row at the end.                                                     *)
LEMMA OrderedAppend ==
    ASSUME NEW S, NEW n \in Nat, Numbered(S, n), NEW e, e.seq = n
    PROVE  /\ Numbered(S \cup {e}, n + 1)
           /\ Ordered(S \cup {e}) = Append(Ordered(S), e)
  <1>1. PICK T : T = S \cup {e}
    OBVIOUS
  <1>2. e \notin S
    BY DEF Numbered
  <1>3. IsFiniteSet(T) /\ Cardinality(T) = n + 1
    BY <1>1, <1>2, FS_AddElement DEF Numbered
  <1>4. Numbered(T, n + 1)
    <2>1. \A f \in T : f.seq \in 0..((n + 1) - 1)
      BY <1>1 DEF Numbered
    <2>2. \A i \in 0..((n + 1) - 1) : \E f \in T : f.seq = i
      <3>1. \A i \in 0..((n + 1) - 1) : i \in 0..(n - 1) \/ i = n
        OBVIOUS
      <3>. QED
        BY <1>1, <3>1 DEF Numbered
    <2>3. \A f, g \in T : f.seq = g.seq => f = g
      <3>1. \A f \in S : f.seq # n
        BY DEF Numbered
      <3>. QED
        BY <1>1, <3>1 DEF Numbered
    <2>. QED
      BY <1>3, <2>1, <2>2, <2>3 DEF Numbered
  <1>5. PICK q, r : q = Ordered(S) /\ r = Ordered(T)
    OBVIOUS
  <1>6. /\ q \in Seq(S) /\ Len(q) = n /\ r \in Seq(T) /\ Len(r) = n + 1
        /\ \A i \in 1..n : q[i] \in S /\ q[i].seq = i - 1
        /\ \A i \in 1..(n + 1) : r[i] \in T /\ r[i].seq = i - 1
    BY <1>4, <1>5, OrderedRows
  <1>7. q \in Seq(T) /\ e \in T
    BY <1>1, <1>6
  <1>8. PICK u : u = Append(q, e)
    OBVIOUS
  <1>9. u \in Seq(T) /\ Len(u) = n + 1 /\ u[n + 1] = e /\ \A i \in 1..n : u[i] = q[i]
    BY <1>6, <1>7, <1>8
  <1>10. ASSUME NEW i \in 1..(n + 1) PROVE u[i] = r[i]
    <2>1. u[i] \in T /\ u[i].seq = i - 1
      <3>1. CASE i = n + 1
        BY <1>7, <1>9, <3>1
      <3>2. CASE i # n + 1
        <4>1. i \in 1..n
          BY <3>2
        <4>. QED
          BY <1>1, <1>6, <1>9, <4>1
      <3>. QED
        BY <3>1, <3>2
    <2>2. r[i] \in T /\ r[i].seq = i - 1
      BY <1>6
    <2>. QED
      BY <1>4, <2>1, <2>2 DEF Numbered
  <1>11. u = r
    BY <1>6, <1>9, <1>10
  <1>. QED
    BY <1>1, <1>4, <1>5, <1>8, <1>11
-----------------------------------------------------------------------------
(* Messages, for a run of any length whose steps all called tools and have   *)
(* all results.                                                              *)

(* Messages' LET definitions.                                                *)
OpenSteps(s) == {i \in DOMAIN s.steps : ~AllResulted(s.steps[i])}
LastTold(s) ==
    IF OpenSteps(s) = {} THEN Len(s.steps)
    ELSE CHOOSE i \in OpenSteps(s) : \A j \in OpenSteps(s) : i <= j
Turns(step) ==
    IF step.order = <<>> \/ ~AllResulted(step) THEN <<"assistant">>
    ELSE <<"assistant", "user">>
Tells(g, s, n) ==
    g = [i \in 0..n |-> IF i = 0 THEN <<"user">> ELSE g[i - 1] \o Turns(s.steps[i])]

(* The conversation after n steps.                                           *)
Alternating(n) == [j \in 1..(2 * n + 1) |-> IF j % 2 = 1 THEN "user" ELSE "assistant"]

LEMMA MessagesAre ==
    ASSUME NEW s, NEW g, Tells(g, s, LastTold(s))
    PROVE  \E f : Tells(f, s, LastTold(s)) /\ Messages(s) = f[LastTold(s)]
  BY Zenon DEF Tells, Messages, OpenSteps, LastTold, Turns

LEMMA AlternatingNext ==
    ASSUME NEW n \in Nat
    PROVE  /\ Alternating(0) = <<"user">>
           /\ Alternating(n) \o <<"assistant", "user">> = Alternating(n + 1)
  <1>1. PICK a, b, c : /\ a = Alternating(n) /\ b = Alternating(n + 1)
                       /\ c = <<"assistant", "user">>
    OBVIOUS
  <1>2. /\ a \in Seq({"user", "assistant"}) /\ Len(a) = 2 * n + 1
        /\ b \in Seq({"user", "assistant"}) /\ Len(b) = 2 * n + 3
    BY <1>1 DEF Alternating
  <1>3. Alternating(0) = <<"user">>
    BY DEF Alternating
  <1>4. c \in Seq({"user", "assistant"}) /\ Len(c) = 2 /\ c[1] = "assistant" /\ c[2] = "user"
    BY <1>1
  <1>5. PICK d : /\ d = a \o c /\ d \in Seq({"user", "assistant"}) /\ Len(d) = 2 * n + 3
                 /\ \A j \in 1..(2 * n + 1) : d[j] = a[j]
                 /\ d[2 * n + 2] = "assistant" /\ d[2 * n + 3] = "user"
    <2>0. 2 * n + 1 \in Nat
      OBVIOUS
    <2>1. PICK S, m : S = {"user", "assistant"} /\ m = 2 * n + 1 /\ m \in Nat
      BY <2>0
    <2>2. a \in Seq(S) /\ Len(a) = m /\ c \in Seq(S) /\ Len(c) = 2
      BY <1>2, <1>4, <2>1
    <2>3. PICK d : d = a \o c
      OBVIOUS
    <2>4. /\ d \in Seq(S) /\ Len(d) = Len(a) + Len(c)
          /\ \A j \in 1..(Len(a) + Len(c)) : d[j] = IF j <= Len(a) THEN a[j] ELSE c[j - Len(a)]
      BY <2>2, <2>3, ConcatProperties
    <2>5. /\ Len(d) = m + 2 /\ (\A j \in 1..m : d[j] = a[j])
          /\ d[m + 1] = c[1] /\ d[m + 2] = c[2]
      <3>1. m + 1 \in 1..(m + 2) /\ m + 2 \in 1..(m + 2) /\ ~(m + 1 <= m) /\ ~(m + 2 <= m)
            /\ (m + 1) - m = 1 /\ (m + 2) - m = 2
            /\ \A j \in 1..m : j \in 1..(m + 2) /\ j <= m
        BY <2>1
      <3>. QED
        BY <2>2, <2>4, <3>1
    <2>6. m + 1 = 2 * n + 2 /\ m + 2 = 2 * n + 3
      BY <2>1
    <2>. QED
      BY <1>4, <2>1, <2>3, <2>4, <2>5, <2>6
  <1>6. (2 * n + 2) % 2 = 0 /\ (2 * n + 3) % 2 = 1
    OBVIOUS
  <1>7. /\ \A j \in 1..(2 * n + 1) : a[j] = b[j]
        /\ b[2 * n + 2] = "assistant" /\ b[2 * n + 3] = "user"
    BY <1>1, <1>6 DEF Alternating
  <1>8. \A j \in 1..(2 * n + 3) : j \in 1..(2 * n + 1) \/ j = 2 * n + 2 \/ j = 2 * n + 3
    OBVIOUS
  <1>9. \A j \in 1..(2 * n + 3) : d[j] = b[j]
    BY <1>5, <1>7, <1>8
  <1>10. d = b
    BY <1>2, <1>5, <1>9
  <1>. QED
    BY <1>1, <1>3, <1>5, <1>10

(* Every step's batch is answered: the turns alternate, each answer of the   *)
(* LLM followed by the one turn with its results.                            *)
LEMMA MessagesAlternate ==
    ASSUME NEW s, NEW n \in Nat, n = Len(s.steps), DOMAIN s.steps = 1..n,
           \A i \in 1..n : AllResulted(s.steps[i]) /\ s.steps[i].order # <<>>
    PROVE  Messages(s) = Alternating(n)
  <1>1. LastTold(s) = n
    BY DEF OpenSteps, LastTold
  <1>2. \A i \in 1..n : Turns(s.steps[i]) = <<"assistant", "user">>
    BY DEF Turns
  <1>3. PICK g : g = [i \in 0..n |-> Alternating(i)]
    OBVIOUS
  <1>4. Tells(g, s, n)
    <2>1. ASSUME NEW i \in 0..n
          PROVE  Alternating(i) = IF i = 0 THEN <<"user">> ELSE g[i - 1] \o Turns(s.steps[i])
      <3>1. CASE i = 0
        BY <3>1, AlternatingNext
      <3>2. CASE i # 0
        <4>1. i - 1 \in 0..n /\ i - 1 \in Nat /\ (i - 1) + 1 = i /\ i \in 1..n
          BY <3>2
        <4>2. g[i - 1] = Alternating(i - 1) /\ Turns(s.steps[i]) = <<"assistant", "user">>
          BY <1>2, <1>3, <4>1
        <4>3. Alternating(i - 1) \o <<"assistant", "user">> = Alternating((i - 1) + 1)
          BY <4>1, AlternatingNext
        <4>. QED
          BY <3>2, <4>1, <4>2, <4>3
      <3>. QED
        BY <3>1, <3>2
    <2>2. g = [i \in 0..n |-> IF i = 0 THEN <<"user">> ELSE g[i - 1] \o Turns(s.steps[i])]
      BY <1>3, <2>1
    <2>. QED
      BY <2>2 DEF Tells
  <1>5. PICK f : Tells(f, s, n) /\ Messages(s) = f[n]
    BY <1>1, <1>4, MessagesAre
  <1>6. /\ f[0] = <<"user">>
        /\ \A i \in 1..n : f[i] = f[i - 1] \o <<"assistant", "user">>
    <2>1. \A i \in 0..n : f[i] = IF i = 0 THEN <<"user">> ELSE f[i - 1] \o Turns(s.steps[i])
      BY <1>5 DEF Tells
    <2>2. 0 \in 0..n /\ \A i \in 1..n : i \in 0..n /\ i # 0
      OBVIOUS
    <2>. QED
      BY <1>2, <2>1, <2>2
  <1> DEFINE S == {i \in Nat : i <= n => f[i] = Alternating(i)}
  <1>7. 0 \in S
    BY <1>6, AlternatingNext
  <1>8. ASSUME NEW i \in Nat, i \in S PROVE i + 1 \in S
    <2>1. SUFFICES ASSUME i + 1 <= n PROVE f[i + 1] = Alternating(i + 1)
      OBVIOUS
    <2>2. i + 1 \in 1..n /\ (i + 1) - 1 = i /\ f[i] = Alternating(i)
      BY <1>8, <2>1
    <2>3. f[i + 1] = Alternating(i) \o <<"assistant", "user">>
      BY <1>6, <2>2
    <2>. QED
      BY <2>3, AlternatingNext
  <1>9. Nat \subseteq S
    <2>. HIDE DEF S
    <2>. QED
      BY <1>7, <1>8, NatSetInduction
  <1>. QED
    BY <1>5, <1>9

=============================================================================
