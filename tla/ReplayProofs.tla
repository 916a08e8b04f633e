---------------------------- MODULE ReplayProofs -----------------------------
(***************************************************************************)
(* What holds of the RunState a consumer of the run's partition reaches,    *)
(* and what a replay from either source makes of the same partition,        *)
(* whatever the producers publish and however often it is delivered, for    *)
(* any tools, any step limit and a partition of any length.                 *)
(***************************************************************************)
EXTENDS Replay, RunFoldProofs

Words == {"tool_use", "end_turn", "success"}

(* The state and the run's messages have their types, and no step but the    *)
(* last is open.                                                             *)
ReplayInv ==
    /\ state \in StateType(Nat, Tools, Words)
    /\ partition \in Seq(Ids(partition))
    /\ hwm \in Nat /\ hwm <= Len(partition)
    /\ \A m \in Ids(partition) : IsOwn(m) => IsEvent(m, Nat, Tools, Words)
    /\ state.seen = <<>> => ~IsTerminal(state)
    /\ ClosedButLast(state)

(* NewEnvelope around any payload of the model is an event.                  *)
LEMMA PublishedIsEvent ==
    ASSUME state \in StateType(Nat, Tools, Words), NEW p \in Payloads
    PROVE  IsEvent(WithEnvelope(p), Nat, Tools, Words)
  <1>1. PICK v : v = [seq |-> NextSequence(state), id |-> NextSequence(state)]
    OBVIOUS
  <1>2. PICK e : e = WithEnvelope(p)
    OBVIOUS
  <1>3. NextSequence(state) \in Nat /\ state.step \in Int
    BY DEF StateType, NextSequence
  <1>4. DOMAIN v = {"seq", "id"} /\ v.seq \in Nat /\ v.id \in Nat
    BY <1>1, <1>3
  <1>5. e.seq \in Nat /\ e.id \in Nat /\ \A f \in DOMAIN p : f \notin {"seq", "id"} => e[f] = p[f]
    <2>1. e = Enveloped(v, p)
      BY <1>1, <1>2 DEF WithEnvelope
    <2>2. /\ \A f \in DOMAIN v : e[f] = v[f]
          /\ \A f \in DOMAIN p : f \notin DOMAIN v => e[f] = p[f]
      BY <2>1 DEF Enveloped
    <2>3. e["seq"] = v["seq"] /\ e["id"] = v["id"]
      BY <1>4, <2>2
    <2>. QED
      BY <1>4, <2>2, <2>3
  <1>6. CASE p \in [type : {"RunStarted"}, maxSteps : {MaxSteps}]
    BY <1>2, <1>5, <1>6, ReplayAssumption DEF IsEvent, EventTypes
  <1>7. CASE p \in [type : {"LLMResponded"}, step : {state.step + 1},
                    stop : {"tool_use", "end_turn"}, order : Orders]
    <2>1. Orders \subseteq Seq(Tools)
      <3>1. SUFFICES ASSUME NEW o \in Orders PROVE o \in Seq(Tools)
        OBVIOUS
      <3>2. PICK n \in 0..2 : o \in [1..n -> Tools]
        BY DEF Orders
      <3>. QED
        BY <3>2
    <2>2. /\ p.type = "LLMResponded" /\ p.step = state.step + 1
          /\ p.stop \in {"tool_use", "end_turn"} /\ p.order \in Orders
      BY <1>7
    <2>3. DOMAIN p = {"type", "step", "stop", "order"}
      BY <1>7
    <2>4. p.stop \in Words
      BY <2>2 DEF Words
    <2>5. e.type = "LLMResponded" /\ e.step \in Int /\ e.stop \in Words /\ e.order \in Seq(Tools)
      BY <1>3, <1>5, <2>1, <2>2, <2>3, <2>4
    <2>. QED
      BY <1>2, <1>5, <2>5 DEF IsEvent, EventTypes
  <1>8. CASE p \in [type : {"ToolInvoked"}, step : {state.step}, tool : Tools, side : {TRUE}]
    <2>1. p.type = "ToolInvoked" /\ p.tool \in Tools /\ p.side = TRUE
          /\ DOMAIN p = {"type", "step", "tool", "side"}
      BY <1>8
    <2>2. e.type = "ToolInvoked" /\ e.tool \in Tools /\ e.side \in BOOLEAN
      BY <1>5, <2>1
    <2>. QED
      BY <1>2, <1>5, <2>2 DEF IsEvent, EventTypes
  <1>9. CASE p \in [type : {"ToolResulted"}, step : {state.step}, tool : Tools,
                    status : {"success"}]
    <2>1. p.type = "ToolResulted" /\ p.tool \in Tools /\ p.status = "success"
      BY <1>9
    <2>2. DOMAIN p = {"type", "step", "tool", "status"}
      BY <1>9
    <2>3. e.type = "ToolResulted" /\ e.tool \in Tools /\ e.status \in Words
      BY <1>5, <2>1, <2>2 DEF Words
    <2>. QED
      BY <1>2, <1>5, <2>3 DEF IsEvent, EventTypes
  <1>10. CASE p \in [type : {"RunCompleted", "RunFailed", "RunCancelled",
                      IF state.status = "AWAITING_APPROVAL" THEN "RunApproved"
                      ELSE "AwaitingApproval"}, step : {state.step}]
    BY <1>2, <1>5, <1>10 DEF IsEvent, EventTypes, TerminalEvents
  <1>. QED
    BY <1>6, <1>7, <1>8, <1>9, <1>10 DEF Payloads

(* A write of an event or of another run's message.                          *)
LEMMA WriteKeeps ==
    ASSUME ReplayInv, NEW m, Write(m), IsOwn(m) => IsEvent(m, Nat, Tools, Words)
    PROVE  ReplayInv' /\ state' = state
  <1>1. partition' = Append(partition, m) /\ hwm' = hwm /\ state' = state
    BY DEF Write
  <1>2. /\ partition' \in Seq(Ids(partition')) /\ Ids(partition') = Ids(partition) \cup {m}
        /\ Len(partition') = Len(partition) + 1 /\ Len(partition) \in Nat
    BY <1>1, AppendIds DEF ReplayInv
  <1>. QED
    BY <1>1, <1>2 DEF ReplayInv

(* One acknowledged message moves the state by Applied or not at all, and a  *)
(* terminal state not at all.                                                *)
LEMMA AcknowledgeKeeps ==
    ASSUME ReplayInv, Acknowledge
    PROVE  ReplayInv' /\ (IsTerminal(state) => state' = state)
  <1>1. PICK m : m = partition[hwm + 1]
    OBVIOUS
  <1>2. /\ hwm < Len(partition) /\ hwm' = hwm + 1 /\ partition' = partition
        /\ \/ IsOwn(m) /\ state' = Apply(state, m).state
           \/ ~IsOwn(m) /\ state' = state
    BY <1>1 DEF Acknowledge
  <1>3. hwm + 1 \in DOMAIN partition /\ hwm' \in Nat /\ hwm' <= Len(partition)
    <2>1. DOMAIN partition = 1..Len(partition) /\ Len(partition) \in Nat
      BY DEF ReplayInv
    <2>. QED
      BY <1>2, <2>1 DEF ReplayInv
  <1>4. IsOwn(m) => IsEvent(m, Nat, Tools, Words)
    BY <1>1, <1>3 DEF ReplayInv, Ids
  <1>5. CASE state' = state
    BY <1>2, <1>3, <1>5 DEF ReplayInv
  <1>6. CASE state' # state
    <2>1. /\ IsOwn(m) /\ Verdict(state, m) = "ok" /\ state' = Applied(state, m)
      BY <1>2, <1>6, ApplyKinds
    <2>2. IsEvent(m, Nat, Tools, Words) /\ state \in StateType(Nat, Tools, Words)
          /\ ClosedButLast(state) /\ (state.seen = <<>> => ~IsTerminal(state))
      BY <1>4, <2>1 DEF ReplayInv
    <2>3. state' \in StateType(Nat, Tools, Words)
      BY <2>1, <2>2, AppliedFields
    <2>4. ClosedButLast(state)'
      <3>1. ClosedButLast(Applied(state, m))
        BY <2>1, <2>2, ClosedSteps
      <3>. QED
        BY <2>1, <3>1 DEF ClosedButLast
    <2>5. ~IsTerminal(state)
      BY <2>1, <2>2, Accepted
    <2>6. state'.seen # <<>>
      <3>1. PICK q, x : q = state.seen /\ x = m.id
        OBVIOUS
      <3>2. q \in Seq(Nat) /\ x \in Nat
        BY <2>2, <3>1 DEF StateType, IsEvent
      <3>3. Append(q, x) # <<>>
        BY <3>2
      <3>. QED
        BY <2>1, <2>2, <3>1, <3>3, AppliedFields
    <2>. QED
      BY <1>2, <1>3, <2>3, <2>4, <2>5, <2>6 DEF ReplayInv
  <1>. QED
    BY <1>5, <1>6

LEMMA NextKeeps ==
    ASSUME ReplayInv, [Next]_vars
    PROVE  ReplayInv' /\ (IsTerminal(state) => state' = state)
  <1>1. CASE UNCHANGED vars
    BY <1>1 DEF vars, ReplayInv, ClosedButLast
  <1>2. ASSUME NEW p \in Payloads, Publish(p)
        PROVE  ReplayInv' /\ (IsTerminal(state) => state' = state)
    <2>1. IsEvent(WithEnvelope(p), Nat, Tools, Words)
      BY PublishedIsEvent DEF ReplayInv
    <2>2. Write(WithEnvelope(p))
      BY <1>2 DEF Publish
    <2>. QED
      BY <2>1, <2>2, WriteKeeps
  <1>3. ASSUME NEW m \in Ids(partition) \cup {Other}, Extra(m)
        PROVE  ReplayInv' /\ (IsTerminal(state) => state' = state)
    <2>1. IsOwn(m) => IsEvent(m, Nat, Tools, Words)
      BY DEF ReplayInv, IsOwn
    <2>2. Write(m)
      BY <1>3 DEF Extra
    <2>. QED
      BY <2>1, <2>2, WriteKeeps
  <1>4. CASE Acknowledge
    BY <1>4, AcknowledgeKeeps
  <1>. QED
    BY <1>1, <1>2, <1>3, <1>4 DEF Next

THEOREM ReplayInvariant == Spec => []ReplayInv
  <1>1. Init => ReplayInv
    <2>1. SUFFICES ASSUME Init PROVE ReplayInv
      OBVIOUS
    <2>2. state \in StateType(Nat, Tools, Words) /\ ~IsTerminal(state)
      BY <2>1 DEF Init, EmptyState, StateType, Statuses, IsTerminal, TerminalStatuses
    <2>3. ClosedButLast(state)
      BY <2>1 DEF Init, EmptyState, ClosedButLast
    <2>4. partition \in Seq(Ids(partition)) /\ Ids(partition) = {} /\ Len(partition) = 0
      BY <2>1 DEF Init, Ids
    <2>. QED
      BY <2>1, <2>2, <2>3, <2>4 DEF Init, ReplayInv
  <1>2. ReplayInv /\ [Next]_vars => ReplayInv'
    BY NextKeeps
  <1>. QED
    BY <1>1, <1>2, PTL DEF Spec

(* A terminal event is final, for every producer and every redelivery: the   *)
(* guard in Apply and the order of its checks are enough.                    *)
THEOREM TerminalHolds == Spec => TerminalIsFinal
  <1>1. ReplayInv /\ [Next]_vars => (IsTerminal(state) => state' = state)
    BY NextKeeps
  <1>. QED
    BY <1>1, ReplayInvariant, PTL DEF Spec, TerminalIsFinal

(* Messages may stop at the first open batch: there is none before the last  *)
(* step, whatever was published.                                             *)
THEOREM OnlyLastOpenHolds == Spec => []OnlyLastStepOpen
  <1>1. ReplayInv => OnlyLastStepOpen
    BY DEF ReplayInv, ClosedButLast, OnlyLastStepOpen
  <1>. QED
    BY <1>1, ReplayInvariant, PTL

(* computeNextAction never leaves work behind: with every step but the last  *)
(* closed, its truth table covers the states the fold can reach.             *)
THEOREM NextActionHolds == Spec => []NextActionFits
  <1>1. ReplayInv => NextActionFits
    <2>1. SUFFICES ASSUME ReplayInv, NEW a, a = NextAction(state)
                   PROVE  /\ a \in {"CALL_LLM", "FAIL_MAX_STEPS"} =>
                               \A i \in DOMAIN state.steps : AllResulted(state.steps[i])
                          /\ a \in {"EXECUTE_TOOL", "FINISH_RUN"} => InFlightTools(state) = {}
                          /\ a = "EXECUTE_TOOL" =>
                               Last(state).stop = "tool_use" /\ PendingToolCalls(state) # {}
                          /\ state.status = "RUNNING" => a # "NONE"
      BY DEF NextActionFits
    <2>2. ASSUME a \in {"CALL_LLM", "FAIL_MAX_STEPS"}
          PROVE  \A i \in DOMAIN state.steps : AllResulted(state.steps[i])
      <3>1. PICK q : q = state.steps
        OBVIOUS
      <3>2. q = <<>> \/ AllResulted(q[Len(q)])
        BY <2>1, <2>2, <3>1, ActionMeans DEF Last
      <3>3. q \in Seq(StepType(Tools, Words)) /\ \A i \in 1..(Len(q) - 1) : AllResulted(q[i])
        BY <2>1, <3>1 DEF ReplayInv, StateType, ClosedButLast
      <3>4. DOMAIN q = 1..Len(q) /\ Len(q) \in Nat
        BY <3>3
      <3>. QED
        BY <3>1, <3>2, <3>3, <3>4
    <2>. QED
      BY <2>1, <2>2, ActionMeans
  <1>. QED
    BY <1>1, ReplayInvariant, PTL

-----------------------------------------------------------------------------
(* The scan of a partition of any length.                                    *)

ScansTo(f, q, n) ==
    f = [i \in 0..n |-> IF i = 0 THEN <<>>
                        ELSE IF IsOwn(q[i]) THEN Append(f[i - 1], q[i]) ELSE f[i - 1]]

(* Scan's CHOOSE is over a function that exists (ScanExists).                *)
LEMMA ScanIs ==
    ASSUME NEW q, NEW n, NEW g, ScansTo(g, q, n)
    PROVE  \E f : ScansTo(f, q, n) /\ Scan(q, n) = f[n]
  BY Zenon DEF ScansTo, Scan

LEMMA ScansMeans ==
    ASSUME NEW f, NEW q, NEW n \in Nat, ScansTo(f, q, n)
    PROVE  /\ f[0] = <<>>
           /\ \A i \in 1..n :
                f[i] = IF IsOwn(q[i]) THEN Append(f[i - 1], q[i]) ELSE f[i - 1]
  <1>1. \A i \in 0..n : f[i] = IF i = 0 THEN <<>>
                               ELSE IF IsOwn(q[i]) THEN Append(f[i - 1], q[i]) ELSE f[i - 1]
    BY DEF ScansTo
  <1>2. 0 \in 0..n /\ \A i \in 1..n : i \in 0..n /\ i # 0
    OBVIOUS
  <1>. QED
    BY <1>1, <1>2

LEMMA ScanExists ==
    ASSUME NEW q, NEW n \in Nat
    PROVE  \E f : ScansTo(f, q, n)
  <1> DEFINE S == {m \in Nat : \E f : ScansTo(f, q, m)}
  <1>1. 0 \in S
    <2>1. PICK f : f = [i \in 0..0 |-> <<>>]
      OBVIOUS
    <2>2. \A i \in 0..0 : i = 0
      OBVIOUS
    <2>3. f = [i \in 0..0 |-> IF i = 0 THEN <<>>
                              ELSE IF IsOwn(q[i]) THEN Append(f[i - 1], q[i]) ELSE f[i - 1]]
      BY <2>1, <2>2
    <2>. QED
      BY <2>3 DEF ScansTo
  <1>2. ASSUME NEW m \in Nat, m \in S PROVE m + 1 \in S
    <2>1. PICK f : ScansTo(f, q, m)
      BY <1>2
    <2>2. PICK x : x = IF IsOwn(q[m + 1]) THEN Append(f[m], q[m + 1]) ELSE f[m]
      OBVIOUS
    <2>3. PICK h : h = [i \in 0..(m + 1) |-> IF i = m + 1 THEN x ELSE f[i]]
      OBVIOUS
    <2>4. /\ \A i \in 0..m : i \in 0..(m + 1) /\ i # m + 1
          /\ \A i \in 0..(m + 1) : i # m + 1 => i \in 0..m
          /\ \A i \in 0..(m + 1) : i # 0 => i - 1 \in 0..m /\ i - 1 # m + 1
          /\ m + 1 \in 0..(m + 1) /\ m + 1 # 0 /\ (m + 1) - 1 = m
      OBVIOUS
    <2>5. \A i \in 0..m : h[i] = f[i]
      BY <2>3, <2>4
    <2>6. ASSUME NEW i \in 0..(m + 1)
          PROVE  h[i] = IF i = 0 THEN <<>>
                        ELSE IF IsOwn(q[i]) THEN Append(h[i - 1], q[i]) ELSE h[i - 1]
      <3>1. CASE i = m + 1
        <4>1. h[i] = x /\ h[i - 1] = f[m] /\ i # 0 /\ q[i] = q[m + 1]
          BY <2>3, <2>4, <2>5, <3>1
        <4>. QED
          BY <2>2, <4>1
      <3>2. CASE i # m + 1
        <4>1. i \in 0..m /\ (i # 0 => i - 1 \in 0..m)
          BY <2>4, <3>2
        <4>2. f[i] = IF i = 0 THEN <<>>
                     ELSE IF IsOwn(q[i]) THEN Append(f[i - 1], q[i]) ELSE f[i - 1]
          BY <2>1, <4>1 DEF ScansTo
        <4>. QED
          BY <2>5, <4>1, <4>2
      <3>. QED
        BY <3>1, <3>2
    <2>7. h = [i \in 0..(m + 1) |-> h[i]]
      BY <2>3
    <2>8. ScansTo(h, q, m + 1)
      BY <2>6, <2>7 DEF ScansTo
    <2>. QED
      BY <2>8
  <1>3. Nat \subseteq S
    <2>. HIDE DEF S
    <2>. QED
      BY <1>1, <1>2, NatSetInduction
  <1>. QED
    BY <1>3

(* The scan of a prefix depends on the prefix only.                          *)
LEMMA ScansUnique ==
    ASSUME NEW q, NEW r, NEW n \in Nat, NEW m \in Nat, NEW f, NEW h,
           ScansTo(f, q, n), ScansTo(h, r, m), n <= m, \A i \in 1..n : q[i] = r[i]
    PROVE  \A i \in 0..n : f[i] = h[i]
  <1> DEFINE S == {j \in Nat : j <= n => f[j] = h[j]}
  <1>1. 0 \in S
    BY ScansMeans
  <1>2. ASSUME NEW j \in Nat, j \in S PROVE j + 1 \in S
    <2>1. SUFFICES ASSUME j + 1 <= n PROVE f[j + 1] = h[j + 1]
      OBVIOUS
    <2>2. f[j] = h[j]
      BY <1>2, <2>1
    <2>3. j + 1 \in 1..n /\ j + 1 \in 1..m /\ (j + 1) - 1 = j
      BY <2>1
    <2>4. PICK k : k = j + 1
      OBVIOUS
    <2>5. /\ f[k] = IF IsOwn(q[k]) THEN Append(f[k - 1], q[k]) ELSE f[k - 1]
          /\ h[k] = IF IsOwn(r[k]) THEN Append(h[k - 1], r[k]) ELSE h[k - 1]
          /\ q[k] = r[k] /\ k - 1 = j
      BY <2>3, <2>4, ScansMeans
    <2>. QED
      BY <2>2, <2>4, <2>5
  <1>3. Nat \subseteq S
    <2>. HIDE DEF S
    <2>. QED
      BY <1>1, <1>2, NatSetInduction
  <1>. QED
    BY <1>3

LEMMA ScanValue ==
    ASSUME NEW q, NEW n \in Nat, NEW f, ScansTo(f, q, n)
    PROVE  Scan(q, n) = f[n]
  <1>1. PICK g : ScansTo(g, q, n) /\ Scan(q, n) = g[n]
    BY ScanIs
  <1>2. \A i \in 0..n : g[i] = f[i]
    BY <1>1, ScansUnique
  <1>. QED
    BY <1>1, <1>2

LEMMA ScanNothing == \A q : Scan(q, 0) = <<>>
  <1>1. SUFFICES ASSUME NEW q PROVE Scan(q, 0) = <<>>
    OBVIOUS
  <1>2. PICK f : ScansTo(f, q, 0)
    BY ScanExists
  <1>. QED
    BY <1>2, ScanValue, ScansMeans

LEMMA ScanOneMore ==
    ASSUME NEW q, NEW n \in Nat
    PROVE  Scan(q, n + 1) = IF IsOwn(q[n + 1]) THEN Append(Scan(q, n), q[n + 1]) ELSE Scan(q, n)
  <1>1. PICK f : ScansTo(f, q, n)
    BY ScanExists
  <1>2. PICK k \in Nat : k = n + 1
    OBVIOUS
  <1>3. PICK r : r = q
    OBVIOUS
  <1>4. PICK h : ScansTo(h, r, k)
    BY ScanExists
  <1>5. f[n] = h[n]
    <2>1. n <= k /\ n \in 0..n
      BY <1>2
    <2>2. \A i \in 1..n : q[i] = r[i]
      BY <1>3
    <2>3. \A i \in 0..n : f[i] = h[i]
      BY <1>1, <1>4, <2>1, <2>2, ScansUnique
    <2>. QED
      BY <2>1, <2>3
  <1>6. h[k] = IF IsOwn(r[k]) THEN Append(h[k - 1], r[k]) ELSE h[k - 1]
    <2>1. k \in 1..k
      BY <1>2
    <2>. QED
      BY <1>4, <2>1, ScansMeans
  <1>7. k - 1 = n /\ Scan(r, k) = h[k] /\ Scan(q, n) = f[n]
    BY <1>1, <1>2, <1>4, ScanValue
  <1>. QED
    BY <1>2, <1>3, <1>5, <1>6, <1>7

LEMMA ScanPrefix ==
    ASSUME NEW q, NEW r, NEW n \in Nat, \A i \in 1..n : q[i] = r[i]
    PROVE  Scan(q, n) = Scan(r, n)
  <1>1. PICK f : ScansTo(f, q, n)
    BY ScanExists
  <1>2. PICK h : ScansTo(h, r, n)
    BY ScanExists
  <1>3. \A i \in 0..n : f[i] = h[i]
    <2>1. n <= n
      OBVIOUS
    <2>2. \A i \in 1..n : q[i] = r[i]
      OBVIOUS
    <2>. QED
      BY <1>1, <1>2, <2>1, <2>2, ScansUnique
  <1>. QED
    BY <1>1, <1>2, <1>3, ScanValue

-----------------------------------------------------------------------------
(* --up-to-seq on a log that grows.                                          *)

LEMMA CutAppended ==
    ASSUME NEW S, NEW q \in Seq(S), NEW x \in S, NEW k \in 0..Len(q)
    PROVE  SubSeq(Append(q, x), 1, k) = SubSeq(q, 1, k)
  <1>1. PICK u, v, w : u = Append(q, x) /\ v = SubSeq(u, 1, k) /\ w = SubSeq(q, 1, k)
    OBVIOUS
  <1>2. u \in Seq(S) /\ Len(u) = Len(q) + 1 /\ \A i \in 1..Len(q) : u[i] = q[i]
    BY <1>1
  <1>3. w \in Seq(S) /\ Len(w) = k /\ \A i \in 1..k : w[i] = q[i]
    BY <1>1
  <1>4. v \in Seq(S) /\ Len(v) = k /\ \A i \in 1..k : v[i] = u[i]
    BY <1>1, <1>2
  <1>5. \A i \in 1..k : v[i] = w[i]
    BY <1>2, <1>3, <1>4
  <1>6. v = w
    BY <1>3, <1>4, <1>5
  <1>. QED
    BY <1>1, <1>6

LEMMA FirstBeyond ==
    ASSUME NEW S \in SUBSET Nat, S # {}
    PROVE  Min(S) \in S /\ \A i \in S : Min(S) <= i
  BY FirstPosition DEF Min

(* An event beyond the bound, or behind one, is cut off.                     *)
LEMMA UpToAppend ==
    ASSUME NEW S, NEW q \in Seq(S), NEW x \in S, NEW n \in Nat,
           \A e \in S : e.seq \in Nat
    PROVE  \/ UpTo(Append(q, x), n) = UpTo(q, n)
           \/ /\ UpTo(Append(q, x), n) = Append(q, x) /\ UpTo(q, n) = q
              /\ x.seq <= n
  <1> DEFINE B(r) == {i \in DOMAIN r : r[i].seq > n}
  <1>1. PICK u : u = Append(q, x)
    OBVIOUS
  <1>2. PICK k \in Nat : k = Len(q)
    OBVIOUS
  <1>3. /\ u \in Seq(S) /\ DOMAIN u = 1..(k + 1) /\ DOMAIN q = 1..k
        /\ u[k + 1] = x /\ \A i \in 1..k : u[i] = q[i]
    BY <1>1, <1>2
  <1>4. /\ B(q) \subseteq Nat /\ B(u) \subseteq Nat
        /\ UpTo(q, n) = IF B(q) = {} THEN q ELSE SubSeq(q, 1, Min(B(q)) - 1)
        /\ UpTo(u, n) = IF B(u) = {} THEN u ELSE SubSeq(u, 1, Min(B(u)) - 1)
    BY <1>3 DEF UpTo
  <1>5. B(u) = B(q) \cup (IF x.seq > n THEN {k + 1} ELSE {})
    BY <1>2, <1>3
  <1>6. \A i \in B(q) : i \in 1..k
    BY <1>3
  <1>. HIDE DEF B
  <1>7. CASE B(q) # {}
    <2>1. PICK j \in B(q) : j = Min(B(q)) /\ \A i \in B(q) : j <= i
      BY <1>4, <1>7, FirstBeyond
    <2>2. PICK l \in B(u) : l = Min(B(u)) /\ \A i \in B(u) : l <= i
      BY <1>4, <1>5, <1>7, FirstBeyond
    <2>3. j = l
      <3>1. j \in Nat /\ l \in Nat /\ j <= k
        BY <1>4, <1>6, <2>1, <2>2
      <3>2. j \in B(u) /\ l <= j
        BY <1>5, <2>1, <2>2
      <3>3. l \in B(q) \/ l = k + 1
        BY <1>5, <2>2
      <3>4. j <= l
        BY <2>1, <3>1, <3>3
      <3>. QED
        BY <3>1, <3>2, <3>4
    <2>4. j - 1 \in 0..Len(q)
      BY <1>2, <1>6, <2>1
    <2>5. SubSeq(u, 1, j - 1) = SubSeq(q, 1, j - 1)
      BY <1>1, <2>4, CutAppended
    <2>6. B(u) # {}
      BY <1>5, <1>7
    <2>. QED
      BY <1>1, <1>4, <1>7, <2>1, <2>2, <2>3, <2>5, <2>6
  <1>8. CASE B(q) = {} /\ x.seq > n
    <2>1. B(u) = {k + 1}
      BY <1>5, <1>8
    <2>2. PICK l \in B(u) : l = Min(B(u))
      BY <1>4, <2>1, FirstBeyond
    <2>3. l - 1 = k /\ k \in 0..Len(q)
      BY <1>2, <2>1, <2>2
    <2>4. SubSeq(u, 1, k) = SubSeq(q, 1, k)
      BY <1>1, <2>3, CutAppended
    <2>5. SubSeq(q, 1, k) = q
      BY <1>2
    <2>. QED
      BY <1>1, <1>4, <1>8, <2>1, <2>2, <2>3, <2>4, <2>5
  <1>9. CASE B(q) = {} /\ ~(x.seq > n)
    <2>1. B(u) = {} /\ x.seq <= n
      BY <1>5, <1>9
    <2>. QED
      BY <1>1, <1>4, <1>9, <2>1
  <1>. QED
    BY <1>7, <1>8, <1>9

(* A bound that nothing exceeds cuts nothing off.                            *)
LEMMA UpToAll ==
    ASSUME NEW S, NEW q \in Seq(S), NEW n \in Nat, \A e \in S : e.seq \in Nat /\ e.seq <= n
    PROVE  UpTo(q, n) = q
  <1>1. {i \in DOMAIN q : q[i].seq > n} = {}
    <2>1. \A i \in DOMAIN q : q[i] \in S
      OBVIOUS
    <2>. QED
      BY <2>1
  <1>. QED
    BY <1>1 DEF UpTo

-----------------------------------------------------------------------------
(* The consumer, a scan of the partition and the ordered rows agree.         *)

(* The run's messages below the watermark: what the projector has as rows.   *)
Read == {m \in {partition[i] : i \in 1..hwm} : IsOwn(m)}

(* Fold's answer for a log that leads to s.                                  *)
ResultOf(s) == IF s.seen = <<>> THEN NotFound ELSE [err |-> "ok", state |-> s]

(* Ids are given with sequence numbers, and the messages read are those of   *)
(* the state's history, each of them once.                                   *)
HistoryInv ==
    /\ state.seen = <<>> => state = EmptyState
    /\ \A i \in DOMAIN state.seen : state.seen[i] = i - 1
    /\ \A m \in Ids(partition) : IsOwn(m) => m.id = m.seq
    /\ Numbered(Read, NextSequence(state))

(* At most one message is beyond the watermark: one that was read before, or *)
(* one that Apply accepts.                                                   *)
UnderWayInv ==
    hwm < Len(partition) =>
      /\ hwm + 1 = Len(partition)
      /\ IsOwn(partition[hwm + 1]) =>
           partition[hwm + 1] \in Read \/ Verdict(state, partition[hwm + 1]) = "ok"

PrintedInv ==
    /\ printed \in Seq(Ids(printed)) /\ Len(printed) = NextSequence(state)
    /\ printed # <<>> => printed[Len(printed)] = Digest(state, "kafka")

ScannedInv ==
    /\ KafkaEvents \in Seq(Read)
    /\ Fold(KafkaEvents) = ResultOf(state)
    /\ Fold(Ordered(Read)) = ResultOf(state)
    /\ \A n \in 0..(Len(printed) - 1) :
         Digest(Fold(UpTo(KafkaEvents, n)).state, "kafka") = printed[n + 1]

DeliveryInv == HistoryInv /\ UnderWayInv /\ PrintedInv /\ ScannedInv

LEMMA SeqOfItsIds ==
    ASSUME NEW S, NEW q \in Seq(S)
    PROVE  q \in Seq(Ids(q)) /\ Ids(q) \subseteq S
  <1>1. DOMAIN q = 1..Len(q) /\ Len(q) \in Nat /\ q = [i \in 1..Len(q) |-> q[i]]
    OBVIOUS
  <1>2. \A i \in 1..Len(q) : q[i] \in Ids(q) /\ q[i] \in S
    BY <1>1 DEF Ids
  <1>3. q \in Seq(Ids(q))
    <2>1. PICK I : I = Ids(q)
      OBVIOUS
    <2>2. q \in [1..Len(q) -> I]
      BY <1>1, <1>2, <2>1
    <2>. QED
      BY <1>1, <2>1, <2>2
  <1>4. Ids(q) \subseteq S
    BY <1>1, <1>2 DEF Ids
  <1>. QED
    BY <1>3, <1>4

(* One more event that Apply accepts.                                        *)
LEMMA FoldsOn ==
    ASSUME NEW s \in StateType(Nat, Tools, Words), NEW m, IsEvent(m, Nat, Tools, Words),
           s.seen = <<>> => s = EmptyState, Verdict(s, m) = "ok"
    PROVE  /\ FoldStep(ResultOf(s), m) = ResultOf(Applied(s, m))
           /\ Applied(s, m).seen = Append(s.seen, m.id) /\ Applied(s, m).seen # <<>>
           /\ Applied(s, m).seen # s.seen
  <1>1. PICK q, x, t : q = s.seen /\ x = m.id /\ t = Applied(s, m)
    OBVIOUS
  <1>2. q \in Seq(Nat) /\ x \in Nat
    BY <1>1 DEF StateType, IsEvent
  <1>3. Append(q, x) # <<>> /\ Append(q, x) # q
    <2>1. PICK r : r = Append(q, x)
      OBVIOUS
    <2>2. r \in Seq(Nat) /\ Len(r) = Len(q) + 1 /\ Len(q) \in Nat
      BY <1>2, <2>1
    <2>3. Len(r) # Len(q) /\ Len(r) # 0
      BY <2>2
    <2>. QED
      BY <2>1, <2>3
  <1>4. t.seen = Append(q, x)
    BY <1>1, AppliedFields
  <1>5. ResultOf(s).state = s /\ ResultOf(s).err \in {"ok", "run_not_found"}
    BY DEF ResultOf, NotFound
  <1>6. Apply(s, m) = [err |-> "ok", state |-> t]
    BY <1>1 DEF Apply
  <1>7. ResultOf(t) = [err |-> "ok", state |-> t]
    BY <1>3, <1>4 DEF ResultOf
  <1>8. FoldStep(ResultOf(s), m) = ResultOf(t)
    BY <1>5, <1>6, <1>7 DEF FoldStep
  <1>. QED
    BY <1>1, <1>3, <1>4, <1>8

(* One more delivery of an event of the history.                             *)
LEMMA FoldsAgain ==
    ASSUME NEW s, NEW m, s.seen # <<>>, Verdict(s, m) = "redelivery"
    PROVE  FoldStep(ResultOf(s), m) = ResultOf(s) /\ Apply(s, m).state = s
  <1>1. ResultOf(s) = [err |-> "ok", state |-> s]
    BY DEF ResultOf
  <1>2. Apply(s, m) = [err |-> "ok", state |-> s]
    BY DEF Apply
  <1>. QED
    BY <1>1, <1>2 DEF FoldStep

LEMMA ReadIsEvent ==
    ASSUME ReplayInv
    PROVE  \A m \in Read : IsOwn(m) /\ IsEvent(m, Nat, Tools, Words) /\ m \in Ids(partition)
  <1>1. DOMAIN partition = 1..Len(partition) /\ Len(partition) \in Nat /\ hwm \in Nat
        /\ hwm <= Len(partition)
    BY DEF ReplayInv
  <1>2. \A i \in 1..hwm : i \in DOMAIN partition
    BY <1>1
  <1>3. \A m \in Read : IsOwn(m) /\ m \in Ids(partition)
    BY <1>2 DEF Read, Ids
  <1>. QED
    BY <1>3 DEF ReplayInv

LEMMA ReadAgain ==
    ASSUME ReplayInv, HistoryInv, NEW m \in Read
    PROVE  state.seen # <<>> /\ Verdict(state, m) = "redelivery"
  <1>1. PICK q, n : q = state.seen /\ n = Len(q)
    OBVIOUS
  <1>2. q \in Seq(Nat) /\ n \in Nat /\ DOMAIN q = 1..n
    BY <1>1 DEF ReplayInv, StateType
  <1>3. m.seq \in 0..(n - 1) /\ m.id = m.seq /\ \A i \in 1..n : q[i] = i - 1
    BY <1>1, <1>2, ReadIsEvent DEF HistoryInv, Numbered, NextSequence
  <1>4. m.seq < n /\ q[m.seq + 1] = m.id
    BY <1>2, <1>3
  <1>5. q # <<>>
    BY <1>1, <1>2, <1>3
  <1>6. Structural(state, m) = "redelivery"
    BY <1>1, <1>4 DEF Structural, NextSequence
  <1>. QED
    BY <1>1, <1>5, <1>6 DEF Verdict

(* A message beyond the watermark changes nothing a replay reads.            *)
LEMMA WriteDelivers ==
    ASSUME ReplayInv, DeliveryInv, NEW m, Write(m),
           IsOwn(m) => m.id = m.seq /\ (m \in Read \/ Verdict(state, m) = "ok")
    PROVE  DeliveryInv'
  <1>1. /\ hwm = Len(partition) /\ partition' = Append(partition, m)
        /\ hwm' = hwm /\ state' = state /\ printed' = printed
    BY DEF Write
  <1>2. /\ partition' \in Seq(Ids(partition')) /\ Ids(partition') = Ids(partition) \cup {m}
        /\ Len(partition') = hwm + 1 /\ hwm \in Nat /\ partition'[hwm + 1] = m
        /\ \A i \in 1..hwm : partition[i] = partition'[i]
    BY <1>1, AppendIds DEF ReplayInv
  <1>3. Read' = Read
    BY <1>1, <1>2 DEF Read
  <1>4. KafkaEvents' = KafkaEvents
    <2>1. Scan(partition, hwm) = Scan(partition', hwm)
      BY <1>2, ScanPrefix
    <2>. QED
      BY <1>1, <2>1 DEF KafkaEvents
  <1>5. HistoryInv'
    BY <1>1, <1>2, <1>3 DEF DeliveryInv, HistoryInv
  <1>6. UnderWayInv'
    BY <1>1, <1>2, <1>3 DEF UnderWayInv
  <1>7. PrintedInv'
    BY <1>1 DEF DeliveryInv, PrintedInv
  <1>8. ScannedInv'
    BY <1>1, <1>3, <1>4 DEF DeliveryInv, ScannedInv
  <1>. QED
    BY <1>5, <1>6, <1>7, <1>8 DEF DeliveryInv

(* What the watermark uncovers.                                              *)
LEMMA Uncovered ==
    ASSUME ReplayInv, UnderWayInv, Acknowledge, NEW m, m = partition[hwm + 1]
    PROVE  /\ partition' = partition /\ hwm' = hwm + 1 /\ UnderWayInv'
           /\ IsOwn(m) => IsEvent(m, Nat, Tools, Words) /\ m \in Ids(partition)
           /\ IsOwn(m) => m \in Read \/ Verdict(state, m) = "ok"
           /\ Read' = IF IsOwn(m) THEN Read \cup {m} ELSE Read
           /\ KafkaEvents' = IF IsOwn(m) THEN Append(KafkaEvents, m) ELSE KafkaEvents
  <1>1. hwm < Len(partition) /\ partition' = partition /\ hwm' = hwm + 1
    BY DEF Acknowledge
  <1>2. DOMAIN partition = 1..Len(partition) /\ Len(partition) \in Nat /\ hwm \in Nat
    BY DEF ReplayInv
  <1>3. hwm + 1 = Len(partition) /\ (IsOwn(m) => m \in Read \/ Verdict(state, m) = "ok")
    BY <1>1 DEF UnderWayInv
  <1>4. UnderWayInv'
    BY <1>1, <1>2, <1>3 DEF UnderWayInv
  <1>5. IsOwn(m) => IsEvent(m, Nat, Tools, Words) /\ m \in Ids(partition)
    <2>1. hwm + 1 \in DOMAIN partition
      BY <1>1, <1>2
    <2>. QED
      BY <2>1 DEF ReplayInv, Ids
  <1>6. Read' = IF IsOwn(m) THEN Read \cup {m} ELSE Read
    <2>1. \A i : i \in 1..(hwm + 1) <=> i \in 1..hwm \/ i = hwm + 1
      BY <1>2
    <2>2. {partition[i] : i \in 1..(hwm + 1)} = {partition[i] : i \in 1..hwm} \cup {m}
      BY <2>1
    <2>3. Read' = {x \in {partition[i] : i \in 1..(hwm + 1)} : IsOwn(x)}
      BY <1>1 DEF Read
    <2>. QED
      BY <2>2, <2>3 DEF Read
  <1>7. KafkaEvents' = IF IsOwn(m) THEN Append(KafkaEvents, m) ELSE KafkaEvents
    <2>1. Scan(partition, hwm + 1) = IF IsOwn(m) THEN Append(Scan(partition, hwm), m)
                                     ELSE Scan(partition, hwm)
      BY <1>2, ScanOneMore
    <2>. QED
      BY <1>1, <2>1 DEF KafkaEvents
  <1>. QED
    BY <1>1, <1>3, <1>4, <1>5, <1>6, <1>7

(* A duplicate lengthens the scan, and no fold of it.                        *)
LEMMA AgainDelivers ==
    ASSUME ReplayInv, DeliveryInv, Acknowledge,
           NEW m, m = partition[hwm + 1], IsOwn(m), m \in Read
    PROVE  DeliveryInv'
  <1>1. /\ partition' = partition /\ UnderWayInv' /\ Read' = Read
        /\ KafkaEvents' = Append(KafkaEvents, m)
    <2>1. UnderWayInv
      BY DEF DeliveryInv
    <2>2. Read \cup {m} = Read
      OBVIOUS
    <2>. QED
      BY <2>1, <2>2, Uncovered
  <1>2. state.seen # <<>> /\ Verdict(state, m) = "redelivery"
    BY ReadAgain DEF DeliveryInv
  <1>3. FoldStep(ResultOf(state), m) = ResultOf(state) /\ Apply(state, m).state = state
    BY <1>2, FoldsAgain
  <1>4. state' = state /\ printed' = printed
    BY <1>3 DEF Acknowledge
  <1>5. PICK q, r : q = KafkaEvents /\ r = Append(q, m)
    OBVIOUS
  <1>6. q \in Seq(Read) /\ q \in Seq(Ids(q)) /\ Fold(q) = ResultOf(state)
    BY <1>5, SeqOfItsIds DEF DeliveryInv, ScannedInv
  <1>7. r \in Seq(Read) /\ Fold(r) = Fold(q)
    BY <1>3, <1>5, <1>6, FoldAppend
  <1>8. \A e \in Read : e.seq \in Nat
    BY ReadIsEvent DEF IsEvent
  <1>9. \A n \in Nat : Fold(UpTo(r, n)) = Fold(UpTo(q, n))
    <2>1. SUFFICES ASSUME NEW n \in Nat PROVE Fold(UpTo(r, n)) = Fold(UpTo(q, n))
      OBVIOUS
    <2>2. UpTo(r, n) = UpTo(q, n) \/ (UpTo(r, n) = r /\ UpTo(q, n) = q)
      BY <1>5, <1>6, <1>8, UpToAppend
    <2>. QED
      BY <1>7, <2>2
  <1>10. HistoryInv'
    BY <1>1, <1>4 DEF DeliveryInv, HistoryInv
  <1>11. PrintedInv'
    BY <1>4 DEF DeliveryInv, PrintedInv
  <1>12. ScannedInv'
    <2>1. \A n \in 0..(Len(printed) - 1) : n \in Nat
      OBVIOUS
    <2>2. KafkaEvents' = r
      BY <1>1, <1>5
    <2>3. \A n \in 0..(Len(printed) - 1) :
            Digest(Fold(UpTo(r, n)).state, "kafka") = printed[n + 1]
      BY <1>5, <1>9, <2>1 DEF DeliveryInv, ScannedInv
    <2>. QED
      BY <1>1, <1>4, <1>6, <1>7, <2>2, <2>3 DEF DeliveryInv, ScannedInv
  <1>. QED
    BY <1>1, <1>10, <1>11, <1>12 DEF DeliveryInv


(* The run's next event, accepted by the consumer and by every replay.       *)
LEMMA NewDelivers ==
    ASSUME ReplayInv, DeliveryInv, Acknowledge,
           NEW m, m = partition[hwm + 1], IsOwn(m), Verdict(state, m) = "ok"
    PROVE  DeliveryInv'
  <1>1. /\ partition' = partition /\ UnderWayInv' /\ Read' = Read \cup {m}
        /\ KafkaEvents' = Append(KafkaEvents, m)
        /\ IsEvent(m, Nat, Tools, Words) /\ m \in Ids(partition)
    <2>1. UnderWayInv
      BY DEF DeliveryInv
    <2>. QED
      BY <2>1, Uncovered
  <1>2. state \in StateType(Nat, Tools, Words) /\ (state.seen = <<>> => state = EmptyState)
    BY DEF ReplayInv, DeliveryInv, HistoryInv
  <1>3. PICK s, t : s = state /\ t = Applied(s, m)
    OBVIOUS
  <1>4. /\ FoldStep(ResultOf(s), m) = ResultOf(t)
        /\ t.seen = Append(s.seen, m.id) /\ t.seen # <<>> /\ t.seen # s.seen
    BY <1>1, <1>2, <1>3, FoldsOn
  <1>5. m.seq = NextSequence(s)
    BY <1>1, <1>2, <1>3, Accepted
  <1>6. state' = t /\ printed' = Append(printed, Digest(t, "kafka"))
    <2>1. Apply(state, m).state = t
      BY <1>3 DEF Apply
    <2>2. t # s
      BY <1>4
    <2>3. state' = t /\ printed' = IF state' = state THEN printed
                                   ELSE Append(printed, Digest(state', "kafka"))
      BY <2>1 DEF Acknowledge
    <2>. QED
      BY <1>3, <2>2, <2>3
  <1>7. PICK k \in Nat : k = NextSequence(s)
    BY <1>2, <1>3 DEF StateType, NextSequence
  <1>8. /\ s.seen \in Seq(Nat) /\ Len(s.seen) = k /\ m.id = k /\ NextSequence(t) = k + 1
        /\ t.seen \in Seq(Nat) /\ \A i \in DOMAIN t.seen : t.seen[i] = i - 1
    <2>1. PICK q, x : q = s.seen /\ x = m.id
      OBVIOUS
    <2>2. q \in Seq(Nat) /\ Len(q) = k /\ DOMAIN q = 1..k
      BY <1>2, <1>3, <1>7, <2>1 DEF StateType, NextSequence
    <2>3. x = k /\ \A i \in 1..k : q[i] = i - 1
      BY <1>1, <1>3, <1>5, <1>7, <2>1, <2>2 DEF DeliveryInv, HistoryInv
    <2>4. PICK r : r = Append(q, x)
      OBVIOUS
    <2>5. /\ r \in Seq(Nat) /\ Len(r) = k + 1 /\ DOMAIN r = 1..(k + 1)
          /\ r[k + 1] = k /\ \A i \in 1..k : r[i] = q[i]
      BY <2>2, <2>3, <2>4
    <2>6. \A i \in 1..(k + 1) : r[i] = i - 1
      BY <2>3, <2>5
    <2>7. t.seen = r
      BY <1>4, <2>1, <2>4
    <2>. QED
      BY <2>1, <2>2, <2>3, <2>5, <2>6, <2>7 DEF NextSequence
  <1>9. Numbered(Read, k) /\ Fold(Ordered(Read)) = ResultOf(s) /\ Fold(KafkaEvents) = ResultOf(s)
        /\ KafkaEvents \in Seq(Read)
    BY <1>3, <1>7 DEF DeliveryInv, HistoryInv, ScannedInv
  <1>10. Numbered(Read \cup {m}, k + 1) /\ Ordered(Read \cup {m}) = Append(Ordered(Read), m)
    BY <1>5, <1>7, <1>9, OrderedAppend
  <1>11. HistoryInv'
    <2>1. Numbered(Read, NextSequence(state))'
      BY <1>1, <1>6, <1>8, <1>10
    <2>. QED
      BY <1>1, <1>4, <1>6, <1>8, <2>1 DEF DeliveryInv, HistoryInv
  <1>12. /\ printed' \in Seq(Ids(printed')) /\ Len(printed') = k + 1
         /\ printed'[k + 1] = Digest(t, "kafka") /\ \A i \in 1..k : printed'[i] = printed[i]
         /\ Len(printed) = k
    <2>1. printed \in Seq(Ids(printed)) /\ Len(printed) = k
      BY <1>3, <1>7 DEF DeliveryInv, PrintedInv
    <2>2. PICK x : x = Digest(t, "kafka")
      OBVIOUS
    <2>. QED
      BY <1>6, <2>1, <2>2, AppendIds
  <1>13. PrintedInv'
    BY <1>6, <1>8, <1>12 DEF PrintedInv
  <1>14. ScannedInv'
    <2>1. PICK q, r, S : q = KafkaEvents /\ r = Append(q, m) /\ S = Read \cup {m}
      OBVIOUS
    <2>2. q \in Seq(Read) /\ q \in Seq(S) /\ m \in S /\ r \in Seq(S) /\ q \in Seq(Ids(q))
      BY <1>9, <2>1, SeqOfItsIds
    <2>3. Fold(r) = ResultOf(t)
      BY <1>4, <1>9, <2>1, <2>2, FoldAppend
    <2>4. Fold(Ordered(S)) = ResultOf(t)
      <3>1. Ordered(Read) \in Seq(Ids(Ordered(Read)))
        BY <1>9, OrderedRows
      <3>2. Fold(Append(Ordered(Read), m)) = FoldStep(Fold(Ordered(Read)), m)
        BY <3>1, FoldAppend
      <3>. QED
        BY <1>4, <1>9, <1>10, <2>1, <3>2
    <2>5. \A e \in S : e.seq \in Nat /\ e.seq <= k
      BY <1>10, <2>1 DEF Numbered
    <2>6. ASSUME NEW n \in 0..((k + 1) - 1)
          PROVE  Digest(Fold(UpTo(r, n)).state, "kafka") = printed'[n + 1]
      <3>1. CASE n = k
        <4>1. UpTo(r, n) = r
          BY <2>2, <2>5, <3>1, UpToAll
        <4>2. Fold(r).state = t
          BY <1>4, <2>3 DEF ResultOf
        <4>. QED
          BY <1>12, <3>1, <4>1, <4>2
      <3>2. CASE n # k
        <4>1. n \in Nat /\ n < k /\ n \in 0..(k - 1) /\ n + 1 \in 1..k
          BY <3>2
        <4>2. ~(m.seq <= n)
          BY <1>5, <1>7, <4>1
        <4>3. UpTo(r, n) = UpTo(q, n)
          BY <2>1, <2>2, <2>5, <4>1, <4>2, UpToAppend
        <4>4. Digest(Fold(UpTo(q, n)).state, "kafka") = printed[n + 1]
          BY <1>12, <2>1, <4>1 DEF DeliveryInv, ScannedInv
        <4>. QED
          BY <1>12, <4>1, <4>3, <4>4
      <3>. QED
        BY <3>1, <3>2
    <2>7. KafkaEvents' = r /\ Read' = S
      BY <1>1, <2>1
    <2>. QED
      BY <1>6, <1>12, <2>2, <2>3, <2>4, <2>6, <2>7 DEF ScannedInv
  <1>. QED
    BY <1>1, <1>11, <1>13, <1>14 DEF DeliveryInv

LEMMA NextDelivers ==
    ASSUME ReplayInv, DeliveryInv, [Next]_vars
    PROVE  DeliveryInv'
  <1>1. CASE UNCHANGED vars
    BY <1>1 DEF vars, DeliveryInv, HistoryInv, UnderWayInv, PrintedInv, ScannedInv, Read,
                KafkaEvents
  <1>2. ASSUME NEW p \in Payloads, Publish(p)
        PROVE  DeliveryInv'
    <2>1. PICK m : m = WithEnvelope(p)
      OBVIOUS
    <2>2. IsEvent(m, Nat, Tools, Words) /\ state \in StateType(Nat, Tools, Words)
      BY <2>1, PublishedIsEvent DEF ReplayInv
    <2>3. Write(m) /\ Apply(state, m).err = "ok"
      BY <1>2, <2>1 DEF Publish
    <2>4. m.seq = NextSequence(state) /\ m.id = NextSequence(state)
      <3>1. PICK v : v = [seq |-> NextSequence(state), id |-> NextSequence(state)]
        OBVIOUS
      <3>2. m = Enveloped(v, p)
        BY <2>1, <3>1 DEF WithEnvelope
      <3>3. \A f \in DOMAIN v : m[f] = v[f]
        BY <3>2 DEF Enveloped
      <3>. QED
        BY <3>1, <3>3
    <2>5. Verdict(state, m) = "ok"
      BY <2>2, <2>3, <2>4, ApplyNext
    <2>. QED
      BY <2>3, <2>4, <2>5, WriteDelivers
  <1>3. ASSUME NEW m \in Ids(partition) \cup {Other}, Extra(m)
        PROVE  DeliveryInv'
    <2>1. Write(m) /\ hwm = Len(partition)
      BY <1>3 DEF Extra, Write
    <2>2. ASSUME IsOwn(m) PROVE m.id = m.seq /\ m \in Read
      <3>1. m \in Ids(partition)
        BY <2>2 DEF IsOwn
      <3>2. DOMAIN partition = 1..hwm
        BY <2>1 DEF ReplayInv
      <3>. QED
        BY <2>2, <3>1, <3>2 DEF DeliveryInv, HistoryInv, Read, Ids
    <2>. QED
      BY <2>1, <2>2, WriteDelivers
  <1>4. CASE Acknowledge
    <2>1. PICK m : m = partition[hwm + 1]
      OBVIOUS
    <2>2. UnderWayInv
      BY DEF DeliveryInv
    <2>3. CASE IsOwn(m)
      BY <1>4, <2>1, <2>2, <2>3, Uncovered, AgainDelivers, NewDelivers
    <2>4. CASE ~IsOwn(m)
      <3>1. /\ partition' = partition /\ UnderWayInv' /\ Read' = Read
            /\ KafkaEvents' = KafkaEvents
        BY <1>4, <2>1, <2>2, <2>4, Uncovered
      <3>2. state' = state /\ printed' = printed
        BY <1>4, <2>1, <2>4 DEF Acknowledge
      <3>. QED
        BY <3>1, <3>2 DEF DeliveryInv, HistoryInv, PrintedInv, ScannedInv
    <2>. QED
      BY <2>3, <2>4
  <1>. QED
    BY <1>1, <1>2, <1>3, <1>4 DEF Next

(* The consumer's state, the scan of the partition and the ordered rows of   *)
(* the projection stay in step with every message.                           *)
THEOREM DeliveryInvariant == Spec => []DeliveryInv
  <1>1. Init => DeliveryInv
    <2>1. SUFFICES ASSUME Init PROVE DeliveryInv
      OBVIOUS
    <2>2. /\ partition = <<>> /\ hwm = 0 /\ state = EmptyState /\ printed = <<>>
          /\ state.seen = <<>> /\ NextSequence(state) = 0
      BY <2>1 DEF Init, EmptyState, NextSequence
    <2>3. Read = {} /\ KafkaEvents = <<>>
      <3>1. 1..0 = {}
        OBVIOUS
      <3>. QED
        BY <2>2, <3>1, ScanNothing DEF Read, KafkaEvents
    <2>4. HistoryInv
      BY <2>2, <2>3, OrderedEmpty DEF HistoryInv, Ids
    <2>5. UnderWayInv /\ PrintedInv
      BY <2>2 DEF UnderWayInv, PrintedInv, Ids
    <2>6. ScannedInv
      <3>1. 0..(0 - 1) = {} /\ Len(<<>>) = 0
        OBVIOUS
      <3>. QED
        BY <2>2, <2>3, <3>1, FoldEmpty, OrderedEmpty DEF ScannedInv, ResultOf
    <2>. QED
      BY <2>4, <2>5, <2>6 DEF DeliveryInv
  <1>2. ReplayInv /\ DeliveryInv /\ [Next]_vars => DeliveryInv'
    BY NextDelivers
  <1>. QED
    BY <1>1, <1>2, ReplayInvariant, PTL DEF Spec

(* A replay from Kafka returns the consumer's own state, however long the    *)
(* partition and wherever its duplicates and other messages lie.             *)
THEOREM ReplayAgreesHolds == Spec => []ReplayAgrees
  <1>1. ReplayInv /\ DeliveryInv => ReplayAgrees
    <2>1. SUFFICES ASSUME ReplayInv, DeliveryInv, printed # <<>>
                   PROVE  Fold(KafkaEvents) = [err |-> "ok", state |-> state]
      BY DEF ReplayAgrees
    <2>2. state.seen # <<>>
      <3>1. printed # <<>> => Len(printed) # 0
        BY DEF DeliveryInv, PrintedInv
      <3>. QED
        BY <2>1, <3>1 DEF DeliveryInv, PrintedInv, NextSequence
    <2>. QED
      BY <2>1, <2>2 DEF DeliveryInv, ScannedInv, ResultOf
  <1>. QED
    BY <1>1, ReplayInvariant, DeliveryInvariant, PTL

(* --up-to-seq n prints what the worker printed after event n.               *)
THEOREM UpToSeqHolds == Spec => []UpToSeqIsExact
  <1>1. DeliveryInv => UpToSeqIsExact
    <2>1. SUFFICES ASSUME DeliveryInv, NEW n \in 0..(Len(printed) - 1)
                   PROVE  Digest(Report("kafka", n).state, "kafka") = printed[n + 1]
      BY DEF UpToSeqIsExact
    <2>2. n >= 0 /\ Events("kafka") = KafkaEvents
      BY DEF Events
    <2>3. Report("kafka", n).state = Fold(UpTo(KafkaEvents, n)).state
      BY <2>2 DEF Report
    <2>. QED
      BY <2>1, <2>3 DEF DeliveryInv, ScannedInv
  <1>. QED
    BY <1>1, DeliveryInvariant, PTL


(* scripts/replay with no bound.                                             *)
LEMMA ReportIs ==
    ASSUME NEW source, NEW r, r = Fold(Events(source))
    PROVE  /\ Report(source, -1).state = r.state
           /\ r.err = "ok" => Report(source, -1).code = 0
           /\ r.err = "run_not_found" => Report(source, -1).code = 2
  <1>1. ~(-1 >= 0)
    OBVIOUS
  <1>2. PICK c : c = CASE r.err = "ok" -> 0 [] r.err = "run_not_found" -> 2 [] OTHER -> 1
    OBVIOUS
  <1>3. Report(source, -1) = [code |-> c, state |-> r.state]
    BY <1>1, <1>2, Zenon DEF Report
  <1>4. "ok" # "run_not_found"
    OBVIOUS
  <1>5. (r.err = "ok" => c = 0) /\ (r.err = "run_not_found" => c = 2)
    BY <1>2, <1>4
  <1>. QED
    BY <1>3, <1>5

(* The reader's rows are the messages the scan reads, each of them once.     *)
LEMMA RowsAreRead ==
    ASSUME ReplayInv
    PROVE  PostgresEvents = Ordered(Read)
  <1>1. PICK q : q = SubSeq(partition, 1, hwm)
    OBVIOUS
  <1>2. /\ partition \in Seq(Ids(partition)) /\ hwm \in Nat /\ hwm <= Len(partition)
    BY DEF ReplayInv
  <1>3. DOMAIN q = 1..hwm /\ \A i \in 1..hwm : q[i] = partition[i]
    <2>1. hwm \in 0..Len(partition) /\ Len(partition) \in Nat
      BY <1>2
    <2>2. Len(q) = hwm /\ q \in Seq(Ids(partition)) /\ \A i \in 1..hwm : q[i] = partition[i]
      BY <1>1, <1>2, <2>1
    <2>. QED
      BY <2>2
  <1>4. Ids(q) = {partition[i] : i \in 1..hwm}
    BY <1>3 DEF Ids
  <1>5. {m \in Ids(q) : IsOwn(m)} = Read
    BY <1>4 DEF Read
  <1>6. PostgresEvents = Ordered({m \in Ids(SubSeq(partition, 1, hwm)) : IsOwn(m)})
    BY Zenon DEF PostgresEvents, Ordered
  <1>. QED
    BY <1>1, <1>5, <1>6

(* The digest forgets the key order, and the zone of what is not in flight.  *)
LEMMA DigestsSame ==
    ASSUME NEW s, NEW source \in Sources, Zone(source) = "UTC" \/ InFlightTools(s) = {}
    PROVE  Digest(s, source) = Digest(s, "kafka")
  <1>1. SortKeys(KeyOrder(source)) = "sorted" /\ SortKeys(KeyOrder("kafka")) = "sorted"
        /\ Zone("kafka") = "UTC"
    BY DEF SortKeys, Zone
  <1>2. View(s, "sorted", "sorted", Zone(source)) = View(s, "sorted", "sorted", "UTC")
    <2>1. CASE Zone(source) = "UTC"
      BY <2>1
    <2>2. CASE InFlightTools(s) = {}
      BY <2>2, Zenon DEF View
    <2>. QED
      BY <2>1, <2>2
  <1>. QED
    BY <1>1, <1>2 DEF Digest

(* Both sources print the worker's last digest, and only a run without an    *)
(* event is not found.                                                       *)
THEOREM DigestsAgreeHolds == Spec => []DigestsAgree
  <1>1. ReplayInv /\ DeliveryInv => DigestsAgree
    <2>1. SUFFICES ASSUME ReplayInv, DeliveryInv, NEW source \in Sources
                   PROVE  /\ Report(source, -1).code = IF printed = <<>> THEN 2 ELSE 0
                          /\ printed # <<>> /\ (Zone(source) = "UTC" \/ InFlightTools(state) = {})
                               => Digest(Report(source, -1).state, source)
                                    = printed[Len(printed)]
      BY Zenon DEF DigestsAgree
    <2>2. Fold(Events(source)) = ResultOf(state)
      BY <2>1, RowsAreRead DEF Events, DeliveryInv, ScannedInv
    <2>3. printed = <<>> <=> state.seen = <<>>
      <3>1. PICK q : q = state.seen
        OBVIOUS
      <3>2. /\ printed \in Seq(Ids(printed)) /\ q \in Seq(Nat) /\ Len(printed) = Len(q)
        BY <2>1, <3>1 DEF DeliveryInv, PrintedInv, NextSequence, ReplayInv, StateType
      <3>3. (printed = <<>> <=> Len(printed) = 0) /\ (q = <<>> <=> Len(q) = 0)
        BY <3>2
      <3>. QED
        BY <3>1, <3>2, <3>3
    <2>4. CASE printed = <<>>
      <3>1. ResultOf(state).err = "run_not_found"
        BY <2>3, <2>4 DEF ResultOf, NotFound
      <3>2. Report(source, -1).code = 2
        BY <2>2, <3>1, ReportIs
      <3>. QED
        BY <2>4, <3>2
    <2>5. CASE printed # <<>>
      <3>1. ResultOf(state).err = "ok" /\ ResultOf(state).state = state
        BY <2>3, <2>5 DEF ResultOf
      <3>2. Report(source, -1).code = 0 /\ Report(source, -1).state = state
        BY <2>2, <3>1, ReportIs
      <3>3. printed[Len(printed)] = Digest(state, "kafka")
        BY <2>1, <2>5 DEF DeliveryInv, PrintedInv
      <3>. QED
        BY <2>5, <3>2, <3>3, DigestsSame
    <2>. QED
      BY <2>4, <2>5
  <1>. QED
    BY <1>1, ReplayInvariant, DeliveryInvariant, PTL
=============================================================================
