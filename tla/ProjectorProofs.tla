--------------------------- MODULE ProjectorProofs ---------------------------
(***************************************************************************)
(* What holds of the projection tables, for any number of projectors and    *)
(* runs, a partition of any length and any number of crashes, rebalances,   *)
(* repeated and conflicting messages.                                       *)
(***************************************************************************)
EXTENDS Projector, RunFoldProofs

EventIds == Runs \X Nat \X {"first", "second"}
Words == {"tool_use", "success"}
RunStates == StateType(EventIds, Int, Words)

(* The payload's own fields.                                                 *)
Fields(type) ==
    IF type = "RunStarted" THEN {"maxSteps"}
    ELSE IF type = "LLMResponded" THEN {"step", "stop", "order"}
    ELSE IF type = "ToolInvoked" THEN {"tool", "side"}
    ELSE IF type = "ToolResulted" THEN {"tool", "status"}
    ELSE {}

IsMessage(e) ==
    /\ e = [f \in DOMAIN e |-> e[f]]
    /\ {"run", "seq", "id", "type"} \cup Fields(e.type) \subseteq DOMAIN e
    /\ e.run \in Runs
    /\ IsEvent(e, EventIds, Int, Words)

(* The next sequence number of a run's worker.                               *)
NextOf(r) == NextSequence(produced[r].state)

(* The partition: two messages of one run and one sequence number differ in  *)
(* their id at most; every sequence number below a message's own lies before *)
(* it, and behind the run's terminal event there is none.                    *)
Twins(a, b) == a.run = b.run /\ a.seq = b.seq => b = [a EXCEPT !.id = b.id]

LogType ==
    /\ log \in Seq(Ids(log))
    /\ \A e \in Ids(log) : IsMessage(e)
    /\ produced = [r \in Runs |-> produced[r]]
    /\ \A r \in Runs : produced[r].state \in RunStates

LogInv ==
    /\ LogType
    /\ \A a, b \in Ids(log) : Twins(a, b)
    /\ \A e \in Ids(log) : e.seq < NextOf(e.run)
    /\ \A e \in Ids(log) : e.type \in TerminalEvents =>
         IsTerminal(produced[e.run].state) /\ e.seq + 1 = NextOf(e.run)
    /\ \A r \in Runs, m \in Nat : m < NextOf(r) =>
         \E j \in DOMAIN log : log[j].run = r /\ log[j].seq = m
    /\ \A i \in DOMAIN log, m \in Nat : m < log[i].seq =>
         \E j \in DOMAIN log : j < i /\ log[j].run = log[i].run /\ log[j].seq = m

(* The tables hold the first n messages, every position the group works from *)
(* is at most one ahead of them, and no commit is.                           *)
Prefix(n) ==
    /\ n \in Nat /\ offset <= n /\ n <= Len(log)
    /\ rows = {log[i] : i \in 1..n}
    /\ \A p \in Projectors :
         /\ pc[p] \in {"fetch", "apply"} => pos[p] <= n + 1
         /\ pc[p] = "apply" => pos[p] <= Len(log)
         /\ pc[p] = "commit" => pos[p] <= n

GroupType ==
    /\ offset \in Nat
    /\ pc \in [Projectors -> {"down", "fetch", "apply", "commit"}]
    /\ pos \in [Projectors -> Nat \ {0}]
    /\ \A p \in Projectors : pos[p] <= Len(log) + 1
    /\ owner \in Projectors
    /\ faults \in 0..MaxFaults

(* A terminal status in the runs table comes from a terminal event in rows.  *)
RunsInv ==
    /\ runs = [r \in Runs |-> runs[r]]
    /\ \A r \in Runs : runs[r].status \in TerminalStatuses =>
         \E x \in rows : x.run = r /\ x.type \in TerminalEvents

ProjectorInv == GroupType /\ LogInv /\ RunsInv /\ \E n : Prefix(n)

-----------------------------------------------------------------------------
(* The producers.                                                            *)

(* A payload of the model in its envelope is a message of its run.           *)
LEMMA ProducedIsMessage ==
    ASSUME LogType, NEW r \in Runs, NEW p \in Payloads(r), NEW ok \in BOOLEAN,
           NEW e, e = Message(r, NextOf(r), ok, p)
    PROVE  IsMessage(e) /\ e.run = r /\ e.seq = NextOf(r)
  <1>1. PICK s, n : s = produced[r].state /\ n = NextOf(r)
    OBVIOUS
  <1>2. s \in RunStates /\ n \in Nat /\ s.step \in Int
    BY <1>1 DEF LogType, RunStates, StateType, NextOf, NextSequence
  <1>3. PICK v : v = [run |-> r, seq |-> n, id |-> <<r, n, "first">>, ok |-> ok]
    OBVIOUS
  <1>4. DOMAIN v = {"run", "seq", "id", "ok"} /\ v.run = r /\ v.seq = n /\ v.id \in EventIds
    BY <1>2, <1>3 DEF EventIds
  <1>5. e = Enveloped(v, p)
    BY <1>1, <1>3 DEF Message
  <1>6. /\ DOMAIN e = DOMAIN v \cup DOMAIN p /\ e = [f \in DOMAIN e |-> e[f]]
        /\ \A f \in DOMAIN v : e[f] = v[f]
        /\ \A f \in DOMAIN p : f \notin DOMAIN v => e[f] = p[f]
    BY <1>5 DEF Enveloped
  <1>7. e["run"] = v["run"] /\ e["seq"] = v["seq"] /\ e["id"] = v["id"]
    BY <1>4, <1>6
  <1>8. e.run = r /\ e.seq = n /\ e.id \in EventIds
    BY <1>4, <1>7
  <1>9. SUFFICES /\ {"type"} \cup Fields(e.type) \subseteq DOMAIN p
                 /\ IsEvent(e, EventIds, Int, Words)
    BY <1>1, <1>4, <1>6, <1>8 DEF IsMessage
  <1>10. \A f \in DOMAIN p : f \notin {"run", "seq", "id", "ok"} => e[f] = p[f]
    BY <1>4, <1>6
  <1>11. CASE p \in [type : {"RunStarted"}, maxSteps : {2}]
    <2>1. DOMAIN p = {"type", "maxSteps"} /\ p.type = "RunStarted" /\ p.maxSteps = 2
      BY <1>11
    <2>2. e.type = "RunStarted" /\ e.maxSteps \in Int
      BY <1>10, <2>1
    <2>. QED
      BY <1>2, <1>8, <2>1, <2>2 DEF IsEvent, EventTypes, Fields
  <1>12. CASE p \in [type : {"LLMResponded"}, step : {s.step + 1}, stop : {"tool_use"},
                     order : {<<s.step>>}]
    <2>1. /\ p.type = "LLMResponded" /\ p.step = s.step + 1 /\ p.stop = "tool_use"
          /\ p.order = <<s.step>>
      BY <1>12
    <2>2. DOMAIN p = {"type", "step", "stop", "order"}
      BY <1>12
    <2>3. <<s.step>> \in Seq(Int)
      BY <1>2
    <2>4. e.type = "LLMResponded" /\ e.step \in Int /\ e.stop \in Words /\ e.order \in Seq(Int)
      <3>1. e.type = p.type /\ e.step = p.step /\ e.stop = p.stop /\ e.order = p.order
        BY <1>10, <2>2
      <3>2. p.step \in Int /\ p.order \in Seq(Int) /\ p.stop \in Words
        BY <1>2, <2>1, <2>3 DEF Words
      <3>. QED
        BY <2>1, <3>1, <3>2
    <2>. QED
      BY <1>2, <1>8, <2>2, <2>4 DEF IsEvent, EventTypes, Fields
  <1>13. CASE p \in [type : {"ToolInvoked"}, step : {s.step}, tool : {s.step - 1}, side : {TRUE}]
    <2>1. p.type = "ToolInvoked" /\ p.tool = s.step - 1 /\ p.side = TRUE
      BY <1>13
    <2>2. DOMAIN p = {"type", "step", "tool", "side"}
      BY <1>13
    <2>3. e.type = "ToolInvoked" /\ e.tool \in Int /\ e.side \in BOOLEAN
      <3>1. e.type = p.type /\ e.tool = p.tool
        BY <1>10, <2>2
      <3>2. e.side = p.side
        BY <1>10, <2>2, Zenon
      <3>3. p.tool \in Int
        BY <1>2, <2>1
      <3>4. e.side \in BOOLEAN
        BY <2>1, <3>2, Zenon
      <3>. QED
        BY <2>1, <3>1, <3>3, <3>4
    <2>. QED
      BY <1>2, <1>8, <2>2, <2>3 DEF IsEvent, EventTypes, Fields
  <1>14. CASE p \in [type : {"ToolResulted"}, step : {s.step}, tool : {s.step - 1},
                     status : {"success"}]
    <2>1. p.type = "ToolResulted" /\ p.tool = s.step - 1 /\ p.status = "success"
      BY <1>14
    <2>2. DOMAIN p = {"type", "step", "tool", "status"}
      BY <1>14
    <2>3. e.type = "ToolResulted" /\ e.tool \in Int /\ e.status \in Words
      BY <1>2, <1>10, <2>1, <2>2 DEF Words
    <2>. QED
      BY <1>2, <1>8, <2>2, <2>3 DEF IsEvent, EventTypes, Fields
  <1>15. CASE p \in [type : {"AwaitingApproval", "RunApproved", "RunFailed", "RunCancelled"},
                     step : {s.step}]
    <2>1. p.type \in {"AwaitingApproval", "RunApproved", "RunFailed", "RunCancelled"}
          /\ DOMAIN p = {"type", "step"}
      BY <1>15
    <2>2. e.type = p.type
      BY <1>10, <2>1
    <2>. QED
      BY <1>2, <1>8, <2>1, <2>2 DEF IsEvent, EventTypes, Fields, TerminalEvents
  <1>16. CASE p \in [type : {"RunCompleted"}]
    <2>1. p.type = "RunCompleted" /\ DOMAIN p = {"type"}
      BY <1>16
    <2>2. e.type = "RunCompleted"
      BY <1>10, <2>1
    <2>. QED
      BY <1>2, <1>8, <2>1, <2>2 DEF IsEvent, EventTypes, Fields, TerminalEvents
  <1>. QED
    BY <1>1, <1>11, <1>12, <1>13, <1>14, <1>15, <1>16 DEF Payloads

(* What Produce does, by the fold's lemmas: the worker's state takes the     *)
(* event as its next one, and was not terminal.                              *)
LEMMA ProduceMeans ==
    ASSUME LogType, NEW r \in Runs, Produce(r)
    PROVE  \E e : /\ IsMessage(e) /\ e.run = r /\ e.seq = NextOf(r)
                  /\ log' = Append(log, e)
                  /\ LogType'
                  /\ NextOf(r)' = NextOf(r) + 1
                  /\ ~IsTerminal(produced[r].state)
                  /\ e.type \in TerminalEvents => IsTerminal(produced[r].state)'
                  /\ \A q \in Runs : q # r => produced'[q] = produced[q]
  <1>1. PICK p \in Payloads(r), ok \in BOOLEAN :
          LET e == Message(r, NextOf(r), ok, p)
          IN  /\ Publishable(produced[r].state, e.type)
              /\ Apply(produced[r].state, e).err = "ok"
              /\ produced' = [produced EXCEPT ![r] = Apply(produced[r].state, e)]
              /\ log' = Append(log, e)
    BY DEF Produce, NextOf
  <1>2. PICK e, s : e = Message(r, NextOf(r), ok, p) /\ s = produced[r].state
    OBVIOUS
  <1>3. /\ Publishable(s, e.type) /\ Apply(s, e).err = "ok"
        /\ produced' = [produced EXCEPT ![r] = Apply(s, e)]
        /\ log' = Append(log, e)
    BY <1>1, <1>2
  <1>4. IsMessage(e) /\ e.run = r /\ e.seq = NextOf(r)
    BY <1>2, ProducedIsMessage
  <1>5. IsEvent(e, EventIds, Int, Words) /\ s \in StateType(EventIds, Int, Words)
        /\ e.seq = NextSequence(s)
    BY <1>2, <1>4 DEF IsMessage, LogType, RunStates, NextOf
  <1>6. Verdict(s, e) = "ok" /\ Apply(s, e).state = Applied(s, e)
    BY <1>3, <1>5, ApplyNext
  <1>7. /\ \A q \in Runs : q # r => produced'[q] = produced[q]
        /\ produced'[r] = Apply(s, e)
        /\ produced' = [q \in Runs |-> produced'[q]]
    BY <1>3 DEF LogType
  <1>8. produced'[r].state = Applied(s, e)
    BY <1>6, <1>7
  <1>9. produced'[r].state \in RunStates /\ NextOf(r)' = NextOf(r) + 1
    BY <1>2, <1>5, <1>8, AppliedFields DEF RunStates, NextOf
  <1>10. ~IsTerminal(s)
    <2>1. s.seen = <<>> => s.status = "NONE"
      BY <1>3, <1>5, <1>6, Accepted DEF Publishable
    <2>2. s.seen # <<>> => ~IsTerminal(s)
      BY <1>5, <1>6, Accepted
    <2>. QED
      BY <2>1, <2>2 DEF IsTerminal, TerminalStatuses
  <1>11. e.type \in TerminalEvents => IsTerminal(produced[r].state)'
    <2>1. e.type \in TerminalEvents => IsTerminal(Applied(s, e))
      BY <1>5, AppliedStatus
    <2>. QED
      BY <1>8, <2>1 DEF IsTerminal
  <1>12. LogType'
    <2>1. log' \in Seq(Ids(log')) /\ Ids(log') = Ids(log) \cup {e}
      BY <1>3, AppendIds DEF LogType
    <2>2. \A q \in Runs : produced'[q].state \in RunStates
      BY <1>7, <1>9 DEF LogType
    <2>3. \A x \in Ids(log') : IsMessage(x)
      BY <1>4, <2>1 DEF LogType
    <2>. QED
      BY <1>7, <2>1, <2>2, <2>3 DEF LogType
  <1>. QED
    BY <1>2, <1>3, <1>4, <1>7, <1>9, <1>10, <1>11, <1>12

LEMMA TwinsSymmetric ==
    ASSUME NEW a, NEW b, IsMessage(a), IsMessage(b), Twins(a, b)
    PROVE  Twins(b, a)
  BY DEF Twins, IsMessage

LEMMA ProduceLog ==
    ASSUME LogInv, NEW r \in Runs, Produce(r)
    PROVE  LogInv'
  <1>1. PICK e : /\ IsMessage(e) /\ e.run = r /\ e.seq = NextOf(r)
                 /\ log' = Append(log, e)
                 /\ LogType'
                 /\ NextOf(r)' = NextOf(r) + 1
                 /\ ~IsTerminal(produced[r].state)
                 /\ e.type \in TerminalEvents => IsTerminal(produced[r].state)'
                 /\ \A q \in Runs : q # r => produced'[q] = produced[q]
    BY ProduceMeans DEF LogInv
  <1>2. /\ Ids(log') = Ids(log) \cup {e} /\ Len(log) \in Nat
        /\ DOMAIN log' = DOMAIN log \cup {Len(log) + 1} /\ DOMAIN log = 1..Len(log)
        /\ \A i \in DOMAIN log : log'[i] = log[i]
        /\ log'[Len(log) + 1] = e
    BY <1>1, AppendIds DEF LogInv, LogType
  <1>3. \A q \in Runs : NextOf(q) \in Nat /\ (q # r => NextOf(q)' = NextOf(q))
    BY <1>1 DEF LogInv, LogType, RunStates, StateType, NextOf, NextSequence
  <1>4. \A x \in Ids(log) : IsMessage(x) /\ x.run \in Runs /\ x.seq \in Nat /\ x.seq < NextOf(x.run)
    BY DEF LogInv, LogType, IsMessage, IsEvent
  <1>5. \A a, b \in Ids(log') : Twins(a, b)
    <2>1. \A x \in Ids(log) : ~(x.run = e.run /\ x.seq = e.seq)
      BY <1>1, <1>3, <1>4
    <2>2. Twins(e, e)
      BY <1>1 DEF Twins, IsMessage
    <2>. QED
      BY <1>2, <2>1, <2>2 DEF LogInv, Twins
  <1>6. \A x \in Ids(log') : x.seq < NextOf(x.run)'
    BY <1>1, <1>2, <1>3, <1>4
  <1>7. \A x \in Ids(log') : x.type \in TerminalEvents =>
           IsTerminal(produced[x.run].state)' /\ x.seq + 1 = NextOf(x.run)'
    <2>1. ASSUME NEW x \in Ids(log), x.type \in TerminalEvents
          PROVE  IsTerminal(produced[x.run].state)' /\ x.seq + 1 = NextOf(x.run)'
      <3>1. IsTerminal(produced[x.run].state) /\ x.seq + 1 = NextOf(x.run)
        BY <2>1 DEF LogInv
      <3>2. x.run # r /\ x.run \in Runs
        BY <1>1, <1>4, <3>1
      <3>. QED
        BY <1>1, <1>3, <3>1, <3>2 DEF IsTerminal
    <2>. QED
      BY <1>1, <1>2, <2>1
  <1>8. \A q \in Runs, m \in Nat : m < NextOf(q)' =>
           \E j \in DOMAIN log' : log'[j].run = q /\ log'[j].seq = m
    <2>1. SUFFICES ASSUME NEW q \in Runs, NEW m \in Nat, m < NextOf(q)'
                   PROVE  \E j \in DOMAIN log' : log'[j].run = q /\ log'[j].seq = m
      OBVIOUS
    <2>2. CASE m < NextOf(q)
      BY <1>2, <2>1, <2>2 DEF LogInv
    <2>3. CASE ~(m < NextOf(q))
      <3>1. q = r /\ m = NextOf(r)
        BY <1>1, <1>3, <2>1, <2>3
      <3>. QED
        BY <1>1, <1>2, <3>1
    <2>. QED
      BY <2>2, <2>3
  <1>9. \A i \in DOMAIN log', m \in Nat : m < log'[i].seq =>
           \E j \in DOMAIN log' : j < i /\ log'[j].run = log'[i].run /\ log'[j].seq = m
    <2>1. SUFFICES ASSUME NEW i \in DOMAIN log', NEW m \in Nat, m < log'[i].seq
                   PROVE  \E j \in DOMAIN log' :
                            j < i /\ log'[j].run = log'[i].run /\ log'[j].seq = m
      OBVIOUS
    <2>2. CASE i \in DOMAIN log
      BY <1>2, <2>1, <2>2 DEF LogInv
    <2>3. CASE i = Len(log) + 1
      <3>1. PICK j \in DOMAIN log : log[j].run = r /\ log[j].seq = m
        BY <1>1, <1>2, <2>1, <2>3 DEF LogInv
      <3>2. j < i
        BY <1>2, <2>3
      <3>. QED
        BY <1>1, <1>2, <2>3, <3>1, <3>2
    <2>. QED
      BY <1>2, <2>2, <2>3
  <1>. QED
    BY <1>1, <1>5, <1>6, <1>7, <1>8, <1>9 DEF LogInv

(* A retried write, or a second worker's event for the sequence number.      *)
LEMMA RepeatLog ==
    ASSUME LogInv, NEW k \in DOMAIN log, Repeat(k)
    PROVE  LogInv' /\ \E e : log' = Append(log, e)
  <1>1. PICK d : d = log[k]
    OBVIOUS
  <1>2. d \in Ids(log) /\ IsMessage(d)
    BY <1>1 DEF Ids, LogInv, LogType
  <1>3. PICK i : i = <<d.run, d.seq, "second">>
    OBVIOUS
  <1>4. i \in EventIds /\ d.id \in EventIds
    BY <1>2, <1>3 DEF IsMessage, IsEvent, EventIds
  <1>5. PICK x \in EventIds : log' = Append(log, [d EXCEPT !.id = x])
    <2>1. CASE log' = Append(log, log[k])
      <3>1. d = [d EXCEPT !.id = d.id]
        BY <1>2 DEF IsMessage
      <3>. QED
        BY <1>1, <1>4, <2>1, <3>1
    <2>2. CASE log' = Append(log, [log[k] EXCEPT !.id = <<log[k].run, log[k].seq, "second">>])
      BY <1>1, <1>3, <1>4, <2>2
    <2>. QED
      BY <2>1, <2>2 DEF Repeat
  <1>6. PICK e : e = [d EXCEPT !.id = x]
    OBVIOUS
  <1>7. /\ e.run = d.run /\ e.seq = d.seq /\ e.type = d.type /\ e.id = x
        /\ DOMAIN e = DOMAIN d /\ \A f \in DOMAIN d : f # "id" => e[f] = d[f]
        /\ e = [f \in DOMAIN e |-> e[f]]
    BY <1>2, <1>6 DEF IsMessage
  <1>8. IsMessage(e)
    <2>1. IsEvent(e, EventIds, Int, Words)
      <3>1. \A f \in Fields(d.type) : e[f] = d[f]
        BY <1>2, <1>7 DEF IsMessage, Fields
      <3>2. /\ d.type = "RunStarted" => e.maxSteps = d.maxSteps
            /\ d.type = "LLMResponded" => e.step = d.step /\ e.stop = d.stop /\ e.order = d.order
            /\ d.type \in {"ToolInvoked", "ToolResulted"} => e.tool = d.tool
            /\ d.type = "ToolResulted" => e.status = d.status
        BY <3>1 DEF Fields
      <3>3. d.type = "ToolInvoked" => e.side \in BOOLEAN
        <4>1. d.type = "ToolInvoked" => e.side = d.side
          BY <3>1, Zenon DEF Fields
        <4>. QED
          BY <1>2, <4>1, Zenon DEF IsMessage, IsEvent
      <3>4. e.id \in EventIds
        BY <1>5, <1>7
      <3>. QED
        BY <1>2, <1>7, <3>2, <3>3, <3>4 DEF IsMessage, IsEvent
    <2>. QED
      BY <1>2, <1>7, <2>1 DEF IsMessage
  <1>9. /\ Ids(log') = Ids(log) \cup {e} /\ Len(log) \in Nat /\ log' \in Seq(Ids(log'))
        /\ DOMAIN log' = DOMAIN log \cup {Len(log) + 1} /\ DOMAIN log = 1..Len(log)
        /\ \A j \in DOMAIN log : log'[j] = log[j]
        /\ log'[Len(log) + 1] = e
    <2>1. log' = Append(log, e)
      BY <1>5, <1>6
    <2>. QED
      BY <2>1, AppendIds DEF LogInv, LogType
  <1>10. produced' = produced /\ \A r : NextOf(r)' = NextOf(r)
    BY DEF Repeat, NextOf
  <1>11. \A a, b \in Ids(log') : Twins(a, b)
    <2>1. ASSUME NEW a \in Ids(log) PROVE Twins(a, e)
      <3>1. Twins(a, d) /\ IsMessage(a)
        BY <1>2 DEF LogInv, LogType
      <3>. QED
        BY <1>2, <1>6, <1>7, <3>1 DEF Twins, IsMessage
    <2>2. ASSUME NEW b \in Ids(log) PROVE Twins(e, b)
      BY <1>8, <2>1, <2>2, TwinsSymmetric DEF LogInv, LogType
    <2>3. Twins(e, e)
      BY <1>8 DEF Twins, IsMessage
    <2>. QED
      BY <1>9, <2>1, <2>2, <2>3 DEF LogInv
  <1>12. LogType'
    BY <1>8, <1>9, <1>10 DEF LogInv, LogType
  <1>13. \A y \in Ids(log') : y.seq < NextOf(y.run)'
    BY <1>2, <1>7, <1>9, <1>10 DEF LogInv
  <1>14. \A y \in Ids(log') : y.type \in TerminalEvents =>
            IsTerminal(produced[y.run].state)' /\ y.seq + 1 = NextOf(y.run)'
    <2>1. \A y \in Ids(log) : y.type \in TerminalEvents =>
            IsTerminal(produced[y.run].state) /\ y.seq + 1 = NextOf(y.run)
      BY DEF LogInv
    <2>2. \A r : IsTerminal(produced[r].state)' <=> IsTerminal(produced[r].state)
      BY <1>10 DEF IsTerminal
    <2>. QED
      BY <1>2, <1>7, <1>9, <1>10, <2>1, <2>2
  <1>15. \A r \in Runs, m \in Nat : m < NextOf(r)' =>
            \E j \in DOMAIN log' : log'[j].run = r /\ log'[j].seq = m
    BY <1>9, <1>10 DEF LogInv
  <1>16. \A l \in DOMAIN log', m \in Nat : m < log'[l].seq =>
            \E j \in DOMAIN log' : j < l /\ log'[j].run = log'[l].run /\ log'[j].seq = m
    <2>1. SUFFICES ASSUME NEW l \in DOMAIN log', NEW m \in Nat, m < log'[l].seq
                   PROVE  \E j \in DOMAIN log' :
                            j < l /\ log'[j].run = log'[l].run /\ log'[j].seq = m
      OBVIOUS
    <2>2. CASE l \in DOMAIN log
      BY <1>9, <2>1, <2>2 DEF LogInv
    <2>3. CASE l = Len(log) + 1
      <3>1. PICK j \in DOMAIN log : j < k /\ log[j].run = d.run /\ log[j].seq = m
        BY <1>1, <1>7, <1>9, <2>1, <2>3 DEF LogInv
      <3>2. j < l
        BY <1>9, <2>3
      <3>. QED
        BY <1>7, <1>9, <2>3, <3>1, <3>2
    <2>. QED
      BY <1>9, <2>2, <2>3
  <1>. QED
    BY <1>5, <1>11, <1>12, <1>13, <1>14, <1>15, <1>16 DEF LogInv

-----------------------------------------------------------------------------
(* A longer partition changes nothing for the group.                         *)
LEMMA LongerLog ==
    ASSUME ProjectorInv, NEW e, log' = Append(log, e), LogInv',
           UNCHANGED <<offset, tables, groupVars>>
    PROVE  ProjectorInv'
  <1>1. PICK n : Prefix(n)
    BY DEF ProjectorInv
  <1>2. /\ Len(log') = Len(log) + 1 /\ Len(log) \in Nat /\ DOMAIN log = 1..Len(log)
        /\ \A i \in DOMAIN log : log'[i] = log[i]
    BY AppendIds DEF ProjectorInv, LogInv, LogType
  <1>3. /\ offset' = offset /\ rows' = rows /\ runs' = runs
        /\ pc' = pc /\ pos' = pos /\ owner' = owner /\ faults' = faults
    BY DEF tables, groupVars
  <1>4. GroupType'
    BY <1>2, <1>3 DEF ProjectorInv, GroupType
  <1>5. RunsInv'
    BY <1>3 DEF ProjectorInv, RunsInv
  <1>6. Prefix(n)'
    <2>1. \A i \in 1..n : log'[i] = log[i]
      BY <1>1, <1>2 DEF Prefix
    <2>2. rows' = {log'[i] : i \in 1..n}
      BY <1>1, <1>3, <2>1 DEF Prefix
    <2>. QED
      BY <1>1, <1>2, <1>3, <2>2 DEF Prefix, ProjectorInv, GroupType
  <1>. QED
    BY <1>4, <1>5, <1>6 DEF ProjectorInv

(* One projector moves, the tables hold the first m messages after it.       *)
LEMMA MoveKeeps ==
    ASSUME ProjectorInv, NEW n, Prefix(n), NEW m \in Nat, n <= m, m <= Len(log),
           NEW p \in Projectors, NEW to \in {"down", "fetch", "apply", "commit"},
           NEW i \in Nat \ {0}, i <= Len(log) + 1,
           to \in {"fetch", "apply"} => i <= m + 1,
           to = "apply" => i <= Len(log),
           to = "commit" => i <= m,
           Goes(p, to, i), log' = log, produced' = produced,
           offset' \in Nat, offset' <= m, rows' = {log[j] : j \in 1..m},
           owner' \in Projectors, faults' \in 0..MaxFaults
    PROVE  GroupType' /\ LogInv' /\ Prefix(m)'
  <1>1. /\ pc' = [pc EXCEPT ![p] = to] /\ pos' = [pos EXCEPT ![p] = i]
        /\ GroupType /\ LogInv /\ Len(log) \in Nat
    BY DEF Goes, ProjectorInv, LogInv, LogType
  <1>2. LogInv'
    BY <1>1 DEF LogInv, LogType, NextOf, Twins
  <1>3. GroupType'
    BY <1>1 DEF GroupType
  <1>4. \A q \in Projectors :
          /\ q # p => pc'[q] = pc[q] /\ pos'[q] = pos[q]
          /\ pc'[p] = to /\ pos'[p] = i
    BY <1>1 DEF GroupType
  <1>5. \A q \in Projectors : pos[q] \in Nat
    BY <1>1 DEF GroupType
  <1>6. Prefix(m)'
    <2>1. \A q \in Projectors :
            /\ pc'[q] \in {"fetch", "apply"} => pos'[q] <= m + 1
            /\ pc'[q] = "apply" => pos'[q] <= Len(log)
            /\ pc'[q] = "commit" => pos'[q] <= m
      <3>1. SUFFICES ASSUME NEW q \in Projectors, q # p
                     PROVE  /\ pc[q] \in {"fetch", "apply"} => pos[q] <= m + 1
                            /\ pc[q] = "apply" => pos[q] <= Len(log)
                            /\ pc[q] = "commit" => pos[q] <= m
        BY <1>4
      <3>2. n \in Nat /\ pos[q] \in Nat
        BY <1>5 DEF Prefix
      <3>. QED
        BY <3>1, <3>2 DEF Prefix
    <2>. QED
      BY <2>1 DEF Prefix
  <1>. QED
    BY <1>2, <1>3, <1>6

(* The message a projector works on, if it is not in the table, is the one   *)
(* behind the prefix; and it is in the table as soon as something with its   *)
(* run, sequence number and id is.                                           *)
LEMMA AtThePrefix ==
    ASSUME ProjectorInv, NEW n, Prefix(n), NEW p \in Projectors, pc[p] = "apply",
           NEW e, e = log[pos[p]]
    PROVE  /\ pos[p] \in DOMAIN log /\ e \in Ids(log) /\ IsMessage(e) /\ e.run \in Runs
           /\ e \notin rows => pos[p] = n + 1
           /\ Occupants(e) = {} => e \notin rows
           /\ IsRedelivery(e) => e \in rows
  <1>1. GroupType /\ LogInv /\ Len(log) \in Nat /\ DOMAIN log = 1..Len(log)
    BY DEF ProjectorInv, LogInv, LogType
  <1>2. pos[p] \in Nat /\ pos[p] # 0 /\ pos[p] <= n + 1 /\ pos[p] <= Len(log) /\ n \in Nat
    BY <1>1 DEF GroupType, Prefix
  <1>3. pos[p] \in DOMAIN log /\ e \in Ids(log)
    BY <1>1, <1>2 DEF Ids
  <1>4. IsMessage(e) /\ e.run \in Runs
    BY <1>1, <1>3 DEF LogInv, LogType, IsMessage
  <1>5. pos[p] \in 1..n => e \in rows
    BY DEF Prefix
  <1>6. Occupants(e) = {} => e \notin rows
    BY DEF Occupants
  <1>7. ASSUME IsRedelivery(e) PROVE e \in rows
    <2>1. PICK x \in rows : x.run = e.run /\ x.seq = e.seq /\ x.id = e.id
      BY <1>7 DEF IsRedelivery, Occupants
    <2>2. PICK j \in 1..n : x = log[j]
      BY <2>1 DEF Prefix
    <2>3. x \in Ids(log)
      BY <1>1, <1>2, <2>2 DEF Ids, Prefix
    <2>4. e = [x EXCEPT !.id = e.id] /\ IsMessage(x)
      BY <1>1, <1>3, <2>1, <2>3 DEF LogInv, LogType, Twins
    <2>5. e = x
      BY <2>1, <2>4 DEF IsMessage
    <2>. QED
      BY <2>1, <2>5
  <1>. QED
    BY <1>2, <1>3, <1>4, <1>5, <1>6, <1>7

(* ApplyEvent's transaction extends the prefix by one, and leaves the row of *)
(* a run whose terminal event is in the table alone.                         *)
LEMMA InsertExtends ==
    ASSUME ProjectorInv, NEW n, Prefix(n), NEW p \in Projectors, pc[p] = "apply",
           NEW e, e = log[pos[p]], Insert(e)
    PROVE  /\ pos[p] = n + 1 /\ n + 1 <= Len(log) /\ n \in Nat
           /\ rows' = {log[i] : i \in 1..(n + 1)}
           /\ RunsInv'
           /\ \A r \in Runs : runs[r].status \in TerminalStatuses => runs'[r] = runs[r]
  <1>1. /\ pos[p] \in DOMAIN log /\ e \in Ids(log) /\ IsMessage(e) /\ e.run \in Runs
        /\ pos[p] = n + 1
    BY AtThePrefix DEF Insert
  <1>2. /\ LogInv /\ RunsInv /\ n \in Nat /\ Len(log) \in Nat /\ DOMAIN log = 1..Len(log)
        /\ rows = {log[i] : i \in 1..n}
    <2>1. LogInv /\ RunsInv
      BY DEF ProjectorInv
    <2>2. Len(log) \in Nat /\ DOMAIN log = 1..Len(log)
      BY <2>1 DEF LogInv, LogType
    <2>. QED
      BY <2>1, <2>2 DEF Prefix
  <1>3. rows' = rows \cup {e} /\ Occupants(e) = {} /\ UpsertRun(e)
    BY DEF Insert
  <1>4. rows' = {log[i] : i \in 1..(n + 1)}
    <2>1. 1..(n + 1) = (1..n) \cup {n + 1}
      BY <1>2
    <2>. QED
      BY <1>1, <1>2, <1>3, <2>1
  <1>5. PICK new : runs' = [runs EXCEPT ![e.run] = new] /\ new.status = StatusForEvent(e)
    <2>1. PICK new : new = [status |-> StatusForEvent(e),
                            step |-> IF HasStep(e) THEN e.step ELSE runs[e.run].step,
                            last |-> e.id]
      OBVIOUS
    <2>2. runs' = [runs EXCEPT ![e.run] = new]
      BY <1>3, <2>1 DEF UpsertRun
    <2>3. new.status = StatusForEvent(e)
      BY <2>1
    <2>. QED
      BY <2>2, <2>3
  <1>6. /\ runs'[e.run] = new /\ runs' = [r \in Runs |-> runs'[r]]
        /\ \A r \in Runs : r # e.run => runs'[r] = runs[r]
    BY <1>1, <1>2, <1>5 DEF RunsInv
  <1>7. StatusForEvent(e) \in TerminalStatuses => e.type \in TerminalEvents
    BY DEF StatusForEvent, TerminalStatuses, TerminalEvents
  <1>8. RunsInv'
    <2>1. ASSUME NEW r \in Runs, runs'[r].status \in TerminalStatuses
          PROVE  \E x \in rows' : x.run = r /\ x.type \in TerminalEvents
      <3>1. CASE r = e.run
        BY <1>3, <1>5, <1>6, <1>7, <2>1, <3>1
      <3>2. CASE r # e.run
        BY <1>2, <1>3, <1>6, <2>1, <3>2 DEF RunsInv
      <3>. QED
        BY <3>1, <3>2
    <2>. QED
      BY <1>6, <2>1 DEF RunsInv
  <1>9. runs[e.run].status \notin TerminalStatuses
    <2>1. SUFFICES ASSUME runs[e.run].status \in TerminalStatuses PROVE FALSE
      OBVIOUS
    <2>2. PICK x \in rows : x.run = e.run /\ x.type \in TerminalEvents
      BY <1>1, <1>2, <2>1 DEF RunsInv
    <2>3. PICK k \in 1..n : x = log[k]
      BY <1>2, <2>2
    <2>4. k \in DOMAIN log /\ x \in Ids(log)
      BY <1>1, <1>2, <2>3 DEF Ids
    <2>5. e.seq \in Nat /\ x.seq \in Nat /\ IsMessage(x)
      BY <1>1, <1>2, <2>4 DEF LogInv, LogType, IsMessage, IsEvent
    <2>6. e.seq <= x.seq
      <3>1. x.seq + 1 = NextOf(e.run) /\ e.seq < NextOf(e.run)
        BY <1>1, <1>2, <2>2, <2>4 DEF LogInv
      <3>2. NextOf(e.run) \in Nat
        BY <2>5, <3>1
      <3>. QED
        BY <2>5, <3>1, <3>2
    <2>7. e.seq # x.seq
      BY <1>3, <2>2 DEF Occupants
    <2>8. PICK j \in DOMAIN log : j < k /\ log[j].run = x.run /\ log[j].seq = e.seq
      <3>1. PICK m \in Nat : m = e.seq
        BY <2>5
      <3>2. m < log[k].seq
        BY <2>3, <2>5, <2>6, <2>7, <3>1
      <3>3. \E j \in DOMAIN log : j < k /\ log[j].run = log[k].run /\ log[j].seq = m
        BY <1>2, <2>4, <3>2 DEF LogInv
      <3>. QED
        BY <2>3, <3>1, <3>3
    <2>9. log[j] \in rows
      BY <1>2, <2>3, <2>8
    <2>. QED
      BY <1>3, <2>2, <2>8, <2>9 DEF Occupants
  <1>. QED
    BY <1>1, <1>2, <1>4, <1>6, <1>8, <1>9

-----------------------------------------------------------------------------
(* What a step of the group keeps, and what it does to terminal rows.        *)
Final == \A r \in Runs : runs[r].status \in TerminalStatuses => runs'[r] = runs[r]

(* Steps that leave the tables alone.                                        *)
LEMMA SameTables ==
    ASSUME ProjectorInv, NEW n, Prefix(n), UNCHANGED tables
    PROVE  rows' = {log[j] : j \in 1..n} /\ RunsInv' /\ Final
  BY DEF tables, Prefix, ProjectorInv, RunsInv, Final

LEMMA GroupStep ==
    ASSUME ProjectorInv, NEW p \in Projectors,
           Restart(p) \/ Rebalance(p) \/ Step(p) \/ Crash(p)
    PROVE  ProjectorInv' /\ Final
  <1>1. PICK n : Prefix(n)
    BY DEF ProjectorInv
  <1>2. /\ GroupType /\ LogInv /\ RunsInv /\ n \in Nat /\ n <= Len(log) /\ offset <= n
        /\ Len(log) \in Nat /\ offset \in Nat
        /\ pc[p] \in {"down", "fetch", "apply", "commit"}
        /\ pos[p] \in Nat \ {0} /\ pos[p] <= Len(log) + 1
    <2>1. GroupType /\ LogInv /\ RunsInv
      BY DEF ProjectorInv
    <2>2. Len(log) \in Nat
      BY <2>1 DEF LogInv, LogType
    <2>. QED
      BY <1>1, <2>1, <2>2 DEF Prefix, GroupType
  <1>3. /\ pc[p] \in {"fetch", "apply"} => pos[p] <= n + 1
        /\ pc[p] = "apply" => pos[p] <= Len(log)
        /\ pc[p] = "commit" => pos[p] <= n
    BY <1>1 DEF Prefix
  <1>4. owner \in Projectors /\ faults \in 0..MaxFaults
    BY <1>2 DEF GroupType
  <1>5. ASSUME Fault PROVE faults' \in 0..MaxFaults
    BY <1>4, <1>5, ProjectorAssumption DEF Fault
  <1>6. ASSUME NEW m, GroupType', LogInv', Prefix(m)', RunsInv'
        PROVE  ProjectorInv'
    BY <1>6 DEF ProjectorInv
  <1>7. CASE Restart(p) \/ Rebalance(p)
    <2>1. /\ Goes(p, "fetch", offset + 1) /\ owner' = p /\ log' = log /\ produced' = produced
          /\ offset' = offset /\ UNCHANGED tables /\ faults' \in 0..MaxFaults
      BY <1>4, <1>5, <1>7 DEF Restart, Rebalance, Owns, kafkaVars
    <2>2. rows' = {log[j] : j \in 1..n} /\ RunsInv' /\ Final
      BY <1>1, <2>1, SameTables
    <2>3. offset + 1 \in Nat \ {0} /\ offset + 1 <= n + 1 /\ offset + 1 <= Len(log) + 1 /\ n <= n
      BY <1>2
    <2>4. GroupType' /\ LogInv' /\ Prefix(n)'
      BY <1>1, <1>2, <2>1, <2>2, <2>3, MoveKeeps
    <2>. QED
      BY <1>6, <2>2, <2>4
  <1>8. CASE FetchMessage(p)
    <2>1. /\ Goes(p, "apply", pos[p]) /\ pc[p] = "fetch" /\ pos[p] <= Len(log)
          /\ log' = log /\ produced' = produced
          /\ offset' = offset /\ UNCHANGED tables /\ owner' = owner /\ faults' = faults
      BY <1>8 DEF FetchMessage, kafkaVars
    <2>2. rows' = {log[j] : j \in 1..n} /\ RunsInv' /\ Final
      BY <1>1, <2>1, SameTables
    <2>3. GroupType' /\ LogInv' /\ Prefix(n)'
      BY <1>1, <1>2, <1>3, <1>4, <2>1, <2>2, MoveKeeps
    <2>. QED
      BY <1>6, <2>2, <2>3
  <1>9. CASE Poison(p) \/ Crash(p)
    <2>1. /\ Goes(p, "down", pos[p]) /\ log' = log /\ produced' = produced
          /\ offset' = offset /\ UNCHANGED tables /\ owner' = owner
          /\ faults' \in 0..MaxFaults
      BY <1>4, <1>5, <1>9 DEF Poison, Crash, kafkaVars
    <2>2. rows' = {log[j] : j \in 1..n} /\ RunsInv' /\ Final
      BY <1>1, <2>1, SameTables
    <2>3. GroupType' /\ LogInv' /\ Prefix(n)'
      BY <1>1, <1>2, <1>4, <2>1, <2>2, MoveKeeps
    <2>. QED
      BY <1>6, <2>2, <2>3
  <1>10. CASE CommitMessages(p)
    <2>1. /\ pc[p] = "commit" /\ log' = log /\ produced' = produced
          /\ UNCHANGED tables /\ owner' = owner /\ faults' \in 0..MaxFaults
          /\ \/ offset' = pos[p] /\ Goes(p, "fetch", pos[p] + 1)
             \/ offset' = offset /\ Goes(p, "down", pos[p])
      BY <1>4, <1>5, <1>10 DEF CommitMessages
    <2>2. rows' = {log[j] : j \in 1..n} /\ RunsInv' /\ Final
      BY <1>1, <2>1, SameTables
    <2>3. CASE offset' = pos[p] /\ Goes(p, "fetch", pos[p] + 1)
      <3>1. /\ pos[p] + 1 \in Nat \ {0} /\ pos[p] + 1 <= n + 1 /\ pos[p] + 1 <= Len(log) + 1
            /\ offset' \in Nat /\ offset' <= n
        BY <1>2, <1>3, <2>1, <2>3
      <3>2. GroupType' /\ LogInv' /\ Prefix(n)'
        BY <1>1, <1>2, <1>4, <2>1, <2>2, <2>3, <3>1, MoveKeeps
      <3>. QED
        BY <1>6, <2>2, <3>2
    <2>4. CASE offset' = offset /\ Goes(p, "down", pos[p])
      <3>1. GroupType' /\ LogInv' /\ Prefix(n)'
        BY <1>1, <1>2, <1>4, <2>1, <2>2, <2>4, MoveKeeps
      <3>. QED
        BY <1>6, <2>2, <3>1
    <2>. QED
      BY <2>1, <2>3, <2>4
  <1>11. CASE ApplyEvent(p) \/ ApplyAmbiguous(p)
    <2>1. PICK e : e = log[pos[p]]
      OBVIOUS
    <2>2. /\ pc[p] = "apply" /\ log' = log /\ produced' = produced /\ offset' = offset
          /\ owner' = owner /\ faults' = faults
      BY <1>11 DEF ApplyEvent, ApplyAmbiguous, kafkaVars, groupVars
    <2>3. \/ Insert(e) /\ \E to \in {"apply", "commit"} : Goes(p, to, pos[p])
          \/ IsRedelivery(e) /\ UNCHANGED tables /\ Goes(p, "commit", pos[p])
      <3>1. CASE ApplyEvent(p)
        BY <2>1, <3>1 DEF ApplyEvent
      <3>2. CASE ApplyAmbiguous(p)
        <4>1. pc' = pc /\ pos' = pos /\ pc[p] = "apply" /\ Insert(e)
          BY <2>1, <3>2 DEF ApplyAmbiguous, groupVars
        <4>2. Goes(p, "apply", pos[p])
          BY <1>2, <4>1 DEF Goes, GroupType
        <4>. QED
          BY <4>1, <4>2
      <3>. QED
        BY <1>11, <3>1, <3>2
    <2>4. ASSUME NEW to \in {"apply", "commit"}, Insert(e), Goes(p, to, pos[p])
          PROVE  ProjectorInv' /\ Final
      <3>1. /\ pos[p] = n + 1 /\ n + 1 <= Len(log)
            /\ rows' = {log[i] : i \in 1..(n + 1)} /\ RunsInv' /\ Final
        BY <1>1, <2>1, <2>2, <2>4, InsertExtends DEF Final
      <3>2. n + 1 \in Nat /\ n <= n + 1 /\ pos[p] <= n + 1 /\ pos[p] <= (n + 1) + 1
            /\ offset' \in Nat /\ offset' <= n + 1
        BY <1>2, <2>2, <3>1
      <3>3. GroupType' /\ LogInv' /\ Prefix(n + 1)'
        BY <1>1, <1>2, <1>4, <2>2, <2>4, <3>1, <3>2, MoveKeeps
      <3>. QED
        BY <1>6, <3>1, <3>3
    <2>5. ASSUME IsRedelivery(e), UNCHANGED tables, Goes(p, "commit", pos[p])
          PROVE  ProjectorInv' /\ Final
      <3>1. rows' = {log[j] : j \in 1..n} /\ RunsInv' /\ Final /\ rows' = rows
        BY <1>1, <2>5, SameTables DEF tables
      <3>2. e \in rows
        BY <1>1, <2>1, <2>2, <2>5, AtThePrefix
      <3>3. CASE pos[p] <= n
        <4>1. GroupType' /\ LogInv' /\ Prefix(n)'
          BY <1>1, <1>2, <1>4, <2>2, <2>5, <3>1, <3>3, MoveKeeps
        <4>. QED
          BY <1>6, <3>1, <4>1
      <3>4. CASE ~(pos[p] <= n)
        <4>1. pos[p] = n + 1 /\ n + 1 <= Len(log) /\ n + 1 \in Nat /\ n <= n + 1
              /\ offset' \in Nat /\ offset' <= n + 1
          BY <1>2, <1>3, <2>2, <3>4
        <4>2. 1..(n + 1) = (1..n) \cup {n + 1}
          BY <1>2
        <4>3. rows' = {log[j] : j \in 1..(n + 1)}
          BY <2>1, <3>1, <3>2, <4>1, <4>2
        <4>4. GroupType' /\ LogInv' /\ Prefix(n + 1)'
          BY <1>1, <1>2, <1>4, <2>2, <2>5, <4>1, <4>3, MoveKeeps
        <4>. QED
          BY <1>6, <3>1, <4>4
      <3>. QED
        BY <3>3, <3>4
    <2>. QED
      BY <2>3, <2>4, <2>5
  <1>. QED
    BY <1>7, <1>8, <1>9, <1>10, <1>11 DEF Step

LEMMA NextKeeps ==
    ASSUME ProjectorInv, [Next]_vars
    PROVE  ProjectorInv' /\ Final
  <1>1. CASE UNCHANGED vars
    <2>1. /\ log' = log /\ produced' = produced /\ offset' = offset /\ rows' = rows
          /\ runs' = runs /\ pc' = pc /\ pos' = pos /\ owner' = owner /\ faults' = faults
      BY <1>1 DEF vars, kafkaVars, tables, groupVars
    <2>2. LogInv'
      BY <2>1 DEF ProjectorInv, LogInv, LogType, NextOf, Twins
    <2>3. GroupType' /\ RunsInv'
      BY <2>1 DEF ProjectorInv, GroupType, RunsInv
    <2>4. \E n : Prefix(n)'
      BY <2>1 DEF ProjectorInv, Prefix
    <2>. QED
      BY <2>1, <2>2, <2>3, <2>4 DEF ProjectorInv, Final
  <1>2. ASSUME NEW r \in Runs, Produce(r)
        PROVE  ProjectorInv' /\ Final
    <2>1. LogInv' /\ \E e : log' = Append(log, e)
      BY <1>2, ProduceLog, ProduceMeans DEF ProjectorInv, LogInv
    <2>2. UNCHANGED <<offset, tables, groupVars>>
      BY <1>2 DEF Produce
    <2>. QED
      BY <2>1, <2>2, LongerLog DEF Final, tables
  <1>3. ASSUME NEW k \in DOMAIN log, Repeat(k)
        PROVE  ProjectorInv' /\ Final
    <2>1. LogInv' /\ \E e : log' = Append(log, e)
      BY <1>3, RepeatLog DEF ProjectorInv
    <2>2. UNCHANGED <<offset, tables, groupVars>>
      BY <1>3 DEF Repeat
    <2>. QED
      BY <2>1, <2>2, LongerLog DEF Final, tables
  <1>. QED
    BY <1>1, <1>2, <1>3, GroupStep DEF Next

(* The invariant behind the three theorems: the partition is dense and final *)
(* after a terminal event, and the tables hold a prefix of it that no        *)
(* projector is more than one message ahead of.                              *)
THEOREM ProjectorInvariant == Spec => []ProjectorInv
  <1>1. Init => ProjectorInv
    <2>1. SUFFICES ASSUME Init PROVE ProjectorInv
      OBVIOUS
    <2>2. log \in Seq(Ids(log)) /\ Ids(log) = {} /\ Len(log) = 0 /\ DOMAIN log = {}
      BY <2>1 DEF Init, Ids
    <2>3. EmptyState \in RunStates /\ NextSequence(EmptyState) = 0
      BY DEF EmptyState, RunStates, StateType, Statuses, NextSequence
    <2>4. /\ produced = [r \in Runs |-> produced[r]]
          /\ \A r \in Runs : produced[r].state = EmptyState
      BY <2>1 DEF Init, NotFound
    <2>5. \A r \in Runs : NextOf(r) = 0
      BY <2>3, <2>4 DEF NextOf
    <2>6. LogInv
      BY <2>2, <2>3, <2>4, <2>5 DEF LogInv, LogType
    <2>7. owner \in Projectors
      BY <2>1, ProjectorAssumption DEF Init
    <2>8. GroupType
      BY <2>1, <2>2, <2>7, ProjectorAssumption DEF Init, GroupType
    <2>9. RunsInv
      <3>1. \A r \in Runs : runs[r] = NoRow
        BY <2>1 DEF Init
      <3>2. NoRow.status \notin TerminalStatuses
        BY DEF NoRow, TerminalStatuses
      <3>. QED
        BY <2>1, <3>1, <3>2 DEF Init, RunsInv
    <2>10. Prefix(0)
      <3>1. 1..0 = {}
        OBVIOUS
      <3>. QED
        BY <2>1, <2>2, <3>1 DEF Init, Prefix
    <2>. QED
      BY <2>6, <2>8, <2>9, <2>10 DEF ProjectorInv
  <1>2. ProjectorInv /\ [Next]_vars => ProjectorInv'
    BY NextKeeps
  <1>. QED
    BY <1>1, <1>2, PTL DEF Spec

(* Type correctness of the projector and its tables.                         *)
THEOREM ProjectorTypes == Spec => []TypeOK
  <1>1. ProjectorInv => TypeOK
    <2>1. SUFFICES ASSUME ProjectorInv PROVE TypeOK
      OBVIOUS
    <2>2. PICK n : Prefix(n)
      BY <2>1 DEF ProjectorInv
    <2>3. GroupType /\ Len(log) \in Nat /\ DOMAIN log = 1..Len(log)
      BY <2>1 DEF ProjectorInv, LogInv, LogType
    <2>4. offset \in 0..Len(log)
      BY <2>2, <2>3 DEF Prefix, GroupType
    <2>5. rows \subseteq Ids(log)
      BY <2>2, <2>3 DEF Prefix, Ids
    <2>6. pos \in [Projectors -> 1..(Len(log) + 1)]
      BY <2>3 DEF GroupType
    <2>. QED
      BY <2>3, <2>4, <2>5, <2>6 DEF GroupType, TypeOK
  <1>. QED
    BY <1>1, ProjectorInvariant, PTL

(* The events table is a prefix of the partition that contains every         *)
(* committed message: consumeLoop skips nothing and commits nothing early,   *)
(* over any crashes, rebalances, lost commits and repeated messages.         *)
THEOREM RowsFollow == Spec => []RowsFollowLog
  <1>1. ProjectorInv => RowsFollowLog
    <2>1. SUFFICES ASSUME ProjectorInv PROVE RowsFollowLog
      OBVIOUS
    <2>2. PICK n : Prefix(n)
      BY <2>1 DEF ProjectorInv
    <2>3. offset \in Nat /\ Len(log) \in Nat
      BY <2>1 DEF ProjectorInv, GroupType, LogInv, LogType
    <2>4. n \in offset..Len(log) /\ rows = {log[i] : i \in 1..n}
      BY <2>2, <2>3 DEF Prefix
    <2>. QED
      BY <2>4 DEF RowsFollowLog
  <1>. QED
    BY <1>1, ProjectorInvariant, PTL

(* upsertRun has no condition on the row it overwrites; a row that shows a   *)
(* terminal status is left alone all the same, because the event that would  *)
(* overwrite it finds its sequence number taken.                             *)
THEOREM TerminalRowHolds == Spec => TerminalRowIsFinal
  <1>1. ProjectorInv /\ [Next]_vars =>
          \A r \in Runs : runs[r].status \in TerminalStatuses => runs'[r] = runs[r]
    BY NextKeeps DEF Final
  <1>. QED
    BY <1>1, ProjectorInvariant, PTL DEF Spec, TerminalRowIsFinal

-----------------------------------------------------------------------------
(* The runs table and the replay of the rows.                                *)

(* The id of the event a run's own worker published at k.                    *)
First(r, k) == <<r, k, "first">>

(* A worker in state s published e and went on in t.                         *)
Takes(s, e, t) ==
    /\ Verdict(s, e) = "ok" /\ t = Applied(s, e) /\ Publishable(s, e.type)
    /\ HasStep(e) /\ e.type # "LLMResponded" => e.step = s.step

(* h[k] is the state in which the worker of r published its event k.         *)
History(r, h) ==
    /\ h[0] = EmptyState /\ h[NextOf(r)] = produced[r].state
    /\ \A k \in 0..NextOf(r) :
         h[k] \in RunStates /\ NextSequence(h[k]) = k /\ (h[k].status = "NONE" <=> k = 0)
    /\ \A e \in Ids(log) :
         e.run = r /\ e.id = First(r, e.seq) => Takes(h[e.seq], e, h[e.seq + 1])

Mine(r) == {x \in rows : x.run = r}

(* The rows of r and its row in runs tell the state h[m].                    *)
Shows(r, h, m) ==
    /\ Numbered(Mine(r), m)
    /\ Fold(Ordered(Mine(r))) = IF m = 0 THEN NotFound ELSE [err |-> "ok", state |-> h[m]]
    /\ m = 0 => runs[r] = NoRow
    /\ runs[r].status = h[m].status /\ runs[r].step = h[m].step

(* A message of a second worker lies behind the one it collides with.        *)
FirstsFirst ==
    \A i \in DOMAIN log : \E j \in DOMAIN log :
        /\ j <= i /\ log[j].run = log[i].run /\ log[j].seq = log[i].seq
        /\ log[j].id = First(log[i].run, log[i].seq)

MatchInv ==
    /\ FirstsFirst
    /\ \A r \in Runs : \E h : History(r, h) /\ \E m \in 0..NextOf(r) : Shows(r, h, m)

(* The step and the status after an event, as upsertRun has them.            *)
LEMMA TakesRow ==
    ASSUME NEW s \in RunStates, NEW e, IsMessage(e), NEW t, Takes(s, e, t),
           s.status = "NONE" <=> s.seen = <<>>
    PROVE  /\ t \in RunStates /\ NextSequence(t) = NextSequence(s) + 1 /\ t.status # "NONE"
           /\ t.status = StatusForEvent(e)
           /\ HasStep(e) => t.step = e.step
           /\ ~HasStep(e) => t.step = IF e.type = "RunStarted" THEN 0 ELSE s.step
           /\ e.type = "RunStarted" <=> s.status = "NONE"
  <1>1. /\ s \in StateType(EventIds, Int, Words) /\ IsEvent(e, EventIds, Int, Words)
        /\ Verdict(s, e) = "ok" /\ t = Applied(s, e) /\ Publishable(s, e.type)
        /\ (HasStep(e) /\ e.type # "LLMResponded" => e.step = s.step)
    BY DEF RunStates, IsMessage, Takes
  <1>2. /\ t \in RunStates /\ NextSequence(t) = NextSequence(s) + 1
        /\ t.status = StatusAfter(s, e)
    BY <1>1, AppliedFields DEF RunStates
  <1>3. PICK u : u = ApplyPayload(s, e)
    OBVIOUS
  <1>4. u \in StateType(EventIds, Int, Words)
    BY <1>1, <1>3, ApplyPayloadType
  <1>5. t.step = u.step
    <2>1. t = [u EXCEPT !.seen = Append(u.seen, e.id)]
      BY <1>1, <1>3 DEF Applied
    <2>2. PICK q : q = Append(u.seen, e.id)
      OBVIOUS
    <2>3. t = [u EXCEPT !.seen = q]
      BY <2>1, <2>2
    <2>. QED
      BY <1>4, <2>3 DEF StateType
  <1>6. /\ e.type \notin {"RunStarted", "LLMResponded"} => t.step = s.step
        /\ e.type = "LLMResponded" => t.step = e.step
    BY <1>1, <1>3, <1>5, PayloadFields
  <1>7. e.type = "RunStarted" => t.step = 0
    <2>1. ASSUME e.type = "RunStarted" PROVE u.step = 0
      <3>1. PICK x : x = e.maxSteps
        OBVIOUS
      <3>2. u = [s EXCEPT !.status = "RUNNING", !.step = 0, !.maxSteps = x]
        BY <1>3, <2>1, <3>1, PayloadCases
      <3>. QED
        BY <1>1, <3>2 DEF StateType
    <2>. QED
      BY <1>5, <2>1
  <1>8. (e.type = "RunStarted" <=> s.status = "NONE")
        /\ (s.status = "AWAITING_APPROVAL" => e.type \in {"RunApproved", "RunCancelled"})
    BY <1>1 DEF Publishable
  <1>9. s.seen # <<>> => ~IsTerminal(s)
    BY <1>1, Accepted
  <1>10. s.status \in Statuses /\ e.type \in EventTypes
    BY <1>1 DEF StateType, IsEvent
  <1>11. e.type \in {"LLMResponded", "ToolInvoked", "ToolResulted"} => s.status = "RUNNING"
    <2>1. SUFFICES ASSUME e.type \in {"LLMResponded", "ToolInvoked", "ToolResulted"}
                   PROVE  s.status = "RUNNING"
      OBVIOUS
    <2>2. s.status # "NONE" /\ s.status # "AWAITING_APPROVAL"
      BY <1>8, <2>1
    <2>3. s.status \notin TerminalStatuses
      BY <1>9, <2>2 DEF IsTerminal
    <2>. QED
      BY <1>10, <2>2, <2>3 DEF Statuses
  <1>12. t.status = StatusForEvent(e) /\ t.status # "NONE"
    BY <1>2, <1>10, <1>11 DEF StatusAfter, StatusForEvent, EventTypes, TerminalEvents
  <1>. QED
    BY <1>1, <1>2, <1>6, <1>7, <1>8, <1>12 DEF HasStep


(* The envelope and the step of a produced message.                          *)
LEMMA ProducedFields ==
    ASSUME NEW r \in Runs, NEW p \in Payloads(r), NEW ok \in BOOLEAN,
           NEW n, NEW s, s = produced[r].state, NEW e, e = Message(r, n, ok, p)
    PROVE  e.id = First(r, n) /\ (HasStep(e) /\ e.type # "LLMResponded" => e.step = s.step)
  <1>1. PICK v : v = [run |-> r, seq |-> n, id |-> <<r, n, "first">>, ok |-> ok]
    OBVIOUS
  <1>2. DOMAIN v = {"run", "seq", "id", "ok"} /\ v.id = First(r, n)
    BY <1>1 DEF First
  <1>3. /\ \A f \in DOMAIN v : e[f] = v[f]
        /\ \A f \in DOMAIN p : f \notin DOMAIN v => e[f] = p[f]
    BY <1>1 DEF Message, Enveloped
  <1>4. e.id = First(r, n)
    BY <1>2, <1>3
  <1>5. \A f \in DOMAIN p : f \notin {"run", "seq", "id", "ok"} => e[f] = p[f]
    BY <1>2, <1>3
  <1>6. CASE "step" \notin DOMAIN p
    <2>1. p \in [type : {"RunStarted"}, maxSteps : {2}] \cup [type : {"RunCompleted"}]
      BY <1>6 DEF Payloads
    <2>2. p.type \in {"RunStarted", "RunCompleted"} /\ "type" \in DOMAIN p
      BY <2>1
    <2>3. e.type = p.type
      BY <1>5, <2>2
    <2>. QED
      BY <1>4, <2>2, <2>3 DEF HasStep
  <1>7. CASE "step" \in DOMAIN p
    <2>1. "type" \in DOMAIN p /\ (p.type # "LLMResponded" => p.step = s.step)
      <3>1. CASE p \in [type : {"LLMResponded"}, step : {s.step + 1}, stop : {"tool_use"},
                        order : {<<s.step>>}]
        <4>1. p.type = "LLMResponded" /\ DOMAIN p = {"type", "step", "stop", "order"}
          BY <3>1
        <4>. QED
          BY <4>1
      <3>2. CASE p \in [type : {"ToolInvoked"}, step : {s.step}, tool : {s.step - 1},
                        side : {TRUE}]
        BY <3>2
      <3>3. CASE p \in [type : {"ToolResulted"}, step : {s.step}, tool : {s.step - 1},
                        status : {"success"}]
        BY <3>3
      <3>4. CASE p \in [type : {"AwaitingApproval", "RunApproved", "RunFailed",
                                "RunCancelled"}, step : {s.step}]
        BY <3>4
      <3>5. p \notin [type : {"RunStarted"}, maxSteps : {2}] /\ p \notin [type : {"RunCompleted"}]
        BY <1>7
      <3>. QED
        BY <3>1, <3>2, <3>3, <3>4, <3>5 DEF Payloads
    <2>2. e.type = p.type /\ e.step = p.step
      BY <1>5, <1>7, <2>1
    <2>. QED
      BY <1>4, <2>1, <2>2
  <1>. QED
    BY <1>6, <1>7

LEMMA ProduceTakes ==
    ASSUME LogType, NEW r \in Runs, Produce(r)
    PROVE  \E e : /\ IsMessage(e) /\ e.run = r /\ e.seq = NextOf(r)
                  /\ e.id = First(r, NextOf(r))
                  /\ log' = Append(log, e)
                  /\ Takes(produced[r].state, e, produced'[r].state)
                  /\ \A q \in Runs : q # r => produced'[q] = produced[q]
  <1>1. PICK p \in Payloads(r), ok \in BOOLEAN :
          LET e == Message(r, NextOf(r), ok, p)
          IN  /\ Publishable(produced[r].state, e.type)
              /\ Apply(produced[r].state, e).err = "ok"
              /\ produced' = [produced EXCEPT ![r] = Apply(produced[r].state, e)]
              /\ log' = Append(log, e)
    BY DEF Produce, NextOf
  <1>2. PICK e, s, n : e = Message(r, n, ok, p) /\ s = produced[r].state /\ n = NextOf(r)
    OBVIOUS
  <1>3. /\ Publishable(s, e.type) /\ Apply(s, e).err = "ok"
        /\ produced' = [produced EXCEPT ![r] = Apply(s, e)]
        /\ log' = Append(log, e)
    BY <1>1, <1>2
  <1>4. IsMessage(e) /\ e.run = r /\ e.seq = n
    BY <1>2, ProducedIsMessage
  <1>5. e.id = First(r, n) /\ (HasStep(e) /\ e.type # "LLMResponded" => e.step = s.step)
    BY <1>2, ProducedFields
  <1>6. Verdict(s, e) = "ok" /\ Apply(s, e).state = Applied(s, e)
    <2>1. IsEvent(e, EventIds, Int, Words) /\ s \in StateType(EventIds, Int, Words)
          /\ e.seq = NextSequence(s)
      BY <1>2, <1>4 DEF IsMessage, LogType, RunStates, NextOf
    <2>. QED
      BY <1>3, <2>1, ApplyNext
  <1>7. produced'[r] = Apply(s, e) /\ \A q \in Runs : q # r => produced'[q] = produced[q]
    BY <1>3 DEF LogType
  <1>8. produced'[r].state = Applied(s, e)
    BY <1>6, <1>7
  <1>9. Takes(s, e, produced'[r].state)
    BY <1>3, <1>5, <1>6, <1>8 DEF Takes
  <1>. QED
    BY <1>2, <1>3, <1>4, <1>5, <1>7, <1>9

(* The history of the run grows, those of the others stay.                   *)
LEMMA ProduceMatches ==
    ASSUME LogInv, MatchInv, NEW r \in Runs, Produce(r)
    PROVE  MatchInv'
  <1>1. PICK e : /\ IsMessage(e) /\ e.run = r /\ e.seq = NextOf(r)
                 /\ e.id = First(r, NextOf(r))
                 /\ log' = Append(log, e)
                 /\ Takes(produced[r].state, e, produced'[r].state)
                 /\ \A q \in Runs : q # r => produced'[q] = produced[q]
    BY ProduceTakes DEF LogInv
  <1>2. /\ Ids(log') = Ids(log) \cup {e} /\ Len(log) \in Nat
        /\ DOMAIN log' = DOMAIN log \cup {Len(log) + 1} /\ DOMAIN log = 1..Len(log)
        /\ \A i \in DOMAIN log : log'[i] = log[i]
        /\ log'[Len(log) + 1] = e
    BY <1>1, AppendIds DEF LogInv, LogType
  <1>3. rows' = rows /\ runs' = runs
    BY DEF Produce, tables
  <1>4. FirstsFirst'
    <2>1. SUFFICES ASSUME NEW i \in DOMAIN log'
                   PROVE  \E j \in DOMAIN log' :
                            /\ j <= i /\ log'[j].run = log'[i].run /\ log'[j].seq = log'[i].seq
                            /\ log'[j].id = First(log'[i].run, log'[i].seq)
      BY DEF FirstsFirst
    <2>2. CASE i \in DOMAIN log
      BY <1>2, <2>2 DEF MatchInv, FirstsFirst
    <2>3. CASE i = Len(log) + 1
      BY <1>1, <1>2, <2>3
    <2>. QED
      BY <1>2, <2>2, <2>3
  <1>5. \A q : Mine(q)' = Mine(q)
    BY <1>3 DEF Mine
  <1>6. ASSUME NEW q \in Runs, q # r
        PROVE  \E h : History(q, h)' /\ \E m \in 0..NextOf(q)' : Shows(q, h, m)'
    <2>1. NextOf(q)' = NextOf(q) /\ produced'[q] = produced[q]
      BY <1>1, <1>6 DEF NextOf
    <2>h. PICK h : History(q, h) /\ \E m \in 0..NextOf(q) : Shows(q, h, m)
      BY DEF MatchInv
    <2>2. PICK m \in 0..NextOf(q) : History(q, h) /\ Shows(q, h, m)
      BY <2>h
    <2>3. \A x \in Ids(log') : x.run = q => x \in Ids(log)
      BY <1>1, <1>2, <1>6
    <2>4. History(q, h)'
      BY <2>1, <2>2, <2>3 DEF History
    <2>5. Shows(q, h, m)'
      BY <1>3, <1>5, <2>2 DEF Shows
    <2>. QED
      BY <2>1, <2>4, <2>5
  <1>7. \E h : History(r, h)' /\ \E m \in 0..NextOf(r)' : Shows(r, h, m)'
    <2>h. PICK h : History(r, h) /\ \E m \in 0..NextOf(r) : Shows(r, h, m)
      BY DEF MatchInv
    <2>1. PICK m \in 0..NextOf(r) : History(r, h) /\ Shows(r, h, m)
      BY <2>h
    <2>2. PICK n, s, t : n = NextOf(r) /\ s = produced[r].state /\ t = produced'[r].state
      OBVIOUS
    <2>3. n \in Nat /\ s \in RunStates
      BY <2>2 DEF LogInv, LogType, RunStates, StateType, NextOf, NextSequence
    <2>4. s = h[n] /\ NextSequence(s) = n /\ (s.status = "NONE" <=> n = 0) /\ Takes(s, e, t)
      BY <1>1, <2>1, <2>2, <2>3 DEF History
    <2>5. s.seen = <<>> <=> n = 0
      <3>1. PICK w : w = s.seen
        OBVIOUS
      <3>2. w \in Seq(EventIds) /\ Len(w) = n
        BY <2>3, <2>4, <3>1 DEF RunStates, StateType, NextSequence
      <3>3. w = <<>> <=> Len(w) = 0
        BY <3>2
      <3>. QED
        BY <3>1, <3>2, <3>3
    <2>6. t \in RunStates /\ NextSequence(t) = n + 1 /\ t.status # "NONE"
      BY <1>1, <2>3, <2>4, <2>5, TakesRow
    <2>7. PICK g : g = [k \in 0..(n + 1) |-> IF k = n + 1 THEN t ELSE h[k]]
      OBVIOUS
    <2>8. g[n + 1] = t /\ \A k \in 0..n : g[k] = h[k]
      BY <2>3, <2>7
    <2>9. NextOf(r)' = n + 1
      BY <2>2, <2>6 DEF NextOf
    <2>10. History(r, g)'
      <3>1. g[0] = EmptyState /\ g[NextOf(r)'] = produced'[r].state
        BY <2>1, <2>2, <2>3, <2>8, <2>9 DEF History
      <3>2. ASSUME NEW k \in 0..(n + 1)
            PROVE  g[k] \in RunStates /\ NextSequence(g[k]) = k /\ (g[k].status = "NONE" <=> k = 0)
        <4>1. CASE k = n + 1
          BY <2>3, <2>6, <2>8, <4>1
        <4>2. CASE k # n + 1
          <5>1. k \in 0..n
            BY <2>3, <4>2
          <5>. QED
            BY <2>1, <2>2, <2>8, <5>1 DEF History
        <4>. QED
          BY <4>1, <4>2
      <3>3. ASSUME NEW x \in Ids(log'), x.run = r, x.id = First(r, x.seq)
            PROVE  Takes(g[x.seq], x, g[x.seq + 1])
        <4>1. CASE x = e
          BY <1>1, <2>2, <2>3, <2>4, <2>8, <4>1
        <4>2. CASE x \in Ids(log)
          <5>1. x.seq \in Nat /\ x.seq < n
            BY <2>2, <3>3, <4>2 DEF LogInv, LogType, IsMessage, IsEvent
          <5>2. x.seq \in 0..n /\ x.seq + 1 \in 0..n
            BY <2>3, <5>1
          <5>3. Takes(h[x.seq], x, h[x.seq + 1])
            BY <2>1, <3>3, <4>2 DEF History
          <5>. QED
            BY <2>8, <5>2, <5>3
        <4>. QED
          BY <1>2, <4>1, <4>2
      <3>. QED
        BY <2>9, <3>1, <3>2, <3>3 DEF History
    <2>11. Shows(r, g, m)'
      <3>1. g[m] = h[m]
        BY <2>2, <2>8
      <3>. QED
        BY <1>3, <1>5, <2>1, <3>1 DEF Shows
    <2>12. m \in 0..NextOf(r)'
      BY <2>2, <2>3, <2>9
    <2>. QED
      BY <2>10, <2>11, <2>12
  <1>. QED
    BY <1>4, <1>6, <1>7 DEF MatchInv

(* A repeated or a colliding message is no part of the history.              *)
LEMMA RepeatMatches ==
    ASSUME LogInv, MatchInv, NEW k \in DOMAIN log, Repeat(k)
    PROVE  MatchInv'
  <1>1. PICK d : d = log[k]
    OBVIOUS
  <1>2. d \in Ids(log) /\ IsMessage(d) /\ {"run", "seq", "id"} \subseteq DOMAIN d
    BY <1>1 DEF Ids, LogInv, LogType, IsMessage
  <1>3. PICK e : /\ log' = Append(log, e) /\ e.run = d.run /\ e.seq = d.seq
                 /\ e = d \/ e.id = <<d.run, d.seq, "second">>
    <2>1. CASE log' = Append(log, log[k])
      BY <1>1, <2>1
    <2>2. CASE log' = Append(log, [log[k] EXCEPT !.id = <<log[k].run, log[k].seq, "second">>])
      <3>1. PICK i : i = <<d.run, d.seq, "second">>
        OBVIOUS
      <3>2. PICK e : e = [d EXCEPT !.id = i]
        OBVIOUS
      <3>3. e.run = d.run /\ e.seq = d.seq /\ e.id = i
        BY <1>2, <3>2 DEF IsMessage
      <3>. QED
        BY <1>1, <2>2, <3>1, <3>2, <3>3
    <2>. QED
      BY <2>1, <2>2 DEF Repeat
  <1>4. /\ Ids(log') = Ids(log) \cup {e} /\ Len(log) \in Nat
        /\ DOMAIN log' = DOMAIN log \cup {Len(log) + 1} /\ DOMAIN log = 1..Len(log)
        /\ \A i \in DOMAIN log : log'[i] = log[i]
        /\ log'[Len(log) + 1] = e
    BY <1>3, AppendIds DEF LogInv, LogType
  <1>5. rows' = rows /\ runs' = runs /\ produced' = produced
    BY DEF Repeat, tables
  <1>6. FirstsFirst'
    <2>1. SUFFICES ASSUME NEW i \in DOMAIN log'
                   PROVE  \E j \in DOMAIN log' :
                            /\ j <= i /\ log'[j].run = log'[i].run /\ log'[j].seq = log'[i].seq
                            /\ log'[j].id = First(log'[i].run, log'[i].seq)
      BY DEF FirstsFirst
    <2>2. CASE i \in DOMAIN log
      <3>1. PICK j \in DOMAIN log :
              /\ j <= i /\ log[j].run = log[i].run /\ log[j].seq = log[i].seq
              /\ log[j].id = First(log[i].run, log[i].seq)
        BY <2>2 DEF MatchInv, FirstsFirst
      <3>. QED
        BY <1>4, <2>2, <3>1
    <2>3. CASE i = Len(log) + 1
      <3>1. PICK j \in DOMAIN log : /\ j <= k /\ log[j].run = d.run /\ log[j].seq = d.seq
                                    /\ log[j].id = First(d.run, d.seq)
        BY <1>1 DEF MatchInv, FirstsFirst
      <3>2. j <= i
        BY <1>4, <2>3
      <3>. QED
        BY <1>3, <1>4, <2>3, <3>1, <3>2
    <2>. QED
      BY <1>4, <2>2, <2>3
  <1>7. \A x \in Ids(log') : x.id = First(x.run, x.seq) => x \in Ids(log)
    BY <1>2, <1>3, <1>4 DEF First
  <1>8. ASSUME NEW q \in Runs
        PROVE  \E h : History(q, h)' /\ \E m \in 0..NextOf(q)' : Shows(q, h, m)'
    <2>1. NextOf(q)' = NextOf(q) /\ Mine(q)' = Mine(q)
      BY <1>5 DEF NextOf, Mine
    <2>h. PICK h : History(q, h) /\ \E m \in 0..NextOf(q) : Shows(q, h, m)
      BY DEF MatchInv
    <2>2. PICK m \in 0..NextOf(q) : History(q, h) /\ Shows(q, h, m)
      BY <2>h
    <2>3. History(q, h)'
      BY <1>5, <1>7, <2>1, <2>2 DEF History
    <2>4. Shows(q, h, m)'
      BY <1>5, <2>1, <2>2 DEF Shows
    <2>. QED
      BY <2>1, <2>3, <2>4
  <1>. QED
    BY <1>6, <1>8 DEF MatchInv


(* The projector's transaction takes the row of a run to its next state.     *)
LEMMA InsertMatches ==
    ASSUME ProjectorInv, MatchInv, NEW n, Prefix(n), NEW p \in Projectors, pc[p] = "apply",
           NEW e, e = log[pos[p]], Insert(e), log' = log, produced' = produced
    PROVE  MatchInv'
  <1>1. /\ pos[p] \in DOMAIN log /\ e \in Ids(log) /\ IsMessage(e) /\ e.run \in Runs
        /\ pos[p] = n + 1
    BY AtThePrefix DEF Insert
  <1>2. /\ LogInv /\ RunsInv /\ n \in Nat /\ Len(log) \in Nat /\ DOMAIN log = 1..Len(log)
        /\ rows = {log[i] : i \in 1..n} /\ n + 1 \in DOMAIN log /\ log[n + 1] = e
    <2>1. LogInv /\ RunsInv
      BY DEF ProjectorInv
    <2>2. Len(log) \in Nat /\ DOMAIN log = 1..Len(log)
      BY <2>1 DEF LogInv, LogType
    <2>. QED
      BY <1>1, <2>1, <2>2 DEF Prefix
  <1>3. rows' = rows \cup {e} /\ UpsertRun(e)
    BY DEF Insert
  <1>4. \A x \in rows : ~(x.run = e.run /\ x.seq = e.seq)
    BY DEF Insert, Occupants
  <1>5. PICK r, k : r = e.run /\ k = e.seq
    OBVIOUS
  <1>6. r \in Runs /\ k \in Nat /\ k < NextOf(r) /\ NextOf(r) \in Nat
    BY <1>1, <1>2, <1>5 DEF LogInv, LogType, IsMessage, IsEvent, RunStates, StateType,
                            NextOf, NextSequence
  <1>7. e.id = First(r, k)
    <2>1. PICK j \in DOMAIN log : /\ j <= n + 1 /\ log[j].run = r /\ log[j].seq = k
                                  /\ log[j].id = First(r, k)
      BY <1>2, <1>5 DEF MatchInv, FirstsFirst
    <2>2. j \in 1..n => log[j] \in rows
      BY <1>2
    <2>3. j = n + 1
      BY <1>2, <1>4, <1>5, <2>1, <2>2
    <2>. QED
      BY <1>2, <2>1, <2>3
  <1>8. PICK h : History(r, h) /\ \E m \in 0..NextOf(r) : Shows(r, h, m)
    BY <1>6 DEF MatchInv
  <1>9. PICK m \in 0..NextOf(r) : History(r, h) /\ Shows(r, h, m)
    BY <1>8
  <1>10. m \in Nat /\ Numbered(Mine(r), m)
    BY <1>6, <1>9 DEF Shows
  <1>11. k = m
    <2>1. ~(k < m)
      <3>1. SUFFICES ASSUME k < m PROVE FALSE
        OBVIOUS
      <3>2. k \in 0..(m - 1)
        BY <1>6, <1>10, <3>1
      <3>3. PICK x \in Mine(r) : x.seq = k
        BY <1>10, <3>2 DEF Numbered
      <3>. QED
        BY <1>4, <1>5, <3>3 DEF Mine
    <2>2. ~(m < k)
      <3>1. SUFFICES ASSUME m < k PROVE FALSE
        OBVIOUS
      <3>2. PICK j \in DOMAIN log : j < n + 1 /\ log[j].run = r /\ log[j].seq = m
        BY <1>2, <1>5, <1>10, <3>1 DEF LogInv
      <3>3. log[j] \in Mine(r)
        BY <1>2, <3>2 DEF Mine
      <3>4. m \in 0..(m - 1)
        BY <1>10, <3>2, <3>3 DEF Numbered
      <3>. QED
        BY <1>10, <3>4
    <2>. QED
      BY <1>6, <1>10, <2>1, <2>2
  <1>12. PICK s, t : s = h[m] /\ t = h[m + 1]
    OBVIOUS
  <1>13. /\ Takes(s, e, t) /\ s \in RunStates /\ NextSequence(s) = m
         /\ s.status = "NONE" <=> m = 0
         /\ m = 0 => s = EmptyState
    BY <1>1, <1>5, <1>7, <1>9, <1>11, <1>12 DEF History
  <1>14. s.seen = <<>> <=> m = 0
    <2>1. PICK w : w = s.seen
      OBVIOUS
    <2>2. w \in Seq(EventIds) /\ Len(w) = m
      BY <1>13, <2>1 DEF RunStates, StateType, NextSequence
    <2>3. w = <<>> <=> Len(w) = 0
      BY <2>2
    <2>. QED
      BY <2>1, <2>2, <2>3
  <1>15. /\ t.status = StatusForEvent(e)
         /\ HasStep(e) => t.step = e.step
         /\ ~HasStep(e) => t.step = IF e.type = "RunStarted" THEN 0 ELSE s.step
         /\ e.type = "RunStarted" <=> m = 0
    BY <1>1, <1>13, <1>14, TakesRow
  <1>16. PICK new : /\ runs' = [runs EXCEPT ![r] = new] /\ new.status = StatusForEvent(e)
                    /\ new.step = IF HasStep(e) THEN e.step ELSE runs[r].step
    <2>1. PICK new : new = [status |-> StatusForEvent(e),
                            step |-> IF HasStep(e) THEN e.step ELSE runs[r].step,
                            last |-> e.id]
      OBVIOUS
    <2>2. runs' = [runs EXCEPT ![r] = new]
      BY <1>3, <1>5, <2>1 DEF UpsertRun
    <2>3. new.status = StatusForEvent(e) /\ new.step = IF HasStep(e) THEN e.step ELSE runs[r].step
      BY <2>1
    <2>. QED
      BY <2>2, <2>3
  <1>17. runs'[r] = new /\ \A q \in Runs : q # r => runs'[q] = runs[q]
    BY <1>2, <1>6, <1>16 DEF RunsInv
  <1>18. runs'[r].status = t.status /\ runs'[r].step = t.step
    <2>1. runs[r].step = s.step /\ (m = 0 => s.step = 0)
      BY <1>9, <1>12, <1>13 DEF Shows, EmptyState
    <2>. QED
      BY <1>15, <1>16, <1>17, <2>1
  <1>19. Mine(r)' = Mine(r) \cup {e} /\ \A q : q # r => Mine(q)' = Mine(q)
    BY <1>3, <1>5 DEF Mine
  <1>20. Shows(r, h, m + 1)'
    <2>1. /\ Numbered(Mine(r) \cup {e}, m + 1)
          /\ Ordered(Mine(r) \cup {e}) = Append(Ordered(Mine(r)), e)
      BY <1>5, <1>10, <1>11, OrderedAppend
    <2>2. Ordered(Mine(r)) \in Seq(Ids(Ordered(Mine(r))))
      BY <1>10, OrderedRows
    <2>3. PICK f : f = Fold(Ordered(Mine(r)))
      OBVIOUS
    <2>4. f.err \in {"ok", "run_not_found"} /\ f.state = s
      <3>1. f = IF m = 0 THEN NotFound ELSE [err |-> "ok", state |-> s]
        BY <1>9, <1>12, <2>3 DEF Shows
      <3>. QED
        BY <1>13, <3>1 DEF NotFound
    <2>5. Fold(Append(Ordered(Mine(r)), e)) = Apply(s, e)
      BY <2>2, <2>3, <2>4, FoldAppend DEF FoldStep
    <2>6. Apply(s, e) = [err |-> "ok", state |-> t]
      BY <1>13 DEF Takes, Apply
    <2>7. m + 1 # 0
      BY <1>10
    <2>8. Fold(Ordered(Mine(r)')) = [err |-> "ok", state |-> h[m + 1]]
      BY <1>12, <1>19, <2>1, <2>5, <2>6
    <2>. QED
      BY <1>12, <1>18, <1>19, <2>1, <2>7, <2>8 DEF Shows
  <1>21. ASSUME NEW q PROVE NextOf(q)' = NextOf(q) /\ \A g : History(q, g) => History(q, g)'
    BY DEF NextOf, History
  <1>22. m + 1 \in 0..NextOf(r)
    BY <1>6, <1>11
  <1>23. ASSUME NEW q \in Runs
         PROVE  \E g : History(q, g)' /\ \E l \in 0..NextOf(q)' : Shows(q, g, l)'
    <2>1. CASE q = r
      BY <1>9, <1>20, <1>21, <1>22, <2>1
    <2>2. CASE q # r
      <3>1. PICK g : History(q, g) /\ \E l \in 0..NextOf(q) : Shows(q, g, l)
        BY DEF MatchInv
      <3>2. PICK l \in 0..NextOf(q) : Shows(q, g, l)
        BY <3>1
      <3>3. Shows(q, g, l)'
        BY <1>17, <1>19, <2>2, <3>2 DEF Shows
      <3>. QED
        BY <1>21, <3>1, <3>3
    <2>. QED
      BY <2>1, <2>2
  <1>24. FirstsFirst'
    BY DEF MatchInv, FirstsFirst
  <1>. QED
    BY <1>23, <1>24 DEF MatchInv

(* A step of the group that leaves the tables alone.                         *)
LEMMA SameMatches ==
    ASSUME MatchInv, log' = log, produced' = produced, rows' = rows, runs' = runs
    PROVE  MatchInv'
  <1>1. FirstsFirst'
    BY DEF MatchInv, FirstsFirst
  <1>2. ASSUME NEW q \in Runs
        PROVE  \E g : History(q, g)' /\ \E l \in 0..NextOf(q)' : Shows(q, g, l)'
    <2>1. PICK g : History(q, g) /\ \E l \in 0..NextOf(q) : Shows(q, g, l)
      BY DEF MatchInv
    <2>2. PICK l \in 0..NextOf(q) : Shows(q, g, l)
      BY <2>1
    <2>3. NextOf(q)' = NextOf(q) /\ Mine(q)' = Mine(q)
      BY DEF NextOf, Mine
    <2>4. Shows(q, g, l)'
      BY <2>2, <2>3 DEF Shows
    <2>5. History(q, g)'
      BY <2>1, <2>3 DEF History
    <2>. QED
      BY <2>3, <2>4, <2>5
  <1>. QED
    BY <1>1, <1>2 DEF MatchInv

LEMMA NextMatches ==
    ASSUME ProjectorInv, MatchInv, [Next]_vars
    PROVE  MatchInv'
  <1>1. CASE UNCHANGED vars
    BY <1>1, SameMatches DEF vars, kafkaVars, tables
  <1>2. ASSUME NEW r \in Runs, Produce(r) PROVE MatchInv'
    BY <1>2, ProduceMatches DEF ProjectorInv
  <1>3. ASSUME NEW k \in DOMAIN log, Repeat(k) PROVE MatchInv'
    BY <1>3, RepeatMatches DEF ProjectorInv
  <1>4. ASSUME NEW p \in Projectors, Restart(p) \/ Rebalance(p) \/ Step(p) \/ Crash(p)
        PROVE  MatchInv'
    <2>1. CASE Restart(p) \/ Rebalance(p) \/ FetchMessage(p) \/ Poison(p) \/ CommitMessages(p)
               \/ Crash(p)
      BY <2>1, SameMatches DEF Restart, Rebalance, Owns, FetchMessage, Poison, CommitMessages,
                               Crash, kafkaVars, tables
    <2>2. CASE ApplyEvent(p) \/ ApplyAmbiguous(p)
      <3>1. PICK e : e = log[pos[p]]
        OBVIOUS
      <3>2. /\ pc[p] = "apply" /\ log' = log /\ produced' = produced
            /\ Insert(e) \/ (rows' = rows /\ runs' = runs)
        BY <2>2, <3>1 DEF ApplyEvent, ApplyAmbiguous, kafkaVars, tables
      <3>3. PICK n : Prefix(n)
        BY DEF ProjectorInv
      <3>. QED
        BY <3>1, <3>2, <3>3, InsertMatches, SameMatches
    <2>. QED
      BY <1>4, <2>1, <2>2 DEF Step
  <1>. QED
    BY <1>1, <1>2, <1>3, <1>4 DEF Next

(* The runs table tells of every run what the replay of its rows from        *)
(* Postgres tells, and that replay succeeds: statusForEvent and the COALESCE *)
(* of upsertRun follow the fold event by event, and a colliding event of a   *)
(* second worker never takes the place of the one it collides with.          *)
THEOREM RunsMatch == Spec => []RunsMatchReplay
  <1>1. Init => MatchInv
    <2>1. SUFFICES ASSUME Init PROVE MatchInv
      OBVIOUS
    <2>2. /\ log = <<>> /\ DOMAIN log = {} /\ Ids(log) = {} /\ rows = {}
          /\ \A r \in Runs : runs[r] = NoRow /\ produced[r] = NotFound
      BY <2>1 DEF Init, Ids
    <2>3. ASSUME NEW r \in Runs
          PROVE  \E h : History(r, h) /\ \E m \in 0..NextOf(r) : Shows(r, h, m)
      <3>1. produced[r].state = EmptyState /\ NextOf(r) = 0 /\ NextSequence(EmptyState) = 0
        BY <2>2 DEF NotFound, NextOf, NextSequence, EmptyState
      <3>2. PICK h : h = [k \in {0} |-> EmptyState]
        OBVIOUS
      <3>3. h[0] = EmptyState /\ EmptyState \in RunStates /\ EmptyState.status = "NONE"
        BY <3>2 DEF EmptyState, RunStates, StateType, Statuses
      <3>4. History(r, h)
        <4>1. \A k \in 0..0 : k = 0
          OBVIOUS
        <4>. QED
          BY <2>2, <3>1, <3>3, <4>1 DEF History
      <3>5. Mine(r) = {}
        BY <2>2 DEF Mine
      <3>6. Shows(r, h, 0)
        BY <2>2, <3>3, <3>5, OrderedEmpty, FoldEmpty DEF Shows, NoRow, EmptyState
      <3>. QED
        BY <3>1, <3>4, <3>6
    <2>. QED
      BY <2>2, <2>3 DEF MatchInv, FirstsFirst
  <1>2. ProjectorInv /\ MatchInv /\ [Next]_vars => MatchInv'
    BY NextMatches
  <1>3. MatchInv => RunsMatchReplay
    <2>1. SUFFICES ASSUME MatchInv, NEW r \in Runs
                   PROVE  \/ RowsOf(r) = <<>> /\ runs[r] = NoRow
                          \/ /\ Fold(RowsOf(r)).err = "ok"
                             /\ runs[r].status = Fold(RowsOf(r)).state.status
                             /\ runs[r].step = Fold(RowsOf(r)).state.step
      BY DEF RunsMatchReplay
    <2>2. PICK h : History(r, h) /\ \E m \in 0..NextOf(r) : Shows(r, h, m)
      BY <2>1 DEF MatchInv
    <2>3. PICK m \in 0..NextOf(r) : Shows(r, h, m)
      BY <2>2
    <2>4. RowsOf(r) = Ordered(Mine(r))
      BY Zenon DEF RowsOf, Ordered, Mine
    <2>5. CASE m = 0
      <3>1. Cardinality(Mine(r)) = 0
        BY <2>3, <2>5 DEF Shows, Numbered
      <3>2. Ordered(Mine(r)) = <<>>
        <4>1. 1..0 = {}
          OBVIOUS
        <4>. QED
          BY <3>1, <4>1 DEF Ordered
      <3>. QED
        BY <2>3, <2>4, <2>5, <3>2 DEF Shows
    <2>6. CASE m # 0
      BY <2>3, <2>4, <2>6 DEF Shows
    <2>. QED
      BY <2>5, <2>6
  <1>. QED
    BY <1>1, <1>2, <1>3, ProjectorInvariant, PTL DEF Spec
=============================================================================
