------------------------------- MODULE Replay --------------------------------
(***************************************************************************)
(* The replay of a run: its partition of run-events, the two event sources  *)
(* (internal/replay/kafka_source.go, internal/store/reader.go), the digest  *)
(* (internal/replay/messages.go) and the command that prints it             *)
(* (scripts/replay/main.go).                                                *)
(*                                                                         *)
(* The run's events may come from any producer: the worker's loop, a script *)
(* or the control plane that will publish approvals and cancellations.      *)
(* Its partition also carries duplicates and the messages of other runs.    *)
(* The topic keeps every message (retention.ms = -1), so what a scan below  *)
(* the high watermark returns depends on nothing but where the watermark    *)
(* was when the scan began.                                                 *)
(***************************************************************************)
EXTENDS RunFold, FiniteSetsExt

CONSTANTS
    Tools,        \* tool_use ids
    LocalZone,    \* the time zone of the machine the replay runs on
    MaxSteps,     \* RunStarted's max_steps
    MaxEvents,    \* bound: events of the run
    MaxExtras     \* bound: duplicates and messages of other runs

ASSUME ReplayAssumption ==
    MaxSteps \in Nat /\ MaxEvents \in Nat /\ MaxExtras \in Nat

VARIABLES
    partition,  \* the messages of the partition, in offset order
    hwm,        \* the high watermark: so many messages are acknowledged
    state,      \* the RunState of a consumer that applies them one by one
    printed     \* printed[n]: the digest its worker printed at next_sequence n

vars == <<partition, hwm, state, printed>>

-----------------------------------------------------------------------------
(* The digest.  Arguments are raw JSON whose key order depends on where they *)
(* came from; an occurred_at read from a TIMESTAMPTZ is in the local zone.   *)

Sources == {"kafka", "postgres"}

KeyOrder(source) == IF source = "postgres" THEN "jsonb" ELSE "as_sent"

Zone(source) == IF source = "postgres" THEN LocalZone ELSE "UTC"

(* json.Unmarshal into any and json.Marshal back.                            *)
SortKeys(order) == "sorted"

(* digestView, with the key order of the arguments in the messages and of    *)
(* those in the tool calls.                                                  *)
View(s, msgOrder, callOrder, zone) ==
    LET args(ids, order) == [i \in DOMAIN ids |-> <<ids[i], order>>] IN
    [status   |-> s.status,
     step     |-> s.step,
     maxSteps |-> s.maxSteps,
     next     |-> NextSequence(s),
     turns    |-> Messages(s),
     content  |-> [i \in DOMAIN s.steps |-> args(s.steps[i].order, msgOrder)],
     results  |-> [i \in DOMAIN s.steps |->
                     IF AllResulted(s.steps[i]) THEN s.steps[i].results ELSE {}],
     pending  |-> [i \in PendingToolCalls(s) |-> <<Last(s).order[i], callOrder>>],
     inFlight |-> IF InFlightTools(s) = {} THEN <<>>
                  ELSE <<InFlightTool(s), callOrder, zone>>,
     action   |-> NextAction(s),
     terminal |-> s.steps # <<>> /\ Last(s).stop # "tool_use"]

(* Mutant: only the tool calls are normalized, not the messages.             *)
DigestOfRawMessages(s, source) ==
    View(s, KeyOrder(source), SortKeys(KeyOrder(source)), Zone(source))

(* Digest: normalizeToolCall and canonicalize reach all arguments.           *)
Digest(s, source) ==
    LET sorted == SortKeys(KeyOrder(source)) IN
    View(s, sorted, sorted, Zone(source))

-----------------------------------------------------------------------------
(* The event sources.                                                        *)

Other == [type |-> "other"]
IsOwn(m) == m # Other

(* Offset by offset, keeping the messages with the run's key.                *)
Scan(messages, n) ==
    LET f[i \in 0..n] ==
          IF i = 0 THEN <<>>
          ELSE IF IsOwn(messages[i]) THEN Append(f[i - 1], messages[i]) ELSE f[i - 1]
    IN  f[n]

(* Mutant: the scan stops one message early.                                 *)
KafkaEventsOneShort == IF hwm = 0 THEN <<>> ELSE Scan(partition, hwm - 1)

(* KafkaEventSource.Events: the scan up to offset hwm - 1.                   *)
KafkaEvents == Scan(partition, hwm)

(* EventReader.Events, once the projector has come to the watermark: one row *)
(* per event (module Projector), ORDER BY sequence_number.                   *)
PostgresEvents ==
    LET rows == {m \in Ids(SubSeq(partition, 1, hwm)) : IsOwn(m)} IN
    [i \in 1..Cardinality(rows) |-> CHOOSE e \in rows : e.seq = i - 1]

Events(source) == IF source = "kafka" THEN KafkaEvents ELSE PostgresEvents

(* Mutant: the bound is exclusive.                                           *)
UpToExclusive(evs, n) ==
    LET beyond == {i \in DOMAIN evs : evs[i].seq >= n} IN
    IF beyond = {} THEN evs ELSE SubSeq(evs, 1, Min(beyond) - 1)

(* The truncation of FoldUpTo and countUpToSeq: up to the first event beyond *)
(* n, whatever follows.                                                      *)
UpTo(evs, n) ==
    LET beyond == {i \in DOMAIN evs : evs[i].seq > n} IN
    IF beyond = {} THEN evs ELSE SubSeq(evs, 1, Min(beyond) - 1)

(* scripts/replay: its exit code and the state it prints; n = -1 is no bound. *)
Report(source, n) ==
    LET r == Fold(IF n >= 0 THEN UpTo(Events(source), n) ELSE Events(source)) IN
    [code  |-> CASE r.err = "ok" -> 0
                 [] r.err = "run_not_found" -> 2
                 [] OTHER -> 1,
     state |-> r.state]

-----------------------------------------------------------------------------
(* The producers.                                                            *)

Orders == {o \in UNION {[1..n -> Tools] : n \in 0..2} :
             \A i, j \in DOMAIN o : i # j => o[i] # o[j]}

Payloads ==
    [type : {"RunStarted"}, maxSteps : {MaxSteps}]
      \cup [type : {"LLMResponded"}, step : {state.step + 1},
            stop : {"tool_use", "end_turn"}, order : Orders]
      \cup [type : {"ToolInvoked"}, step : {state.step}, tool : Tools,
            side : {TRUE}]
      \cup [type : {"ToolResulted"}, step : {state.step}, tool : Tools,
            status : {"success"}]
      \cup [type : {"RunCompleted", "RunFailed", "RunCancelled",
                    IF state.status = "AWAITING_APPROVAL" THEN "RunApproved"
                    ELSE "AwaitingApproval"}, step : {state.step}]

WithEnvelope(p) ==
    Enveloped([seq |-> NextSequence(state), id |-> NextSequence(state)], p)

(* The leader has the message; nobody can read it before the watermark moves *)
(* past it.  One write is under way at a time.                               *)
Write(m) ==
    /\ hwm = Len(partition)
    /\ partition' = Append(partition, m)
    /\ UNCHANGED <<hwm, state, printed>>

(* The run's next event; one that Apply refuses stops the run's consumers    *)
(* for good, so only accepted ones go on.                                    *)
Publish(p) ==
    /\ NextSequence(state) < MaxEvents
    /\ Apply(state, WithEnvelope(p)).err = "ok"
    /\ Write(WithEnvelope(p))

(* A retried write that had reached the log before, or another run's event. *)
Extra(m) ==
    /\ Len(partition) - NextSequence(state) < MaxExtras
    /\ Write(m)

(* The write is acknowledged: the run's consumer applies it, and prints the  *)
(* digest of the state it reaches.                                           *)
Acknowledge ==
    /\ hwm < Len(partition)
    /\ hwm' = hwm + 1
    /\ LET m == partition[hwm + 1] IN
       \/ /\ IsOwn(m)
          /\ state' = Apply(state, m).state
          /\ printed' = IF state' = state THEN printed
                        ELSE Append(printed, Digest(state', "kafka"))
       \/ ~IsOwn(m) /\ UNCHANGED <<state, printed>>
    /\ UNCHANGED partition

Init ==
    /\ partition = <<>>
    /\ hwm = 0
    /\ state = EmptyState
    /\ printed = <<>>

Next ==
    \/ \E p \in Payloads : Publish(p)
    \/ \E m \in Ids(partition) \cup {Other} : Extra(m)
    \/ Acknowledge

Spec == Init /\ [][Next]_vars

-----------------------------------------------------------------------------
(* A replay from Kafka returns the state of the consumer that has applied    *)
(* every acknowledged event: the scan misses none, reads none that may still *)
(* be lost, and neither duplicates nor other runs disturb the fold.          *)
ReplayAgrees ==
    printed # <<>> => Fold(KafkaEvents) = [err |-> "ok", state |-> state]

(* "Two states that are semantically the same must hash the same, whether    *)
(* their events came from Kafka or from Postgres" (messages.go): both print  *)
(* the worker's own last digest.  Where the zone is not UTC that is so only  *)
(* without a tool in flight, whose InvokedAt the digest takes in.  A run     *)
(* without events is not found, and no other run fails to replay.            *)
DigestsAgree ==
    \A source \in Sources :
        LET r == Report(source, -1) IN
        /\ r.code = IF printed = <<>> THEN 2 ELSE 0
        /\ printed # <<>> /\ (Zone(source) = "UTC" \/ InFlightTools(state) = {})
             => Digest(r.state, source) = printed[Len(printed)]

(* --up-to-seq n reproduces from Kafka what the worker printed after event   *)
(* n, however many duplicates lie before, between and behind.                *)
UpToSeqIsExact ==
    \A n \in 0..(Len(printed) - 1) :
        Digest(Report("kafka", n).state, "kafka") = printed[n + 1]

(* Only the last step may have tools without a result: what Messages relies  *)
(* on when it stops at the first open batch.                                 *)
OnlyLastStepOpen ==
    \A i \in 1..(Len(state.steps) - 1) : AllResulted(state.steps[i])

(* The next action never leaves work behind: the LLM is not called and the   *)
(* step limit not declared while a tool_use has no result, no tool is        *)
(* started while another is in flight, and a run that may still act always   *)
(* has a next action.                                                        *)
NextActionFits ==
    LET a == NextAction(state) IN
    /\ a \in {"CALL_LLM", "FAIL_MAX_STEPS"} =>
         \A i \in DOMAIN state.steps : AllResulted(state.steps[i])
    /\ a \in {"EXECUTE_TOOL", "FINISH_RUN"} => InFlightTools(state) = {}
    /\ a = "EXECUTE_TOOL" =>
         Last(state).stop = "tool_use" /\ PendingToolCalls(state) # {}
    /\ state.status = "RUNNING" => a # "NONE"

(* A terminal event is final: no event of any producer changes the state of  *)
(* a run that is completed, failed or cancelled.                             *)
TerminalIsFinal == [][IsTerminal(state) => state' = state]_vars
=============================================================================
