------------------------------ MODULE Projector ------------------------------
(***************************************************************************)
(* The projector (cmd/projector/main.go) and the tables it writes           *)
(* (internal/store), for one partition of run-events.                       *)
(*                                                                         *)
(* A member of Projectors is one process of the consumer group: the one     *)
(* that owns the partition, an earlier owner that still holds the message   *)
(* it fetched, or one that will start after a crash.                        *)
(***************************************************************************)
EXTENDS RunFold, FiniteSets

CONSTANTS
    Projectors,   \* projector processes
    Runs,         \* runs whose events are in the partition
    Conflicts,    \* TRUE: two workers may publish for one sequence number
    BadPayloads,  \* TRUE: a payload may not match its event type
    MaxLog,       \* bound: messages in the partition
    MaxFaults     \* bound: crashes, failed commits and rebalances

ASSUME ProjectorAssumption ==
    /\ Projectors # {}
    /\ Conflicts \in BOOLEAN
    /\ BadPayloads \in BOOLEAN
    /\ MaxLog \in Nat
    /\ MaxFaults \in Nat

VARIABLES
    log,       \* the partition, in offset order
    produced,  \* produced[r]: the RunState its worker has reached
    offset,    \* messages the group has committed
    rows,      \* the events table
    runs,      \* runs[r]: the row of r in the runs table, or NoRow
    pc,        \* pc[p]: where consumeLoop is in p
    pos,       \* pos[p]: the message p fetches next or works on
    owner,     \* the process the partition is assigned to
    faults     \* crashes, failed commits and rebalances so far

kafkaVars == <<log, produced, offset>>
tables == <<rows, runs>>
groupVars == <<pc, pos, owner, faults>>
vars == <<kafkaVars, tables, groupVars>>

NoRow == [status |-> "NONE", step |-> 0, last |-> "NONE"]

-----------------------------------------------------------------------------
(* The producers: a worker publishes the next event of its run, a retried    *)
(* write appears twice, and a write of a second worker may collide.          *)

Payloads(r) ==
    LET s == produced[r].state IN
    [type : {"RunStarted"}, maxSteps : {2}]
      \cup [type : {"LLMResponded"}, step : {s.step + 1}, stop : {"tool_use"},
            order : {<<s.step>>}]
      \cup [type : {"ToolInvoked"}, step : {s.step}, tool : {s.step - 1},
            side : {TRUE}]
      \cup [type : {"ToolResulted"}, step : {s.step}, tool : {s.step - 1},
            status : {"success"}]
      \cup [type : {"AwaitingApproval", "RunApproved", "RunFailed",
                    "RunCancelled"}, step : {s.step}]
      \cup [type : {"RunCompleted"}]

(* RunStarted opens a run and nothing else, and while an approval is awaited *)
(* nothing but its outcome is published.                                     *)
Publishable(s, type) ==
    /\ type = "RunStarted" <=> s.status = "NONE"
    /\ s.status = "AWAITING_APPROVAL" => type \in {"RunApproved", "RunCancelled"}
    /\ type = "RunApproved" => s.status = "AWAITING_APPROVAL"

Message(r, seq, ok, p) ==
    Enveloped([run |-> r, seq |-> seq, id |-> <<r, seq, "first">>, ok |-> ok], p)

Produce(r) ==
    /\ Len(log) < MaxLog
    /\ \E p \in Payloads(r), ok \in BOOLEAN :
         LET n == NextSequence(produced[r].state)
             e == Message(r, n, ok, p)
         IN  /\ ~ok => BadPayloads
             /\ Publishable(produced[r].state, e.type)
             /\ Apply(produced[r].state, e).err = "ok"
             /\ produced' = [produced EXCEPT ![r] = Apply(@.state, e)]
             /\ log' = Append(log, e)
    /\ UNCHANGED <<offset, tables, groupVars>>

Repeat(i) ==
    /\ Len(log) < MaxLog
    /\ \/ log' = Append(log, log[i])
       \/ /\ Conflicts
          /\ log' = Append(log, [log[i] EXCEPT !.id = <<log[i].run, log[i].seq, "second">>])
    /\ UNCHANGED <<produced, offset, tables, groupVars>>

-----------------------------------------------------------------------------
(* mapping.go.                                                               *)

StatusForEvent(e) ==
    IF e.type = "AwaitingApproval" THEN "AWAITING_APPROVAL"
    ELSE IF e.type = "RunCompleted" THEN "COMPLETED"
    ELSE IF e.type = "RunFailed" THEN "FAILED"
    ELSE IF e.type = "RunCancelled" THEN "CANCELLED"
    ELSE "RUNNING"

HasStep(e) == e.type \notin {"RunStarted", "RunCompleted"}

(* upsertRun: COALESCE keeps the step when the payload has none.             *)
UpsertRun(e) ==
    runs' = [runs EXCEPT ![e.run] =
               [status |-> StatusForEvent(e),
                step   |-> IF HasStep(e) THEN e.step ELSE @.step,
                last   |-> e.id]]

Occupants(e) == {x \in rows : x.run = e.run /\ x.seq = e.seq}

(* ApplyEvent's transaction when it commits something.                       *)
Insert(e) ==
    /\ Occupants(e) = {}
    /\ e.ok
    /\ rows' = rows \cup {e}
    /\ UpsertRun(e)

(* checkExistingEvent: the same event, or a conflict.                        *)
IsRedelivery(e) == \E x \in Occupants(e) : x.id = e.id
IsConflict(e) == \E x \in Occupants(e) : x.id # e.id

(* Everything but ErrConflictingEvent and a permanent SQLSTATE is retried,   *)
(* DecodePayload's error among it.                                           *)
IsRetried(e) == Occupants(e) = {} /\ ~e.ok

-----------------------------------------------------------------------------
(* consumeLoop.                                                              *)

Goes(p, to, i) ==
    /\ pc' = [pc EXCEPT ![p] = to]
    /\ pos' = [pos EXCEPT ![p] = i]

Fault == faults < MaxFaults /\ faults' = faults + 1

Owns(p) ==
    /\ owner' = p
    /\ Goes(p, "fetch", offset + 1)
    /\ UNCHANGED <<kafkaVars, tables>>

(* A projector starts when the owner of the partition is gone.               *)
Restart(p) ==
    /\ pc[p] = "down"
    /\ pc[owner] = "down"
    /\ Owns(p)
    /\ UNCHANGED faults

(* The group moves the partition to p.  Its owner so far fetches nothing     *)
(* more, but goes on with the message it has.                                *)
Rebalance(p) ==
    /\ p # owner
    /\ pc[p] \in {"down", "fetch"}
    /\ pc[owner] # "down"
    /\ Owns(p)
    /\ Fault

(* Mutant: the offset is committed before the transaction.                   *)
FetchCommits(p) ==
    /\ pc[p] = "fetch"
    /\ owner = p
    /\ pos[p] <= Len(log)
    /\ Goes(p, "apply", pos[p])
    /\ offset' = pos[p]
    /\ UNCHANGED <<log, produced, tables, owner, faults>>

FetchMessage(p) ==
    /\ pc[p] = "fetch"
    /\ owner = p
    /\ pos[p] <= Len(log)
    /\ Goes(p, "apply", pos[p])
    /\ UNCHANGED <<kafkaVars, tables, owner, faults>>

(* Mutant: a redelivered event is upserted again.                            *)
ApplyAgain(p) ==
    /\ pc[p] = "apply"
    /\ LET e == log[pos[p]] IN
       /\ ~IsConflict(e) /\ e.ok
       /\ rows' = rows \cup {e}
       /\ UpsertRun(e)
    /\ Goes(p, "commit", pos[p])
    /\ UNCHANGED <<kafkaVars, owner, faults>>

(* ApplyEvent commits and its caller learns of it.                           *)
ApplyEvent(p) ==
    /\ pc[p] = "apply"
    /\ LET e == log[pos[p]] IN
       Insert(e) \/ (IsRedelivery(e) /\ UNCHANGED tables)
    /\ Goes(p, "commit", pos[p])
    /\ UNCHANGED <<kafkaVars, owner, faults>>

(* A transient error after the transaction committed: applyWithRetry calls   *)
(* ApplyEvent again.  (A transient error before it changes nothing.)         *)
ApplyAmbiguous(p) ==
    /\ pc[p] = "apply"
    /\ Insert(log[pos[p]])
    /\ UNCHANGED <<kafkaVars, groupVars>>

(* A poison message: the process exits, the offset stays.  An envelope that  *)
(* does not decode and a permanent SQLSTATE end it in the same way, but no   *)
(* producer writes a message that has them.                                  *)
Poison(p) ==
    /\ pc[p] = "apply"
    /\ IsConflict(log[pos[p]])
    /\ Goes(p, "down", pos[p])
    /\ UNCHANGED <<kafkaVars, tables, owner, faults>>

(* Mutant: the committed offset is one too high.                             *)
CommitOneAhead(p) ==
    /\ pc[p] = "commit"
    /\ offset' = pos[p] + 1
    /\ Goes(p, "fetch", pos[p] + 1)
    /\ UNCHANGED <<log, produced, tables, owner, faults>>

(* CommitMessages, by an owner that has lost the partition as well if the    *)
(* coordinator still takes it; an error makes the process exit.              *)
CommitMessages(p) ==
    /\ pc[p] = "commit"
    /\ \/ offset' = pos[p] /\ Goes(p, "fetch", pos[p] + 1) /\ UNCHANGED faults
       \/ UNCHANGED offset /\ Goes(p, "down", pos[p]) /\ Fault
    /\ UNCHANGED <<log, produced, tables, owner>>

(* Kill, SIGTERM, DAE_CRASH_BEFORE_OFFSET_COMMIT, or a failed fetch.         *)
Crash(p) ==
    /\ pc[p] # "down"
    /\ Goes(p, "down", pos[p])
    /\ Fault
    /\ UNCHANGED <<kafkaVars, tables, owner>>

-----------------------------------------------------------------------------
Init ==
    /\ log = <<>>
    /\ produced = [r \in Runs |-> NotFound]
    /\ offset = 0
    /\ rows = {}
    /\ runs = [r \in Runs |-> NoRow]
    /\ owner = CHOOSE p \in Projectors : TRUE
    /\ pc = [p \in Projectors |-> IF p = owner THEN "fetch" ELSE "down"]
    /\ pos = [p \in Projectors |-> 1]
    /\ faults = 0

Step(p) ==
    \/ FetchMessage(p) \/ ApplyEvent(p) \/ ApplyAmbiguous(p)
    \/ Poison(p) \/ CommitMessages(p)

Next ==
    \/ \E r \in Runs : Produce(r)
    \/ \E i \in DOMAIN log : Repeat(i)
    \/ \E p \in Projectors : Restart(p) \/ Rebalance(p) \/ Step(p) \/ Crash(p)

Spec == Init /\ [][Next]_vars

(* A projector that runs keeps running, and one that exits is restarted.     *)
FairSpec ==
    Spec /\ \A p \in Projectors : WF_vars(Step(p)) /\ WF_vars(Restart(p))

-----------------------------------------------------------------------------
(* Type invariant of the projector and its tables.                           *)
TypeOK ==
    /\ offset \in 0..Len(log)
    /\ rows \subseteq Ids(log)
    /\ pc \in [Projectors -> {"down", "fetch", "apply", "commit"}]
    /\ pos \in [Projectors -> 1..(Len(log) + 1)]
    /\ owner \in Projectors
    /\ faults \in 0..MaxFaults

(* The events table holds a prefix of the partition that contains every      *)
(* committed message: whatever crashes, moves or is repeated, no message is  *)
(* skipped, applied before an earlier one or committed before it is applied. *)
RowsFollowLog ==
    \E n \in offset..Len(log) : rows = {log[i] : i \in 1..n}

(* The events of r as EventReader returns them, ORDER BY sequence_number.    *)
RowsOf(r) ==
    LET mine == {x \in rows : x.run = r} IN
    [i \in 1..Cardinality(mine) |-> CHOOSE x \in mine : x.seq = i - 1]

(* The runs table says of a run what a replay of its rows says: the status   *)
(* and the step were not mixed up by redelivery, retries or rebalancing, and *)
(* the replay from Postgres succeeds.                                        *)
RunsMatchReplay ==
    \A r \in Runs :
        LET replay == Fold(RowsOf(r)) IN
        \/ RowsOf(r) = <<>> /\ runs[r] = NoRow
        \/ /\ replay.err = "ok"
           /\ runs[r].status = replay.state.status
           /\ runs[r].step = replay.state.step

(* A run that the table shows as terminal never changes again, whichever     *)
(* message is delivered again and whoever delivers it.                       *)
TerminalRowIsFinal ==
    [][\A r \in Runs :
         runs[r].status \in TerminalStatuses => runs'[r] = runs[r]]_vars

(* Up to message i no two events claim one sequence number of a run.         *)
CleanUpTo(i) ==
    \A j, k \in 1..i :
        log[j].run = log[k].run /\ log[j].seq = log[k].seq
            => log[j].id = log[k].id

(* Every message of the partition ends up in the events table, over crashes, *)
(* lost commits and rebalances, unless a conflict at or before it stops the  *)
(* projector: one that comes later holds up nothing.                         *)
CatchesUp ==
    <>[](\A i \in DOMAIN log : CleanUpTo(i) => log[i] \in rows)

(* The poison rule of applyWithRetry: a message that can never be applied is *)
(* not retried for ever, the projector exits on it.                          *)
PoisonStops ==
    \A p \in Projectors :
        (pc[p] = "apply" /\ IsRetried(log[pos[p]])) ~> pc[p] = "down"
=============================================================================
