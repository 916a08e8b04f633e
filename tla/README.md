# Verification of the durable agent execution runtime

The runtime lets an LLM agent run survive the death of its worker: every step
is journaled to Kafka before the next one, a resumed worker rebuilds the run by
replaying the journal, a Redis fence keeps a side-effecting tool from taking
effect twice, and a projector copies the journal into Postgres. This directory
holds TLA+ models of those parts, TLC configurations that check them on small
instances, and TLAPS proofs, for every instance, of each safety and action
property that those configurations check: of the fence, the ledger, the replay,
the projector, the agent loop and the worker that joins loop and fence.

`PROJECT.json` lists components, runs, mutants, the definition-to-source map,
findings, hazards and theorems.

## 1. Inventory

| Component | State | Operations | Correct when |
|---|---|---|---|
| Idempotency fence (`internal/idempotency`) | a Redis record per key (claimed/resolved, token, claimed_at, args hash), its TTL; per call: own record, stale record, attempts, races | `Guard.Run`: claim, wait, reconcile, take over, recheck, execute, resolve; `retry` around each | one effect per key; the tool is called only under a held claim; a cached outcome is true; every call returns |
| Effect ledger and tools (`internal/tools`) | an append-only JSON-lines file that all runs share | `Record`, `Entries`, `FindByKey`; `Execute`, `Reconcile`, `run_tests` | an error without `ErrOutcomeUnknown` means no effect; "not found" is true |
| Replay fold (`internal/replay`) | `RunState` | `Apply`, `Fold`, `computeNextAction`, `TerminalPayload`, `Messages`, `Digest` | redelivery is a no-op, conflicts are refused, the next action leaves no work behind, terminal is final; equal states have equal digests |
| Agent loop (`internal/agent`) | the `RunState` it drives from | `drive` and one handler per next action, `publishApplyPrint` | decisions follow the journal; an effect is journaled first; its result is true |
| Worker (`cmd/worker`) | none of its own | start, resume, exit code | exit codes tell whether the run is resumable |
| Kafka access (`internal/kafka`, `kafka_source.go`) | the log | publish (ambiguous on error), scan to the high watermark | the log of a run folds; a scan returns what was acknowledged |
| Projector and store (`cmd/projector`, `internal/store`) | committed offset, `events`, `runs` | fetch, `ApplyEvent` in one transaction, retry, commit | tables are a prefix of the partition and agree with a replay |
| Command-line tools (`scripts/effects`, `scripts/replay`) | - | count duplicates; replay from Kafka or Postgres, up to a sequence number | exit codes are evidence; both sources print the worker's digest |
| Codec (`internal/events`), migration, topics, connectivity | - | encode/decode, start-up | only through the parts above |

How they interact: the loop publishes to Kafka and applies its own events with
the same `Apply` that replay and the projector's reader use; for a call whose
journaled `has_side_effect` is true it calls the fence, which talks to Redis and
to the tool; the projector consumes what workers publish. No process shares
memory with another: they meet in Kafka, Redis, Postgres and the ledger.

What is hard: a command or write whose reply is lost may take effect at once,
later or never (Redis and Kafka); two workers may live at the same time with
different configurations and clocks; keys expire; a process may die between any
two steps; a line of the ledger may be torn by one run and break another's; a
rebalanced projector goes on with the message it holds. The list,
line by line, is `hazards` in `PROJECT.json`.

## 2. Modules

| Module | Models | Notes |
|---|---|---|
| `Fence` | `guard.go`, `store.go`, `retry.go`, `record.go`, `ledger.go`, the tools, for one key | one action per reply (or missing reply) of a retry block |
| `AtMostOnce` | what the fence promises, without claims or clocks | `Fence` implements it: `KeepsPromise` |
| `FenceTiming` | the timing assumption and `loadConfig` | `ConfigAccepted` is what the code checks of it |
| `FenceInvariant` | the inductive invariants `IInv` and `PromiseInv` | used by TLC and by the proofs |
| `FenceProofs`, `FencePromiseProofs` | theorems about `Fence`, the second one on what callers are told | section 5 |
| `LedgerProofs`, `ReplayProofs`, `ProjectorProofs`, `LoopProofs`, `RuntimeProofs` | theorems about `Ledger`, `Replay`, `Projector`, `AgentLoop`, `Runtime`, with their invariants | section 5 |
| `RunFoldProofs` | lemmas about `Apply`, `NextAction`, `Fold` and `Messages` | used by all but the ledger's and the fence's |
| `RunFold` | `fold.go`, `state.go`, `terminal.go`, the shape of `messages.go` | operators only |
| `Replay` | `kafka_source.go`, `reader.go`, `replay.go`, the digest of `messages.go`, `scripts/replay`, for one partition | uses `RunFold` |
| `Ledger` | `ledger.go`, the tools and `scripts/effects`, for one file of several runs | justifies what `Fence` keeps of the file |
| `AgentLoop` | `loop.go`, `cmd/worker/main.go`, publisher and event source, for one run | uses `RunFold`, and the fence through `AtMostOnce`'s two actions |
| `Runtime` | `executeFenced` tying the loop to `Guard.Run`, for one call | instantiates `AgentLoop` and `Fence`, implements the former |
| `Projector` | `cmd/projector/main.go`, `internal/store`, for one partition | uses `RunFold` for the producers and the reference replay |
| `MCFence`, `MCFenceFaults`, `MCAgentLoop`, `MCRuntime`, `MCLedger`, `MCReplay`, `MCProjector` | instances for TLC | values of constants only |

**Fence.** `pc[w]` is the place in `Guard.Run`: a name in `Blocks` is a retry
block that waits for Redis or for `Reconcile`. A reply runs all code up to the
next block in the same step, because nothing else of that process runs in
between. `mine[w]` is the record in the local variable `mine`, `seen[w]` the
stale claim, `race[w]` and `tries[w]` the two loop counters, `out[w]` the outcome
in the making. An attempt without a reply puts its command into `net`, from where
it may reach Redis (`Land`) until `until`. `by[w]` is the latest time at which the
current block ends: `OpDelay` bounds a retry block with the code after it, the
tool timeout bounds `executing`. `corrupt` is a torn ledger line, which makes
every later `FindByKey` fail; with `SharedLedger` other runs may tear one at any
moment (`Tear`), also between open_pr's read and its write. `holders` is a history variable used only by
properties. Clocks are `now + Skew[w]`; `claimed_at`, staleness and expiry are
computed from them as in the code.

**RunFold.** A `RunState` keeps what decisions read; `PendingToolCalls`,
`InFlightTool` and `NextAction`, which the code stores, are functions of it. The
first two are sets of positions in the tool order of the last step, of which the
loop takes the least. `stop`
stands for `stop_reason` and `is_terminal`, which the loop derives from it
(loop.go:228). `Fold` is a recursive function over the positions of the log.

**AgentLoop.** `journal` is the fold of the log, kept event by event (a replay
at this moment). `limbo` holds writes without acknowledgement. `StartPublishing`
to `PublishAcked`/`PublishUnanswered` is `publishApplyPrint`. The fence appears as
`FenceApplies` and `FenceReplies`, the actions `Apply` and `Reply` of `AtMostOnce`:
`Fence` is shown to implement exactly these. With `OneAtATime` one worker is alive
at a time, the rule docs/concepts/phase3.md:96 gives to the operator.
`StartupFails` is every exit before the first event. The third alternative of `CallLLM` is a
nil answer, or one that cannot be encoded (loop.go:216-223): exit 1 and no event, so
exit 1 can leave a run that a resume finishes. It counts as a fault, which
`RunTerminates` needs: an LLM that never answers keeps a run from ending.

**Runtime.** The two modules above, joined as `executeFenced` joins them: a call
enters `Guard.Run` in the step in which the loop reaches it, every step of
`Guard.Run` but the last leaves the loop alone, and the last one publishes the
verdict or exits. `effects` of the loop is the ledger of the fence. The model starts
where ToolInvoked has been acknowledged, the first moment at which the fence
matters, and lets two workers have the run at once (`OneAtATime` is FALSE).
`ImplementsLoop` says that the joined system takes only steps of `AgentLoop`: the
loop's promise-level view of the fence hides no behaviour. With two live workers
the log may hold conflicting events (as in `loop_late_write`), so `JournalReplays` is
not claimed; `OneEffect` and `SuccessIsTrue` are what remains and has to hold.
`RuntimeAssumption` collects what the two parts assume, and that the invoking worker
is one of the workers and the tool is asked for by the first answer only.

**Ledger.** The file is a sequence of lines, a line the sequence of texts written
into it, because an append behind a line without newline joins that line.
`Readable` is `parseLedger`: one bad line fails every reader. The fence is left out
here, so two calls may have one key and the duplicate count has something to
find. `FenceView` is the contract with `Fence`: per key, the file moves only as
`ExecuteApplies`, `ExecuteUnknown` and `Tear` say.

**Replay.** `partition` holds the run's events, duplicates and messages of other
runs; `hwm` is the high watermark. The digest is the tuple of fields that is
hashed; arguments carry their key order and the tool in flight the time zone of
its timestamp, since pgx scans TIMESTAMPTZ into the local zone (`LocalZone`).
`printed` records the digests a worker prints while it applies. Postgres is read
once the projector has reached the watermark; what it holds before is `Projector`'s
subject. `Scan` is the reading loop, a recursive function over the partition.

**Projector.** `pos[p]` is the message a process works on, `offset` what the
group has committed. A transaction is one step; `ApplyAmbiguous` is a commit
whose reply was lost. Producers publish any event their run accepts, a retried
write twice and, with `Conflicts`, a second event under a used sequence number.

## 3. Runs

| Run | Question | Result |
|---|---|---|
| `fence_two_workers` | two workers, one key, every crash, lost reply, late command, expiry and takeover | one effect, true outcomes, claims respected, `AtMostOnce` implemented, `PromiseInv` holds |
| `fence_mixed_config` | clocks, timeouts and TTLs that differ as far as the assumption allows; other runs tear the ledger | one effect, true outcomes, and every call returns (under fairness) |
| `fence_apply_fix` | a tool without `Reconcile`; one build hashes arguments differently | called under the first claim or never, `PromiseInv` holds |
| `fence_raised_ttl` | TTL raised between crash and resume | **violated**: two effects |
| `loop_crashes` | one run over crashes, failed starts, ambiguous writes, all kinds of LLM answers, resumed by the same build or one with another registry | journal, decisions, effects, results, prompts and exit codes agree |
| `loop_liveness` | does a run end once faults stop | yes, under fairness |
| `loop_late_write` | a write lands after the successor replayed | **violated**: the log no longer folds |
| `runtime_two_live` | the loop over the real fence, two live workers on one run | one effect, no false success, implements `AgentLoop` |
| `ledger_shared` | two runs, one file, partial writes, failed syncs, kills, torn and glued lines | readers get the truth or an error; exit codes of `effects` are evidence |
| `replay` | any producer, duplicates, other runs; both sources; every `--up-to-seq` | replays and digests agree with the live state, terminal is final |
| `projector_group` | two projectors, crashes, rebalances, duplicates, conflicts | tables follow the log, agree with a replay and catch up (under fairness) |
| `projector_bad_payload` | an event whose payload does not decode | **violated**: retried for ever |

Each property of a passing run has a mutant: a plausible slip in the mapped
definition (named "Mutant" in the module) for which TLC finds the property
violated.

**What the violated runs show.** They state what a comment, a document or the
README says and that the code does otherwise; `findings` quotes the lines. The
first one is a defect: the age test in `keyMayHaveExpired` uses the TTL of the
worker that asks, not of the one that wrote the key. Observations without a run of their own:

- with `Responsive = FALSE` TLC finds the tool called without its claim, the freeze
  docs/concepts/phase3.md:97 names as a limit;
- exit code 1 is documented as "RunFailed / CANCELLED, or a startup failure"
  (cmd/worker/main.go:49), but is returned without a terminal event too, after a nil
  LLM answer;
- exit code 3, "no terminal event written" (cmd/worker/main.go:51), can leave a
  terminal event whose acknowledgement was lost;
- messages.go:88-90 promises one digest "whether their events came from Kafka or
  from Postgres". With a tool in flight and a machine zone other than UTC the two
  differ, because the digest takes in `InvokedAt` with its zone. `DigestsAgree` is
  stated with that exception; without it TLC finds the violation at the first
  ToolInvoked;
- `has_side_effect` is journaled from the registry of the worker that publishes
  ToolInvoked. When that build lacks the tool and a later one has it, the call is
  executed without the fence, once per resume. The registries of `loop_crashes` lose
  a side-effecting tool and gain one without effects; a gained side-effecting
  tool is left out there;
- messages.go:78-84 says that a run that stopped but has no terminal event yet has
  `ActionNone`. Since `FINISH_RUN` exists (fold.go:345-362) it no longer has; `NextActionFits`
  states what the code does, and the comment is stale;
- `digestView` has no stop_reason: states after end_turn and after max_tokens hash
  alike although `TerminalPayload` ends the one as completed, the other as failed.

**Bounds.** Fence: `MaxTime` exceeds the TTL by several ticks and `LastStart` is
not before the expiry of a key claimed at tick 0, so a worker can start before,
during and after a stale or expired claim; two races and, in `fence_two_workers`,
two attempts give each loop its first, its last and its exhausted pass; a late
command outlives the worker that sent it. Time is in ticks: only the order of deadlines matters to the
code, and the constants keep the order that production values have (30 s grace,
1 min margin, timeouts below the TTL). Loop: two LLM answers and steps reach the
step limit, an open batch and a second answer; two faults allow a crash
during recovery from a crash. Runtime: one call of a reconcilable tool and two
faults, so that each worker can crash, give up or stay; the step limit of one ends
the run after the result, since what the loop does then no longer meets the fence
and is covered by `loop_crashes`. Ledger: two calls of one key, a fix of the same
run and a call of another run. Replay: six events cover a two-tool batch with both
results, or a one-tool batch, its result and a terminal event, with one duplicate
or foreign message at any place. Projector: four messages over two runs and two
faults allow a rebalance inside a redelivery. `MaxCalls`, `MaxFaults`, `MaxLog`,
`MaxEvents`, `MaxExtras`, `LastStart` and `MaxTime` are bounds of the checks and have no
counterpart in the code. `CHECK_DEADLOCK FALSE`: a call, a run and a drained
partition do come to an end.

**Fairness.** `WF(Step(w))`: a process that is not killed goes on, each of its
waits has a timeout (`retryAttemptTimeout`, the tool deadline, `pollInterval`).
`WF(Tick)`: time passes. `WF(ResumeRun(w))`, `WF(Restart(p))`: the operator or the
orchestrator starts a new process when one is gone, as the README describes.
`Land`, `Tear`, `Crash`, `Rebalance` and the producers are never fair. `CatchesUp` has
the form `<>[]`: the log is bounded, so producers stop at some point, and from then
on every message without a conflict at or before it has to be in the table.

## 4. The timing assumption

`TimingAssumption` (in `FenceTiming`) is what the fence needs and the code mostly
does not check:

- `Responsive`: no process is suspended in the middle of a block;
- three blocks and the tool call of any worker fit into the staleness threshold
  of any other, clocks included;
- a key written with the TTL of `v` looks expired to `w` when it is gone;
- a claim outlives the commands and the tool call it was made for;
- `ConfigAccepted`: the timeout is positive, and tool timeout, grace and margin fit
  into the TTL (`config.go:58`). This is the one that `loadConfig` checks.

Without the third one there is a second effect (`fence_raised_ttl`), without the
first the tool may run without its claim.

## 5. Proofs

Every theorem holds for all values of the constants that the named `ASSUME`s
allow: any number of workers, calls, runs, steps, attempts and faults. The `Max...`
bounds are constants like any other.

### The fence

`TypeCorrect`: `Spec => []TypeOK`, from `ConstantsAssumption` alone. `TypeOK` is not
inductive: `Attempt` needs a live worker's race counter to be non-zero, a takeover
needs a record to compare with. `Shape` adds that.

`InvariantHolds`: `Spec => []IInv`, from both assumptions. `AtMostOnceEffect` says
nothing about why a worker that is about to call the tool is alone, so `IInv` adds:

- `StoreInv`: the key lives as long as its writer's TTL, and once it is gone every
  worker knows that it may have expired;
- `CommandInv`, for each command under way: a claim that Redis has already seen
  dies before the key does; a takeover was sent for a claim that was stale, and
  cannot apply a second time; a resolve belongs to a worker that is done;
- `MineInv`, `FreshInv`: a worker's token is its own, recent and never seen before;
- `SeenInv`: the claim being taken over was stale when the worker's own record
  was minted;
- `ClaimInv`: a worker that acts on its claim holds it, and a claim that left
  Redis does not come back;
- `UnspentInv`: whoever may still go on to call the tool does so on an empty ledger.

The argument: `PutStore`, `PutNet`, `PutWorker` and `ResolvedWorker` say what any write to
Redis does to the store, the commands and a worker that does not move;
`QuietWorker` and `LedgerWorker` do the same for sends and effects; the `Own...`
lemmas treat the worker that moves; each action then combines these. The two
arithmetic facts everything rests on are `NotYetStale` (a claim whose holder may
still act is stale to nobody) and `GoneLooksExpired`. From it follow
`EffectAtMostOnce` and `ToolCallHoldsClaim`.

`PromiseInvHolds`: `Spec => []PromiseInv`. `IInv` says who may act, not that what a
worker is about to report is still true when the report arrives. `TruthInv` adds
`OutcomeInv` (a worker at `resolve` has a success with the effect in the ledger, or an
error with an empty ledger *and* its token still in Redis, early enough that nobody
can find it stale), `ReportInv` (a resolve under way is true, or its token has left
Redis and it cannot be applied any more) and that whoever wrote the ledger has left
the tool call. The error case is the delicate one: "error" stays true only while the
token keeps everybody else out. `FirstInv` says, for a tool without `Reconcile`, that
a claim which is not the key's first is known to follow an expiry. From `PromiseInv`:
`CachedOutcomeHolds`, `ClaimRespected`, `FirstClaimOnly`, and `FenceKeepsPromise`, the
refinement of `AtMostOnce`: each action is a stutter, `Apply` or `Reply` under the
mapping `Answer`. The proofs cover `Tear` and both values of `SharedLedger`.

### The ledger

`LedgerInvariant`: every `Execute` has at most one text in the file, written on its way
to `done` or `killed`; no line is empty; an error answer has no text. `Adds` describes what
one `Write` does to the cells of the file, glued or not. From it: `ErrorsAreTrue`,
`AbsenceHolds`, `EffectsExitHolds` (the count of duplicates is a difference of two
cardinalities, so this one goes through injections and `FiniteSetTheorems`),
`TestsFixed`, and `FenceViewHolds`, which ties this module to what `Fence` assumes.

### The fold

`RunFoldProofs` has what `Apply` does to a state of the right type, by kind of
event: it keeps the type, an accepted event adds one sequence number, nothing
changes once the run is terminal, and no step but the last is ever open
(`ClosedButLast`). `NextAction` is right for such a state: no tool call is left behind.

`Fold` and `Messages` are recursive functions, so what they return for every log needs
induction over numbers. `NatSetInduction` is that rule for a set of numbers, proved
here because the library's has an operator as parameter, which the provers cannot
instantiate. From it come `FoldExists` and `FoldValue` (states that follow the log's
events step by step are the fold), `FoldAppend` (one more event is one more step),
`OrderedAppend` (a row with the next number is the next row) and `MessagesAlternate`
(when each step asked for tools and has all results, the prompt has a result for
every tool_use and its roles alternate).

### The replay

`ReplayInvariant` lifts the fold's lemmas to every partition a producer can write:
`TerminalHolds`, `OnlyLastOpenHolds`, `NextActionHolds`.

`DeliveryInvariant` relates what was written to what was applied. `HistoryInv`: the
events below the watermark carry the numbers from 0 to the consumer's next one, each
with one id. `UnderWayInv`: at most one message lies beyond the watermark, and if it
is this run's it is a duplicate or the next event. `PrintedInv`: one digest per applied
event, the last of the present state. `ScannedInv`: the scan of the partition and the
ordered rows both fold to the consumer's state, and each prefix by number to the
state that was printed then. A duplicate extends the scan without moving the fold; that
this holds at any place, also behind the terminal event, is the point of the proof.
From it: `ReplayAgreesHolds`, `UpToSeqHolds`, and `DigestsAgreeHolds` with the exception
for zones that section 3 explains.

### The projector

`ProjectorInvariant`: there is an `n` such that the tables hold exactly the first `n`
messages, the offset is at most `n` and no process is more than one message ahead
(`Prefix`). Two processes may hold the same message after a rebalance; that the second
one's insert is a redelivery, or a conflict that stops it, and never a gap, needs
`LogInv`: sequence numbers of a run appear in the log without a gap, two messages with
one number differ only in their id, and a terminal event is the last number of its
run. From it: `ProjectorTypes`, `RowsFollow`, `TerminalRowHolds`. Assumed of the
constants: at least one projector.

`RunsMatch` compares two independent computations: `upsertRun` writes the status and
the step event by event, the reader folds all rows. `MatchInv` names what joins them: of
the messages with one number the first in the log is the one that the table keeps
(`FirstsFirst`), and for each run there is a history of states `h` that follows these
first messages (`History`), of which the tables show the `m`-th: the rows of the run fold
to it and the runs row has its status and step (`Shows`). Redelivery stays at `m`, an
insert goes to `m + 1` by `OrderedAppend` and `FoldAppend`, a conflict rolls back.

### The agent loop

`LoopInvariant`, without further hypotheses: a worker publishes only an event its own
state accepts with the next sequence number, is inside the fence only with a
journaled tool in flight, and every effect has its `ToolInvoked` in the log. It gives
`LoopTypes` and `WriteAhead`, also for two live workers and late writes.

`SuccessBacked`, without further hypotheses either: every success that is journaled,
in `limbo` or about to be published is of a tool whose effect exists, or that has none.
`CONSTANT Earlier` of `LoopProofs` is a set of tool calls that were journaled before the
specification began: none for `AgentLoop` alone, the one call for `Runtime`, which
starts after ToolInvoked.

`JournalIsReplay`: `journal`, which the model keeps event by event, is the `Fold` of the
whole log, so a resumed worker that takes `journal` takes what a replay returns.

`PathInvariant`: while the log folds, no live worker is ahead of it, and one that has
applied as many events as the log has the log's state (`Behind`); the events with a
worker's name are numbered below its next one; if the event that the log took at a
publishing worker's next place is that worker's own (its write arrived unacknowledged),
then it moved the log as it will move the worker (`MovesAlike`). A worker that another
one has overtaken is therefore refused by the fold, not followed. The invariant
includes that each step before the last was answered (`Complete`), which makes `PromptAlwaysComplete` follow by `MessagesAlternate`: no LLM call
with a result missing or two turns of one role in a row, for conversations of any
length, also with two live workers and late writes. TLC checked
`PathInv` over 3,046,423 distinct states with two live workers and late writes before
it was proved.

The rest is proved under `OneAtATime /\ ~LateWrites`, the operator's rule and the
broker behaviour that `loop_late_write` shows to be needed; `loop_crashes` has the
same values. `JournalInvariant`: the log replays, a deciding worker has exactly the
state of the log, a publishing one is equal to the log or one event behind it (its
write arrived, the acknowledgement did not), and each write in `limbo` is in the log
already or is the one event awaited (`PublishMatches`, `LimboInv`). Every step is of one
of five kinds (`StepKinds`): it starts a publication, leaves, goes on, is acknowledged
or lands. From it: `JournalAlwaysReplays`, `LiveMatches`, `ExitHonest`.

`TruthInvariant` adds what is needed for results: tool_use ids of the steps are
apart from each other and from those still to come, each is invoked at most once and
by an event of the log, and each result, journaled or awaited, agrees with `effects`
(`StepsTrue`, `NextTrue`). From it: `ResultsStayTrue`. Assumed of the constants: the tools
of an LLM answer form a sequence.

TLC checked `JournalInv`, `TruthInv` and the parts of `LoopInv` on the instance of
`loop_crashes` before they were proved; they are no invariants of that run itself
because they repeat its properties.

### The worker as a whole

`RuntimeProofs` proves nothing about the loop or the fence again. It instantiates
`LoopProofs` and `FencePromiseProofs` with the variables of `Runtime`, and their
hypotheses follow from `RuntimeAssumption`. Since each step of `Runtime` is a step of
`Fence` or leaves its variables alone (`FenceStep`), `AtMostOneEffect` is
`EffectAtMostOnce` inside the worker. `RuntimeInv` says that `Guard.Run` is under way exactly
while its worker is at the fence, with the call in flight, and that the loop's own
`LoopInv` and `SuccessInv` hold. With it and `PromiseInv`, the truth of the outcome that
`OnReturn` publishes, every step is shown to be one of the loop's (`LoopRefines`):
`WorkerImplementsLoop`. `SuccessInLedger` is `SuccessInv` read through the mapping. All three
hold for two live workers and more.

### Only model-checked

The liveness properties `RunReturns`, `RunTerminates` and `CatchesUp`: the prover has no
rule that derives progress from fairness, and none for `ENABLED`. TLC checks them on
the instances of section 3.

The results under `OneAtATime` are about `AgentLoop` over the fence's promise; `Runtime`
has `OneAtATime = FALSE` and claims for the real fence what its three theorems say.

## 6. Not modelled

- Message and result texts, JSON text, SHA-256 and the two codec passes (a payload
  that does not decode is a flag, an undecodable envelope stops the projector as a
  conflict does): no decision reads them beyond the fields kept.
- Corrupt Redis values (`decodeRecord`): nothing in the code writes one.
- The errors of `Guard.Run` before its first command (guard.go:125-131): `runInFlightTool`
  fails the run for a nil key before the guard sees it, and arguments that were read
  from the journal are JSON, so they can be hashed.
- A run_id that is not the state's: every reader asks for one run's events.
- Poison messages that no producer here writes: an envelope that does not decode
  (cmd/projector/main.go:101-108) and a permanent SQLSTATE (155). Both leave the loop as
  `Poison` does, without a commit.
- Producers that the fold accepts and the runs table would show differently, such as an
  LLM answer while an approval is awaited: `upsertRun` takes the status from the event
  alone. No producer in the repository writes one, and `Publishable` admits none, so
  `RunsMatchReplay` says nothing about them.
- A projection that lags behind the log, in `Replay`: `PostgresEvents` is read at the
  watermark. What the tables hold before is `Projector`'s subject.
- Retention and compaction of the topic: it is created with `retention.ms = -1`.
- LLM retries inside one call: one choice between an answer, a failure that is
  journaled, and no usable answer, after which the worker exits without an event.
- The hash that picks a partition, broker dialling, `scripts/connectivity`,
  migrations and topic creation: pure I/O, without state of their own.
- The result number that open_pr counts from the ledger ("opened PR #2").
- The control plane, leases and Kubernetes parts that the documents announce; their
  events are among those of `Replay` and `Projector`.

## 7. Plan

Done, in this order: `Fence` with `AtMostOnce`; `RunFold` with `AgentLoop`;
`Projector`; the fence's invariant and its proofs; `Ledger` and the shared file in
`Fence`; `Runtime`; `Replay` with the digest and both event sources.

Then the proofs: the fence's outcomes and its refinement of `AtMostOnce`; `Ledger`;
the fold; `Projector`; `AgentLoop`; `Runtime` over the theorems of its parts; the fold
over a log, and with it the replay's agreement and the projector's; the prompt.

Every safety and action property of a passing run is now a theorem. What is open:

- the liveness properties, which stay with TLC;
- the control plane, leases and the chaos test, once the source has them: leases would
  replace `OneAtATime` in `AgentLoop` by a mechanism to be modelled.
