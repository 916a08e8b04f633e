-------------------------------- MODULE Fence --------------------------------
(***************************************************************************)
(* The idempotency fence: Guard.Run (internal/idempotency/guard.go) over    *)
(* the Redis store (store.go, retry.go) and the effect ledger the tools     *)
(* write to (internal/tools/ledger.go), for ONE idempotency key.            *)
(*                                                                         *)
(* A member of Workers is one worker process that calls Guard.Run for the   *)
(* journaled tool call: the process that invoked it, or one that resumed    *)
(* the run later.  Nothing in the code stops two of them from living at     *)
(* the same time, and each reads its own configuration and its own clock.   *)
(*                                                                         *)
(* Time is the variable now, in ticks.  ToolInvoked was acknowledged no     *)
(* later than tick 0.                                                       *)
(***************************************************************************)
EXTENDS Integers

CONSTANTS
    Workers,          \* worker processes
    Reconcilable,     \* the tool implements Reconciler (open_pr; not apply_fix)
    ArgsHash,         \* ArgsHash[w]: the args hash the build of w computes
    ToolTimeout,      \* ToolTimeout[w]: DAE_TOOL_TIMEOUT of w
    TTL,              \* TTL[w]: DAE_IDEMPOTENCY_TTL of w
    Skew,             \* Skew[w]: the clock of w minus the true time
    InvokedAt,        \* the ToolInvoked event's occurred_at, as journaled
    StaleGrace, ExpiryMargin, PollInterval,
    MaxClaimRaces, RetryAttempts,
    OpDelay,          \* longest time a retry block and the local code after it take
    CommandLife,      \* longest time an abandoned command stays in flight
    Responsive,       \* FALSE: a worker may be paused for any length of time
    SharedLedger,     \* TRUE: other runs append to the same ledger file
    LastStart,        \* bound: no worker starts after this tick
    MaxTime           \* bound: the clock stops here

ASSUME ConstantsAssumption ==
    /\ Reconcilable \in BOOLEAN
    /\ Responsive \in BOOLEAN
    /\ SharedLedger \in BOOLEAN
    /\ ToolTimeout \in [Workers -> Nat]
    /\ TTL \in [Workers -> Nat]
    /\ Skew \in [Workers -> Int]
    /\ InvokedAt \in Int
    /\ StaleGrace \in Nat
    /\ ExpiryMargin \in Nat
    /\ PollInterval \in Nat
    /\ MaxClaimRaces \in Nat \ {0}
    /\ RetryAttempts \in Nat \ {0}
    /\ OpDelay \in Nat
    /\ CommandLife \in Nat
    /\ LastStart \in Nat
    /\ MaxTime \in Nat

VARIABLES
    now,      \* true time
    redis,    \* the record under the key, or Absent
    expires,  \* when Redis drops the record
    net,      \* commands whose attempt timed out and that may still be applied
    ledger,   \* workers that have an entry in the ledger file under the key
    corrupt,  \* the ledger file has a line that does not decode
    holders,  \* history: every claim token the key has ever held
    pc,       \* pc[w]: where Guard.Run is in w
    mine,     \* mine[w]: the last record w minted
    seen,     \* seen[w]: the claim of another worker that w waits for or takes over
    by,       \* by[w]: when the current block of w ends at the latest
    race,     \* race[w]: passes through the decision table so far
    tries,    \* tries[w]: failed attempts of the current retry block
    out       \* out[w]: what Run returns, in the making until pc[w] = "done"

redisVars == <<redis, expires, net, holders>>
toolVars == <<ledger, corrupt>>
workerVars == <<pc, mine, seen, by, race, tries, out>>
vars == <<now, redisVars, toolVars, workerVars>>

-----------------------------------------------------------------------------
(* Records (record.go).  uuid.NewString never repeats: a token is named by   *)
(* the pass that minted it, what it was minted for and when.                 *)

Token == [by : Workers, race : 1..MaxClaimRaces, op : {"claim", "takeover"},
          at : Int]

Record == [state : {"claimed", "resolved"}, token : Token, at : Int,
           hash : {ArgsHash[w] : w \in Workers},
           status : {"none", "success", "error"}]

Absent == [state |-> "absent"]

(* A compare-and-set, or the SET NX of a claim (op "claim" ignores expect).  *)
Command == [op : {"claim", "cas"}, expect : Token, rec : Record,
            ttl : Nat, until : Int]

Blocks == {"claim", "poll", "reconcile", "takeover", "recheck", "resolve"}
PCs == Blocks \cup {"idle", "sleep", "execute", "executing", "done", "crashed"}

Outcomes == {"executed", "cached", "reconciled", "reexecuted"}
Errors == {"fence_unavailable", "unresolvable", "record_mismatch",
           "outcome_unknown"}

Live(w) == pc[w] \notin {"idle", "done", "crashed"}

(* GuardConfig.Now on the machine of w.                                      *)
Clock(w) == now + Skew[w]

NewRecord(w, r, op) ==
    [state  |-> "claimed",
     token  |-> [by |-> w, race |-> r, op |-> op, at |-> Clock(w)],
     at     |-> Clock(w),
     hash   |-> ArgsHash[w],
     status |-> "none"]

Resolved(rec, status) == [rec EXCEPT !.state = "resolved", !.status = status]

(* Mutant: the grace period is forgotten.                                    *)
IsStaleWithoutGrace(w, rec) == Clock(w) - rec.at >= ToolTimeout[w]

IsStale(w, rec) == Clock(w) - rec.at >= ToolTimeout[w] + StaleGrace

(* Mutant: an absent key is always taken as proof of "never claimed".        *)
KeyNeverExpires(w) == FALSE

KeyMayHaveExpired(w) == Clock(w) - InvokedAt >= TTL[w] - ExpiryMargin

Mismatch(w, rec) == rec.hash # ArgsHash[w]

HoldsClaim(rec, token) == rec.state = "claimed" /\ rec.token = token

-----------------------------------------------------------------------------
(* The store.  Put is SET ... EX.                                            *)

Put(rec, ttl) ==
    /\ redis' = rec
    /\ expires' = now + ttl
    /\ holders' = holders \cup {rec.token}

StoreUnchanged == UNCHANGED <<redis, expires, holders>>

ClaimCommand(w) ==
    [op |-> "claim", expect |-> mine[w].token, rec |-> mine[w],
     ttl |-> TTL[w], until |-> now + CommandLife]

CasCommand(w, expect, rec) ==
    [op |-> "cas", expect |-> expect, rec |-> rec,
     ttl |-> TTL[w], until |-> now + CommandLife]

(* The guard a command is applied under: NX, or casScript's two checks.      *)
Applicable(c) ==
    \/ c.op = "claim" /\ redis = Absent
    \/ c.op = "cas" /\ HoldsClaim(redis, c.expect)

(* A command whose reply nobody waits for any more reaches Redis.            *)
Land(c) ==
    /\ net' = net \ {c}
    /\ \/ Applicable(c) /\ Put(c.rec, c.ttl)
       \/ ~Applicable(c) /\ StoreUnchanged
    /\ UNCHANGED <<now, toolVars, workerVars>>

-----------------------------------------------------------------------------
(* Control flow of Guard.Run in w.                                           *)

Moves(w, p, s, b, o) ==
    /\ pc' = [pc EXCEPT ![w] = p]
    /\ seen' = [seen EXCEPT ![w] = s]
    /\ by' = [by EXCEPT ![w] = b]
    /\ out' = [out EXCEPT ![w] = o]
    /\ tries' = [tries EXCEPT ![w] = 0]

Nothing == [kind |-> "none", status |-> "none"]

(* The call is over and its local state is gone.                             *)
Ends(w, p, o) ==
    /\ Moves(w, p, Absent, 0, o)
    /\ mine' = [mine EXCEPT ![w] = Absent]
    /\ race' = [race EXCEPT ![w] = 0]

(* Run returns.                                                              *)
Return(w, kind, status) == Ends(w, "done", [kind |-> kind, status |-> status])

(* attempt: a pass through the decision table starts at Claim.               *)
Attempt(w) ==
    /\ Moves(w, "claim", Absent, now + OpDelay, Nothing)
    /\ race' = [race EXCEPT ![w] = @ + 1]
    /\ mine' = [mine EXCEPT ![w] = NewRecord(w, race[w] + 1, "claim")]

(* errRestart: the next pass, or the claim race is lost for good.            *)
Restart(w) ==
    \/ race[w] < MaxClaimRaces /\ Attempt(w)
    \/ race[w] >= MaxClaimRaces /\ Return(w, "fence_unavailable", "none")

(* Mutant: the type assertion to Reconciler is not checked.                  *)
ReconcileUnchecked(w, stale) ==
    /\ Moves(w, "reconcile", stale, now + OpDelay, Nothing)
    /\ UNCHANGED <<mine, race>>

(* reconcile: rows 2 (stale = Absent, the claim is our own) and 7 to 9.      *)
Reconcile(w, stale) ==
    \/ /\ Reconcilable
       /\ Moves(w, "reconcile", stale, now + OpDelay, Nothing)
       /\ UNCHANGED <<mine, race>>
    \/ ~Reconcilable /\ Return(w, "unresolvable", "none")

(* execute up to the after_claim crash point.                                *)
Execute(w, kind) ==
    /\ Moves(w, "execute", Absent, by[w], [kind |-> kind, status |-> "none"])
    /\ UNCHANGED race

(* acquired: rows 1 and 2.                                                   *)
Acquired(w) ==
    \/ KeyMayHaveExpired(w) /\ Reconcile(w, Absent)
    \/ ~KeyMayHaveExpired(w) /\ Execute(w, "executed") /\ UNCHANGED mine

(* The top of waitUntilSettled's loop for a claim of another worker.         *)
WaitUntilSettled(w, rec) ==
    \/ IsStale(w, rec) /\ Reconcile(w, rec)
    \/ /\ ~IsStale(w, rec)
       /\ Moves(w, "sleep", rec, now + PollInterval, Nothing)
       /\ UNCHANGED <<mine, race>>

(* Rows 4 to 6 for a record that is not our own claim.                       *)
Settle(w, rec) ==
    \/ Mismatch(w, rec) /\ Return(w, "record_mismatch", "none")
    \/ /\ ~Mismatch(w, rec)
       /\ \/ rec.state = "resolved" /\ Return(w, "cached", rec.status)
          \/ rec.state = "claimed" /\ WaitUntilSettled(w, rec)

(* existing: rows 3 to 6.                                                    *)
Existing(w, rec) ==
    \/ HoldsClaim(rec, mine[w].token) /\ Acquired(w)
    \/ ~HoldsClaim(rec, mine[w].token) /\ Settle(w, rec)

(* resolve starts: by now the outcome is definite.                           *)
Resolve(w, kind, status) ==
    /\ Moves(w, "resolve", Absent, now + OpDelay,
             [kind |-> kind, status |-> status])
    /\ UNCHANGED <<mine, race>>

(* Mutant: rr.Applied is read the wrong way round.                           *)
ActOnReconciledSwapped(w) ==
    \/ out[w].kind = "reexecuted" /\ Resolve(w, "reconciled", "success")
    \/ out[w].kind = "reconciled" /\ Execute(w, "reexecuted") /\ UNCHANGED mine

(* The end of reconcile, with the claim that is now held.                    *)
ActOnReconciled(w) ==
    \/ out[w].kind = "reconciled" /\ Resolve(w, "reconciled", "success")
    \/ out[w].kind = "reexecuted" /\ Execute(w, "reexecuted") /\ UNCHANGED mine

(* Mutant: one attempt too many.                                             *)
RetryOnceMore(w) ==
    /\ tries[w] < RetryAttempts
    /\ tries' = [tries EXCEPT ![w] = @ + 1]
    /\ UNCHANGED <<pc, mine, seen, by, race, out>>

(* One more attempt of the retry block failed but the block goes on.         *)
RetryAgain(w) ==
    /\ tries[w] + 1 < RetryAttempts
    /\ tries' = [tries EXCEPT ![w] = @ + 1]
    /\ UNCHANGED <<pc, mine, seen, by, race, out>>

(* The retry block is exhausted.                                             *)
GiveUp(w) ==
    /\ tries[w] + 1 >= RetryAttempts
    /\ Return(w, "fence_unavailable", "none")

(* Mutant: the attempts are not counted.                                     *)
UnansweredForEver(w) == UNCHANGED workerVars

Unanswered(w) == RetryAgain(w) \/ GiveUp(w)

-----------------------------------------------------------------------------
(* The steps of a worker.                                                    *)

(* Guard.Run's call.  Its two early errors, a nil key and arguments that     *)
(* cannot be hashed, do not occur with a journaled call (see README).        *)
Start(w) ==
    /\ pc[w] = "idle"
    /\ now <= LastStart
    /\ Attempt(w)
    /\ UNCHANGED <<now, redisVars, toolVars>>

ClaimAnswered(w) ==
    /\ pc[w] = "claim"
    /\ \/ redis = Absent /\ Put(mine[w], TTL[w]) /\ Acquired(w)
       \/ redis # Absent /\ StoreUnchanged /\ Existing(w, redis)
    /\ UNCHANGED <<now, net, toolVars>>

ClaimUnanswered(w) ==
    /\ pc[w] = "claim"
    /\ net' = net \cup {ClaimCommand(w)}
    /\ Unanswered(w)
    /\ StoreUnchanged
    /\ UNCHANGED <<now, toolVars>>

Wake(w) ==
    /\ pc[w] = "sleep"
    /\ now >= by[w]
    /\ Moves(w, "poll", seen[w], now + OpDelay, Nothing)
    /\ UNCHANGED <<now, redisVars, toolVars, mine, race>>

PollAnswered(w) ==
    /\ pc[w] = "poll"
    /\ \/ redis = Absent /\ Restart(w)
       \/ redis # Absent /\ Settle(w, redis)
    /\ UNCHANGED <<now, redisVars, toolVars>>

(* Get and Reconcile only read: a failed attempt leaves nothing behind.      *)
ReadUnanswered(w) ==
    /\ pc[w] \in {"poll", "reconcile", "recheck"}
    /\ Unanswered(w)
    /\ UNCHANGED <<now, redisVars, toolVars>>

(* FindByKey on the ledger, then takeOver mints its record.                  *)
ReconcileAnswered(w) ==
    /\ pc[w] = "reconcile"
    /\ ~corrupt
    /\ LET kind == IF ledger # {} THEN "reconciled" ELSE "reexecuted" IN
       \/ /\ seen[w] # Absent
          /\ Moves(w, "takeover", seen[w], now + OpDelay,
                   [kind |-> kind, status |-> "none"])
          /\ mine' = [mine EXCEPT ![w] = NewRecord(w, race[w], "takeover")]
          /\ UNCHANGED race
       \/ /\ seen[w] = Absent
          /\ kind = "reconciled"
          /\ Resolve(w, "reconciled", "success")
       \/ /\ seen[w] = Absent
          /\ kind = "reexecuted"
          /\ Execute(w, "reexecuted")
          /\ UNCHANGED mine
    /\ UNCHANGED <<now, redisVars, toolVars>>

(* Mutant: a lost compare-and-set is not noticed.                            *)
TakeOverUnchecked(w) ==
    /\ pc[w] = "takeover"
    /\ \/ HoldsClaim(redis, seen[w].token) /\ Put(mine[w], TTL[w])
       \/ ~HoldsClaim(redis, seen[w].token) /\ StoreUnchanged
    /\ ActOnReconciled(w)
    /\ UNCHANGED <<now, net, toolVars>>

TakeOverAnswered(w) ==
    /\ pc[w] = "takeover"
    /\ \/ /\ HoldsClaim(redis, seen[w].token)
          /\ Put(mine[w], TTL[w])
          /\ ActOnReconciled(w)
       \/ /\ ~HoldsClaim(redis, seen[w].token)
          /\ Moves(w, "recheck", seen[w], now + OpDelay, out[w])
          /\ StoreUnchanged
          /\ UNCHANGED <<mine, race>>
    /\ UNCHANGED <<now, net, toolVars>>

TakeOverUnanswered(w) ==
    /\ pc[w] = "takeover"
    /\ net' = net \cup {CasCommand(w, seen[w].token, mine[w])}
    /\ Unanswered(w)
    /\ StoreUnchanged
    /\ UNCHANGED <<now, toolVars>>

RecheckAnswered(w) ==
    /\ pc[w] = "recheck"
    /\ \/ HoldsClaim(redis, mine[w].token) /\ ActOnReconciled(w)
       \/ ~HoldsClaim(redis, mine[w].token) /\ Restart(w)
    /\ UNCHANGED <<now, redisVars, toolVars>>

(* context.WithTimeout(ctx, ToolTimeout), then the tool's Execute.           *)
BeginExecute(w) ==
    /\ pc[w] = "execute"
    /\ Moves(w, "executing", Absent, now + ToolTimeout[w], out[w])
    /\ UNCHANGED <<now, redisVars, toolVars, mine, race>>

(* Execute has come to Ledger.Record: open_pr only if it could read the      *)
(* file, which another run may have torn since.                              *)
MayRecord(w) ==
    /\ pc[w] = "executing"
    /\ now <= by[w]
    /\ corrupt /\ Reconcilable => SharedLedger

(* The whole line is in the file; behind a line of another run that lost its *)
(* newline it makes one that does not decode.                                *)
AppendLine(w) ==
    /\ ledger' = ledger \cup {w}
    /\ UNCHANGED corrupt \/ (SharedLedger /\ corrupt' = TRUE)

(* Ledger.Record appended the whole line and Execute returned its result.    *)
ExecuteApplies(w) ==
    /\ MayRecord(w)
    /\ AppendLine(w)
    /\ Resolve(w, out[w].kind, "success")
    /\ UNCHANGED <<now, redisVars>>

(* An error that asserts the effect did not happen, before the deadline.     *)
ExecuteFails(w) ==
    /\ pc[w] = "executing"
    /\ now < by[w]
    /\ Resolve(w, out[w].kind, "error")
    /\ UNCHANGED <<now, redisVars, toolVars>>

(* Mutant: a failed Sync is reported as "did not happen".                    *)
ExecuteUnknownAsError(w) ==
    /\ MayRecord(w)
    /\ AppendLine(w)
    /\ Resolve(w, out[w].kind, "error")
    /\ UNCHANGED <<now, redisVars>>

(* ErrOutcomeUnknown from Record: the line is written but Sync or Close      *)
(* failed, or only a part of it was written.                                 *)
ExecuteUnknown(w) ==
    /\ MayRecord(w)
    /\ \/ AppendLine(w)
       \/ corrupt' = TRUE /\ UNCHANGED ledger
    /\ Return(w, "outcome_unknown", "none")
    /\ UNCHANGED <<now, redisVars>>

(* The deadline passed and Execute returned an error without an effect.      *)
ExecuteTimesOut(w) ==
    /\ pc[w] = "executing"
    /\ now >= by[w]
    /\ Return(w, "outcome_unknown", "none")
    /\ UNCHANGED <<now, redisVars, toolVars>>

(* A resolve that loses its claim is logged like any other failure.          *)
ResolveAnswered(w) ==
    /\ pc[w] = "resolve"
    /\ \/ HoldsClaim(redis, mine[w].token)
          /\ Put(Resolved(mine[w], out[w].status), TTL[w])
       \/ ~HoldsClaim(redis, mine[w].token) /\ StoreUnchanged
    /\ Return(w, out[w].kind, out[w].status)
    /\ UNCHANGED <<now, net, toolVars>>

(* resolve_failed: the outcome is returned all the same.                     *)
ResolveUnanswered(w) ==
    /\ pc[w] = "resolve"
    /\ net' = net \cup
         {CasCommand(w, mine[w].token, Resolved(mine[w], out[w].status))}
    /\ \/ RetryAgain(w)
       \/ /\ tries[w] + 1 >= RetryAttempts
          /\ Return(w, out[w].kind, out[w].status)
    /\ StoreUnchanged
    /\ UNCHANGED <<now, toolVars>>

(* kill -9, or an injected crash (crash.go), at any point.                   *)
Crash(w) ==
    /\ Live(w)
    /\ Ends(w, "crashed", Nothing)
    /\ UNCHANGED <<now, redisVars, toolVars>>

(* Another run tears the ledger file, or appends behind its own torn line:   *)
(* from now on nobody can read it (module Ledger).                           *)
Tear ==
    /\ SharedLedger
    /\ ~corrupt
    /\ corrupt' = TRUE
    /\ UNCHANGED <<now, redisVars, ledger, workerVars>>

(* Time passes; Redis drops an expired key.  A responsive worker never lets  *)
(* the block it is in overrun.                                               *)
Tick ==
    /\ now < MaxTime
    /\ Responsive => \A w \in Workers : Live(w) => now < by[w]
    /\ now' = now + 1
    /\ net' = {c \in net : now < c.until}
    /\ \/ /\ redis # Absent /\ now + 1 >= expires
          /\ redis' = Absent /\ expires' = 0
       \/ /\ redis = Absent \/ now + 1 < expires
          /\ UNCHANGED <<redis, expires>>
    /\ UNCHANGED <<holders, toolVars, workerVars>>

-----------------------------------------------------------------------------
Init ==
    /\ now = 0
    /\ redis = Absent
    /\ expires = 0
    /\ net = {}
    /\ ledger = {}
    /\ corrupt = FALSE
    /\ holders = {}
    /\ pc = [w \in Workers |-> "idle"]
    /\ mine = [w \in Workers |-> Absent]
    /\ seen = [w \in Workers |-> Absent]
    /\ by = [w \in Workers |-> 0]
    /\ race = [w \in Workers |-> 0]
    /\ tries = [w \in Workers |-> 0]
    /\ out = [w \in Workers |-> Nothing]

(* What a live worker does by itself.                                        *)
Step(w) ==
    \/ ClaimAnswered(w) \/ ClaimUnanswered(w)
    \/ Wake(w) \/ PollAnswered(w) \/ ReadUnanswered(w)
    \/ ReconcileAnswered(w)
    \/ TakeOverAnswered(w) \/ TakeOverUnanswered(w) \/ RecheckAnswered(w)
    \/ BeginExecute(w) \/ ExecuteApplies(w) \/ ExecuteFails(w)
    \/ ExecuteUnknown(w) \/ ExecuteTimesOut(w)
    \/ ResolveAnswered(w) \/ ResolveUnanswered(w)

Next ==
    \/ \E w \in Workers : Start(w) \/ Step(w) \/ Crash(w)
    \/ \E c \in net : Land(c)
    \/ Tear
    \/ Tick

Spec == Init /\ [][Next]_vars

(* A process that is not killed keeps running, and time passes.              *)
FairSpec == Spec /\ WF_vars(Tick) /\ \A w \in Workers : WF_vars(Step(w))

-----------------------------------------------------------------------------
(* Type invariant of Guard.Run, the store and the ledger.                    *)
TypeOK ==
    /\ now \in Nat
    /\ redis \in Record \cup {Absent}
    /\ expires \in Nat
    /\ net \subseteq Command
    /\ ledger \subseteq Workers
    /\ corrupt \in BOOLEAN
    /\ holders \subseteq Token
    /\ pc \in [Workers -> PCs]
    /\ mine \in [Workers -> Record \cup {Absent}]
    /\ seen \in [Workers -> Record \cup {Absent}]
    /\ by \in [Workers -> Nat]
    /\ race \in [Workers -> 0..MaxClaimRaces]
    /\ tries \in [Workers -> 0..(RetryAttempts - 1)]
    /\ out \in [Workers -> [kind : Outcomes \cup Errors \cup {"none"},
                            status : {"none", "success", "error"}]]

(* However the workers crash, wait, retry and take each other's claims over, *)
(* at most one of them writes an entry to the ledger under the key: the      *)
(* guarantee of key.go and of the README.                                    *)
AtMostOnceEffect == \A v, w \in ledger : v = w

(* execute "must only be reached while we hold the claim": the context of    *)
(* the tool call is created while Redis holds the caller's token, claimed.   *)
ExecuteHoldsClaim ==
    [][\A w \in Workers :
         pc[w] = "execute" /\ pc'[w] = "executing"
            => HoldsClaim(redis, mine[w].token)]_vars

(* A resolved record tells the truth about the ledger for as long as Redis   *)
(* keeps it, late commands included: success means an entry exists, error    *)
(* means none does.  It is what cacheHit hands to a resumed run.             *)
CachedOutcomeIsTrue ==
    redis.state = "resolved" => (redis.status = "success") = (ledger # {})

(* A tool that cannot be asked whether it took effect is called under the    *)
(* first claim the key ever held or not at all: no crash, expiry or takeover *)
(* makes a second worker call it.                                            *)
CalledUnderFirstClaim ==
    [][\A w \in Workers :
         ~Reconcilable /\ pc[w] = "execute" /\ pc'[w] = "executing"
            => holders = {mine[w].token}]_vars

(* Redis never moves a claim from one worker to another before the first     *)
(* one's deadline has passed, and a resolved record is only ever dropped by  *)
(* expiry: no command that arrives late undoes a decision.                   *)
ClaimIsRespected ==
    [][/\ redis.state = "claimed" /\ redis' # redis
            => \/ redis'.state = "resolved" /\ redis'.token = redis.token
               \/ \A w \in Workers :
                    pc[w] \in {"execute", "executing"}
                        => ~HoldsClaim(redis, mine[w].token)
       /\ redis.state = "resolved" /\ redis' # redis => redis' = Absent]_vars

(* A worker that called Run gets an answer, or is killed: no wait for a      *)
(* claim, no lost race and no retry goes on for ever.                        *)
RunReturns ==
    \A w \in Workers : pc[w] # "idle" ~> pc[w] \in {"done", "crashed"}

(* What Run returned, in the terms of the abstract specification.            *)
Answer(w) ==
    IF pc[w] # "done" THEN "none"
    ELSE IF out[w].status # "none" THEN out[w].status
    ELSE IF out[w].kind = "outcome_unknown" THEN "unknown" ELSE "refused"

(* Guard.Run implements the abstract effect: a second entry never appears,   *)
(* success is only reported when an entry exists and error when none does,   *)
(* and a caller that is told "the tool did not run" made none.               *)
Promise ==
    INSTANCE AtMostOnce WITH Callers <- Workers, effect <- ledger,
        answer <- [w \in Workers |-> Answer(w)]

KeepsPromise == Promise!Spec

=============================================================================
