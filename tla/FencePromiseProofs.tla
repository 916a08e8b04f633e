-------------------------- MODULE FencePromiseProofs -------------------------
(***************************************************************************)
(* What Guard.Run tells its callers is true, a claim is respected, and the  *)
(* fence implements AtMostOnce, for every set of workers and every value of *)
(* the other constants under the timing assumption.                         *)
(***************************************************************************)
EXTENDS FenceProofs

(* A claim is neither stale nor expired before its holder's outcome has had  *)
(* the time to be resolved.                                                  *)
LEMMA ResolveInTime ==
    ASSUME NEW v \in Workers, NEW x \in Workers
    PROVE  /\ 3 * OpDelay + ToolTimeout[v] + Skew[x] - Skew[v]
                < ToolTimeout[x] + StaleGrace
           /\ 3 * OpDelay + ToolTimeout[v] < TTL[v]
  <1>1. /\ 3 * OpDelay + ToolTimeout[v] + Skew[x] - Skew[v]
             < ToolTimeout[x] + StaleGrace
        /\ 3 * OpDelay + ToolTimeout[v] + Skew[v] - Skew[v]
             < ToolTimeout[v] + StaleGrace
        /\ TTL[v] > ToolTimeout[v] + StaleGrace + ExpiryMargin
    BY TimingAssumption DEF TimingAssumption, ConfigAccepted
  <1>. QED
    BY <1>1, Constants

(* IInv, in the parts the lemmas of FenceProofs speak of.                    *)
LEMMA IInvParts ==
    ASSUME IInv
    PROVE  Shared /\ Local /\ Core /\ StoreInv /\ NetInv
           /\ \A v \in Workers : /\ MineInv(v) /\ FreshInv(v) /\ SeenInv(v)
                                 /\ ClaimInv(v) /\ UnspentInv(v)
  BY TypeOKParts DEF IInv, Core, WorkerInv

-----------------------------------------------------------------------------
(* Every way in which a step changes Redis.                                  *)

(* The outcome that is written was sent by, or is now reported by, the       *)
(* worker whose claim it settles.                                            *)
OutcomePut(rec) ==
    /\ ResolvedPut(rec)
    /\ \/ \E c \in net : IsResolve(c) /\ c.rec = rec
       \/ \E w \in Workers : /\ pc[w] = "resolve" /\ mine[w].token = rec.token
                             /\ out[w].status = rec.status

Expires ==
    /\ redis # Absent /\ now + 1 >= expires
    /\ redis' = Absent /\ holders' = holders
    /\ \A v \in Workers : Live(v) => now < by[v]
    /\ \A v \in Workers : Keeps(v)

RedisStep ==
    \/ redis' = redis /\ holders' = holders
    \/ Expires
    \/ \E rec \in Record : ClaimPut(rec)
    \/ \E rec \in Record, t \in Token : TakePut(rec, t)
    \/ \E rec \in Record : OutcomePut(rec)

LEMMA WorkerRedisStep ==
    ASSUME IInv, NEW w \in Workers, Start(w) \/ Step(w) \/ Crash(w)
    PROVE  RedisStep
  <1>1. Shared /\ Local /\ StoreInv /\ MineInv(w) /\ ClaimInv(w) /\ SeenInv(w)
    BY IInvParts
  <1>2. Live(w) => /\ mine[w] \in Record /\ mine[w].token.by = w
                   /\ mine[w].state = "claimed" /\ WellMinted(mine[w])
    BY <1>1 DEF Local, Shape, MineInv
  <1>3. CASE ClaimAnswered(w)
    <2>1. pc[w] = "claim" /\ Live(w) /\ now' = now
      BY <1>3 DEF ClaimAnswered, Live
    <2>2. mine[w].token.op = "claim"
      BY <1>1, <2>1 DEF MineInv
    <2>3. CASE redis = Absent
      <3>1. Put(mine[w], TTL[w]) /\ mine[w].token \notin holders
        BY <1>1, <1>3, <2>1, <2>3 DEF ClaimAnswered, ClaimInv
      <3>2. ClaimPut(mine[w])
        BY <1>2, <2>1, <2>2, <2>3, <3>1 DEF ClaimPut, FreshPut
      <3>. QED
        BY <1>2, <2>1, <3>2 DEF RedisStep
    <2>4. CASE redis # Absent
      BY <1>3, <2>4 DEF ClaimAnswered, StoreUnchanged, RedisStep
    <2>. QED
      BY <2>3, <2>4
  <1>4. CASE TakeOverAnswered(w)
    <2>1. pc[w] = "takeover" /\ Live(w) /\ now' = now
      BY <1>4 DEF TakeOverAnswered, Live
    <2>2. mine[w].token.op = "takeover" /\ seen[w] \in Record /\ seen[w] # Absent
      BY <1>1, <2>1, RecordFacts DEF MineInv, Local, Shape
    <2>3. CASE HoldsClaim(redis, seen[w].token)
      <3>1. Put(mine[w], TTL[w]) /\ mine[w].token \notin holders
        BY <1>1, <1>4, <2>1, <2>3 DEF TakeOverAnswered, ClaimInv
      <3>2. ToolTimeout[w] + StaleGrace <= mine[w].at - seen[w].token.at
        BY <1>1, <2>1, <2>2 DEF SeenInv
      <3>3. TakePut(mine[w], seen[w].token)
        BY <1>2, <2>1, <2>2, <2>3, <3>1, <3>2 DEF TakePut, FreshPut
      <3>. QED
        BY <1>2, <2>1, <2>2, <3>3, RecordFacts DEF RedisStep
    <2>4. CASE ~HoldsClaim(redis, seen[w].token)
      BY <1>4, <2>4 DEF TakeOverAnswered, StoreUnchanged, RedisStep
    <2>. QED
      BY <2>3, <2>4
  <1>5. CASE ResolveAnswered(w)
    <2>1. pc[w] = "resolve" /\ Live(w) /\ now' = now
      BY <1>5 DEF ResolveAnswered, Live
    <2>2. out[w].status \in {"none", "success", "error"}
      BY <1>1 DEF Local, OutRecord
    <2>3. CASE HoldsClaim(redis, mine[w].token)
      <3>1. PICK rec : rec = Resolved(mine[w], out[w].status)
        OBVIOUS
      <3>2. /\ rec \in Record /\ rec.state = "resolved"
            /\ rec.token = mine[w].token /\ rec.at = mine[w].at
        BY <1>2, <2>1, <2>2, <3>1, ResolvedFacts
      <3>3. rec.status = out[w].status
        BY <1>2, <2>1, <3>1 DEF Resolved, Record
      <3>4. ResolvedPut(rec)
        BY <1>2, <1>5, <2>1, <2>3, <3>1, <3>2
        DEF ResolvedPut, ResolveAnswered, WellMinted
      <3>. QED
        BY <2>1, <3>2, <3>3, <3>4 DEF RedisStep, OutcomePut
    <2>4. CASE ~HoldsClaim(redis, mine[w].token)
      BY <1>5, <2>4 DEF ResolveAnswered, StoreUnchanged, RedisStep
    <2>. QED
      BY <2>3, <2>4
  <1>6. CASE ~(ClaimAnswered(w) \/ TakeOverAnswered(w) \/ ResolveAnswered(w))
    BY <1>6
    DEF RedisStep, Start, Step, Crash, ClaimUnanswered, Wake, PollAnswered,
        ReadUnanswered, ReconcileAnswered, TakeOverUnanswered, RecheckAnswered,
        BeginExecute, ExecuteApplies, ExecuteFails, ExecuteUnknown, ExecuteTimesOut,
        ResolveUnanswered, StoreUnchanged, redisVars
  <1>. QED
    BY <1>3, <1>4, <1>5, <1>6

LEMMA LandRedisStep ==
    ASSUME IInv, NEW c \in net, Land(c)
    PROVE  RedisStep
  <1>1. Shared /\ CommandInv(c) /\ now' = now
    BY IInvParts DEF NetInv, Land
  <1>2. c.op \in {"claim", "cas"} /\ c.rec \in Record /\ c.expect \in Token
    BY <1>1 DEF Shared, Command
  <1>3. c.rec.state \in {"claimed", "resolved"}
    BY <1>2, RecordFacts
  <1>4. WellMinted(c.rec) /\ c.ttl = TTL[c.rec.token.by]
    BY <1>1 DEF CommandInv
  <1>5. CASE ~Applicable(c)
    BY <1>5 DEF Land, StoreUnchanged, RedisStep
  <1>6. CASE Applicable(c) /\ c.op = "claim"
    <2>1. ClaimPut(c.rec)
      BY <1>1, <1>2, <1>4, <1>6 DEF ClaimPut, FreshPut, Applicable, CommandInv, Land
    <2>. QED
      BY <1>2, <2>1 DEF RedisStep
  <1>7. CASE Applicable(c) /\ c.op = "cas" /\ c.rec.state = "claimed"
    <2>1. IsTakeOver(c) /\ HoldsClaim(redis, c.expect)
      BY <1>7 DEF IsTakeOver, Applicable
    <2>2. TakePut(c.rec, c.expect)
      BY <1>1, <1>2, <1>4, <1>7, <2>1 DEF TakePut, FreshPut, CommandInv, Land
    <2>. QED
      BY <1>2, <2>2 DEF RedisStep
  <1>8. CASE Applicable(c) /\ c.op = "cas" /\ c.rec.state = "resolved"
    <2>1. IsResolve(c) /\ HoldsClaim(redis, c.expect)
      BY <1>8 DEF IsResolve, Applicable
    <2>2. ResolvedPut(c.rec)
      BY <1>1, <1>2, <1>4, <1>8, <2>1 DEF ResolvedPut, CommandInv, Land
    <2>. QED
      BY <1>2, <2>1, <2>2 DEF RedisStep, OutcomePut
  <1>. QED
    BY <1>2, <1>3, <1>5, <1>6, <1>7, <1>8

LEMMA NextRedisStep ==
    ASSUME IInv, [Next]_vars
    PROVE  RedisStep
  <1>1. CASE Tick
    <2>1. \A v \in Workers : Live(v) => now < by[v]
      BY <1>1, TimingAssumption DEF TimingAssumption, Tick
    <2>2. \A v \in Workers : Keeps(v)
      BY <1>1 DEF Tick, workerVars, Keeps
    <2>. QED
      BY <1>1, <2>1, <2>2 DEF Tick, RedisStep, Expires
  <1>2. CASE Tear \/ UNCHANGED vars
    BY <1>2 DEF Tear, vars, redisVars, RedisStep
  <1>. QED
    BY <1>1, <1>2, WorkerRedisStep, LandRedisStep DEF Next

(* A token that Redis has held comes back to the key under no circumstances. *)
LEMMA KeyedBefore ==
    ASSUME IInv, RedisStep, NEW t \in holders, Keyed(t)'
    PROVE  Keyed(t)
  <1>1. Shared /\ StoreInv
    BY IInvParts
  <1>2. CASE \E rec \in Record : ClaimPut(rec) \/ \E u \in Token : TakePut(rec, u)
    BY <1>2 DEF ClaimPut, TakePut, FreshPut, Put, Keyed
  <1>3. CASE \E rec \in Record : OutcomePut(rec)
    BY <1>3 DEF OutcomePut, ResolvedPut, Put, Keyed, HoldsClaim, Absent
  <1>. QED
    BY <1>2, <1>3 DEF RedisStep, Keyed, Expires

(* While an outcome can still be resolved in time, its token stays.          *)
LEMMA KeyedStays ==
    ASSUME IInv, RedisStep, NEW v \in Workers, Keyed(mine[v].token), Live(v),
           by[v] <= Minted(mine[v].token) + 3 * OpDelay + ToolTimeout[v]
    PROVE  /\ redis' # Absent /\ redis'.token = mine[v].token
           /\ redis' # redis => redis'.state = "resolved"
  <1>1. Shared /\ Local /\ StoreInv /\ MineInv(v)
    BY IInvParts
  <1>2. /\ mine[v] \in Record /\ mine[v].token.by = v /\ mine[v].at = mine[v].token.at
        /\ now <= by[v]
    BY <1>1 DEF Local, Shape, MineInv, WellMinted
  <1>3. /\ Minted(mine[v].token) \in Int /\ mine[v].token.at \in Int
        /\ by[v] \in Nat /\ now \in Nat /\ expires \in Nat
        /\ OpDelay \in Nat /\ ToolTimeout[v] \in Nat /\ TTL[v] \in Nat /\ Skew[v] \in Int
    BY <1>1, <1>2, RecordFacts, Constants DEF Local, Shared
  <1>4. ~Expires
    <2>1. SUFFICES ASSUME Expires PROVE FALSE
      OBVIOUS
    <2>2. now < by[v] /\ now + 1 >= expires
      BY <2>1 DEF Expires
    <2>3. Minted(mine[v].token) + TTL[v] <= expires
      BY <1>1, <1>2 DEF StoreInv, Keyed
    <2>4. 3 * OpDelay + ToolTimeout[v] < TTL[v]
      BY ResolveInTime
    <2>. QED
      BY <1>3, <2>2, <2>3, <2>4
  <1>5. ~\E rec \in Record, t \in Token : TakePut(rec, t)
    <2>1. SUFFICES ASSUME NEW rec \in Record, NEW t \in Token, TakePut(rec, t)
                   PROVE  FALSE
      OBVIOUS
    <2>2. t = mine[v].token /\ WellMinted(rec)
          /\ ToolTimeout[rec.token.by] + StaleGrace <= rec.at - t.at
      BY <2>1 DEF TakePut, FreshPut, Keyed, HoldsClaim
    <2>3. rec.token.by \in Workers /\ rec.at \in Int /\ rec.at = rec.token.at
          /\ rec.at - Skew[rec.token.by] <= now
      BY <2>2, RecordFacts DEF WellMinted, Minted
    <2>4. 3 * OpDelay + ToolTimeout[v] + Skew[rec.token.by] - Skew[v]
            < ToolTimeout[rec.token.by] + StaleGrace
      BY <2>3, ResolveInTime
    <2>5. by[v] <= mine[v].token.at - Skew[v] + 3 * OpDelay + ToolTimeout[v]
      BY <1>2 DEF Minted
    <2>6. /\ ToolTimeout[rec.token.by] \in Nat /\ Skew[rec.token.by] \in Int
          /\ StaleGrace \in Nat
      BY <2>3, Constants
    <2>. QED
      BY <1>2, <1>3, <2>2, <2>3, <2>4, <2>5, <2>6
  <1>6. ~\E rec \in Record : ClaimPut(rec)
    BY DEF ClaimPut, Keyed
  <1>7. CASE \E rec \in Record : OutcomePut(rec)
    BY <1>7, RecordFacts DEF OutcomePut, ResolvedPut, Put, Keyed, HoldsClaim
  <1>. QED
    BY <1>4, <1>5, <1>6, <1>7 DEF RedisStep, Keyed

-----------------------------------------------------------------------------
(* Every way in which a step changes the ledger: the tool call of a worker   *)
(* that holds the claim, on an empty ledger.                                 *)

Effect(x) ==
    /\ pc[x] = "executing" /\ Holds(x) /\ MineInv(x)
    /\ redis' = redis
    /\ ledger = {} /\ ledger' = {x}
    /\ pc'[x] \in {"resolve", "done"}

LedgerStep == ledger' = ledger \/ \E x \in Workers : Effect(x)

LEMMA NextLedgerStep ==
    ASSUME IInv, [Next]_vars
    PROVE  LedgerStep
  <1>1. Local
    BY IInvParts
  <1>2. ASSUME NEW x \in Workers, ExecuteApplies(x) \/ ExecuteUnknown(x)
        PROVE  LedgerStep
    <2>1. MineInv(x) /\ ClaimInv(x) /\ UnspentInv(x)
      BY IInvParts
    <2>2. pc[x] = "executing" /\ redis' = redis /\ (ledger' = ledger \/ ledger' = ledger \cup {x})
      BY <1>2 DEF ExecuteApplies, ExecuteUnknown, MayRecord, AppendLine, redisVars
    <2>3. Holds(x) /\ ledger = {}
      BY <2>1, <2>2 DEF ClaimInv, UnspentInv, Critical
    <2>4. pc'[x] \in {"resolve", "done"}
      BY <1>1, <1>2 DEF ExecuteApplies, ExecuteUnknown, Resolve, Return, Ends, Moves, Local
    <2>. QED
      BY <2>1, <2>2, <2>3, <2>4 DEF LedgerStep, Effect
  <1>3. ASSUME NEW x \in Workers, Start(x) \/ Step(x) \/ Crash(x),
               ~(ExecuteApplies(x) \/ ExecuteUnknown(x))
        PROVE  ledger' = ledger
    BY <1>3
    DEF Start, Step, Crash, ClaimAnswered, ClaimUnanswered, Wake, PollAnswered,
        ReadUnanswered, ReconcileAnswered, TakeOverAnswered, TakeOverUnanswered,
        RecheckAnswered, BeginExecute, ExecuteFails, ExecuteTimesOut,
        ResolveAnswered, ResolveUnanswered, toolVars
  <1>4. CASE Tick \/ Tear \/ UNCHANGED vars \/ \E c \in net : Land(c)
    BY <1>4 DEF Tick, Tear, Land, vars, toolVars, LedgerStep
  <1>. QED
    BY <1>2, <1>3, <1>4 DEF Next, LedgerStep

(* Nobody writes to the ledger while Redis keeps the token of a worker that  *)
(* is not executing.                                                         *)
LEMMA KeyedKeepsOut ==
    ASSUME LedgerStep, NEW t, Keyed(t), pc[t.by] # "executing"
    PROVE  ledger' = ledger
  <1>1. ASSUME NEW x \in Workers, Effect(x) PROVE FALSE
    <2>1. mine[x].token = t
      BY <1>1 DEF Effect, Holds, HoldsClaim, Keyed
    <2>2. mine[x].token.by = x
      BY <1>1 DEF Effect, MineInv, Live
    <2>. QED
      BY <1>1, <2>1, <2>2 DEF Effect
  <1>. QED
    BY <1>1 DEF LedgerStep

LEMMA HoldersGrow ==
    ASSUME RedisStep
    PROVE  holders \subseteq holders'
  BY DEF RedisStep, Expires, ClaimPut, TakePut, FreshPut, OutcomePut, ResolvedPut, Put

LEMMA NextSettledStays ==
    ASSUME IInv, [Next]_vars
    PROVE  SettledStays
  <1>1. CASE Tick \/ Tear \/ UNCHANGED vars \/ \E c \in net : Land(c)
    BY <1>1 DEF Tick, Tear, Land, vars, workerVars, SettledStays
  <1>. QED
    BY <1>1, IInvParts, WorkerSettledStays DEF Next

-----------------------------------------------------------------------------
(* The truth of what is stored, sent and about to be returned.               *)

LEMMA OutcomeKept ==
    ASSUME IInv, RedisStep, LedgerStep, NEW v \in Workers, Keeps(v), OutcomeInv(v)
    PROVE  OutcomeInv(v)'
  <1>1. ledger # {} => ledger' # {}
    BY DEF LedgerStep, Effect
  <1>2. holders \subseteq holders'
    BY HoldersGrow
  <1>3. ASSUME pc[v] = "resolve", out[v].status = "error"
        PROVE  ledger' = {} /\ Keyed(mine[v].token)'
    <2>1. /\ ledger = {} /\ Keyed(mine[v].token) /\ Live(v)
          /\ by[v] <= Minted(mine[v].token) + 3 * OpDelay + ToolTimeout[v]
      BY <1>3 DEF OutcomeInv, Live
    <2>2. mine[v].token.by = v
      BY <2>1, IInvParts DEF MineInv
    <2>3. ledger' = {}
      BY <1>3, <2>1, <2>2, KeyedKeepsOut
    <2>4. redis' # Absent /\ redis'.token = mine[v].token
      BY <2>1, KeyedStays
    <2>. QED
      BY <2>3, <2>4 DEF Keyed, Keeps
  <1>. QED
    BY <1>1, <1>2, <1>3 DEF OutcomeInv, Keeps, Minted, Keyed

LEMMA ReportKept ==
    ASSUME IInv, RedisStep, LedgerStep, NEW c \in net, ReportInv(c)
    PROVE  ReportInv(c)'
  <1>1. ledger # {} => ledger' # {}
    BY DEF LedgerStep, Effect
  <1>2. SUFFICES ASSUME IsResolve(c) PROVE ReportInv(c)'
    BY DEF ReportInv, IsResolve
  <1>3. c.rec.token \in holders /\ c.rec.token \in holders'
    BY <1>2, HoldersGrow DEF ReportInv
  <1>4. pc[c.rec.token.by] # "executing"
    BY <1>2, IInvParts DEF NetInv, CommandInv
  <1>5. c.rec.status = "error" /\ Keyed(c.rec.token)' => ledger' = {}
    BY <1>2, <1>3, <1>4, KeyedBefore, KeyedKeepsOut DEF ReportInv
  <1>. QED
    BY <1>1, <1>2, <1>3, <1>5 DEF ReportInv, IsResolve, Keyed

LEMMA CachedKept ==
    ASSUME IInv, RedisStep, LedgerStep, TruthInv
    PROVE  CachedOutcomeIsTrue'
  <1>1. SUFFICES ASSUME redis'.state = "resolved"
                 PROVE  (redis'.status = "success") = (ledger' # {})
    BY DEF CachedOutcomeIsTrue
  <1>2. CASE redis' = redis
    <2>1. ledger' = ledger
      BY <1>1, <1>2 DEF LedgerStep, Effect, Holds, HoldsClaim
    <2>. QED
      BY <1>1, <1>2, <2>1 DEF TruthInv, CachedOutcomeIsTrue
  <1>3. CASE redis' # redis
    <2>1. ledger' = ledger
      BY <1>3 DEF LedgerStep, Effect
    <2>2. PICK rec \in Record : OutcomePut(rec)
      BY <1>1, <1>3
      DEF RedisStep, Expires, Absent, ClaimPut, TakePut, FreshPut, Put
    <2>3. redis' = rec /\ Keyed(rec.token)
      BY <2>2 DEF OutcomePut, ResolvedPut, Put, HoldsClaim, Keyed, Absent
    <2>4. CASE \E c \in net : IsResolve(c) /\ c.rec = rec
      BY <2>1, <2>3, <2>4 DEF TruthInv, ReportInv
    <2>5. CASE \E w \in Workers : /\ pc[w] = "resolve" /\ mine[w].token = rec.token
                                  /\ out[w].status = rec.status
      BY <2>1, <2>3, <2>5 DEF TruthInv, OutcomeInv
    <2>. QED
      BY <2>2, <2>4, <2>5 DEF OutcomePut
  <1>. QED
    BY <1>2, <1>3

LEMMA SettledKept ==
    ASSUME IInv, TruthInv, LedgerStep, SettledStays
    PROVE  \A w \in ledger' : Settled(w)'
  <1>1. ledger \subseteq Workers
    BY IInvParts DEF Shared
  <1>. QED
    BY <1>1 DEF TruthInv, LedgerStep, Effect, SettledStays, Settled

(* The worker that takes the step.                                           *)
LEMMA OwnOutcome ==
    ASSUME IInv, TruthInv, RedisStep, LedgerStep, NEW w \in Workers,
           Start(w) \/ Step(w) \/ Crash(w)
    PROVE  OutcomeInv(w)'
  <1>1. /\ Shared /\ Local /\ StoreInv /\ MineInv(w) /\ ClaimInv(w) /\ UnspentInv(w)
        /\ OutcomeInv(w)
    BY IInvParts DEF TruthInv
  <1>2. ASSUME NEW p, NEW s, NEW b, NEW o, Moves(w, p, s, b, o),
               p \notin {"takeover", "recheck", "resolve"}
        PROVE  OutcomeInv(w)'
    <2>1. pc'[w] = p
      BY <1>1, <1>2 DEF Moves, Local
    <2>. QED
      BY <1>2, <2>1 DEF OutcomeInv
  <1>3. ASSUME NEW p \in {"done", "crashed"}, NEW o, Ends(w, p, o) PROVE OutcomeInv(w)'
    BY <1>2, <1>3 DEF Ends
  <1>4. ASSUME Attempt(w) PROVE OutcomeInv(w)'
    BY <1>2, <1>4 DEF Attempt
  <1>5. ASSUME Restart(w) PROVE OutcomeInv(w)'
    BY <1>3, <1>4, <1>5 DEF Restart, Return
  <1>6. ASSUME NEW s, Reconcile(w, s) PROVE OutcomeInv(w)'
    BY <1>2, <1>3, <1>6 DEF Reconcile, Return
  <1>7. ASSUME NEW kind, Execute(w, kind) PROVE OutcomeInv(w)'
    BY <1>2, <1>7 DEF Execute
  <1>8. ASSUME Acquired(w) PROVE OutcomeInv(w)'
    BY <1>6, <1>7, <1>8 DEF Acquired
  <1>9. ASSUME NEW rec, Settle(w, rec) PROVE OutcomeInv(w)'
    BY <1>2, <1>3, <1>6, <1>9 DEF Settle, WaitUntilSettled, Return
  <1>10. ASSUME RetryAgain(w) PROVE OutcomeInv(w)'
    BY <1>1, <1>10, RetryKeeps, OutcomeKept
  <1>11. ASSUME Unanswered(w) PROVE OutcomeInv(w)'
    BY <1>3, <1>10, <1>11 DEF Unanswered, GiveUp, Return
  <1>12. ASSUME NEW kind, Resolve(w, kind, "success"), ledger' # {},
                mine[w].token \in holders'
         PROVE  OutcomeInv(w)'
    <2>1. pc'[w] = "resolve" /\ mine'[w] = mine[w] /\ out'[w].status = "success"
      BY <1>1, <1>12 DEF Resolve, Moves, Local
    <2>. QED
      BY <1>12, <2>1 DEF OutcomeInv
  <1>13. ASSUME pc[w] \in {"takeover", "recheck"}, ActOnReconciled(w), ledger' = ledger,
                mine[w].token \in holders'
         PROVE  OutcomeInv(w)'
    BY <1>1, <1>7, <1>12, <1>13 DEF ActOnReconciled, OutcomeInv
  <1>14. HoldsClaim(redis, mine[w].token) => mine[w].token \in holders
    BY <1>1 DEF StoreInv, HoldsClaim, Absent
  <1>15. CASE Start(w) \/ Crash(w)
    BY <1>3, <1>4, <1>15 DEF Start, Crash
  <1>16. CASE ClaimAnswered(w) \/ ClaimUnanswered(w)
    BY <1>8, <1>9, <1>11, <1>16 DEF ClaimAnswered, ClaimUnanswered, Existing
  <1>17. CASE Wake(w) \/ PollAnswered(w) \/ ReadUnanswered(w)
    BY <1>2, <1>5, <1>9, <1>11, <1>17 DEF Wake, PollAnswered, ReadUnanswered
  <1>18. CASE ReconcileAnswered(w)
    <2>1. pc[w] = "reconcile" /\ ledger' = ledger /\ holders' = holders
      BY <1>18 DEF ReconcileAnswered, toolVars, redisVars
    <2>2. CASE seen[w] # Absent
      <3>1. pc'[w] = "takeover"
            /\ out'[w].kind = IF ledger # {} THEN "reconciled" ELSE "reexecuted"
        BY <1>1, <1>18, <2>2 DEF ReconcileAnswered, Moves, Local
      <3>. QED
        BY <2>1, <3>1 DEF OutcomeInv
    <2>3. CASE seen[w] = Absent
      <3>1. mine[w].token \in holders
        BY <1>1, <1>14, <2>1, <2>3 DEF ClaimInv, Critical, Holds
      <3>. QED
        BY <1>7, <1>12, <1>18, <2>1, <2>3, <3>1 DEF ReconcileAnswered
    <2>. QED
      BY <2>2, <2>3
  <1>19. CASE TakeOverAnswered(w)
    <2>1. pc[w] = "takeover" /\ ledger' = ledger
      BY <1>19 DEF TakeOverAnswered, toolVars
    <2>2. CASE HoldsClaim(redis, seen[w].token)
      BY <1>13, <1>19, <2>1, <2>2 DEF TakeOverAnswered, Put
    <2>3. CASE ~HoldsClaim(redis, seen[w].token)
      <3>1. pc'[w] = "recheck" /\ out'[w] = out[w]
        BY <1>1, <1>19, <2>3 DEF TakeOverAnswered, Moves, Local
      <3>. QED
        BY <1>1, <2>1, <3>1 DEF OutcomeInv
    <2>. QED
      BY <2>2, <2>3
  <1>20. CASE TakeOverUnanswered(w)
    BY <1>11, <1>20 DEF TakeOverUnanswered
  <1>21. CASE RecheckAnswered(w)
    BY <1>5, <1>13, <1>14, <1>21 DEF RecheckAnswered, redisVars, toolVars
  <1>22. CASE BeginExecute(w)
    BY <1>2, <1>22 DEF BeginExecute
  <1>23. CASE ExecuteApplies(w)
    <2>1. pc[w] = "executing" /\ ledger' # {} /\ holders' = holders
      BY <1>23 DEF ExecuteApplies, MayRecord, AppendLine, redisVars
    <2>2. mine[w].token \in holders
      BY <1>1, <1>14, <2>1 DEF ClaimInv, Critical, Holds
    <2>. QED
      BY <1>12, <1>23, <2>1, <2>2 DEF ExecuteApplies
  <1>24. CASE ExecuteFails(w)
    <2>1. /\ pc[w] = "executing" /\ ledger' = ledger /\ redis' = redis
          /\ holders' = holders /\ Live(w)
      BY <1>24 DEF ExecuteFails, toolVars, redisVars, Live
    <2>2. Holds(w) /\ ledger = {}
      BY <1>1, <2>1 DEF ClaimInv, UnspentInv, Critical
    <2>3. mine[w].token \in holders /\ Keyed(mine[w].token)
      BY <1>14, <2>2 DEF Holds, HoldsClaim, Keyed, Absent
    <2>4. /\ pc'[w] = "resolve" /\ mine'[w] = mine[w] /\ out'[w].status = "error"
          /\ by'[w] = now + OpDelay
      BY <1>1, <1>24 DEF ExecuteFails, Resolve, Moves, Local
    <2>5. /\ now <= by[w] /\ by[w] <= Minted(mine[w].token) + 2 * OpDelay + ToolTimeout[w]
          /\ mine[w] \in Record
      BY <1>1, <2>1 DEF MineInv, Local, Shape
    <2>6. /\ now \in Nat /\ by[w] \in Nat /\ OpDelay \in Nat /\ ToolTimeout[w] \in Nat
          /\ Minted(mine[w].token) \in Int
      BY <1>1, <2>5, RecordFacts, Constants DEF Shared, Local
    <2>7. by'[w] <= Minted(mine[w].token) + 3 * OpDelay + ToolTimeout[w]
      BY <2>4, <2>5, <2>6
    <2>. QED
      BY <2>1, <2>2, <2>3, <2>4, <2>7 DEF OutcomeInv, Keyed, Minted
  <1>25. CASE ExecuteUnknown(w) \/ ExecuteTimesOut(w)
    BY <1>3, <1>25 DEF ExecuteUnknown, ExecuteTimesOut, Return
  <1>26. CASE ResolveAnswered(w) \/ ResolveUnanswered(w)
    BY <1>3, <1>10, <1>26 DEF ResolveAnswered, ResolveUnanswered, Return
  <1>. QED
    BY <1>15, <1>16, <1>17, <1>18, <1>19, <1>20, <1>21, <1>22, <1>23, <1>24, <1>25,
       <1>26 DEF Step

(* A command that is sent: only resolve sends an outcome, and it is the one  *)
(* the worker is about to return.                                            *)
LEMMA SentReports ==
    ASSUME IInv, TruthInv, RedisStep, LedgerStep, [Next]_vars, NEW c \in net'
    PROVE  ReportInv(c)'
  <1>1. CASE c \in net
    BY <1>1, ReportKept DEF TruthInv
  <1>2. CASE c \notin net
    <2>1. PICK w \in Workers : /\ ClaimUnanswered(w) \/ TakeOverUnanswered(w)
                                  \/ ResolveUnanswered(w)
                               /\ net' # net
      BY <1>2
      DEF Next, Start, Step, Crash, ClaimAnswered, Wake, PollAnswered,
          ReadUnanswered, ReconcileAnswered, TakeOverAnswered,
          RecheckAnswered, BeginExecute, ExecuteApplies, ExecuteFails,
          ExecuteUnknown, ExecuteTimesOut, ResolveAnswered, Land, Tick, Tear,
          vars, redisVars
    <2>2. MineInv(w) /\ Local /\ OutcomeInv(w)
      BY IInvParts DEF TruthInv
    <2>3. Live(w) /\ mine[w] \in Record /\ mine[w].state = "claimed"
      BY <2>1, <2>2
      DEF ClaimUnanswered, TakeOverUnanswered, ResolveUnanswered, Live, MineInv,
          Local, Shape
    <2>4. CASE ClaimUnanswered(w)
      BY <1>2, <2>4 DEF ClaimUnanswered, ClaimCommand, ReportInv, IsResolve
    <2>5. CASE TakeOverUnanswered(w)
      BY <1>2, <2>3, <2>5 DEF TakeOverUnanswered, CasCommand, ReportInv, IsResolve
    <2>6. CASE ResolveUnanswered(w)
      <3>1. PICK rec : rec = Resolved(mine[w], out[w].status)
        OBVIOUS
      <3>2. rec.token = mine[w].token /\ rec.status = out[w].status
        BY <2>3, <3>1 DEF Resolved, Record
      <3>3. /\ pc[w] = "resolve" /\ c.rec = rec
            /\ redis' = redis /\ holders' = holders /\ ledger' = ledger
        BY <1>2, <2>6, <3>1
        DEF ResolveUnanswered, CasCommand, StoreUnchanged, toolVars
      <3>. QED
        BY <2>2, <3>2, <3>3 DEF ReportInv, OutcomeInv, Keyed
    <2>. QED
      BY <2>1, <2>4, <2>5, <2>6
  <1>. QED
    BY <1>1, <1>2

LEMMA NextTruth ==
    ASSUME IInv, TruthInv, [Next]_vars
    PROVE  TruthInv'
  <1>1. RedisStep /\ LedgerStep /\ SettledStays
    BY NextRedisStep, NextLedgerStep, NextSettledStays
  <1>2. ASSUME NEW v \in Workers PROVE OutcomeInv(v)'
    <2>1. CASE Keeps(v)
      BY <1>1, <2>1, OutcomeKept DEF TruthInv
    <2>2. CASE ~Keeps(v)
      <3>1. ~(Tick \/ Tear \/ UNCHANGED vars \/ \E c \in net : Land(c))
        BY <2>2 DEF Tick, Tear, Land, vars, workerVars, Keeps
      <3>2. PICK w \in Workers : Start(w) \/ Step(w) \/ Crash(w)
        BY <3>1 DEF Next
      <3>3. w = v
        BY <2>2, <3>2, OthersKeep, IInvParts
      <3>. QED
        BY <1>1, <3>2, <3>3, OwnOutcome
    <2>. QED
      BY <2>1, <2>2
  <1>3. \A c \in net' : ReportInv(c)'
    BY <1>1, SentReports
  <1>. QED
    BY <1>1, <1>2, <1>3, CachedKept, SettledKept DEF TruthInv

-----------------------------------------------------------------------------
(* A tool that cannot be asked.                                              *)

(* The workers that reconcile or take over, and their commands.              *)
Reconciles(v) == pc[v] \in {"reconcile", "takeover", "recheck"}
Executes(v) == pc[v] \in {"execute", "executing"}

(* No step of a worker begins to reconcile.                                  *)
LEMMA NeverReconciles ==
    ASSUME IInv, ~Reconcilable, NEW w \in Workers, ~Reconciles(w),
           Start(w) \/ Step(w) \/ Crash(w)
    PROVE  ~Reconciles(w)'
  <1>1. Local
    BY IInvParts
  <1>2. ASSUME NEW p, NEW s, NEW b, NEW o, Moves(w, p, s, b, o),
               p \notin {"reconcile", "takeover", "recheck"}
        PROVE  ~Reconciles(w)'
    BY <1>1, <1>2 DEF Moves, Local, Reconciles
  <1>3. ASSUME NEW p \in {"done", "crashed"}, NEW o, Ends(w, p, o) PROVE ~Reconciles(w)'
    BY <1>2, <1>3 DEF Ends
  <1>4. ASSUME NEW s, Reconcile(w, s) PROVE ~Reconciles(w)'
    BY <1>3, <1>4 DEF Reconcile, Return
  <1>5. ASSUME Acquired(w) PROVE ~Reconciles(w)'
    BY <1>2, <1>4, <1>5 DEF Acquired, Execute
  <1>6. ASSUME NEW rec, Settle(w, rec) PROVE ~Reconciles(w)'
    BY <1>2, <1>3, <1>4, <1>6 DEF Settle, WaitUntilSettled, Return
  <1>7. ASSUME Restart(w) \/ Attempt(w) PROVE ~Reconciles(w)'
    BY <1>2, <1>3, <1>7 DEF Restart, Attempt, Return
  <1>8. ASSUME Unanswered(w) \/ RetryAgain(w) PROVE ~Reconciles(w)'
    BY <1>3, <1>8 DEF Unanswered, GiveUp, Return, RetryAgain, Reconciles
  <1>9. CASE Start(w) \/ Crash(w)
    BY <1>3, <1>7, <1>9 DEF Start, Crash
  <1>10. CASE ClaimAnswered(w) \/ ClaimUnanswered(w)
    BY <1>5, <1>6, <1>8, <1>10 DEF ClaimAnswered, ClaimUnanswered, Existing
  <1>11. CASE Wake(w) \/ PollAnswered(w) \/ ReadUnanswered(w)
    BY <1>2, <1>6, <1>7, <1>8, <1>11 DEF Wake, PollAnswered, ReadUnanswered
  <1>12. CASE BeginExecute(w) \/ ExecuteApplies(w) \/ ExecuteFails(w)
    BY <1>2, <1>12 DEF BeginExecute, ExecuteApplies, ExecuteFails, Resolve
  <1>13. CASE ExecuteUnknown(w) \/ ExecuteTimesOut(w)
    BY <1>3, <1>13 DEF ExecuteUnknown, ExecuteTimesOut, Return
  <1>14. CASE ResolveAnswered(w) \/ ResolveUnanswered(w)
    BY <1>3, <1>8, <1>14 DEF ResolveAnswered, ResolveUnanswered, Return
  <1>15. ~(ReconcileAnswered(w) \/ TakeOverAnswered(w) \/ TakeOverUnanswered(w)
             \/ RecheckAnswered(w))
    BY DEF Reconciles, ReconcileAnswered, TakeOverAnswered, TakeOverUnanswered,
           RecheckAnswered
  <1>. QED
    BY <1>9, <1>10, <1>11, <1>12, <1>13, <1>14, <1>15 DEF Step

(* Without takeovers, a claim that is not the first follows an expiry.       *)
LEMMA FirstClaim ==
    ASSUME IInv, RedisStep, now' = now \/ now' = now + 1,
           ~\E rec \in Record, t \in Token : TakePut(rec, t),
           redis # Absent /\ holders # {redis.token}
             => \A w \in Workers : KeyMayHaveExpired(w)
    PROVE  redis' # Absent /\ holders' # {redis'.token}
             => \A w \in Workers : KeyMayHaveExpired(w)'
  <1>1. SUFFICES ASSUME redis' # Absent, holders' # {redis'.token}
                 PROVE  \A w \in Workers : KeyMayHaveExpired(w)'
    OBVIOUS
  <1>2. Shared /\ StoreInv
    BY IInvParts
  <1>3. \A w \in Workers : KeyMayHaveExpired(w)
    <2>1. CASE redis' = redis /\ holders' = holders
      BY <1>1, <2>1
    <2>2. CASE \E rec \in Record : ClaimPut(rec)
      <3>1. redis = Absent /\ holders # {}
        BY <1>1, <2>2 DEF ClaimPut, FreshPut, Put
      <3>. QED
        BY <1>2, <3>1 DEF StoreInv
    <2>3. CASE \E rec \in Record : OutcomePut(rec)
      <3>1. /\ redis # Absent /\ redis'.token = redis.token
            /\ holders' = holders \cup {redis.token} /\ redis.token \in holders
        BY <1>2, <2>3
        DEF OutcomePut, ResolvedPut, Put, HoldsClaim, Absent, StoreInv
      <3>. QED
        BY <1>1, <3>1
    <2>. QED
      BY <1>1, <2>1, <2>2, <2>3 DEF RedisStep, Expires
  <1>4. ASSUME NEW w \in Workers PROVE KeyMayHaveExpired(w)'
    BY <1>2, <1>3, Constants DEF KeyMayHaveExpired, Clock, Shared
  <1>. QED
    BY <1>4

(* The worker that takes the step, when it comes to call the tool.           *)
LEMMA FirstCall ==
    ASSUME IInv, ~Reconcilable, FirstInv, NEW w \in Workers,
           Start(w) \/ Step(w) \/ Crash(w), Executes(w)'
    PROVE  holders' = {mine'[w].token}
  <1>1. Local /\ StoreInv /\ Shared /\ MineInv(w) /\ ClaimInv(w)
    BY IInvParts
  <1>2. ASSUME NEW p, NEW s, NEW b, NEW o, Moves(w, p, s, b, o)
        PROVE  p \in {"execute", "executing"}
    BY <1>1, <1>2 DEF Moves, Local, Executes
  <1>3. ~\E p \in {"done", "crashed"} : \E o : Ends(w, p, o)
    BY <1>2 DEF Ends
  <1>4. ~Attempt(w) /\ ~Restart(w)
    BY <1>2, <1>3 DEF Attempt, Restart, Return
  <1>5. \A s : ~Reconcile(w, s)
    BY <1>2, <1>3 DEF Reconcile, Return
  <1>6. \A rec : ~Settle(w, rec)
    BY <1>2, <1>3, <1>5 DEF Settle, WaitUntilSettled, Return
  <1>7. ~Unanswered(w) \/ RetryAgain(w)
    BY <1>3 DEF Unanswered, GiveUp, Return
  <1>8. \A kind, status : ~Resolve(w, kind, status)
    BY <1>2 DEF Resolve
  <1>9. ~Reconciles(w)
    BY DEF FirstInv, Reconciles
  <1>10. CASE ClaimAnswered(w)
    <2>1. ~KeyMayHaveExpired(w) /\ mine' = mine /\ pc[w] = "claim"
      BY <1>5, <1>6, <1>10 DEF ClaimAnswered, Existing, Acquired
    <2>2. CASE redis = Absent
      <3>1. holders = {}
        BY <1>1, <2>1, <2>2 DEF StoreInv
      <3>. QED
        BY <1>10, <2>1, <2>2, <3>1 DEF ClaimAnswered, Put
    <2>3. CASE redis # Absent
      <3>1. HoldsClaim(redis, mine[w].token) /\ holders' = holders
        BY <1>6, <1>10, <2>3 DEF ClaimAnswered, Existing, StoreUnchanged
      <3>. QED
        BY <2>1, <2>3, <3>1 DEF FirstInv, HoldsClaim
    <2>. QED
      BY <2>2, <2>3
  <1>11. CASE BeginExecute(w)
    BY <1>11 DEF BeginExecute, FirstInv, redisVars
  <1>12. CASE ClaimUnanswered(w) \/ ReadUnanswered(w)
    BY <1>7, <1>12
    DEF ClaimUnanswered, ReadUnanswered, RetryAgain, Executes
  <1>13. ~(Start(w) \/ Crash(w) \/ Wake(w) \/ PollAnswered(w))
    BY <1>2, <1>3, <1>4, <1>6 DEF Start, Crash, Wake, PollAnswered
  <1>14. ~(ReconcileAnswered(w) \/ TakeOverAnswered(w) \/ TakeOverUnanswered(w)
             \/ RecheckAnswered(w))
    BY <1>9 DEF Reconciles, ReconcileAnswered, TakeOverAnswered, TakeOverUnanswered,
                RecheckAnswered
  <1>15. ~(ExecuteApplies(w) \/ ExecuteFails(w) \/ ExecuteUnknown(w) \/ ExecuteTimesOut(w))
    BY <1>3, <1>8
    DEF ExecuteApplies, ExecuteFails, ExecuteUnknown, ExecuteTimesOut, Return
  <1>16. ~(ResolveAnswered(w) \/ ResolveUnanswered(w))
    BY <1>3 DEF ResolveAnswered, ResolveUnanswered, Return, RetryAgain, Executes
  <1>. QED
    BY <1>10, <1>11, <1>12, <1>13, <1>14, <1>15, <1>16 DEF Step

(* While a worker relies on its claim, Redis takes no other.                 *)
LEMMA CriticalStays ==
    ASSUME IInv, RedisStep, NEW v \in Workers, Critical(v)
    PROVE  redis' = redis /\ holders' = holders
  <1>1. Shared /\ Local /\ MineInv(v) /\ ClaimInv(v)
    BY IInvParts
  <1>2. Holds(v) /\ Live(v) /\ mine[v] \in Record /\ mine[v].token.by = v
    BY <1>1, CriticalBound DEF ClaimInv
  <1>3. by[v] <= Minted(mine[v].token) + 3 * OpDelay + ToolTimeout[v]
    <2>1. /\ Minted(mine[v].token) \in Int /\ by[v] \in Nat /\ OpDelay \in Nat
          /\ ToolTimeout[v] \in Nat
      BY <1>1, <1>2, RecordFacts, Constants DEF Local
    <2>. QED
      BY <1>1, <1>2, <2>1 DEF MineInv, Critical
  <1>4. Keyed(mine[v].token)
    BY <1>2 DEF Holds, HoldsClaim, Keyed, Absent
  <1>5. redis' # redis => redis'.state = "resolved"
    BY <1>2, <1>3, <1>4, KeyedStays
  <1>6. ~\E rec \in Record : OutcomePut(rec)
    <2>1. SUFFICES ASSUME NEW rec \in Record, OutcomePut(rec) PROVE FALSE
      OBVIOUS
    <2>2. rec.token = mine[v].token /\ pc[rec.token.by] \in {"resolve", "done", "crashed"}
      BY <1>2, <2>1 DEF OutcomePut, ResolvedPut, Holds, HoldsClaim
    <2>. QED
      BY <1>2, <2>2 DEF Critical
  <1>7. ~\E rec \in Record : ClaimPut(rec) \/ \E t \in Token : TakePut(rec, t)
    <2>1. SUFFICES ASSUME NEW rec \in Record, FreshPut(rec) PROVE FALSE
      BY DEF ClaimPut, TakePut
    <2>2. redis' = rec /\ rec.state = "claimed" /\ rec.token \notin holders
      BY <2>1 DEF FreshPut, Put
    <2>3. redis.token \in holders /\ redis # Absent
      BY <1>4, IInvParts DEF StoreInv, Keyed
    <2>. QED
      BY <1>5, <2>2, <2>3
  <1>8. ~Expires
    BY <1>4, <1>5 DEF Expires, Keyed, Absent
  <1>. QED
    BY <1>6, <1>7, <1>8 DEF RedisStep

LEMMA NextFirst ==
    ASSUME IInv, FirstInv, [Next]_vars
    PROVE  FirstInv'
  <1>1. SUFFICES ASSUME ~Reconcilable PROVE FirstInv'
    BY DEF FirstInv
  <1>2. RedisStep /\ Local /\ Shared
    BY NextRedisStep, IInvParts
  <1>3. now' = now \/ now' = now + 1
    BY DEF Next, Start, Step, Crash, ClaimAnswered, ClaimUnanswered, Wake, PollAnswered,
        ReadUnanswered, ReconcileAnswered, TakeOverAnswered, TakeOverUnanswered,
        RecheckAnswered, BeginExecute, ExecuteApplies, ExecuteFails, ExecuteUnknown,
        ExecuteTimesOut, ResolveAnswered, ResolveUnanswered, Land, Tick, Tear, vars
  <1>4. CASE \E w \in Workers : Start(w) \/ Step(w) \/ Crash(w)
    <2>1. PICK w \in Workers : Start(w) \/ Step(w) \/ Crash(w)
      BY <1>4
    <2>2. \A v \in Workers : v # w => Keeps(v)
      BY <1>2, <2>1, OthersKeep
    <2>3. \A v \in Workers : ~Reconciles(v)
      BY <1>1 DEF FirstInv, Reconciles
    <2>4. \A v \in Workers : ~Reconciles(v)'
      BY <1>1, <2>1, <2>2, <2>3, NeverReconciles DEF Reconciles, Keeps
    <2>5. ~TakeOverAnswered(w) /\ ~TakeOverUnanswered(w)
      BY <2>3 DEF Reconciles, TakeOverAnswered, TakeOverUnanswered
    <2>6. Live(w) => mine[w] \in Record
      BY <1>2 DEF Local, Shape
    <2>7. ASSUME NEW c \in net', c \notin net PROVE ~IsTakeOver(c)'
      <3>1. CASE ClaimUnanswered(w)
        BY <2>7, <3>1 DEF ClaimUnanswered, ClaimCommand, IsTakeOver
      <3>2. CASE ResolveUnanswered(w)
        <4>1. mine[w] \in Record /\ out[w].status \in {"none", "success", "error"}
          BY <1>2, <2>6, <3>2 DEF ResolveUnanswered, Live, Local, OutRecord
        <4>2. c.rec = Resolved(mine[w], out[w].status)
          BY <2>7, <3>2 DEF ResolveUnanswered, CasCommand
        <4>3. c.rec.state = "resolved"
          BY <4>1, <4>2, ResolvedFacts
        <4>. QED
          BY <4>3 DEF IsTakeOver
      <3>. QED
        BY <2>1, <2>5, <2>7, <3>1, <3>2
        DEF Start, Step, Crash, ClaimAnswered, Wake, PollAnswered, ReadUnanswered,
            ReconcileAnswered, RecheckAnswered, BeginExecute, ExecuteApplies,
            ExecuteFails, ExecuteUnknown, ExecuteTimesOut, ResolveAnswered, redisVars
    <2>8. \A c \in net' : ~IsTakeOver(c)'
      BY <1>1, <2>7 DEF FirstInv, IsTakeOver
    <2>9. ~\E rec \in Record, t \in Token : TakePut(rec, t)
      <3>1. SUFFICES ASSUME NEW rec \in Record, NEW t \in Token, TakePut(rec, t)
                     PROVE  FALSE
        OBVIOUS
      <3>2. redis' = rec /\ redis' # redis /\ rec.state = "claimed"
            /\ HoldsClaim(redis, t) /\ rec.token \notin holders
        BY <3>1, IInvParts DEF TakePut, FreshPut, Put, HoldsClaim, StoreInv, Absent
      <3>3. ~ResolveAnswered(w)
        BY <1>2, <2>6, <3>2
        DEF ResolveAnswered, Put, StoreUnchanged, Resolved, Record, Live
      <3>4. ~ClaimAnswered(w)
        BY <3>2 DEF ClaimAnswered, Put, StoreUnchanged, HoldsClaim, Absent
      <3>. QED
        BY <2>1, <2>5, <3>2, <3>3, <3>4
        DEF Start, Step, Crash, ClaimUnanswered, Wake, PollAnswered, ReadUnanswered,
            ReconcileAnswered, RecheckAnswered, BeginExecute, ExecuteApplies,
            ExecuteFails, ExecuteUnknown, ExecuteTimesOut, ResolveUnanswered,
            redisVars, StoreUnchanged
    <2>10. ASSUME NEW v \in Workers, Executes(v)' PROVE holders' = {mine'[v].token}
      <3>1. CASE v = w
        BY <1>1, <2>1, <2>10, <3>1, FirstCall
      <3>2. CASE v # w
        <4>1. Executes(v) /\ mine'[v] = mine[v]
          BY <2>2, <2>10, <3>2 DEF Executes, Keeps
        <4>. QED
          BY <1>1, <1>2, <4>1, CriticalStays DEF FirstInv, Executes, Critical
      <3>. QED
        BY <3>1, <3>2
    <2>. QED
      BY <1>1, <1>2, <1>3, <2>4, <2>8, <2>9, <2>10, FirstClaim
      DEF FirstInv, Reconciles, Executes
  <1>5. CASE Tick \/ Tear \/ UNCHANGED vars \/ \E c \in net : Land(c)
    <2>1. UNCHANGED workerVars /\ net' \subseteq net
      BY <1>5 DEF Tick, Tear, Land, vars, redisVars
    <2>2. ~\E rec \in Record, t \in Token : TakePut(rec, t)
      <3>1. SUFFICES ASSUME NEW rec \in Record, NEW t \in Token, TakePut(rec, t)
                     PROVE  FALSE
        OBVIOUS
      <3>2. /\ redis' = rec /\ rec.state = "claimed" /\ HoldsClaim(redis, t)
            /\ rec.token \notin holders /\ redis.token \in holders /\ redis # Absent
        BY <3>1, IInvParts DEF TakePut, FreshPut, Put, HoldsClaim, StoreInv, Absent
      <3>3. PICK c \in net : Land(c) /\ c.rec = rec
        BY <1>5, <3>2, RecordFacts DEF Tick, Tear, Land, vars, redisVars, StoreUnchanged, Put
      <3>4. c.op = "cas"
        BY <3>2, <3>3 DEF Land, Applicable, StoreUnchanged
      <3>. QED
        BY <1>1, <3>2, <3>3, <3>4 DEF FirstInv, IsTakeOver
    <2>3. ASSUME NEW v \in Workers, Executes(v)' PROVE holders' = {mine'[v].token}
      <3>1. Executes(v) /\ mine'[v] = mine[v]
        BY <2>1, <2>3 DEF workerVars, Executes
      <3>. QED
        BY <1>1, <1>2, <3>1, CriticalStays DEF FirstInv, Executes, Critical
    <2>. QED
      BY <1>1, <1>2, <1>3, <2>1, <2>2, <2>3, FirstClaim
      DEF FirstInv, Executes, workerVars, IsTakeOver
  <1>. QED
    BY <1>4, <1>5 DEF Next

-----------------------------------------------------------------------------
(* PromiseInv is an invariant: no crash, lost reply, late command, expiry or *)
(* takeover makes an outcome that Guard.Run stores, sends or is about to     *)
(* return disagree with the ledger.                                          *)
THEOREM PromiseInvHolds == Spec => []PromiseInv
  <1>1. Init => TruthInv /\ FirstInv
    BY DEF Init, TruthInv, OutcomeInv, CachedOutcomeIsTrue, Absent, FirstInv
  <1>2. IInv /\ TruthInv /\ FirstInv /\ [Next]_vars => TruthInv' /\ FirstInv'
    BY NextTruth, NextFirst
  <1>. QED
    BY <1>1, <1>2, InvariantHolds, PTL DEF Spec, PromiseInv

(* What cacheHit hands to a resumed run is true: a record resolved with      *)
(* success means that the ledger has an entry, with error that it has none,  *)
(* for as long as Redis keeps the record.                                    *)
THEOREM CachedOutcomeHolds == Spec => []CachedOutcomeIsTrue
  <1>1. PromiseInv => CachedOutcomeIsTrue
    BY DEF PromiseInv, TruthInv
  <1>. QED
    BY <1>1, PromiseInvHolds, PTL

(* A claim is never taken from a worker that may still call its tool, and a  *)
(* resolved record is only ever dropped by expiry, however late the commands *)
(* of others land.                                                           *)
THEOREM ClaimRespected == Spec => ClaimIsRespected
  <1> DEFINE A == /\ redis.state = "claimed" /\ redis' # redis
                       => \/ redis'.state = "resolved" /\ redis'.token = redis.token
                          \/ \A w \in Workers :
                               pc[w] \in {"execute", "executing"}
                                   => ~HoldsClaim(redis, mine[w].token)
                  /\ redis.state = "resolved" /\ redis' # redis => redis' = Absent
  <1>1. IInv /\ [Next]_vars => A
    <2>1. SUFFICES ASSUME IInv, [Next]_vars PROVE A
      OBVIOUS
    <2>2. RedisStep
      BY <2>1, NextRedisStep
    <2>3. \A w \in Workers : pc[w] \in {"execute", "executing"} => redis' = redis
      BY <2>1, <2>2, CriticalStays DEF Critical
    <2>4. redis.state = "resolved" /\ redis' # redis => redis' = Absent
      BY <2>2
      DEF RedisStep, Expires, ClaimPut, TakePut, OutcomePut, ResolvedPut, HoldsClaim,
          Absent
    <2>. QED
      BY <2>3, <2>4
  <1>. QED
    BY <1>1, InvariantHolds, PTL DEF Spec, ClaimIsRespected

(* A tool that does not implement Reconciler is called under the first claim *)
(* its key ever held, or not at all.                                         *)
THEOREM FirstClaimOnly == Spec => CalledUnderFirstClaim
  <1> DEFINE A == \A w \in Workers :
                    ~Reconcilable /\ pc[w] = "execute" /\ pc'[w] = "executing"
                       => holders = {mine[w].token}
  <1>1. PromiseInv => A
    BY DEF PromiseInv, FirstInv
  <1>. QED
    BY <1>1, PromiseInvHolds, PTL DEF CalledUnderFirstClaim

-----------------------------------------------------------------------------
(* The fence implements AtMostOnce.                                          *)

Answers == [v \in Workers |-> Answer(v)]

LEMMA AnswerOf ==
    ASSUME NEW w
    PROVE  /\ pc[w] # "done" => Answer(w) = "none"
           /\ pc[w] = "done" /\ out[w].status # "none"
                => Answer(w) = out[w].status
           /\ pc[w] = "done" /\ out[w].status = "none"
                => Answer(w) = IF out[w].kind = "outcome_unknown" THEN "unknown"
                                                                   ELSE "refused"
  BY DEF Answer

LEMMA AnswerOfNext ==
    ASSUME NEW w
    PROVE  /\ pc'[w] # "done" => Answer(w)' = "none"
           /\ pc'[w] = "done" /\ out'[w].status # "none"
                => Answer(w)' = out'[w].status
           /\ pc'[w] = "done" /\ out'[w].status = "none"
                => Answer(w)' = IF out'[w].kind = "outcome_unknown" THEN "unknown"
                                                                   ELSE "refused"
  BY DEF Answer

LEMMA AnswersKept ==
    ASSUME NEW w \in Workers, \A v \in Workers : v # w => Keeps(v),
           NEW a, Answer(w)' = a
    PROVE  Answers' = [Answers EXCEPT ![w] = a]
  <1>1. \A v \in Workers : v # w => Answer(v)' = Answer(v)
    BY DEF Keeps, Answer
  <1>. QED
    BY <1>1 DEF Answers

(* A step that returns.                                                      *)
LEMMA ReturnReplies ==
    ASSUME Local, NEW w \in Workers, \A v \in Workers : v # w => Keeps(v),
           pc[w] # "done", ledger' = ledger,
           NEW kind, NEW status \in {"none", "success", "error"},
           Return(w, kind, status),
           status = "success" => ledger # {},
           status = "error" => ledger = {},
           status = "none" /\ kind # "outcome_unknown" => w \notin ledger
    PROVE  Promise!Next
  <1>1. pc'[w] = "done" /\ out'[w] = [kind |-> kind, status |-> status]
    BY DEF Return, Ends, Moves, Local
  <1>2. Answers[w] = "none"
    BY AnswerOf DEF Answers
  <1>3. PICK a \in {"success", "error", "refused", "unknown"} :
             /\ Answer(w)' = a
             /\ a = "success" => ledger # {}
             /\ a = "error" => ledger = {}
             /\ a = "refused" => w \notin ledger
    BY <1>1, AnswerOfNext
  <1>4. Answers' = [Answers EXCEPT ![w] = a]
    BY <1>3, AnswersKept
  <1>5. Promise!Reply(w, a)
    BY <1>2, <1>3, <1>4 DEF Promise!Reply, Answers
  <1>. QED
    BY <1>5 DEF Promise!Next

(* A step that does not return and leaves the ledger alone.                  *)
LEMMA GoesOn ==
    ASSUME NEW w \in Workers, \A v \in Workers : v # w => Keeps(v),
           pc[w] # "done", pc'[w] # "done", ledger' = ledger
    PROVE  UNCHANGED <<ledger, Answers>>
  <1>1. Answer(w) = "none" /\ Answer(w)' = "none"
    BY AnswerOf, AnswerOfNext
  <1>2. \A v \in Workers : v # w => Answer(v)' = Answer(v)
    BY DEF Keeps, Answer
  <1>. QED
    BY <1>1, <1>2 DEF Answers

(* The tool's line reaches the ledger.                                       *)
LEMMA EffectApplies ==
    ASSUME Local, NEW w \in Workers, \A v \in Workers : v # w => Keeps(v),
           pc[w] = "executing", ledger = {}, ledger' = {w},
           Answer(w)' \in {"none", "unknown"}
    PROVE  Promise!Next
  <1>1. Answers[w] = "none"
    BY AnswerOf DEF Answers
  <1>2. Answers' = [Answers EXCEPT ![w] = Answer(w)']
    BY AnswersKept
  <1>3. Answer(w)' = "none" => Answers' = Answers
    BY <1>1, <1>2 DEF Answers
  <1>4. Promise!Apply(w)
    BY <1>1, <1>2, <1>3 DEF Promise!Apply, Answers
  <1>. QED
    BY <1>4 DEF Promise!Next

LEMMA WorkerKeepsPromise ==
    ASSUME PromiseInv, NEW w \in Workers, Start(w) \/ Step(w) \/ Crash(w)
    PROVE  Promise!Next \/ UNCHANGED <<ledger, Answers>>
  <1>1. /\ IInv /\ TruthInv /\ OutcomeInv(w) /\ CachedOutcomeIsTrue
        /\ Shared /\ Local /\ UnspentInv(w) /\ ClaimInv(w)
    BY IInvParts DEF PromiseInv, TruthInv
  <1>2. \A v \in Workers : v # w => Keeps(v)
    BY <1>1, OthersKeep
  <1>3. pc[w] # "done"
    BY DEF Start, Step, Crash, Live, ClaimAnswered, ClaimUnanswered, Wake, PollAnswered,
        ReadUnanswered, ReconcileAnswered, TakeOverAnswered, TakeOverUnanswered,
        RecheckAnswered, BeginExecute, ExecuteApplies, ExecuteFails, ExecuteUnknown,
        ExecuteTimesOut, ResolveAnswered, ResolveUnanswered, MayRecord
  <1> DEFINE Kept == Promise!Next \/ UNCHANGED <<ledger, Answers>>
  <1>4. ASSUME NEW p, NEW s, NEW b, NEW o, Moves(w, p, s, b, o), p # "done",
               ledger' = ledger
        PROVE  Kept
    <2>1. pc'[w] # "done"
      BY <1>1, <1>4 DEF Moves, Local
    <2>. QED
      BY <1>2, <1>3, <1>4, <2>1, GoesOn
  <1>5. pc[w] \notin {"resolve", "done", "crashed"} => w \notin ledger
    BY <1>1 DEF TruthInv, Settled
  <1>6. ASSUME NEW kind, Return(w, kind, "none"), ledger' = ledger,
               pc[w] \notin {"resolve", "done", "crashed"} \/ kind = "outcome_unknown"
        PROVE  Kept
    BY <1>1, <1>2, <1>3, <1>5, <1>6, ReturnReplies
  <1>. SUFFICES Kept
    OBVIOUS
  <1>. HIDE DEF Kept
  <1>7. ASSUME RetryAgain(w), ledger' = ledger PROVE Kept
    BY <1>2, <1>3, <1>7, GoesOn DEF RetryAgain, Kept
  <1>8. ASSUME Unanswered(w), ledger' = ledger, pc[w] # "resolve", Live(w) PROVE Kept
    BY <1>6, <1>7, <1>8 DEF Unanswered, GiveUp, Live
  <1>9. ASSUME Restart(w) \/ Attempt(w), ledger' = ledger,
               pc[w] \notin {"resolve", "done", "crashed"}
        PROVE  Kept
    BY <1>4, <1>6, <1>9 DEF Restart, Attempt
  <1>10. ASSUME NEW s, Reconcile(w, s), ledger' = ledger,
                pc[w] \notin {"resolve", "done", "crashed"}
         PROVE  Kept
    BY <1>4, <1>6, <1>10 DEF Reconcile
  <1>11. ASSUME Acquired(w), ledger' = ledger,
                pc[w] \notin {"resolve", "done", "crashed"}
         PROVE  Kept
    BY <1>4, <1>10, <1>11 DEF Acquired, Execute
  <1>12. ASSUME redis # Absent, Settle(w, redis), ledger' = ledger,
                pc[w] \notin {"resolve", "done", "crashed"}
         PROVE  Kept
    <2>1. redis \in Record /\ redis.status \in {"none", "success", "error"}
      BY <1>1, <1>12 DEF Shared, Record
    <2>2. CASE redis.state = "resolved" /\ Return(w, "cached", redis.status)
      <3>1. /\ redis.status = "success" => ledger # {}
            /\ redis.status = "error" => ledger = {}
        BY <1>1, <2>2 DEF CachedOutcomeIsTrue
      <3>. QED
        BY <1>1, <1>2, <1>3, <1>5, <1>12, <2>1, <2>2, <3>1, ReturnReplies DEF Kept
    <2>3. CASE Return(w, "record_mismatch", "none") \/ WaitUntilSettled(w, redis)
      BY <1>4, <1>6, <1>10, <1>12, <2>3 DEF WaitUntilSettled
    <2>. QED
      BY <1>12, <2>2, <2>3 DEF Settle
  <1>13. ASSUME ActOnReconciled(w), ledger' = ledger PROVE Kept
    BY <1>4, <1>13 DEF ActOnReconciled, Resolve, Execute
  <1>14. CASE Start(w) \/ Crash(w)
    BY <1>4, <1>9, <1>14 DEF Start, Crash, Ends, toolVars
  <1>15. CASE ClaimAnswered(w)
    BY <1>11, <1>12, <1>15 DEF ClaimAnswered, Existing, toolVars
  <1>16. CASE ClaimUnanswered(w) \/ ReadUnanswered(w) \/ TakeOverUnanswered(w)
    BY <1>8, <1>16
    DEF ClaimUnanswered, ReadUnanswered, TakeOverUnanswered, toolVars, Live
  <1>17. CASE Wake(w) \/ PollAnswered(w)
    BY <1>4, <1>9, <1>12, <1>17 DEF Wake, PollAnswered, toolVars
  <1>18. CASE ReconcileAnswered(w)
    BY <1>4, <1>18 DEF ReconcileAnswered, Resolve, Execute, toolVars
  <1>19. CASE TakeOverAnswered(w) \/ RecheckAnswered(w)
    BY <1>4, <1>9, <1>13, <1>19 DEF TakeOverAnswered, RecheckAnswered, toolVars
  <1>20. CASE BeginExecute(w) \/ ExecuteFails(w)
    BY <1>4, <1>20 DEF BeginExecute, ExecuteFails, Resolve, toolVars
  <1>21. CASE ExecuteTimesOut(w)
    BY <1>6, <1>21 DEF ExecuteTimesOut, toolVars
  <1>22. CASE ExecuteApplies(w)
    <2>1. pc[w] = "executing" /\ ledger' = ledger \cup {w}
      BY <1>22 DEF ExecuteApplies, MayRecord, AppendLine
    <2>2. ledger = {}
      BY <1>1, <2>1 DEF UnspentInv
    <2>3. pc'[w] = "resolve"
      BY <1>1, <1>22 DEF ExecuteApplies, Resolve, Moves, Local
    <2>4. Answer(w)' = "none"
      BY <2>3, AnswerOfNext
    <2>. QED
      BY <1>1, <1>2, <2>1, <2>2, <2>4, EffectApplies DEF Kept
  <1>23. CASE ExecuteUnknown(w)
    <2>1. pc[w] = "executing" /\ (ledger' = ledger \/ ledger' = ledger \cup {w})
          /\ Return(w, "outcome_unknown", "none")
      BY <1>23 DEF ExecuteUnknown, MayRecord, AppendLine
    <2>2. ledger = {}
      BY <1>1, <2>1 DEF UnspentInv
    <2>3. pc'[w] = "done" /\ out'[w] = [kind |-> "outcome_unknown", status |-> "none"]
      BY <1>1, <2>1 DEF Return, Ends, Moves, Local
    <2>4. Answer(w)' = "unknown"
      BY <2>3, AnswerOfNext
    <2>5. CASE ledger' = ledger
      BY <1>6, <2>1, <2>5
    <2>6. CASE ledger' = ledger \cup {w}
      BY <1>1, <1>2, <2>1, <2>2, <2>4, <2>6, EffectApplies DEF Kept
    <2>. QED
      BY <2>1, <2>5, <2>6
  <1>24. CASE ResolveAnswered(w) \/ ResolveUnanswered(w)
    <2>1. pc[w] = "resolve" /\ ledger' = ledger
      BY <1>24 DEF ResolveAnswered, ResolveUnanswered, toolVars
    <2>2. out[w].status \in {"none", "success", "error"}
      BY <1>1 DEF Local, OutRecord
    <2>3. /\ out[w].status # "none"
          /\ out[w].status = "success" => ledger # {}
          /\ out[w].status = "error" => ledger = {}
      BY <1>1, <2>1 DEF OutcomeInv
    <2>4. CASE Return(w, out[w].kind, out[w].status)
      BY <1>1, <1>2, <1>3, <2>1, <2>2, <2>3, <2>4, ReturnReplies DEF Kept
    <2>. QED
      BY <1>7, <1>24, <2>1, <2>4 DEF ResolveAnswered, ResolveUnanswered
  <1>. QED
    BY <1>14, <1>15, <1>16, <1>17, <1>18, <1>19, <1>20, <1>21, <1>22, <1>23, <1>24
    DEF Step

(* A step of Run in w leaves the other workers alone, and does not go back.  *)
LEMMA StepPlaces ==
    ASSUME IInv, NEW w \in Workers, Step(w)
    PROVE  /\ Live(w) /\ pc'[w] \notin {"idle", "crashed"}
           /\ \A v \in Workers : v # w => pc'[v] = pc[v]
  <1>1. Shared /\ Local
    BY IInvParts
  <1>2. Live(w)
    BY DEF Step, Live, ClaimAnswered, ClaimUnanswered, Wake, PollAnswered,
        ReadUnanswered, ReconcileAnswered, TakeOverAnswered, TakeOverUnanswered,
        RecheckAnswered, BeginExecute, ExecuteApplies, ExecuteFails, ExecuteUnknown,
        ExecuteTimesOut, ResolveAnswered, ResolveUnanswered, MayRecord
  <1> DEFINE Away == pc'[w] \notin {"idle", "crashed"}
  <1>3. ASSUME NEW p, NEW s, NEW b, NEW o, Moves(w, p, s, b, o), p \notin {"idle", "crashed"}
        PROVE  Away
    BY <1>1, <1>3 DEF Moves, Local
  <1>4. ASSUME NEW kind, NEW status, Return(w, kind, status) PROVE Away
    BY <1>3, <1>4 DEF Return, Ends
  <1>5. ASSUME RetryAgain(w) \/ Unanswered(w) PROVE Away
    <2>1. CASE RetryAgain(w)
      BY <1>2, <2>1 DEF RetryAgain, Live
    <2>. QED
      BY <1>4, <1>5, <2>1 DEF Unanswered, GiveUp
  <1>6. ASSUME Restart(w) PROVE Away
    BY <1>3, <1>4, <1>6 DEF Restart, Attempt
  <1>7. ASSUME NEW s, Reconcile(w, s) PROVE Away
    BY <1>3, <1>4, <1>7 DEF Reconcile
  <1>8. ASSUME NEW kind, Execute(w, kind) PROVE Away
    BY <1>3, <1>8 DEF Execute
  <1>9. ASSUME NEW kind, NEW status, Resolve(w, kind, status) PROVE Away
    BY <1>3, <1>9 DEF Resolve
  <1>10. ASSUME Acquired(w) PROVE Away
    BY <1>7, <1>8, <1>10 DEF Acquired
  <1>11. ASSUME NEW rec, Settle(w, rec) PROVE Away
    BY <1>3, <1>4, <1>7, <1>11 DEF Settle, WaitUntilSettled
  <1>12. ASSUME ActOnReconciled(w) PROVE Away
    BY <1>8, <1>9, <1>12 DEF ActOnReconciled
  <1>13. Away
    <2>1. CASE ClaimAnswered(w)
      BY <1>10, <1>11, <2>1 DEF ClaimAnswered, Existing
    <2>2. CASE ClaimUnanswered(w) \/ ReadUnanswered(w) \/ TakeOverUnanswered(w)
      BY <1>5, <2>2 DEF ClaimUnanswered, ReadUnanswered, TakeOverUnanswered
    <2>3. CASE Wake(w) \/ PollAnswered(w)
      BY <1>3, <1>6, <1>11, <2>3 DEF Wake, PollAnswered
    <2>4. CASE ReconcileAnswered(w)
      BY <1>3, <1>8, <1>9, <2>4 DEF ReconcileAnswered
    <2>5. CASE TakeOverAnswered(w) \/ RecheckAnswered(w)
      BY <1>3, <1>6, <1>12, <2>5 DEF TakeOverAnswered, RecheckAnswered
    <2>6. CASE BeginExecute(w) \/ ExecuteApplies(w) \/ ExecuteFails(w)
      BY <1>3, <1>9, <2>6 DEF BeginExecute, ExecuteApplies, ExecuteFails
    <2>7. CASE ExecuteUnknown(w) \/ ExecuteTimesOut(w)
      BY <1>4, <2>7 DEF ExecuteUnknown, ExecuteTimesOut
    <2>8. CASE ResolveAnswered(w) \/ ResolveUnanswered(w)
      BY <1>4, <1>5, <2>8 DEF ResolveAnswered, ResolveUnanswered
    <2>. QED
      BY <2>1, <2>2, <2>3, <2>4, <2>5, <2>6, <2>7, <2>8 DEF Step
  <1>14. \A v \in Workers : v # w => Keeps(v)
    BY <1>1, OthersKeep
  <1>. QED
    BY <1>2, <1>13, <1>14 DEF Keeps

(* What a step of Run does to the ledger, and what Run may return.           *)
LEMMA StepOutcome ==
    ASSUME PromiseInv, NEW w \in Workers, Step(w)
    PROVE  /\ out'[w].status \in {"none", "success", "error"}
           /\ \/ /\ ledger' = ledger
                 /\ pc'[w] = "done" =>
                      /\ out'[w].status = "success" => ledger # {}
                      /\ out'[w].status = "error" => ledger = {}
                      /\ out'[w].status = "none" /\ out'[w].kind # "outcome_unknown"
                           => w \notin ledger
              \/ /\ ledger = {} /\ ledger' = {w}
                 /\ pc'[w] = "done" => /\ out'[w].status = "none"
                                       /\ out'[w].kind = "outcome_unknown"
  <1>1. IInv /\ TypeOK /\ Shape
    BY DEF PromiseInv, IInv
  <1>2. Live(w) /\ pc[w] # "done"
    BY <1>1, StepPlaces DEF Live
  <1>3. [Next]_vars
    BY DEF Next
  <1>4. out'[w].status \in {"none", "success", "error"}
    <2>1. TypeOK'
      BY <1>1, <1>3, NextTyped
    <2>. QED
      BY <2>1 DEF TypeOK
  <1>5. Answers[w] = "none" /\ Answers'[w] = Answer(w)'
    BY <1>2, AnswerOf DEF Answers
  <1>6. \A v \in Workers : v # w => Answers'[v] = Answers[v]
    <2>1. Shared /\ Local
      BY <1>1, IInvParts
    <2>2. \A v \in Workers : v # w => Keeps(v)
      BY <2>1, OthersKeep
    <2>. QED
      BY <2>2 DEF Keeps, Answer, Answers
  <1>7. ASSUME pc'[w] = "done"
        PROVE  /\ Answer(w)' # "none"
               /\ out'[w].status # "none" => Answer(w)' = out'[w].status
               /\ out'[w].status = "none" /\ out'[w].kind # "outcome_unknown"
                    => Answer(w)' = "refused"
               /\ Answer(w)' = "unknown" => /\ out'[w].status = "none"
                                            /\ out'[w].kind = "outcome_unknown"
    BY <1>4, <1>7, AnswerOfNext
  <1>8. CASE UNCHANGED <<ledger, Answers>>
    <2>1. pc'[w] # "done"
      BY <1>5, <1>7, <1>8
    <2>. QED
      BY <1>4, <1>8, <2>1
  <1>9. ASSUME NEW c \in Workers, Promise!Apply(c)
        PROVE  /\ ledger = {} /\ ledger' = {w}
               /\ pc'[w] = "done" => Answer(w)' = "unknown"
    <2>1. ledger = {} /\ ledger' = {c}
      BY <1>9 DEF Promise!Apply
    <2>2. Answers' = Answers \/ Answers' = [Answers EXCEPT ![c] = "unknown"]
      BY <1>9 DEF Promise!Apply, Answers
    <2>3. c = w
      <3>1. ledger' \subseteq ledger \cup {w}
        BY DEF Step, ClaimAnswered, ClaimUnanswered, Wake, PollAnswered,
           ReadUnanswered, ReconcileAnswered, TakeOverAnswered, TakeOverUnanswered,
           RecheckAnswered, BeginExecute, ExecuteApplies, ExecuteFails, ExecuteUnknown,
           ExecuteTimesOut, ResolveAnswered, ResolveUnanswered, AppendLine, toolVars
      <3>. QED
        BY <2>1, <3>1
    <2>4. pc'[w] = "done" => Answers'[w] = "unknown"
      BY <1>5, <1>7, <2>2, <2>3 DEF Answers
    <2>. QED
      BY <1>5, <2>1, <2>3, <2>4
  <1>10. ASSUME NEW c \in Workers, NEW a \in {"success", "error", "refused", "unknown"},
                Promise!Reply(c, a)
         PROVE  /\ ledger' = ledger
                /\ pc'[w] = "done" =>
                     /\ Answer(w)' = "success" => ledger # {}
                     /\ Answer(w)' = "error" => ledger = {}
                     /\ Answer(w)' = "refused" => w \notin ledger
    <2>1. ledger' = ledger /\ Answers' = [Answers EXCEPT ![c] = a]
          /\ (a = "success" => ledger # {}) /\ (a = "error" => ledger = {})
          /\ (a = "refused" => c \notin ledger)
      BY <1>10 DEF Promise!Reply, Answers
    <2>2. pc'[w] = "done" => c = w /\ Answers'[w] = a
      BY <1>5, <1>7, <2>1 DEF Answers
    <2>. QED
      BY <1>5, <2>1, <2>2
  <1>11. Promise!Next \/ UNCHANGED <<ledger, Answers>>
    BY WorkerKeepsPromise
  <1>. QED
    BY <1>4, <1>7, <1>8, <1>9, <1>10, <1>11 DEF Promise!Next

(* Guard.Run implements AtMostOnce: whatever crashes, lost replies, late     *)
(* commands, expiries and takeovers do to its workers, a second entry never  *)
(* appears, success is only returned when there is an entry, error when      *)
(* there is none, and a refused caller made none.                            *)
THEOREM FenceKeepsPromise == Spec => KeepsPromise
  <1>1. Init => Promise!Init
    <2>1. SUFFICES ASSUME Init PROVE Promise!Init
      OBVIOUS
    <2>2. \A v \in Workers : Answer(v) = "none"
      BY <2>1, AnswerOf DEF Init
    <2>. QED
      BY <2>1, <2>2 DEF Init, Promise!Init
  <1>2. PromiseInv /\ [Next]_vars
          => [Promise!Next]_<<ledger, [w \in Workers |-> Answer(w)]>>
    <2>1. SUFFICES ASSUME PromiseInv, [Next]_vars
                   PROVE  Promise!Next \/ UNCHANGED <<ledger, Answers>>
      BY DEF Answers
    <2>2. CASE Tick \/ Tear \/ UNCHANGED vars \/ \E c \in net : Land(c)
      <3>1. ledger' = ledger /\ pc' = pc /\ out' = out
        BY <2>2 DEF Tick, Tear, Land, vars, toolVars, workerVars
      <3>2. \A v \in Workers : Answer(v)' = Answer(v)
        BY <3>1 DEF Answer
      <3>. QED
        BY <3>1, <3>2 DEF Answers
    <2>. QED
      BY <2>1, <2>2, WorkerKeepsPromise DEF Next
  <1>. QED
    BY <1>1, <1>2, PromiseInvHolds, PTL DEF Spec, KeepsPromise, Promise!Spec
=============================================================================
