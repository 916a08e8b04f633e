----------------------------- MODULE FenceProofs -----------------------------
(***************************************************************************)
(* The fence is type correct, and under its timing assumption it lets a     *)
(* tool take effect at most once, for every set of workers and every value  *)
(* of the other constants.                                                  *)
(***************************************************************************)
EXTENDS FenceInvariant, TLAPS

(* Types.  No assumption on timing is used.                                  *)

LEMMA InitTyped == Init => TypeOK /\ Shape
  <1>. SUFFICES ASSUME Init PROVE TypeOK /\ Shape
    OBVIOUS
  <1>1. now \in Nat /\ expires \in Nat /\ redis \in Record \cup {Absent}
    BY DEF Init
  <1>2. net \subseteq Command /\ ledger \subseteq Workers /\ corrupt \in BOOLEAN
        /\ holders \subseteq Token
    BY DEF Init
  <1>3. pc \in [Workers -> PCs]
    BY DEF Init, PCs
  <1>4. mine \in [Workers -> Record \cup {Absent}]
        /\ seen \in [Workers -> Record \cup {Absent}]
    BY DEF Init
  <1>5. by \in [Workers -> Nat] /\ race \in [Workers -> 0..MaxClaimRaces]
        /\ tries \in [Workers -> 0..(RetryAttempts - 1)]
    BY ConstantsAssumption DEF ConstantsAssumption, Init
  <1>6. out \in [Workers -> [kind : Outcomes \cup Errors \cup {"none"},
                            status : {"none", "success", "error"}]]
    BY DEF Init, Nothing
  <1>7. Shape
    BY DEF Init, Shape, Live
  <1>. QED
    BY <1>1, <1>2, <1>3, <1>4, <1>5, <1>6, <1>7 DEF TypeOK

(* A command that lands keeps the types.                                     *)
LEMMA LandTyped ==
    ASSUME TypeOK, Shape, NEW c \in net, Land(c)
    PROVE  TypeOK' /\ Shape'
  <1>1. c \in Command
    BY DEF TypeOK
  <1>2. c.rec \in Record /\ c.rec.token \in Token /\ c.ttl \in Nat
    BY <1>1 DEF Command, Record
  <1>. QED
    BY <1>2 DEF Land, Put, StoreUnchanged, TypeOK, Shape, Live, toolVars, workerVars

-----------------------------------------------------------------------------
(* The part of the invariant that is about the workers' own variables.       *)

OutRecord == [kind : Outcomes \cup Errors \cup {"none"},
              status : {"none", "success", "error"}]

Local ==
    /\ pc \in [Workers -> PCs]
    /\ mine \in [Workers -> Record \cup {Absent}]
    /\ seen \in [Workers -> Record \cup {Absent}]
    /\ by \in [Workers -> Nat]
    /\ race \in [Workers -> 0..MaxClaimRaces]
    /\ tries \in [Workers -> 0..(RetryAttempts - 1)]
    /\ out \in [Workers -> OutRecord]
    /\ Shape

(* What w, at pc p with the values s, m and r, has to satisfy.               *)
Fits(p, s, m, r) ==
    /\ p = "idle" => r = 0
    /\ p \notin {"idle", "done", "crashed"} => r # 0 /\ m \in Record
    /\ p \in {"sleep", "poll", "takeover", "recheck"} => s \in Record

LEMMA MovesTyped ==
    ASSUME Local, NEW w \in Workers, NEW p \in PCs,
           NEW s \in Record \cup {Absent}, NEW b \in Nat, NEW o \in OutRecord,
           NEW m \in Record \cup {Absent}, NEW r \in 0..MaxClaimRaces,
           Moves(w, p, s, b, o),
           mine' = [mine EXCEPT ![w] = m], race' = [race EXCEPT ![w] = r],
           Fits(p, s, m, r)
    PROVE  Local'
  <1>1. pc' \in [Workers -> PCs] /\ by' \in [Workers -> Nat]
    BY DEF Local, Moves
  <1>2. /\ mine' \in [Workers -> Record \cup {Absent}]
        /\ seen' \in [Workers -> Record \cup {Absent}]
    BY DEF Local, Moves
  <1>3. race' \in [Workers -> 0..MaxClaimRaces]
    BY DEF Local
  <1>4. tries' \in [Workers -> 0..(RetryAttempts - 1)]
    BY ConstantsAssumption DEF ConstantsAssumption, Local, Moves
  <1>5. out' \in [Workers -> OutRecord]
    BY DEF Local, Moves
  <1>6. Shape'
    BY DEF Local, Moves, Shape, Fits, Live
  <1>. QED
    BY <1>1, <1>2, <1>3, <1>4, <1>5, <1>6 DEF Local

(* The same for a move that keeps the record and the pass.                   *)
LEMMA KeepsTyped ==
    ASSUME Local, NEW w \in Workers, NEW p \in PCs,
           NEW s \in Record \cup {Absent}, NEW b \in Nat, NEW o \in OutRecord,
           Moves(w, p, s, b, o), UNCHANGED <<mine, race>>,
           Fits(p, s, mine[w], race[w])
    PROVE  Local'
  <1>1. mine' = [mine EXCEPT ![w] = mine[w]] /\ race' = [race EXCEPT ![w] = race[w]]
    BY DEF Local
  <1>2. mine[w] \in Record \cup {Absent} /\ race[w] \in 0..MaxClaimRaces
    BY DEF Local
  <1>. QED
    BY <1>1, <1>2, MovesTyped

LEMMA EndsTyped ==
    ASSUME Local, NEW w \in Workers, NEW p \in {"done", "crashed"},
           NEW o \in OutRecord, Ends(w, p, o)
    PROVE  Local'
  <1>1. Fits(p, Absent, Absent, 0) /\ p \in PCs /\ 0 \in 0..MaxClaimRaces
    BY ConstantsAssumption DEF ConstantsAssumption, Fits, PCs
  <1>. QED
    BY <1>1, MovesTyped DEF Ends

(* A freshly minted record is a Record.                                      *)
LEMMA NewRecordTyped ==
    ASSUME now \in Nat, NEW w \in Workers, NEW r \in 1..MaxClaimRaces,
           NEW op \in {"claim", "takeover"}
    PROVE  NewRecord(w, r, op) \in Record
  BY ConstantsAssumption DEF ConstantsAssumption, NewRecord, Record, Token, Clock

LEMMA AttemptTyped ==
    ASSUME Local, now \in Nat, NEW w \in Workers, race[w] < MaxClaimRaces, Attempt(w)
    PROVE  Local'
  <1>1. race[w] \in 0..MaxClaimRaces /\ race[w] + 1 \in 1..MaxClaimRaces
    BY ConstantsAssumption DEF ConstantsAssumption, Local
  <1>2. NewRecord(w, race[w] + 1, "claim") \in Record
    BY <1>1, NewRecordTyped
  <1>3. Fits("claim", Absent, NewRecord(w, race[w] + 1, "claim"), race[w] + 1)
    BY <1>1, <1>2 DEF Fits
  <1>4. "claim" \in PCs /\ now + OpDelay \in Nat /\ Nothing \in OutRecord
        /\ race[w] + 1 \in 0..MaxClaimRaces
    BY <1>1, ConstantsAssumption
    DEF ConstantsAssumption, PCs, Blocks, Nothing, OutRecord
  <1>. QED
    BY <1>1, <1>2, <1>3, <1>4, MovesTyped DEF Attempt

LEMMA ReturnTyped ==
    ASSUME Local, NEW w \in Workers,
           NEW kind \in Outcomes \cup Errors \cup {"none"},
           NEW status \in {"none", "success", "error"}, Return(w, kind, status)
    PROVE  Local'
  <1>1. [kind |-> kind, status |-> status] \in OutRecord
    BY DEF OutRecord
  <1>. QED
    BY <1>1, EndsTyped DEF Return

LEMMA RestartTyped ==
    ASSUME Local, now \in Nat, NEW w \in Workers, Restart(w)
    PROVE  Local'
  BY AttemptTyped, ReturnTyped DEF Restart, Errors

(* Facts every step of a live worker needs.                                  *)
LEMMA LiveFacts ==
    ASSUME Local, now \in Nat, NEW w \in Workers
    PROVE  /\ now + OpDelay \in Nat /\ now + PollInterval \in Nat
           /\ now + ToolTimeout[w] \in Nat /\ by[w] \in Nat
           /\ Nothing \in OutRecord /\ out[w] \in OutRecord
           /\ race[w] \in 0..MaxClaimRaces
           /\ mine[w] \in Record \cup {Absent} /\ seen[w] \in Record \cup {Absent}
           /\ Live(w) => mine[w] \in Record /\ race[w] \in 1..MaxClaimRaces
           /\ pc[w] \in {"sleep", "poll", "takeover", "recheck"} => seen[w] \in Record
  BY ConstantsAssumption
  DEF ConstantsAssumption, Local, Nothing, OutRecord, Shape

LEMMA ReconcileTyped ==
    ASSUME Local, now \in Nat, NEW w \in Workers, Live(w),
           NEW stale \in Record \cup {Absent}, Reconcile(w, stale)
    PROVE  Local'
  <1>1. CASE ~Reconcilable
    BY <1>1, ReturnTyped DEF Reconcile, Errors
  <1>2. CASE Reconcilable
    <2>1. Fits("reconcile", stale, mine[w], race[w]) /\ "reconcile" \in PCs
      BY LiveFacts DEF Fits, PCs, Blocks
    <2>. QED
      BY <1>2, <2>1, LiveFacts, KeepsTyped DEF Reconcile
  <1>. QED
    BY <1>1, <1>2

LEMMA ExecuteTyped ==
    ASSUME Local, now \in Nat, NEW w \in Workers, Live(w),
           NEW kind \in Outcomes, Execute(w, kind), UNCHANGED mine
    PROVE  Local'
  <1>1. Fits("execute", Absent, mine[w], race[w]) /\ "execute" \in PCs
    BY LiveFacts DEF Fits, PCs
  <1>2. [kind |-> kind, status |-> "none"] \in OutRecord
    BY DEF OutRecord
  <1>. QED
    BY <1>1, <1>2, LiveFacts, KeepsTyped DEF Execute

LEMMA AcquiredTyped ==
    ASSUME Local, now \in Nat, NEW w \in Workers, Live(w), Acquired(w)
    PROVE  Local'
  BY ReconcileTyped, ExecuteTyped DEF Acquired, Outcomes

LEMMA WaitTyped ==
    ASSUME Local, now \in Nat, NEW w \in Workers, Live(w),
           NEW rec \in Record, WaitUntilSettled(w, rec)
    PROVE  Local'
  <1>1. CASE IsStale(w, rec)
    BY <1>1, ReconcileTyped DEF WaitUntilSettled
  <1>2. CASE ~IsStale(w, rec)
    <2>1. Fits("sleep", rec, mine[w], race[w]) /\ "sleep" \in PCs
      BY LiveFacts DEF Fits, PCs
    <2>. QED
      BY <1>2, <2>1, LiveFacts, KeepsTyped DEF WaitUntilSettled
  <1>. QED
    BY <1>1, <1>2

LEMMA SettleTyped ==
    ASSUME Local, now \in Nat, NEW w \in Workers, Live(w),
           NEW rec \in Record, Settle(w, rec)
    PROVE  Local'
  <1>1. rec.status \in {"none", "success", "error"}
    BY DEF Record
  <1>. QED
    BY <1>1, ReturnTyped, WaitTyped DEF Settle, Errors, Outcomes

LEMMA ResolveTyped ==
    ASSUME Local, now \in Nat, NEW w \in Workers, Live(w),
           NEW kind \in Outcomes \cup Errors \cup {"none"},
           NEW status \in {"none", "success", "error"}, Resolve(w, kind, status)
    PROVE  Local'
  <1>1. Fits("resolve", Absent, mine[w], race[w]) /\ "resolve" \in PCs
    BY LiveFacts DEF Fits, PCs, Blocks
  <1>2. [kind |-> kind, status |-> status] \in OutRecord
    BY DEF OutRecord
  <1>. QED
    BY <1>1, <1>2, LiveFacts, KeepsTyped DEF Resolve

LEMMA ActOnReconciledTyped ==
    ASSUME Local, now \in Nat, NEW w \in Workers, Live(w), ActOnReconciled(w)
    PROVE  Local'
  BY ResolveTyped, ExecuteTyped DEF ActOnReconciled, Outcomes

LEMMA RetryAgainTyped ==
    ASSUME Local, NEW w \in Workers, RetryAgain(w)
    PROVE  Local'
  <1>1. tries' \in [Workers -> 0..(RetryAttempts - 1)]
    BY ConstantsAssumption DEF ConstantsAssumption, Local, RetryAgain
  <1>. QED
    BY <1>1 DEF Local, RetryAgain, Shape, Live

LEMMA UnansweredTyped ==
    ASSUME Local, NEW w \in Workers, Unanswered(w)
    PROVE  Local'
  BY RetryAgainTyped, ReturnTyped DEF Unanswered, GiveUp, Errors

-----------------------------------------------------------------------------
(* The part of the invariant that is about Redis, the network and the ledger. *)
Shared ==
    /\ now \in Nat
    /\ redis \in Record \cup {Absent}
    /\ expires \in Nat
    /\ net \subseteq Command
    /\ ledger \subseteq Workers
    /\ corrupt \in BOOLEAN
    /\ holders \subseteq Token

LEMMA TypeOKParts == (TypeOK /\ Shape) <=> (Shared /\ Local)
  BY DEF TypeOK, Shared, Local, OutRecord

LEMMA TypeOKPartsNext == (TypeOK /\ Shape)' <=> (Shared /\ Local)'
  BY DEF TypeOK, Shared, Local, OutRecord

LEMMA PutTyped ==
    ASSUME Shared, NEW rec \in Record, NEW ttl \in Nat, Put(rec, ttl),
           UNCHANGED <<now, toolVars>>, net' \subseteq Command
    PROVE  Shared'
  BY DEF Shared, Put, toolVars, Record

LEMMA AddTyped ==
    ASSUME Shared, StoreUnchanged, UNCHANGED <<now, toolVars>>,
           net' \subseteq Command
    PROVE  Shared'
  BY DEF Shared, StoreUnchanged, toolVars

LEMMA CommandsTyped ==
    ASSUME Shared, NEW w \in Workers, mine[w] \in Record,
           NEW t \in Token, NEW rec \in Record
    PROVE  ClaimCommand(w) \in Command /\ CasCommand(w, t, rec) \in Command
  BY ConstantsAssumption
  DEF ConstantsAssumption, Shared, ClaimCommand, CasCommand, Command, Record

LEMMA ResolvedTyped ==
    ASSUME NEW rec \in Record, NEW status \in {"none", "success", "error"}
    PROVE  Resolved(rec, status) \in Record /\ Resolved(rec, status).token = rec.token
           /\ rec.token \in Token
  BY DEF Resolved, Record

LEMMA WorkerTyped ==
    ASSUME Shared, Local, NEW w \in Workers, Start(w) \/ Step(w) \/ Crash(w)
    PROVE  Shared' /\ Local'
  <1>now. now \in Nat
    BY DEF Shared
  <1>ttl. TTL[w] \in Nat
    BY ConstantsAssumption DEF ConstantsAssumption
  <1>live. Live(w) => mine[w] \in Record /\ mine[w].token \in Token
    BY <1>now, LiveFacts DEF Record
  <1>same. UNCHANGED <<now, redisVars, toolVars>> => Shared'
    BY DEF Shared, redisVars, toolVars
  <1>1. CASE Start(w)
    <2>1. race[w] < MaxClaimRaces
      BY <1>1, ConstantsAssumption DEF ConstantsAssumption, Start, Local, Shape
    <2>. QED
      BY <1>1, <2>1, <1>now, <1>same, AttemptTyped DEF Start
  <1>2. CASE ClaimAnswered(w)
    <2>1. Live(w)
      BY <1>2 DEF ClaimAnswered, Live
    <2>2. CASE redis = Absent
      BY <1>2, <1>now, <1>ttl, <1>live, <2>1, <2>2, AcquiredTyped, PutTyped
      DEF ClaimAnswered, Shared
    <2>3. CASE redis # Absent
      <3>1. redis \in Record
        BY <2>3 DEF Shared
      <3>2. Existing(w, redis) /\ Shared'
        BY <1>2, <2>3, AddTyped DEF ClaimAnswered, Shared
      <3>. QED
        BY <1>now, <2>1, <3>1, <3>2, AcquiredTyped, SettleTyped DEF Existing
    <2>. QED
      BY <2>2, <2>3
  <1>3. CASE ClaimUnanswered(w)
    <2>1. Live(w)
      BY <1>3 DEF ClaimUnanswered, Live
    <2>2. ClaimCommand(w) \in Command
      BY <1>live, <2>1, CommandsTyped
    <2>. QED
      BY <1>3, <2>2, AddTyped, UnansweredTyped DEF ClaimUnanswered, Shared
  <1>4. CASE Wake(w)
    <2>1. Live(w) /\ seen[w] \in Record
      BY <1>4, <1>now, LiveFacts DEF Wake, Live
    <2>2. Fits("poll", seen[w], mine[w], race[w]) /\ "poll" \in PCs
      BY <1>now, <2>1, LiveFacts DEF Fits, PCs, Blocks
    <2>. QED
      BY <1>4, <1>now, <1>same, <2>1, <2>2, LiveFacts, KeepsTyped DEF Wake
  <1>5. CASE PollAnswered(w)
    <2>1. Live(w)
      BY <1>5 DEF PollAnswered, Live
    <2>2. redis # Absent => redis \in Record
      BY DEF Shared
    <2>. QED
      BY <1>5, <1>now, <1>same, <2>1, <2>2, RestartTyped, SettleTyped DEF PollAnswered
  <1>6. CASE ReadUnanswered(w)
    BY <1>6, <1>same, UnansweredTyped DEF ReadUnanswered
  <1>7. CASE ReconcileAnswered(w)
    <2>1. Live(w)
      BY <1>7 DEF ReconcileAnswered, Live
    <2>2. CASE seen[w] # Absent
      <3> DEFINE kind == IF ledger # {} THEN "reconciled" ELSE "reexecuted"
                 m == NewRecord(w, race[w], "takeover")
                 o == [kind |-> kind, status |-> "none"]
      <3>1. m \in Record /\ race[w] \in 1..MaxClaimRaces
        BY <1>now, <2>1, LiveFacts, NewRecordTyped
      <3>2. seen[w] \in Record /\ o \in OutRecord /\ "takeover" \in PCs
        BY <2>2, <1>now, LiveFacts DEF OutRecord, Outcomes, PCs, Blocks
      <3>3. Fits("takeover", seen[w], m, race[w])
        BY <3>1, <3>2 DEF Fits
      <3>4. /\ Moves(w, "takeover", seen[w], now + OpDelay, o)
            /\ mine' = [mine EXCEPT ![w] = m]
            /\ race' = [race EXCEPT ![w] = race[w]]
        BY <1>7, <2>2 DEF ReconcileAnswered, Local
      <3>. HIDE DEF m, o
      <3>5. Local'
        BY <1>now, <3>1, <3>2, <3>3, <3>4, LiveFacts, MovesTyped
      <3>. QED
        BY <1>7, <1>same, <3>5 DEF ReconcileAnswered
    <2>3. CASE seen[w] = Absent
      BY <1>7, <1>now, <1>same, <2>1, <2>3, ResolveTyped, ExecuteTyped
      DEF ReconcileAnswered, Outcomes
    <2>. QED
      BY <2>2, <2>3
  <1>8. CASE TakeOverAnswered(w)
    <2>1. Live(w) /\ seen[w] \in Record
      BY <1>8, <1>now, LiveFacts DEF TakeOverAnswered, Live
    <2>2. CASE HoldsClaim(redis, seen[w].token)
      BY <1>8, <1>now, <1>ttl, <1>live, <2>1, <2>2, ActOnReconciledTyped, PutTyped
      DEF TakeOverAnswered, Shared
    <2>3. CASE ~HoldsClaim(redis, seen[w].token)
      <3>1. Fits("recheck", seen[w], mine[w], race[w]) /\ "recheck" \in PCs
        BY <1>now, <2>1, LiveFacts DEF Fits, PCs, Blocks
      <3>. QED
        BY <1>8, <1>now, <2>1, <2>3, <3>1, LiveFacts, KeepsTyped, AddTyped
        DEF TakeOverAnswered, Shared
    <2>. QED
      BY <2>2, <2>3
  <1>9. CASE TakeOverUnanswered(w)
    <2>1. Live(w) /\ seen[w] \in Record /\ seen[w].token \in Token
      BY <1>9, <1>now, LiveFacts DEF TakeOverUnanswered, Live, Record
    <2>2. CasCommand(w, seen[w].token, mine[w]) \in Command
      BY <1>live, <2>1, CommandsTyped
    <2>. QED
      BY <1>9, <2>2, AddTyped, UnansweredTyped DEF TakeOverUnanswered, Shared
  <1>10. CASE RecheckAnswered(w)
    <2>1. Live(w)
      BY <1>10 DEF RecheckAnswered, Live
    <2>. QED
      BY <1>10, <1>now, <1>same, <2>1, ActOnReconciledTyped, RestartTyped
      DEF RecheckAnswered
  <1>11. CASE BeginExecute(w)
    <2>1. Live(w)
      BY <1>11 DEF BeginExecute, Live
    <2>2. Fits("executing", Absent, mine[w], race[w]) /\ "executing" \in PCs
      BY <1>now, <2>1, LiveFacts DEF Fits, PCs
    <2>. QED
      BY <1>11, <1>now, <1>same, <2>1, <2>2, LiveFacts, KeepsTyped DEF BeginExecute
  <1>12. CASE ExecuteApplies(w) \/ ExecuteFails(w)
    <2>1. Live(w) /\ out[w].kind \in Outcomes \cup Errors \cup {"none"}
      BY <1>12, <1>now, LiveFacts
      DEF ExecuteApplies, ExecuteFails, MayRecord, Live, OutRecord
    <2>2. Shared'
      BY <1>12 DEF ExecuteApplies, ExecuteFails, AppendLine, Shared, redisVars, toolVars
    <2>. QED
      BY <1>12, <1>now, <2>1, <2>2, ResolveTyped DEF ExecuteApplies, ExecuteFails
  <1>13. CASE ExecuteUnknown(w) \/ ExecuteTimesOut(w)
    <2>1. Shared'
      BY <1>13 DEF ExecuteUnknown, ExecuteTimesOut, AppendLine, Shared, redisVars, toolVars
    <2>. QED
      BY <1>13, <2>1, ReturnTyped DEF ExecuteUnknown, ExecuteTimesOut, Errors
  <1>14. CASE ResolveAnswered(w)
    <2>1. Live(w) /\ out[w] \in OutRecord
      BY <1>14, <1>now, LiveFacts DEF ResolveAnswered, Live
    <2>2. /\ out[w].kind \in Outcomes \cup Errors \cup {"none"}
          /\ out[w].status \in {"none", "success", "error"}
      BY <2>1 DEF OutRecord
    <2>3. Local'
      BY <1>14, <2>2, ReturnTyped DEF ResolveAnswered
    <2>4. CASE HoldsClaim(redis, mine[w].token)
      BY <1>14, <1>ttl, <1>live, <2>1, <2>2, <2>3, <2>4, ResolvedTyped, PutTyped
      DEF ResolveAnswered, Shared
    <2>5. CASE ~HoldsClaim(redis, mine[w].token)
      BY <1>14, <2>3, <2>5, AddTyped DEF ResolveAnswered, Shared
    <2>. QED
      BY <2>4, <2>5
  <1>15. CASE ResolveUnanswered(w)
    <2>1. Live(w) /\ out[w] \in OutRecord
      BY <1>15, <1>now, LiveFacts DEF ResolveUnanswered, Live
    <2>2. /\ out[w].kind \in Outcomes \cup Errors \cup {"none"}
          /\ out[w].status \in {"none", "success", "error"}
      BY <2>1 DEF OutRecord
    <2>3. CasCommand(w, mine[w].token, Resolved(mine[w], out[w].status)) \in Command
      BY <1>live, <2>1, <2>2, ResolvedTyped, CommandsTyped
    <2>4. Local'
      BY <1>15, <2>2, ReturnTyped, RetryAgainTyped DEF ResolveUnanswered
    <2>. QED
      BY <1>15, <2>3, <2>4, AddTyped DEF ResolveUnanswered, Shared
  <1>16. CASE Crash(w)
    <2>1. Nothing \in OutRecord
      BY DEF Nothing, OutRecord
    <2>. QED
      BY <1>16, <1>same, <2>1, EndsTyped DEF Crash
  <1>. QED
    BY <1>1, <1>2, <1>3, <1>4, <1>5, <1>6, <1>7, <1>8, <1>9, <1>10, <1>11, <1>12,
       <1>13, <1>14, <1>15, <1>16 DEF Step

LEMMA TickTyped ==
    ASSUME Shared, Local, Tick
    PROVE  Shared' /\ Local'
  <1>1. Local'
    BY DEF Tick, Local, Shape, Live, workerVars
  <1>2. now' \in Nat /\ net' \subseteq Command
    BY DEF Tick, Shared
  <1>3. redis' \in Record \cup {Absent} /\ expires' \in Nat
    BY DEF Tick, Shared
  <1>. QED
    BY <1>1, <1>2, <1>3 DEF Tick, Shared, toolVars

LEMMA TearTyped ==
    ASSUME Shared, Local, Tear
    PROVE  Shared' /\ Local'
  BY DEF Tear, Shared, Local, Shape, Live, redisVars, workerVars

LEMMA NextTyped ==
    ASSUME TypeOK /\ Shape, [Next]_vars
    PROVE  (TypeOK /\ Shape)'
  <1>1. Shared /\ Local
    BY TypeOKParts
  <1>2. CASE UNCHANGED vars
    BY <1>2 DEF vars, redisVars, toolVars, workerVars, TypeOK, Shape, Live
  <1>3. CASE \E w \in Workers : Start(w) \/ Step(w) \/ Crash(w)
    BY <1>1, <1>3, WorkerTyped, TypeOKPartsNext
  <1>4. CASE \E c \in net : Land(c)
    BY <1>4, LandTyped
  <1>5. CASE Tick
    BY <1>1, <1>5, TickTyped, TypeOKPartsNext
  <1>6. CASE Tear
    BY <1>1, <1>6, TearTyped, TypeOKPartsNext
  <1>. QED
    BY <1>2, <1>3, <1>4, <1>5, <1>6 DEF Next

(* Guard.Run, the store and the ledger keep their types: no retry, race or   *)
(* takeover makes a counter run over or sends a record that was never minted. *)
THEOREM TypeCorrect == Spec => []TypeOK
  <1>1. Init => TypeOK /\ Shape
    BY InitTyped
  <1>2. (TypeOK /\ Shape) /\ [Next]_vars => (TypeOK /\ Shape)'
    BY NextTyped
  <1>. QED
    BY <1>1, <1>2, PTL DEF Spec

-----------------------------------------------------------------------------
(* Arithmetic of the timing assumption.                                      *)

LEMMA Constants ==
    ASSUME NEW v \in Workers
    PROVE  /\ ToolTimeout[v] \in Nat /\ TTL[v] \in Nat /\ Skew[v] \in Int
           /\ OpDelay \in Nat /\ CommandLife \in Nat /\ StaleGrace \in Nat
           /\ ExpiryMargin \in Nat /\ PollInterval \in Nat /\ InvokedAt \in Int
  BY ConstantsAssumption DEF ConstantsAssumption

(* A claim whose holder may still act on it is stale to nobody.              *)
LEMMA NotYetStale ==
    ASSUME NEW v \in Workers, NEW x \in Workers, NEW a \in Int, NEW b \in Int,
           now \in Nat,
           now <= a - Skew[v] + 2 * OpDelay + ToolTimeout[v],
           ToolTimeout[x] + StaleGrace <= b - a,
           b - Skew[x] <= now
    PROVE  FALSE
  <1>1. 3 * OpDelay + ToolTimeout[v] + Skew[x] - Skew[v] < ToolTimeout[x] + StaleGrace
    BY TimingAssumption DEF TimingAssumption
  <1>. QED
    BY <1>1, Constants

LEMMA StaleTakesTime ==
    ASSUME NEW x \in Workers
    PROVE  0 < ToolTimeout[x] + StaleGrace
  <1>1. 3 * OpDelay + ToolTimeout[x] + Skew[x] - Skew[x] < ToolTimeout[x] + StaleGrace
    BY TimingAssumption DEF TimingAssumption
  <1>. QED
    BY <1>1, Constants

(* A key written at some time p >= 0 and gone by now looks expired to all.   *)
LEMMA GoneLooksExpired ==
    ASSUME NEW v \in Workers, NEW w \in Workers, NEW t \in Int,
           TTL[v] <= t
    PROVE  t + Skew[w] - InvokedAt >= TTL[w] - ExpiryMargin
  <1>1. TTL[w] - ExpiryMargin <= TTL[v] + Skew[w] - InvokedAt
    BY TimingAssumption DEF TimingAssumption
  <1>. QED
    BY <1>1, Constants

LEMMA Lifetimes ==
    ASSUME NEW v \in Workers, NEW w \in Workers
    PROVE  /\ OpDelay + CommandLife < TTL[v]
           /\ 2 * OpDelay + ToolTimeout[w] < TTL[v]
           /\ 0 < TTL[v]
  <1>1. OpDelay + CommandLife < TTL[v] /\ 2 * OpDelay + ToolTimeout[w] < TTL[v]
    BY TimingAssumption DEF TimingAssumption
  <1>. QED
    BY <1>1, Constants

-----------------------------------------------------------------------------
(* What the types say about tokens.                                          *)

LEMMA RecordFacts ==
    ASSUME NEW rec \in Record
    PROVE  /\ rec.token \in Token /\ rec.at \in Int
           /\ rec.token.by \in Workers /\ rec.token.at \in Int
           /\ rec.token.race \in 1..MaxClaimRaces
           /\ rec.state \in {"claimed", "resolved"}
           /\ rec # Absent
           /\ Minted(rec.token) \in Int
  BY Constants DEF Record, Token, Minted, Absent

(* A worker that relies on its claim does so before the claim can be stale.  *)
LEMMA CriticalBound ==
    ASSUME Shared, Local, NEW v \in Workers, MineInv(v), Critical(v)
    PROVE  /\ Live(v) /\ mine[v] \in Record /\ mine[v].token.by = v
           /\ mine[v].at = mine[v].token.at
           /\ now <= mine[v].at - Skew[v] + 2 * OpDelay + ToolTimeout[v]
  <1>1. Live(v)
    BY DEF Critical, Live
  <1>2. mine[v] \in Record /\ by[v] \in Nat /\ now \in Nat
    BY <1>1 DEF Local, Shape, Shared
  <1>3. mine[v].token.by = v /\ mine[v].at = mine[v].token.at /\ now <= by[v]
    BY <1>1 DEF MineInv, WellMinted
  <1>4. by[v] <= Minted(mine[v].token) + 2 * OpDelay + ToolTimeout[v]
    BY <1>1, <1>2, Constants, RecordFacts DEF Critical, MineInv
  <1>. QED
    BY <1>1, <1>2, <1>3, <1>4, Constants, RecordFacts DEF Minted

-----------------------------------------------------------------------------
(* Steps of the store, as the other workers see them.                        *)

Keeps(v) ==
    /\ pc'[v] = pc[v] /\ mine'[v] = mine[v] /\ seen'[v] = seen[v]
    /\ by'[v] = by[v] /\ race'[v] = race[v] /\ out'[v] = out[v]

(* Redis takes a claimed record whose token it has never held: a claim of an *)
(* absent key, or a takeover of the stale claim t.                           *)
FreshPut(rec) ==
    /\ rec \in Record /\ rec.state = "claimed" /\ WellMinted(rec)
    /\ rec.token \notin holders
    /\ Put(rec, TTL[rec.token.by])
    /\ now' = now

ClaimPut(rec) == FreshPut(rec) /\ rec.token.op = "claim" /\ redis = Absent

TakePut(rec, t) ==
    /\ FreshPut(rec)
    /\ rec.token.op = "takeover"
    /\ HoldsClaim(redis, t)
    /\ ToolTimeout[rec.token.by] + StaleGrace <= rec.at - t.at

(* Redis takes the outcome of the claim it holds.                            *)
ResolvedPut(rec) ==
    /\ rec \in Record /\ rec.state = "resolved" /\ WellMinted(rec)
    /\ HoldsClaim(redis, rec.token)
    /\ pc[rec.token.by] \in {"resolve", "done", "crashed"}
    /\ Put(rec, TTL[rec.token.by])
    /\ now' = now

SettledStays ==
    \A v \in Workers : pc[v] \in {"resolve", "done", "crashed"}
                         => pc'[v] \in {"resolve", "done", "crashed"}

LEMMA PutStore ==
    ASSUME Shared, StoreInv, NEW rec, FreshPut(rec) \/ ResolvedPut(rec),
           ledger' = ledger
    PROVE  StoreInv'
  <1>1. rec \in Record /\ WellMinted(rec) /\ Put(rec, TTL[rec.token.by]) /\ now' = now
    BY DEF FreshPut, ResolvedPut
  <1>2. WellMinted(rec)'
    BY <1>1 DEF WellMinted, Minted
  <1>3. redis' = rec /\ expires' = now + TTL[rec.token.by]
        /\ holders' = holders \cup {rec.token}
    BY <1>1 DEF Put
  <1>4. rec.token.by \in Workers /\ 0 < TTL[rec.token.by] /\ Minted(rec.token) <= now
        /\ TTL[rec.token.by] \in Nat /\ now \in Nat /\ Minted(rec.token) \in Int
        /\ rec # Absent
    BY <1>1, RecordFacts, Lifetimes, Constants DEF WellMinted, Shared
  <1>5. now' < expires' /\ Minted(rec.token) + TTL[rec.token.by] <= expires'
    BY <1>1, <1>3, <1>4
  <1>. QED
    BY <1>2, <1>3, <1>4, <1>5 DEF StoreInv, WellMinted, Minted

LEMMA PutNet ==
    ASSUME Shared, StoreInv, NetInv, NEW rec, FreshPut(rec) \/ ResolvedPut(rec),
           net' \subseteq net, SettledStays
    PROVE  NetInv'
  <1>1. rec \in Record /\ Put(rec, TTL[rec.token.by]) /\ now' = now
    BY DEF FreshPut, ResolvedPut
  <1>2. redis' = rec /\ expires' = now + TTL[rec.token.by]
        /\ holders' = holders \cup {rec.token} /\ rec # Absent
        /\ rec.token.by \in Workers
    BY <1>1, RecordFacts DEF Put
  <1>3. rec.state = "resolved" \/ rec.token \notin holders
    BY DEF FreshPut, ResolvedPut
  <1>4. rec.state = "resolved" => rec.token \in holders
    BY <1>1, RecordFacts DEF FreshPut, ResolvedPut, HoldsClaim, StoreInv, Absent
  <1>5. SUFFICES ASSUME NEW c \in net'
                 PROVE  CommandInv(c)'
    BY DEF NetInv
  <1>6. c \in net /\ c \in Command
    BY DEF Shared
  <1>7. c.rec \in Record /\ c.until \in Int /\ c.expect \in Token
    BY <1>6 DEF Command
  <1>8. CommandInv(c)
    BY <1>6 DEF NetInv
  <1>9. WellMinted(c.rec)'
    BY <1>1, <1>8 DEF CommandInv, WellMinted, Minted
  <1>10. c.op = "claim" => c.until < expires'
    <2>1. OpDelay + CommandLife < TTL[rec.token.by] /\ Minted(c.rec.token) <= now
          /\ Minted(c.rec.token) \in Int /\ now \in Nat /\ TTL[rec.token.by] \in Nat
          /\ OpDelay \in Nat /\ CommandLife \in Nat
      BY <1>2, <1>7, <1>8, Lifetimes, RecordFacts, Constants
      DEF CommandInv, WellMinted, Shared
    <2>. QED
      BY <1>2, <1>7, <1>8, <2>1 DEF CommandInv
  <1>11. IsTakeOver(c) => c.expect \in holders' /\ ~HoldsClaim(redis', c.expect)
    BY <1>2, <1>3, <1>8 DEF HoldsClaim, CommandInv
  <1>12. c.rec.token.by \in Workers
    BY <1>7, RecordFacts
  <1>. QED
    BY <1>2, <1>8, <1>9, <1>10, <1>11, <1>12
    DEF CommandInv, SettledStays, IsTakeOver, IsResolve, Minted

(* A worker that does not move keeps its part of the invariant when a fresh  *)
(* claim reaches Redis, its own late command included.                       *)
LEMMA PutWorker ==
    ASSUME Shared, Local, StoreInv, NEW v \in Workers, WorkerInv(v), Keeps(v),
           NEW rec, NEW t \in Token, ClaimPut(rec) \/ TakePut(rec, t),
           net' \subseteq net, ledger' = ledger,
           rec.token.by = v => rec.token \in Spent,
           TakePut(rec, t) /\ rec.token = mine[v].token
             /\ pc[v] \in {"takeover", "recheck"} => t = seen[v].token
    PROVE  WorkerInv(v)'
  <1>1. FreshPut(rec)
    BY DEF ClaimPut, TakePut
  <1>2. /\ rec \in Record /\ WellMinted(rec) /\ now' = now
        /\ rec.token \notin holders
        /\ redis' = rec /\ expires' = now + TTL[rec.token.by]
        /\ holders' = holders \cup {rec.token}
    BY <1>1 DEF FreshPut, Put
  <1>3. rec.token.by \in Workers /\ rec # Absent
    BY <1>2, RecordFacts
  <1>4. MineInv(v) /\ FreshInv(v) /\ SeenInv(v) /\ ClaimInv(v) /\ UnspentInv(v)
    BY DEF WorkerInv
  <1>5. Live(v)' <=> Live(v)
    BY DEF Keeps, Live
  <1>6. MineInv(v)'
    BY <1>2, <1>4, <1>5 DEF MineInv, Keeps, WellMinted, Minted
  <1>7. FreshInv(v)'
    <2>1. Spent' \subseteq Spent \cup {rec.token}
      BY <1>2 DEF Spent
    <2>. QED
      BY <2>1, <1>4, <1>5 DEF FreshInv, Keeps
  <1>8. SeenInv(v)'
    BY <1>2, <1>4, <1>5 DEF SeenInv, Keeps, IsStale, Clock
  <1>9. ~Critical(v)
    <2>1. SUFFICES ASSUME Critical(v) PROVE FALSE
      OBVIOUS
    <2>2. Holds(v)
      BY <1>4, <2>1 DEF ClaimInv
    <2>3. TakePut(rec, t) /\ t = mine[v].token
      BY <2>2 DEF ClaimPut, TakePut, Holds, HoldsClaim, Absent
    <2>4. ToolTimeout[rec.token.by] + StaleGrace <= rec.at - mine[v].at
      BY <1>4, <2>1, <2>3, CriticalBound DEF TakePut
    <2>5. rec.at - Skew[rec.token.by] <= now /\ rec.at \in Int /\ now \in Nat
      BY <1>2, RecordFacts DEF WellMinted, Minted, Shared
    <2>6. mine[v].at \in Int
          /\ now <= mine[v].at - Skew[v] + 2 * OpDelay + ToolTimeout[v]
      BY <1>4, <2>1, CriticalBound, RecordFacts
    <2>. QED
      BY <1>3, <2>4, <2>5, <2>6, NotYetStale
  <1>10. seen[v] # Absent /\ Live(v) => ~HoldsClaim(redis', seen[v].token)
    BY <1>2, <1>4 DEF SeenInv, HoldsClaim
  <1>11. pc[v] \in {"takeover", "recheck"} => Live(v) /\ seen[v] # Absent
    BY RecordFacts DEF Local, Shape, Live
  <1>12. ClaimInv(v)'
    <2>1. ~Critical(v)'
      BY <1>9 DEF Critical, Keeps
    <2>2. pc[v] = "claim" => Minted(mine[v].token) + OpDelay + CommandLife < expires'
      <3>1. SUFFICES ASSUME pc[v] = "claim"
                     PROVE  Minted(mine[v].token) + OpDelay + CommandLife < expires'
        OBVIOUS
      <3>2. Live(v) /\ mine[v] \in Record
        BY <3>1 DEF Live, Local, Shape
      <3>3. Minted(mine[v].token) <= now /\ Minted(mine[v].token) \in Int /\ now \in Nat
        BY <1>4, <3>2, RecordFacts DEF MineInv, WellMinted, Shared
      <3>4. OpDelay + CommandLife < TTL[rec.token.by] /\ TTL[rec.token.by] \in Nat
            /\ OpDelay \in Nat /\ CommandLife \in Nat
        BY <1>3, Lifetimes, Constants
      <3>. QED
        BY <1>2, <3>3, <3>4
    <2>. QED
      BY <1>2, <1>3, <1>4, <1>10, <1>11, <2>1, <2>2
      DEF ClaimInv, Keeps, IsTakeOver, Minted
  <1>13. UnspentInv(v)'
    <2>1. pc[v] \notin {"execute", "executing"}
      BY <1>9 DEF Critical
    <2>2. pc[v] = "claim" /\ rec.token = mine[v].token
            => ledger = {} \/ KeyMayHaveExpired(v)
      <3>1. SUFFICES ASSUME pc[v] = "claim", rec.token = mine[v].token
                     PROVE  ledger = {} \/ KeyMayHaveExpired(v)
        OBVIOUS
      <3>2. rec.token.op = "claim"
        BY <1>4, <3>1 DEF MineInv, Live
      <3>3. redis = Absent
        BY <3>2 DEF ClaimPut, TakePut
      <3>. QED
        BY <3>3 DEF StoreInv
    <2>3. pc[v] \in {"takeover", "recheck"} /\ rec.token = mine[v].token
            => HoldsClaim(redis, seen[v].token)
      <3>1. SUFFICES ASSUME pc[v] \in {"takeover", "recheck"}, rec.token = mine[v].token
                     PROVE  HoldsClaim(redis, seen[v].token)
        OBVIOUS
      <3>2. rec.token.op = "takeover"
        BY <1>4, <1>11, <3>1 DEF MineInv
      <3>3. TakePut(rec, t)
        BY <3>2 DEF ClaimPut
      <3>. QED
        BY <3>1, <3>3 DEF TakePut
    <2>4. (KeyMayHaveExpired(v))' <=> KeyMayHaveExpired(v)
      BY <1>2 DEF KeyMayHaveExpired, Clock
    <2>5. Holds(v)' => rec.token = mine[v].token
      BY <1>2 DEF Holds, HoldsClaim, Keeps
    <2>. QED
      BY <1>4, <1>10, <1>11, <2>1, <2>2, <2>3, <2>4, <2>5 DEF UnspentInv, Keeps
  <1>. QED
    BY <1>6, <1>7, <1>8, <1>12, <1>13 DEF WorkerInv

(* The same when an outcome reaches Redis.                                   *)
LEMMA ResolvedWorker ==
    ASSUME Shared, Local, StoreInv, NEW v \in Workers, WorkerInv(v), Keeps(v),
           NEW rec, ResolvedPut(rec), net' \subseteq net, ledger' = ledger
    PROVE  WorkerInv(v)'
  <1>1. /\ rec \in Record /\ now' = now
        /\ redis' = rec /\ expires' = now + TTL[rec.token.by]
        /\ holders' = holders \cup {rec.token}
    BY DEF ResolvedPut, Put
  <1>2. rec.token.by \in Workers /\ rec # Absent /\ rec.token \in holders
    BY <1>1, RecordFacts DEF ResolvedPut, HoldsClaim, StoreInv, Absent
  <1>3. \A u : ~HoldsClaim(redis', u)
    BY <1>1 DEF ResolvedPut, HoldsClaim
  <1>4. MineInv(v) /\ FreshInv(v) /\ SeenInv(v) /\ ClaimInv(v) /\ UnspentInv(v)
    BY DEF WorkerInv
  <1>5. Live(v)' <=> Live(v)
    BY DEF Keeps, Live
  <1>6. MineInv(v)'
    BY <1>1, <1>4, <1>5 DEF MineInv, Keeps, WellMinted, Minted
  <1>7. FreshInv(v)'
    <2>1. Spent' \subseteq Spent
      BY <1>1, <1>2 DEF Spent
    <2>. QED
      BY <2>1, <1>4, <1>5 DEF FreshInv, Keeps
  <1>8. SeenInv(v)'
    BY <1>1, <1>4, <1>5 DEF SeenInv, Keeps, IsStale, Clock
  <1>9. ~Critical(v)
    <2>1. SUFFICES ASSUME Critical(v) PROVE FALSE
      OBVIOUS
    <2>2. rec.token = mine[v].token
      BY <1>4, <2>1 DEF ClaimInv, Holds, HoldsClaim, ResolvedPut
    <2>3. rec.token.by = v
      BY <1>4, <2>1, <2>2, CriticalBound
    <2>. QED
      BY <2>1, <2>3 DEF ResolvedPut, Critical
  <1>10. ClaimInv(v)'
    <2>1. ~Critical(v)'
      BY <1>9 DEF Critical, Keeps
    <2>2. pc[v] = "claim" => Minted(mine[v].token) + OpDelay + CommandLife < expires'
      <3>1. SUFFICES ASSUME pc[v] = "claim"
                     PROVE  Minted(mine[v].token) + OpDelay + CommandLife < expires'
        OBVIOUS
      <3>2. Live(v) /\ mine[v] \in Record
        BY <3>1 DEF Live, Local, Shape
      <3>3. Minted(mine[v].token) <= now /\ Minted(mine[v].token) \in Int /\ now \in Nat
        BY <1>4, <3>2, RecordFacts DEF MineInv, WellMinted, Shared
      <3>4. OpDelay + CommandLife < TTL[rec.token.by] /\ TTL[rec.token.by] \in Nat
            /\ OpDelay \in Nat /\ CommandLife \in Nat
        BY <1>2, Lifetimes, Constants
      <3>. QED
        BY <1>1, <3>3, <3>4
    <2>. QED
      BY <1>1, <1>2, <1>3, <1>4, <2>1, <2>2 DEF ClaimInv, Keeps, IsTakeOver, Minted
  <1>11. UnspentInv(v)'
    BY <1>3, <1>9 DEF UnspentInv, Keeps, Critical, Holds
  <1>. QED
    BY <1>6, <1>7, <1>8, <1>10, <1>11 DEF WorkerInv

(* The same when Redis does not change and a command joins the ones under    *)
(* way, of another worker or one that v sends again.                         *)
LEMMA QuietWorker ==
    ASSUME NEW v \in Workers, WorkerInv(v), Keeps(v), now' = now, StoreUnchanged,
           ledger' = ledger,
           \A c \in net' :
             \/ c \in net
             \/ c.rec.token.by # v
             \/ /\ Live(v) /\ c.rec.token = mine[v].token
                /\ IsTakeOver(c) => c.expect = seen[v].token
    PROVE  WorkerInv(v)'
  <1>1. MineInv(v) /\ FreshInv(v) /\ SeenInv(v) /\ ClaimInv(v) /\ UnspentInv(v)
    BY DEF WorkerInv
  <1>2. Live(v)' <=> Live(v)
    BY DEF Keeps, Live
  <1>3. MineInv(v)'
    BY <1>1, <1>2 DEF MineInv, Keeps, WellMinted, Minted
  <1>4. FreshInv(v)'
    <2>1. \A t \in Spent' : t \in Spent \/ t.by # v \/ (Live(v) /\ t = mine[v].token)
      BY DEF Spent, StoreUnchanged
    <2>2. pc[v] = "idle" => ~Live(v)
      BY DEF Live
    <2>. QED
      BY <2>1, <2>2, <1>1, <1>2 DEF FreshInv, MineInv, Keeps
  <1>5. SeenInv(v)'
    BY <1>1, <1>2 DEF SeenInv, Keeps, IsStale, Clock, StoreUnchanged
  <1>6. Holds(v)' <=> Holds(v)
    BY DEF Holds, HoldsClaim, Keeps, StoreUnchanged
  <1>7. ClaimInv(v)'
    <2>1. pc[v] \in {"takeover", "recheck"} => mine[v].token.by = v
      BY <1>1 DEF MineInv, Live
    <2>2. Critical(v)' <=> Critical(v)
      BY DEF Critical, Keeps
    <2>. QED
      BY <1>1, <1>6, <2>1, <2>2
      DEF ClaimInv, Keeps, StoreUnchanged, Minted, IsTakeOver, HoldsClaim
  <1>8. UnspentInv(v)'
    BY <1>1, <1>6 DEF UnspentInv, Keeps, StoreUnchanged, HoldsClaim, KeyMayHaveExpired, Clock
  <1>. QED
    BY <1>3, <1>4, <1>5, <1>7, <1>8 DEF WorkerInv

(* The same when x, on the strength of its claim, writes to the ledger.      *)
LEMMA LedgerWorker ==
    ASSUME Shared, Local, NEW v \in Workers, NEW x \in Workers, v # x,
           WorkerInv(v), WorkerInv(x), Critical(x), Keeps(v),
           UNCHANGED <<now, redisVars>>
    PROVE  WorkerInv(v)'
  <1>1. MineInv(v) /\ FreshInv(v) /\ SeenInv(v) /\ ClaimInv(v) /\ UnspentInv(v)
    BY DEF WorkerInv
  <1>2. Live(v)' <=> Live(v)
    BY DEF Keeps, Live
  <1>3. Holds(x) /\ MineInv(x)
    BY DEF WorkerInv, ClaimInv
  <1>4. /\ mine[x] \in Record /\ mine[x].token.by = x /\ mine[x].at = mine[x].token.at
        /\ now <= mine[x].at - Skew[x] + 2 * OpDelay + ToolTimeout[x]
    BY <1>3, CriticalBound
  <1>5. Live(v) => ~Holds(v)
    BY <1>1, <1>3, <1>4 DEF MineInv, Holds, HoldsClaim
  <1>6. pc[v] \in {"takeover", "recheck"} => ~HoldsClaim(redis, seen[v].token)
    <2>1. SUFFICES ASSUME pc[v] \in {"takeover", "recheck"},
                          HoldsClaim(redis, seen[v].token)
                   PROVE  FALSE
      OBVIOUS
    <2>2. Live(v) /\ mine[v] \in Record /\ seen[v] \in Record /\ seen[v] # Absent
      BY <2>1, RecordFacts DEF Live, Local, Shape
    <2>3. seen[v].token = mine[x].token
      BY <2>1, <1>3 DEF Holds, HoldsClaim
    <2>4. ToolTimeout[v] + StaleGrace <= mine[v].at - mine[x].at
      BY <1>1, <1>4, <2>1, <2>2, <2>3 DEF SeenInv
    <2>5. mine[v].at - Skew[v] <= now
      BY <1>1, <2>2 DEF MineInv, WellMinted, Minted
    <2>6. mine[v].at \in Int /\ mine[x].at \in Int /\ now \in Nat
      BY <1>4, <2>2, RecordFacts DEF Shared
    <2>. QED
      BY <1>4, <2>4, <2>5, <2>6, NotYetStale
  <1>7. MineInv(v)'
    BY <1>1, <1>2 DEF MineInv, Keeps, WellMinted, Minted
  <1>8. FreshInv(v)'
    BY <1>1, <1>2 DEF FreshInv, Keeps, Spent, redisVars
  <1>9. SeenInv(v)'
    BY <1>1, <1>2 DEF SeenInv, Keeps, IsStale, Clock, redisVars
  <1>10. Holds(v)' <=> Holds(v)
    BY DEF Holds, HoldsClaim, Keeps, redisVars
  <1>11. ClaimInv(v)'
    <2>1. Critical(v)' <=> Critical(v)
      BY DEF Critical, Keeps
    <2>. QED
      BY <1>1, <1>10, <2>1 DEF ClaimInv, Keeps, redisVars, Minted, IsTakeOver, HoldsClaim
  <1>12. UnspentInv(v)'
    <2>1. pc[v] \notin {"execute", "executing"}
      BY <1>1, <1>5 DEF ClaimInv, Critical, Live
    <2>2. pc[v] \in {"claim", "takeover", "recheck"} => ~Holds(v)'
      BY <1>5, <1>10 DEF Live
    <2>. QED
      BY <1>6, <2>1, <2>2 DEF UnspentInv, Keeps, redisVars, HoldsClaim
  <1>. QED
    BY <1>7, <1>8, <1>9, <1>11, <1>12 DEF WorkerInv

-----------------------------------------------------------------------------
(* Moves of a worker, as its own part of the invariant sees them.            *)

LEMMA OwnEnds ==
    ASSUME Local, NEW w \in Workers, NEW p \in {"done", "crashed"}, NEW o, Ends(w, p, o)
    PROVE  WorkerInv(w)'
  <1>1. pc'[w] = p
    BY DEF Ends, Moves, Local
  <1>2. ~Live(w)' /\ pc'[w] \in {"done", "crashed"}
    BY <1>1 DEF Live
  <1>. QED
    BY <1>2 DEF WorkerInv, MineInv, FreshInv, SeenInv, ClaimInv, UnspentInv, Critical

(* A new pass: the token is one that nobody has seen.                        *)
LEMMA OwnAttempt ==
    ASSUME Shared, Local, StoreInv, NEW w \in Workers, FreshInv(w),
           pc[w] = "idle" \/ Live(w), race[w] < MaxClaimRaces,
           Attempt(w), StoreUnchanged, net' = net, now' = now, ledger' = ledger
    PROVE  WorkerInv(w)'
  <1> DEFINE m == NewRecord(w, race[w] + 1, "claim")
  <1>1. /\ pc'[w] = "claim" /\ mine'[w] = m /\ seen'[w] = Absent
        /\ by'[w] = now + OpDelay /\ race'[w] = race[w] + 1
    BY DEF Attempt, Moves, Local
  <1>2. /\ m.state = "claimed" /\ m.at = now + Skew[w] /\ m.token.at = now + Skew[w]
        /\ m.token.by = w /\ m.token.race = race[w] + 1 /\ m.token.op = "claim"
    BY DEF NewRecord, Clock
  <1>3. Minted(m.token) = now
    BY <1>2, Constants DEF Minted, Shared
  <1>. HIDE DEF m
  <1>4. race[w] \in Nat /\ \A t \in Token : t.race \in Nat
    BY ConstantsAssumption DEF ConstantsAssumption, Local, Token
  <1>5. Spent \subseteq Token
    BY DEF Spent, Shared, Command, Record
  <1>6. \A t \in Spent : t.by = w => t.race <= race[w]
    BY <1>4, <1>5 DEF FreshInv
  <1>7. m.token \notin Spent
    BY <1>2, <1>4, <1>6
  <1>8. Spent' = Spent
    BY DEF Spent, StoreUnchanged
  <1>9. MineInv(w)'
    <2>1. WellMinted(mine[w])' /\ Minted(mine[w].token)' = now
      BY <1>1, <1>2, <1>3 DEF WellMinted, Minted, Shared
    <2>2. now' <= by'[w] /\ by'[w] <= Minted(mine[w].token)' + OpDelay
      BY <1>1, <2>1, ConstantsAssumption DEF ConstantsAssumption, Shared
    <2>. QED
      BY <1>1, <1>2, <2>1, <2>2 DEF MineInv
  <1>10. FreshInv(w)'
    BY <1>1, <1>4, <1>5, <1>6, <1>8 DEF FreshInv
  <1>11. m.token \notin holders' /\ ~Holds(w)'
    BY <1>1, <1>7 DEF Spent, StoreUnchanged, Holds, HoldsClaim, StoreInv, Absent
  <1>. QED
    BY <1>1, <1>9, <1>10, <1>11
    DEF WorkerInv, SeenInv, ClaimInv, UnspentInv, Critical

(* A move within a pass.                                                     *)
LEMMA OwnMove ==
    ASSUME Shared, Local, NEW w \in Workers, Live(w), MineInv(w), FreshInv(w),
           NEW p \in {"sleep", "poll", "reconcile", "recheck", "execute",
                      "executing", "resolve"},
           NEW s, NEW b, NEW o, Moves(w, p, s, b, o), UNCHANGED <<mine, race>>,
           now' = now, now <= b, Spent' \subseteq Spent \cup {mine[w].token},
           p \in {"sleep", "poll", "reconcile"} => mine[w].token.op = "claim",
           p = "recheck" => mine[w].token.op = "takeover",
           p \in {"recheck", "execute"} \/ (p = "reconcile" /\ s = Absent)
             => b <= Minted(mine[w].token) + 2 * OpDelay,
           p = "executing"
             => b <= Minted(mine[w].token) + 2 * OpDelay + ToolTimeout[w],
           s # Absent =>
             /\ s.at = s.token.at /\ s.token \in holders'
             /\ p = "reconcile" => IsStale(w, s)
             /\ p = "recheck" => ToolTimeout[w] + StaleGrace <= mine[w].at - s.at,
           p \in {"execute", "executing"} \/ (p = "reconcile" /\ s = Absent)
             => HoldsClaim(redis', mine[w].token),
           p \in {"execute", "executing"} => ledger' = {},
           p = "recheck" =>
             /\ \A c \in net' : IsTakeOver(c) /\ c.rec.token = mine[w].token
                                  => c.expect = s.token
             /\ o.kind = "reexecuted" /\ (HoldsClaim(redis', mine[w].token)
                                            \/ HoldsClaim(redis', s.token))
                  => ledger' = {}
    PROVE  WorkerInv(w)'
  <1>1. /\ pc'[w] = p /\ mine'[w] = mine[w] /\ seen'[w] = s
        /\ by'[w] = b /\ race'[w] = race[w] /\ out'[w] = o
    BY DEF Moves, Local
  <1>2. Live(w)'
    BY <1>1 DEF Live
  <1>3. MineInv(w)'
    BY <1>1, <1>2 DEF MineInv, WellMinted, Minted
  <1>4. FreshInv(w)'
    BY <1>1, <1>2 DEF FreshInv, MineInv, Live
  <1>5. SeenInv(w)'
    BY <1>1, <1>2 DEF SeenInv, IsStale, Clock
  <1>6. ClaimInv(w)'
    BY <1>1 DEF ClaimInv, Critical, Holds, IsTakeOver
  <1>7. UnspentInv(w)'
    BY <1>1 DEF UnspentInv, Holds, HoldsClaim
  <1>. QED
    BY <1>3, <1>4, <1>5, <1>6, <1>7 DEF WorkerInv

(* The claim is in Redis and the ledger is known to be empty.                *)
LEMMA OwnExecute ==
    ASSUME Shared, Local, NEW w \in Workers, Live(w), MineInv(w), FreshInv(w),
           NEW kind, Execute(w, kind), UNCHANGED mine, now' = now,
           Spent' \subseteq Spent \cup {mine[w].token},
           by[w] <= Minted(mine[w].token) + 2 * OpDelay,
           HoldsClaim(redis', mine[w].token), ledger' = {}
    PROVE  WorkerInv(w)'
  <1>1. now <= by[w]
    BY DEF MineInv
  <1>. QED
    BY <1>1, OwnMove DEF Execute

LEMMA OwnResolve ==
    ASSUME Shared, Local, NEW w \in Workers, Live(w), MineInv(w), FreshInv(w),
           NEW kind, NEW status, Resolve(w, kind, status), now' = now,
           Spent' \subseteq Spent \cup {mine[w].token}
    PROVE  WorkerInv(w)'
  <1>1. now <= now + OpDelay
    BY ConstantsAssumption DEF ConstantsAssumption, Shared
  <1>. QED
    BY <1>1, OwnMove DEF Resolve

(* acquired: the claim is in Redis; unless the key may have expired, the     *)
(* ledger is empty.                                                          *)
LEMMA OwnAcquired ==
    ASSUME Shared, Local, NEW w \in Workers, pc[w] = "claim", MineInv(w), FreshInv(w),
           Acquired(w), now' = now, Spent' \subseteq Spent \cup {mine[w].token},
           HoldsClaim(redis', mine[w].token),
           KeyMayHaveExpired(w) \/ ledger' = {}
    PROVE  WorkerInv(w)'
  <1>1. Live(w)
    BY DEF Live
  <1>2. /\ mine[w] \in Record /\ by[w] \in Nat /\ now \in Nat /\ OpDelay \in Nat
        /\ Minted(mine[w].token) \in Int
    BY <1>1, Constants, RecordFacts DEF Local, Shape, Shared
  <1>3. /\ now <= by[w] /\ by[w] <= Minted(mine[w].token) + OpDelay
        /\ mine[w].token.op = "claim"
    BY <1>1 DEF MineInv
  <1>4. CASE ~KeyMayHaveExpired(w)
    <2>1. by[w] <= Minted(mine[w].token) + 2 * OpDelay
      BY <1>2, <1>3
    <2>. QED
      BY <1>1, <1>4, <2>1, OwnExecute DEF Acquired
  <1>5. CASE KeyMayHaveExpired(w) /\ Reconcilable
    <2>1. now <= now + OpDelay /\ now + OpDelay <= Minted(mine[w].token) + 2 * OpDelay
      BY <1>2, <1>3
    <2>2. Moves(w, "reconcile", Absent, now + OpDelay, Nothing) /\ UNCHANGED <<mine, race>>
      BY <1>5 DEF Acquired, Reconcile
    <2>. QED
      BY <1>1, <1>3, <2>1, <2>2, OwnMove
  <1>6. CASE KeyMayHaveExpired(w) /\ ~Reconcilable
    BY <1>6, OwnEnds DEF Acquired, Reconcile, Return
  <1>. QED
    BY <1>4, <1>5, <1>6

(* Settle: the record in Redis is not the claim of this pass.                *)
LEMMA OwnSettle ==
    ASSUME Shared, Local, StoreInv, NEW w \in Workers, pc[w] \in {"claim", "poll"},
           MineInv(w), FreshInv(w), redis # Absent, Settle(w, redis),
           StoreUnchanged, net' = net, now' = now
    PROVE  WorkerInv(w)'
  <1>1. Live(w)
    BY DEF Live
  <1>2. Spent' \subseteq Spent \cup {mine[w].token}
    BY DEF Spent, StoreUnchanged
  <1>3. mine[w].token.op = "claim"
    BY <1>1 DEF MineInv
  <1>4. redis.at = redis.token.at /\ redis.token \in holders'
    BY DEF StoreInv, WellMinted, StoreUnchanged
  <1>5. now <= now + OpDelay /\ now <= now + PollInterval
    BY Constants DEF Shared
  <1>6. CASE \E kind, status : Return(w, kind, status)
    BY <1>6, OwnEnds DEF Return
  <1>7. CASE Moves(w, "sleep", redis, now + PollInterval, Nothing)
             /\ UNCHANGED <<mine, race>>
    BY <1>1, <1>2, <1>3, <1>4, <1>5, <1>7, OwnMove
  <1>8. CASE /\ IsStale(w, redis)
             /\ Moves(w, "reconcile", redis, now + OpDelay, Nothing)
             /\ UNCHANGED <<mine, race>>
    BY <1>1, <1>2, <1>3, <1>4, <1>5, <1>8, OwnMove
  <1>. QED
    BY <1>6, <1>7, <1>8 DEF Settle, WaitUntilSettled, Reconcile

(* errRestart.                                                               *)
LEMMA OwnRestart ==
    ASSUME Shared, Local, StoreInv, NEW w \in Workers, Live(w), FreshInv(w),
           Restart(w), StoreUnchanged, net' = net, now' = now, ledger' = ledger
    PROVE  WorkerInv(w)'
  BY OwnAttempt, OwnEnds DEF Restart, Return

(* A worker that is not the one taking the step keeps its variables.         *)
LEMMA OthersKeep ==
    ASSUME Local, NEW w \in Workers, NEW v \in Workers, v # w,
           Start(w) \/ Step(w) \/ Crash(w)
    PROVE  Keeps(v)
  <1> USE DEF Local, Keeps
  <1>1. ASSUME NEW p, NEW s, NEW b, NEW o, Moves(w, p, s, b, o)
        PROVE  /\ pc'[v] = pc[v] /\ seen'[v] = seen[v] /\ by'[v] = by[v]
               /\ out'[v] = out[v]
    BY <1>1 DEF Moves
  <1>2. ASSUME NEW p, NEW o, Ends(w, p, o) PROVE Keeps(v)
    BY <1>1, <1>2 DEF Ends
  <1>3. ASSUME Attempt(w) PROVE Keeps(v)
    BY <1>1, <1>3 DEF Attempt
  <1>4. ASSUME Restart(w) PROVE Keeps(v)
    BY <1>2, <1>3, <1>4 DEF Restart, Return
  <1>5. ASSUME NEW s, Reconcile(w, s) PROVE Keeps(v)
    BY <1>1, <1>2, <1>5 DEF Reconcile, Return
  <1>6. ASSUME NEW kind, Execute(w, kind), UNCHANGED mine PROVE Keeps(v)
    BY <1>1, <1>6 DEF Execute
  <1>7. ASSUME Acquired(w) PROVE Keeps(v)
    BY <1>5, <1>6, <1>7 DEF Acquired
  <1>8. ASSUME NEW rec, Settle(w, rec) PROVE Keeps(v)
    BY <1>1, <1>2, <1>5, <1>8 DEF Settle, WaitUntilSettled, Return
  <1>9. ASSUME NEW kind, NEW status, Resolve(w, kind, status) PROVE Keeps(v)
    BY <1>1, <1>9 DEF Resolve
  <1>10. ASSUME ActOnReconciled(w) PROVE Keeps(v)
    BY <1>6, <1>9, <1>10 DEF ActOnReconciled
  <1>11. ASSUME RetryAgain(w) PROVE Keeps(v)
    BY <1>11 DEF RetryAgain
  <1>12. ASSUME Unanswered(w) PROVE Keeps(v)
    BY <1>2, <1>11, <1>12 DEF Unanswered, GiveUp, Return
  <1>13. CASE Start(w) \/ Crash(w)
    BY <1>2, <1>3, <1>13 DEF Start, Crash
  <1>14. CASE ClaimAnswered(w) \/ ClaimUnanswered(w)
    BY <1>7, <1>8, <1>12, <1>14 DEF ClaimAnswered, ClaimUnanswered, Existing
  <1>15. CASE Wake(w) \/ PollAnswered(w) \/ ReadUnanswered(w)
    BY <1>1, <1>4, <1>8, <1>12, <1>15 DEF Wake, PollAnswered, ReadUnanswered
  <1>16. CASE ReconcileAnswered(w)
    BY <1>1, <1>6, <1>9, <1>16 DEF ReconcileAnswered
  <1>17. CASE TakeOverAnswered(w) \/ TakeOverUnanswered(w) \/ RecheckAnswered(w)
    BY <1>1, <1>4, <1>10, <1>12, <1>17
    DEF TakeOverAnswered, TakeOverUnanswered, RecheckAnswered
  <1>18. CASE BeginExecute(w) \/ ExecuteApplies(w) \/ ExecuteFails(w)
    BY <1>1, <1>9, <1>18 DEF BeginExecute, ExecuteApplies, ExecuteFails
  <1>19. CASE ExecuteUnknown(w) \/ ExecuteTimesOut(w)
    BY <1>2, <1>19 DEF ExecuteUnknown, ExecuteTimesOut, Return
  <1>20. CASE ResolveAnswered(w) \/ ResolveUnanswered(w)
    BY <1>2, <1>11, <1>20 DEF ResolveAnswered, ResolveUnanswered, Return
  <1>. QED
    BY <1>13, <1>14, <1>15, <1>16, <1>17, <1>18, <1>19, <1>20 DEF Step

(* Once a worker has an outcome it never goes back.                          *)
LEMMA WorkerSettledStays ==
    ASSUME Local, NEW w \in Workers, Start(w) \/ Step(w) \/ Crash(w)
    PROVE  SettledStays
  <1>1. \A v \in Workers : v # w => pc'[v] = pc[v]
    BY OthersKeep DEF Keeps
  <1>2. pc[w] \in {"resolve", "done", "crashed"}
          => pc'[w] \in {"resolve", "done", "crashed"}
    <2>1. SUFFICES ASSUME pc[w] \in {"resolve", "done", "crashed"}
                   PROVE  pc'[w] \in {"resolve", "done", "crashed"}
      OBVIOUS
    <2>2. ResolveAnswered(w) \/ ResolveUnanswered(w) \/ Crash(w)
      BY <2>1
      DEF Start, Step, ClaimAnswered, ClaimUnanswered, Wake, PollAnswered,
          ReadUnanswered, ReconcileAnswered, TakeOverAnswered, TakeOverUnanswered,
          RecheckAnswered, BeginExecute, ExecuteApplies, ExecuteFails,
          ExecuteUnknown, ExecuteTimesOut, MayRecord
    <2>3. ASSUME NEW p \in {"done", "crashed"}, NEW o, Ends(w, p, o)
          PROVE  pc'[w] = p
      BY <2>3 DEF Ends, Moves, Local
    <2>. QED
      BY <2>1, <2>2, <2>3
      DEF ResolveAnswered, ResolveUnanswered, Crash, Return, RetryAgain
  <1>. QED
    BY <1>1, <1>2 DEF SettledStays

-----------------------------------------------------------------------------
(* The whole invariant over one step of a worker.                            *)

Core ==
    /\ StoreInv
    /\ NetInv
    /\ \A v \in Workers : WorkerInv(v)
    /\ AtMostOnceEffect

(* Redis is not touched and no new command is sent.                          *)
LEMMA QuietCore ==
    ASSUME Core, NEW w \in Workers, \A v \in Workers : v # w => Keeps(v),
           WorkerInv(w)', SettledStays, Shared,
           StoreUnchanged, net' \subseteq net, now' = now, ledger' = ledger
    PROVE  Core'
  <1>1. StoreInv'
    BY DEF Core, StoreInv, StoreUnchanged, WellMinted, KeyMayHaveExpired, Clock, Minted
  <1>2. NetInv'
    <2>1. SUFFICES ASSUME NEW c \in net' PROVE CommandInv(c)'
      BY DEF NetInv
    <2>2. CommandInv(c) /\ c.rec.token.by \in Workers
      BY RecordFacts DEF Core, NetInv, Shared, Command
    <2>. QED
      BY <2>2 DEF CommandInv, StoreUnchanged, WellMinted, Minted, SettledStays,
                  IsTakeOver, IsResolve, HoldsClaim
  <1>3. \A v \in Workers : v # w => WorkerInv(v)'
    BY QuietWorker DEF Core
  <1>. QED
    BY <1>1, <1>2, <1>3 DEF Core, AtMostOnceEffect

(* Redis is not touched and w sends, or sends again, the command d.          *)
LEMMA SendCore ==
    ASSUME Core, Shared, NEW w \in Workers, \A v \in Workers : v # w => Keeps(v),
           WorkerInv(w)', SettledStays, NEW d,
           d.rec.token.by = w, CommandInv(d)',
           StoreUnchanged, net' = net \cup {d}, now' = now, ledger' = ledger
    PROVE  Core'
  <1>1. StoreInv'
    BY DEF Core, StoreInv, StoreUnchanged, WellMinted, KeyMayHaveExpired, Clock, Minted
  <1>2. NetInv'
    <2>1. SUFFICES ASSUME NEW c \in net PROVE CommandInv(c)'
      BY DEF NetInv
    <2>2. CommandInv(c) /\ c.rec.token.by \in Workers
      BY RecordFacts DEF Core, NetInv, Shared, Command
    <2>. QED
      BY <2>2 DEF CommandInv, StoreUnchanged, WellMinted, Minted, SettledStays,
                  IsTakeOver, IsResolve, HoldsClaim
  <1>3. \A v \in Workers : v # w => WorkerInv(v)'
    BY QuietWorker DEF Core
  <1>. QED
    BY <1>1, <1>2, <1>3 DEF Core, AtMostOnceEffect

(* A retry leaves the worker where it is.                                    *)
LEMMA RetryKeeps ==
    ASSUME NEW w \in Workers, RetryAgain(w)
    PROVE  Keeps(w)
  BY DEF RetryAgain, Keeps

LEMMA ClaimAnsweredCore ==
    ASSUME Core, Shared, Local, NEW w \in Workers, ClaimAnswered(w)
    PROVE  Core'
  <1>1. Step(w)
    BY DEF Step
  <1>2. (\A v \in Workers : v # w => Keeps(v)) /\ SettledStays
    BY <1>1, OthersKeep, WorkerSettledStays
  <1>3. pc[w] = "claim" /\ now' = now /\ net' = net /\ ledger' = ledger
    BY DEF ClaimAnswered, toolVars
  <1>4. StoreInv /\ NetInv /\ WorkerInv(w)
    BY DEF Core
  <1>5. MineInv(w) /\ FreshInv(w) /\ ClaimInv(w) /\ UnspentInv(w)
    BY <1>4 DEF WorkerInv
  <1>6. Live(w) /\ mine[w] \in Record /\ mine[w].token.by = w
        /\ mine[w].state = "claimed" /\ WellMinted(mine[w]) /\ mine[w].token.op = "claim"
    BY <1>3, <1>5 DEF Live, Local, Shape, MineInv
  <1>7. CASE redis = Absent
    <2>1. Put(mine[w], TTL[w]) /\ Acquired(w)
      BY <1>7 DEF ClaimAnswered
    <2>2. mine[w].token \notin holders
      BY <1>3, <1>5, <1>7 DEF ClaimInv
    <2>3. ClaimPut(mine[w])
      BY <1>3, <1>6, <1>7, <2>1, <2>2 DEF ClaimPut, FreshPut
    <2>4. StoreInv' /\ NetInv'
      BY <1>2, <1>3, <1>4, <2>3, PutStore, PutNet DEF ClaimPut
    <2>5. \A v \in Workers : v # w => WorkerInv(v)'
      <3>1. SUFFICES ASSUME NEW v \in Workers, v # w PROVE WorkerInv(v)'
        OBVIOUS
      <3>2. mine[w].token \in Token /\ ~TakePut(mine[w], mine[w].token)
        BY <1>6, RecordFacts DEF TakePut
      <3>. QED
        BY <1>2, <1>3, <1>4, <1>6, <2>3, <3>1, <3>2, PutWorker DEF Core
    <2>6. WorkerInv(w)'
      <3>1. Spent' \subseteq Spent \cup {mine[w].token}
        BY <1>3, <2>1 DEF Spent, Put
      <3>2. HoldsClaim(redis', mine[w].token)
        BY <1>6, <2>1 DEF Put, HoldsClaim
      <3>3. KeyMayHaveExpired(w) \/ ledger' = {}
        BY <1>3, <1>4, <1>7 DEF StoreInv
      <3>. QED
        BY <1>3, <1>5, <2>1, <3>1, <3>2, <3>3, OwnAcquired
    <2>. QED
      BY <1>3, <2>4, <2>5, <2>6 DEF Core, AtMostOnceEffect
  <1>8. CASE redis # Absent
    <2>1. StoreUnchanged /\ Existing(w, redis)
      BY <1>8 DEF ClaimAnswered
    <2>2. CASE HoldsClaim(redis, mine[w].token)
      <3>1. Acquired(w)
        BY <2>1, <2>2 DEF Existing
      <3>2. Spent' \subseteq Spent \cup {mine[w].token} /\ HoldsClaim(redis', mine[w].token)
        BY <1>3, <2>1, <2>2 DEF Spent, StoreUnchanged
      <3>3. KeyMayHaveExpired(w) \/ ledger' = {}
        BY <1>3, <1>5, <2>2 DEF UnspentInv, Holds
      <3>4. WorkerInv(w)'
        BY <1>3, <1>5, <3>1, <3>2, <3>3, OwnAcquired
      <3>. QED
        BY <1>2, <1>3, <2>1, <3>4, QuietCore
    <2>3. CASE ~HoldsClaim(redis, mine[w].token)
      <3>1. WorkerInv(w)'
        BY <1>3, <1>4, <1>5, <1>8, <2>1, <2>3, OwnSettle DEF Existing
      <3>. QED
        BY <1>2, <1>3, <2>1, <3>1, QuietCore
    <2>. QED
      BY <2>2, <2>3
  <1>. QED
    BY <1>7, <1>8

LEMMA ClaimUnansweredCore ==
    ASSUME Core, Shared, Local, NEW w \in Workers, ClaimUnanswered(w)
    PROVE  Core'
  <1>1. Step(w)
    BY DEF Step
  <1>2. (\A v \in Workers : v # w => Keeps(v)) /\ SettledStays
    BY <1>1, OthersKeep, WorkerSettledStays
  <1> DEFINE d == ClaimCommand(w)
  <1>3. pc[w] = "claim" /\ now' = now /\ net' = net \cup {d} /\ ledger' = ledger
        /\ StoreUnchanged /\ Unanswered(w)
    BY DEF ClaimUnanswered, toolVars
  <1>4. WorkerInv(w) /\ MineInv(w) /\ ClaimInv(w)
    BY DEF Core, WorkerInv
  <1>5. Live(w) /\ mine[w] \in Record /\ mine[w].token.by = w
        /\ mine[w].state = "claimed" /\ WellMinted(mine[w]) /\ mine[w].token.op = "claim"
        /\ now <= by[w] /\ by[w] <= Minted(mine[w].token) + OpDelay
    BY <1>3, <1>4 DEF Live, Local, Shape, MineInv
  <1>6. d.op = "claim" /\ d.rec = mine[w] /\ d.ttl = TTL[w] /\ d.until = now + CommandLife
    BY DEF ClaimCommand
  <1>7. now \in Nat /\ by[w] \in Nat /\ Minted(mine[w].token) \in Int
        /\ OpDelay \in Nat /\ CommandLife \in Nat
    BY <1>5, RecordFacts, Constants DEF Shared, Local
  <1>8. PICK e : e = d
    OBVIOUS
  <1>. HIDE DEF d
  <1>9. CommandInv(e)'
    <2>1. e.until <= Minted(mine[w].token) + OpDelay + CommandLife
      BY <1>5, <1>6, <1>7, <1>8
    <2>2. mine[w].token \in holders => redis # Absent /\ e.until < expires
      <3>1. SUFFICES ASSUME mine[w].token \in holders
                     PROVE  redis # Absent /\ e.until < expires
        OBVIOUS
      <3>2. redis # Absent /\ Minted(mine[w].token) + OpDelay + CommandLife < expires
        BY <1>3, <1>4, <3>1 DEF ClaimInv
      <3>3. expires \in Nat /\ e.until \in Int
        BY <1>6, <1>7, <1>8 DEF Shared
      <3>. QED
        BY <1>7, <2>1, <3>2, <3>3
    <2>3. WellMinted(e.rec)'
      BY <1>3, <1>5, <1>6, <1>8 DEF WellMinted, Minted
    <2>. QED
      BY <1>3, <1>5, <1>6, <1>8, <2>1, <2>2, <2>3
      DEF CommandInv, StoreUnchanged, IsTakeOver, IsResolve, Minted
  <1>10. WorkerInv(w)'
    <2>1. CASE RetryAgain(w)
      <3>1. \A c \in net' : c \in net \/ (Live(w) /\ c.rec.token = mine[w].token
                                            /\ ~IsTakeOver(c))
        BY <1>3, <1>5, <1>6 DEF IsTakeOver
      <3>. QED
        BY <1>3, <1>4, <2>1, <3>1, RetryKeeps, QuietWorker
    <2>2. CASE GiveUp(w)
      BY <2>2, OwnEnds DEF GiveUp, Return
    <2>. QED
      BY <1>3, <2>1, <2>2 DEF Unanswered
  <1>. QED
    BY <1>2, <1>3, <1>5, <1>6, <1>8, <1>9, <1>10, SendCore

LEMMA StartCore ==
    ASSUME Core, Shared, Local, NEW w \in Workers, Start(w)
    PROVE  Core'
  <1>1. (\A v \in Workers : v # w => Keeps(v)) /\ SettledStays
    BY OthersKeep, WorkerSettledStays
  <1>2. pc[w] = "idle" /\ Attempt(w) /\ now' = now /\ net' = net /\ ledger' = ledger
        /\ StoreUnchanged
    BY DEF Start, redisVars, toolVars, StoreUnchanged
  <1>3. race[w] < MaxClaimRaces
    BY <1>2, ConstantsAssumption DEF ConstantsAssumption, Local, Shape
  <1>4. StoreInv /\ FreshInv(w)
    BY DEF Core, WorkerInv
  <1>5. WorkerInv(w)'
    BY <1>2, <1>3, <1>4, OwnAttempt
  <1>. QED
    BY <1>1, <1>2, <1>5, QuietCore

LEMMA CrashCore ==
    ASSUME Core, Shared, Local, NEW w \in Workers, Crash(w)
    PROVE  Core'
  <1>1. (\A v \in Workers : v # w => Keeps(v)) /\ SettledStays
    BY OthersKeep, WorkerSettledStays
  <1>2. now' = now /\ net' = net /\ ledger' = ledger /\ StoreUnchanged
    BY DEF Crash, redisVars, toolVars, StoreUnchanged
  <1>3. WorkerInv(w)'
    BY OwnEnds DEF Crash
  <1>. QED
    BY <1>1, <1>2, <1>3, QuietCore

LEMMA PollCore ==
    ASSUME Core, Shared, Local, NEW w \in Workers, Wake(w) \/ PollAnswered(w)
    PROVE  Core'
  <1>1. Step(w)
    BY DEF Step
  <1>2. (\A v \in Workers : v # w => Keeps(v)) /\ SettledStays
    BY <1>1, OthersKeep, WorkerSettledStays
  <1>3. pc[w] \in {"sleep", "poll"} /\ now' = now /\ net' = net /\ ledger' = ledger
        /\ StoreUnchanged
    BY DEF Wake, PollAnswered, redisVars, toolVars, StoreUnchanged
  <1>4. StoreInv /\ MineInv(w) /\ FreshInv(w) /\ SeenInv(w)
    BY DEF Core, WorkerInv
  <1>5. Live(w)
    BY <1>3 DEF Live
  <1>6. CASE Wake(w)
    <2>1. Moves(w, "poll", seen[w], now + OpDelay, Nothing) /\ UNCHANGED <<mine, race>>
      BY <1>6 DEF Wake
    <2>2. now <= now + OpDelay
      BY Constants DEF Shared
    <2>3. Spent' \subseteq Spent \cup {mine[w].token}
      BY <1>3 DEF Spent, StoreUnchanged
    <2>4. mine[w].token.op = "claim"
      BY <1>3, <1>4, <1>5 DEF MineInv
    <2>5. seen[w] # Absent =>
            seen[w].at = seen[w].token.at /\ seen[w].token \in holders'
      BY <1>3, <1>4, <1>5 DEF SeenInv, StoreUnchanged
    <2>6. WorkerInv(w)'
      BY <1>3, <1>4, <1>5, <2>1, <2>2, <2>3, <2>4, <2>5, OwnMove
    <2>. QED
      BY <1>2, <1>3, <2>6, QuietCore
  <1>7. CASE PollAnswered(w)
    <2>1. WorkerInv(w)'
      BY <1>3, <1>4, <1>5, <1>7, OwnRestart, OwnSettle DEF PollAnswered
    <2>. QED
      BY <1>2, <1>3, <2>1, QuietCore
  <1>. QED
    BY <1>6, <1>7

LEMMA ReadUnansweredCore ==
    ASSUME Core, Shared, Local, NEW w \in Workers, ReadUnanswered(w)
    PROVE  Core'
  <1>1. Step(w)
    BY DEF Step
  <1>2. (\A v \in Workers : v # w => Keeps(v)) /\ SettledStays
    BY <1>1, OthersKeep, WorkerSettledStays
  <1>3. now' = now /\ net' = net /\ ledger' = ledger /\ StoreUnchanged
        /\ Unanswered(w)
    BY DEF ReadUnanswered, redisVars, toolVars, StoreUnchanged
  <1>4. WorkerInv(w)
    BY DEF Core
  <1>5. CASE RetryAgain(w)
    <2>1. WorkerInv(w)'
      BY <1>3, <1>4, <1>5, RetryKeeps, QuietWorker
    <2>. QED
      BY <1>2, <1>3, <2>1, QuietCore
  <1>6. CASE GiveUp(w)
    <2>1. WorkerInv(w)'
      BY <1>6, OwnEnds DEF GiveUp, Return
    <2>. QED
      BY <1>2, <1>3, <2>1, QuietCore
  <1>. QED
    BY <1>3, <1>5, <1>6 DEF Unanswered

(* takeOver mints a record for a claim that is stale, after reading the      *)
(* ledger.                                                                   *)
LEMMA OwnTakeOver ==
    ASSUME Shared, Local, StoreInv, NEW w \in Workers, pc[w] = "reconcile",
           WorkerInv(w), seen[w] # Absent, NEW o, o.kind = "reexecuted" => ledger = {},
           Moves(w, "takeover", seen[w], now + OpDelay, o),
           mine' = [mine EXCEPT ![w] = NewRecord(w, race[w], "takeover")],
           UNCHANGED race, StoreUnchanged, net' = net, now' = now, ledger' = ledger
    PROVE  WorkerInv(w)'
  <1> DEFINE m == NewRecord(w, race[w], "takeover")
  <1>1. /\ pc'[w] = "takeover" /\ mine'[w] = m /\ seen'[w] = seen[w]
        /\ by'[w] = now + OpDelay /\ race'[w] = race[w] /\ out'[w] = o
    BY DEF Moves, Local
  <1>2. /\ m.state = "claimed" /\ m.at = now + Skew[w] /\ m.token.at = now + Skew[w]
        /\ m.token.by = w /\ m.token.race = race[w] /\ m.token.op = "takeover"
    BY DEF NewRecord, Clock
  <1>3. Minted(m.token) = now
    BY <1>2, Constants DEF Minted, Shared
  <1>. HIDE DEF m
  <1>4. race[w] \in Nat /\ \A t \in Token : t.race \in Nat
    BY ConstantsAssumption DEF ConstantsAssumption, Local, Token
  <1>5. Spent \subseteq Token /\ Spent' = Spent
    BY DEF Spent, Shared, Command, Record, StoreUnchanged
  <1>6. Live(w) /\ mine[w].token.op = "claim"
    BY DEF Live, WorkerInv, MineInv
  <1>7. \A t \in Spent : t.by = w
          => t.race < race[w] \/ (t.race = race[w] /\ t.op = "claim")
    BY <1>6 DEF WorkerInv, FreshInv
  <1>8. m.token \notin Spent
    BY <1>2, <1>4, <1>7
  <1>9. MineInv(w)'
    <2>1. WellMinted(mine[w])' /\ Minted(mine[w].token)' = now
      BY <1>1, <1>2, <1>3 DEF WellMinted, Minted, Shared
    <2>2. now' <= by'[w] /\ by'[w] <= Minted(mine[w].token)' + OpDelay
      BY <1>1, <2>1, ConstantsAssumption DEF ConstantsAssumption, Shared
    <2>. QED
      BY <1>1, <1>2, <2>1, <2>2 DEF MineInv
  <1>10. FreshInv(w)'
    BY <1>1, <1>5, <1>7 DEF FreshInv
  <1>11. SeenInv(w)'
    <2>1. seen[w].at = seen[w].token.at /\ seen[w].token \in holders
          /\ IsStale(w, seen[w])
      BY <1>6 DEF WorkerInv, SeenInv
    <2>. QED
      BY <1>1, <1>2, <2>1 DEF SeenInv, IsStale, Clock, StoreUnchanged
  <1>12. m.token \notin holders /\ \A c \in net' : c.rec.token # m.token
    BY <1>8 DEF Spent
  <1>13. ClaimInv(w)'
    BY <1>1, <1>12 DEF ClaimInv, Critical, StoreUnchanged
  <1>14. UnspentInv(w)'
    BY <1>1 DEF UnspentInv
  <1>. QED
    BY <1>9, <1>10, <1>11, <1>13, <1>14 DEF WorkerInv

LEMMA ReconcileAnsweredCore ==
    ASSUME Core, Shared, Local, NEW w \in Workers, ReconcileAnswered(w)
    PROVE  Core'
  <1>1. Step(w)
    BY DEF Step
  <1>2. (\A v \in Workers : v # w => Keeps(v)) /\ SettledStays
    BY <1>1, OthersKeep, WorkerSettledStays
  <1>3. pc[w] = "reconcile" /\ now' = now /\ net' = net /\ ledger' = ledger
        /\ StoreUnchanged
    BY DEF ReconcileAnswered, redisVars, toolVars, StoreUnchanged
  <1>4. StoreInv /\ WorkerInv(w) /\ MineInv(w) /\ FreshInv(w) /\ ClaimInv(w)
    BY DEF Core, WorkerInv
  <1>5. Live(w)
    BY <1>3 DEF Live
  <1>6. Spent' \subseteq Spent \cup {mine[w].token}
    BY <1>3 DEF Spent, StoreUnchanged
  <1>7. CASE seen[w] # Absent
    <2>1. PICK kind : /\ Moves(w, "takeover", seen[w], now + OpDelay,
                               [kind |-> kind, status |-> "none"])
                      /\ kind = "reexecuted" => ledger = {}
      BY <1>7 DEF ReconcileAnswered
    <2>2. mine' = [mine EXCEPT ![w] = NewRecord(w, race[w], "takeover")]
          /\ UNCHANGED race
      BY <1>7 DEF ReconcileAnswered
    <2>3. PICK o : o = [kind |-> kind, status |-> "none"]
      OBVIOUS
    <2>4. o.kind = "reexecuted" => ledger = {}
      BY <2>1, <2>3
    <2>5. Moves(w, "takeover", seen[w], now + OpDelay, o)
      BY <2>1, <2>3
    <2>6. WorkerInv(w)'
      BY <1>3, <1>4, <1>7, <2>2, <2>4, <2>5, OwnTakeOver
    <2>. QED
      BY <1>2, <1>3, <2>6, QuietCore
  <1>8. CASE seen[w] = Absent
    <2>1. \/ Resolve(w, "reconciled", "success")
          \/ Execute(w, "reexecuted") /\ UNCHANGED mine /\ ledger = {}
      BY <1>8 DEF ReconcileAnswered
    <2>2. HoldsClaim(redis', mine[w].token)
      BY <1>3, <1>4, <1>8 DEF ClaimInv, Critical, Holds, StoreUnchanged
    <2>3. by[w] <= Minted(mine[w].token) + 2 * OpDelay
      BY <1>3, <1>4, <1>5, <1>8 DEF MineInv
    <2>4. WorkerInv(w)'
      BY <1>3, <1>4, <1>5, <1>6, <2>1, <2>2, <2>3, OwnResolve, OwnExecute
    <2>. QED
      BY <1>2, <1>3, <2>4, QuietCore
  <1>. QED
    BY <1>7, <1>8

(* The end of reconcile, once the claim is known to be in Redis.             *)
LEMMA OwnActOnReconciled ==
    ASSUME Shared, Local, NEW w \in Workers, pc[w] \in {"takeover", "recheck"},
           MineInv(w), FreshInv(w), ActOnReconciled(w), now' = now,
           Spent' \subseteq Spent \cup {mine[w].token},
           HoldsClaim(redis', mine[w].token),
           out[w].kind = "reexecuted" => ledger' = {}
    PROVE  WorkerInv(w)'
  <1>1. Live(w)
    BY DEF Live
  <1>2. by[w] \in Nat /\ OpDelay \in Nat /\ Minted(mine[w].token) \in Int
    BY <1>1, Constants, RecordFacts DEF Local, Shape
  <1>3. by[w] <= Minted(mine[w].token) + 2 * OpDelay
    BY <1>1, <1>2 DEF MineInv
  <1>. QED
    BY <1>1, <1>3, OwnResolve, OwnExecute DEF ActOnReconciled

LEMMA TakeOverAnsweredCore ==
    ASSUME Core, Shared, Local, NEW w \in Workers, TakeOverAnswered(w)
    PROVE  Core'
  <1>1. Step(w)
    BY DEF Step
  <1>2. (\A v \in Workers : v # w => Keeps(v)) /\ SettledStays
    BY <1>1, OthersKeep, WorkerSettledStays
  <1>3. pc[w] = "takeover" /\ now' = now /\ net' = net /\ ledger' = ledger
    BY DEF TakeOverAnswered, toolVars
  <1>4. StoreInv /\ NetInv /\ WorkerInv(w)
    BY DEF Core
  <1>5. MineInv(w) /\ FreshInv(w) /\ SeenInv(w) /\ ClaimInv(w) /\ UnspentInv(w)
    BY <1>4 DEF WorkerInv
  <1>6. Live(w) /\ mine[w] \in Record /\ seen[w] \in Record /\ seen[w] # Absent
    BY <1>3, RecordFacts DEF Live, Local, Shape
  <1>7. /\ mine[w].token.by = w /\ mine[w].state = "claimed" /\ WellMinted(mine[w])
        /\ mine[w].token.op = "takeover"
        /\ now <= by[w] /\ by[w] <= Minted(mine[w].token) + OpDelay
    BY <1>3, <1>5, <1>6 DEF MineInv
  <1>8. /\ seen[w].at = seen[w].token.at /\ seen[w].token \in holders
        /\ ToolTimeout[w] + StaleGrace <= mine[w].at - seen[w].at
    BY <1>3, <1>5, <1>6 DEF SeenInv
  <1>9. CASE HoldsClaim(redis, seen[w].token)
    <2>1. Put(mine[w], TTL[w]) /\ ActOnReconciled(w)
      BY <1>9 DEF TakeOverAnswered
    <2>2. mine[w].token \notin holders
      BY <1>3, <1>5, <1>9 DEF ClaimInv
    <2>3. TakePut(mine[w], seen[w].token) /\ FreshPut(mine[w])
      BY <1>3, <1>6, <1>7, <1>8, <1>9, <2>1, <2>2 DEF TakePut, FreshPut
    <2>4. StoreInv' /\ NetInv'
      BY <1>2, <1>3, <1>4, <2>3, PutStore, PutNet
    <2>5. \A v \in Workers : v # w => WorkerInv(v)'
      <3>1. SUFFICES ASSUME NEW v \in Workers, v # w PROVE WorkerInv(v)'
        OBVIOUS
      <3>2. seen[w].token \in Token /\ WorkerInv(v)
        BY <1>6, RecordFacts DEF Core
      <3>3. ~(mine[w].token = mine[v].token /\ pc[v] \in {"takeover", "recheck"})
        BY <1>7, <3>1, <3>2 DEF WorkerInv, MineInv, Live
      <3>. QED
        BY <1>2, <1>3, <1>4, <1>7, <2>3, <3>1, <3>2, <3>3, PutWorker
    <2>6. WorkerInv(w)'
      <3>1. Spent' \subseteq Spent \cup {mine[w].token}
        BY <1>3, <2>1 DEF Spent, Put
      <3>2. HoldsClaim(redis', mine[w].token)
        BY <1>7, <2>1 DEF Put, HoldsClaim
      <3>3. out[w].kind = "reexecuted" => ledger' = {}
        BY <1>3, <1>5, <1>9 DEF UnspentInv
      <3>. QED
        BY <1>3, <1>5, <2>1, <3>1, <3>2, <3>3, OwnActOnReconciled
    <2>. QED
      BY <1>3, <2>4, <2>5, <2>6 DEF Core, AtMostOnceEffect
  <1>10. CASE ~HoldsClaim(redis, seen[w].token)
    <2>1. /\ Moves(w, "recheck", seen[w], now + OpDelay, out[w])
          /\ StoreUnchanged /\ UNCHANGED <<mine, race>>
      BY <1>10 DEF TakeOverAnswered
    <2>2. Spent' \subseteq Spent \cup {mine[w].token}
      BY <1>3, <2>1 DEF Spent, StoreUnchanged
    <2>3. now <= now + OpDelay /\ now + OpDelay <= Minted(mine[w].token) + 2 * OpDelay
      <3>1. now \in Nat /\ by[w] \in Nat /\ OpDelay \in Nat
            /\ Minted(mine[w].token) \in Int
        BY <1>6, RecordFacts, Constants DEF Shared, Local
      <3>. QED
        BY <1>7, <3>1
    <2>4. \A c \in net' : IsTakeOver(c) /\ c.rec.token = mine[w].token
                             => c.expect = seen[w].token
      BY <1>3, <1>5 DEF ClaimInv
    <2>5. out[w].kind = "reexecuted" /\ (HoldsClaim(redis', mine[w].token)
                                            \/ HoldsClaim(redis', seen[w].token))
            => ledger' = {}
      BY <1>3, <1>5, <2>1 DEF UnspentInv, StoreUnchanged, Holds
    <2>6. seen[w].token \in holders'
      BY <1>8, <2>1 DEF StoreUnchanged
    <2>7. WorkerInv(w)'
      BY <1>3, <1>5, <1>6, <1>7, <1>8, <2>1, <2>2, <2>3, <2>4, <2>5, <2>6, OwnMove
    <2>. QED
      BY <1>2, <1>3, <2>1, <2>7, QuietCore
  <1>. QED
    BY <1>9, <1>10

LEMMA TakeOverUnansweredCore ==
    ASSUME Core, Shared, Local, NEW w \in Workers, TakeOverUnanswered(w)
    PROVE  Core'
  <1>1. Step(w)
    BY DEF Step
  <1>2. (\A v \in Workers : v # w => Keeps(v)) /\ SettledStays
    BY <1>1, OthersKeep, WorkerSettledStays
  <1>3. PICK d : d = CasCommand(w, seen[w].token, mine[w])
    OBVIOUS
  <1>4. pc[w] = "takeover" /\ now' = now /\ net' = net \cup {d} /\ ledger' = ledger
        /\ StoreUnchanged /\ Unanswered(w)
    BY <1>3 DEF TakeOverUnanswered, toolVars
  <1>5. WorkerInv(w) /\ MineInv(w) /\ SeenInv(w) /\ ClaimInv(w)
    BY DEF Core, WorkerInv
  <1>6. Live(w) /\ mine[w] \in Record /\ seen[w] \in Record /\ seen[w] # Absent
    BY <1>4, RecordFacts DEF Live, Local, Shape
  <1>7. /\ mine[w].token.by = w /\ mine[w].state = "claimed" /\ WellMinted(mine[w])
        /\ mine[w].token.op = "takeover"
    BY <1>4, <1>5, <1>6 DEF MineInv
  <1>8. d.op = "cas" /\ d.rec = mine[w] /\ d.ttl = TTL[w] /\ d.expect = seen[w].token
    BY <1>3 DEF CasCommand
  <1>9. /\ seen[w].at = seen[w].token.at /\ seen[w].token \in holders
        /\ ToolTimeout[w] + StaleGrace <= mine[w].at - seen[w].at
    BY <1>4, <1>5, <1>6 DEF SeenInv
  <1>10. CommandInv(d)'
    <2>1. mine[w].token \in holders => ~HoldsClaim(redis, d.expect)
      BY <1>4, <1>5, <1>8 DEF ClaimInv
    <2>2. WellMinted(d.rec)'
      BY <1>4, <1>7, <1>8 DEF WellMinted, Minted
    <2>. QED
      BY <1>4, <1>7, <1>8, <1>9, <2>1, <2>2
      DEF CommandInv, StoreUnchanged, IsTakeOver, IsResolve, HoldsClaim
  <1>11. WorkerInv(w)'
    <2>1. CASE RetryAgain(w)
      <3>1. \A c \in net' : c \in net \/ (/\ Live(w) /\ c.rec.token = mine[w].token
                                           /\ c.expect = seen[w].token)
        BY <1>4, <1>6, <1>8
      <3>. QED
        BY <1>4, <1>5, <2>1, <3>1, RetryKeeps, QuietWorker
    <2>2. CASE GiveUp(w)
      BY <2>2, OwnEnds DEF GiveUp, Return
    <2>. QED
      BY <1>4, <2>1, <2>2 DEF Unanswered
  <1>. QED
    BY <1>2, <1>4, <1>7, <1>8, <1>10, <1>11, SendCore

LEMMA RecheckAnsweredCore ==
    ASSUME Core, Shared, Local, NEW w \in Workers, RecheckAnswered(w)
    PROVE  Core'
  <1>1. Step(w)
    BY DEF Step
  <1>2. (\A v \in Workers : v # w => Keeps(v)) /\ SettledStays
    BY <1>1, OthersKeep, WorkerSettledStays
  <1>3. pc[w] = "recheck" /\ now' = now /\ net' = net /\ ledger' = ledger
        /\ StoreUnchanged
    BY DEF RecheckAnswered, redisVars, toolVars, StoreUnchanged
  <1>4. StoreInv /\ MineInv(w) /\ FreshInv(w) /\ UnspentInv(w)
    BY DEF Core, WorkerInv
  <1>5. WorkerInv(w)'
    <2>1. CASE HoldsClaim(redis, mine[w].token)
      <3>1. ActOnReconciled(w)
        BY <2>1 DEF RecheckAnswered
      <3>2. Spent' \subseteq Spent \cup {mine[w].token}
            /\ HoldsClaim(redis', mine[w].token)
        BY <1>3, <2>1 DEF Spent, StoreUnchanged
      <3>3. out[w].kind = "reexecuted" => ledger' = {}
        BY <1>3, <1>4, <2>1 DEF UnspentInv, Holds
      <3>. QED
        BY <1>3, <1>4, <3>1, <3>2, <3>3, OwnActOnReconciled
    <2>2. CASE ~HoldsClaim(redis, mine[w].token)
      BY <1>3, <1>4, <2>2, OwnRestart DEF RecheckAnswered, Live
    <2>. QED
      BY <2>1, <2>2
  <1>. QED
    BY <1>2, <1>3, <1>5, QuietCore

(* The tool call, as long as it leaves the ledger alone.                     *)
LEMMA ExecuteCore ==
    ASSUME Core, Shared, Local, NEW w \in Workers,
           BeginExecute(w) \/ ExecuteFails(w) \/ ExecuteTimesOut(w)
    PROVE  Core'
  <1>1. Step(w)
    BY DEF Step
  <1>2. (\A v \in Workers : v # w => Keeps(v)) /\ SettledStays
    BY <1>1, OthersKeep, WorkerSettledStays
  <1>3. pc[w] \in {"execute", "executing"} /\ now' = now /\ net' = net
        /\ ledger' = ledger /\ StoreUnchanged
    BY DEF BeginExecute, ExecuteFails, ExecuteTimesOut, redisVars, toolVars,
           StoreUnchanged
  <1>4. MineInv(w) /\ FreshInv(w) /\ ClaimInv(w) /\ UnspentInv(w)
    BY DEF Core, WorkerInv
  <1>5. Live(w) /\ mine[w] \in Record
    BY <1>3 DEF Live, Local, Shape
  <1>6. Spent' \subseteq Spent \cup {mine[w].token}
    BY <1>3 DEF Spent, StoreUnchanged
  <1>7. WorkerInv(w)'
    <2>1. CASE BeginExecute(w)
      <3>1. pc[w] = "execute" /\ UNCHANGED <<mine, race>>
            /\ Moves(w, "executing", Absent, now + ToolTimeout[w], out[w])
        BY <2>1 DEF BeginExecute
      <3>2. now <= by[w] /\ by[w] <= Minted(mine[w].token) + 2 * OpDelay
        BY <1>4, <1>5, <3>1 DEF MineInv
      <3>3. now \in Nat /\ by[w] \in Nat /\ OpDelay \in Nat /\ ToolTimeout[w] \in Nat
            /\ Minted(mine[w].token) \in Int
        BY <1>5, RecordFacts, Constants DEF Shared, Local
      <3>4. /\ now <= now + ToolTimeout[w]
            /\ now + ToolTimeout[w] <= Minted(mine[w].token) + 2 * OpDelay + ToolTimeout[w]
        BY <3>2, <3>3
      <3>5. HoldsClaim(redis', mine[w].token) /\ ledger' = {}
        BY <1>3, <1>4 DEF ClaimInv, UnspentInv, Critical, Holds, StoreUnchanged
      <3>. QED
        BY <1>3, <1>4, <1>5, <1>6, <3>1, <3>4, <3>5, OwnMove
    <2>2. CASE ExecuteFails(w)
      BY <1>3, <1>4, <1>5, <1>6, <2>2, OwnResolve DEF ExecuteFails
    <2>3. CASE ExecuteTimesOut(w)
      BY <2>3, OwnEnds DEF ExecuteTimesOut, Return
    <2>. QED
      BY <2>1, <2>2, <2>3
  <1>. QED
    BY <1>2, <1>3, <1>7, QuietCore

(* The tool writes its entry: the ledger was empty, and nobody else still    *)
(* rests on that.                                                            *)
LEMMA EffectCore ==
    ASSUME Core, Shared, Local, NEW w \in Workers,
           ExecuteApplies(w) \/ ExecuteUnknown(w)
    PROVE  Core'
  <1>1. Step(w)
    BY DEF Step
  <1>2. (\A v \in Workers : v # w => Keeps(v)) /\ SettledStays
    BY <1>1, OthersKeep, WorkerSettledStays
  <1>3. pc[w] = "executing" /\ UNCHANGED <<now, redisVars>>
        /\ ledger' \subseteq ledger \cup {w}
    BY DEF ExecuteApplies, ExecuteUnknown, MayRecord, AppendLine
  <1>4. StoreInv /\ NetInv /\ WorkerInv(w)
    BY DEF Core
  <1>5. MineInv(w) /\ FreshInv(w) /\ ClaimInv(w) /\ UnspentInv(w)
    BY <1>4 DEF WorkerInv
  <1>6. Critical(w) /\ Holds(w) /\ ledger = {} /\ Live(w)
    BY <1>3, <1>5 DEF ClaimInv, UnspentInv, Critical, Live
  <1>7. AtMostOnceEffect'
    BY <1>3, <1>6 DEF AtMostOnceEffect
  <1>8. StoreInv'
    <2>1. redis # Absent /\ holders # {}
      BY <1>4, <1>6 DEF Holds, HoldsClaim, Absent, StoreInv
    <2>. QED
      BY <1>3, <1>4, <2>1
      DEF StoreInv, redisVars, WellMinted, Minted
  <1>9. NetInv'
    <2>1. SUFFICES ASSUME NEW c \in net PROVE CommandInv(c)'
      BY <1>3 DEF NetInv, redisVars
    <2>2. CommandInv(c) /\ c.rec.token.by \in Workers
      BY RecordFacts DEF Core, NetInv, Shared, Command
    <2>. QED
      BY <1>2, <1>3, <2>2 DEF CommandInv, redisVars, WellMinted, Minted, SettledStays,
                  IsTakeOver, IsResolve, HoldsClaim
  <1>10. \A v \in Workers : v # w => WorkerInv(v)'
    BY <1>2, <1>3, <1>4, <1>6, LedgerWorker DEF Core
  <1>11. WorkerInv(w)'
    <2>1. Spent' \subseteq Spent \cup {mine[w].token}
      BY <1>3 DEF Spent, redisVars
    <2>2. CASE ExecuteApplies(w)
      BY <1>3, <1>5, <1>6, <2>1, <2>2, OwnResolve DEF ExecuteApplies
    <2>3. CASE ExecuteUnknown(w)
      BY <2>3, OwnEnds DEF ExecuteUnknown, Return
    <2>. QED
      BY <2>2, <2>3
  <1>. QED
    BY <1>7, <1>8, <1>9, <1>10, <1>11 DEF Core

LEMMA ResolvedFacts ==
    ASSUME NEW rec \in Record, NEW status \in {"none", "success", "error"}
    PROVE  /\ Resolved(rec, status) \in Record
           /\ Resolved(rec, status).state = "resolved"
           /\ Resolved(rec, status).token = rec.token
           /\ Resolved(rec, status).at = rec.at
  BY DEF Resolved, Record

LEMMA ResolveAnsweredCore ==
    ASSUME Core, Shared, Local, NEW w \in Workers, ResolveAnswered(w)
    PROVE  Core'
  <1>1. Step(w)
    BY DEF Step
  <1>2. (\A v \in Workers : v # w => Keeps(v)) /\ SettledStays
    BY <1>1, OthersKeep, WorkerSettledStays
  <1>3. pc[w] = "resolve" /\ now' = now /\ net' = net /\ ledger' = ledger
    BY DEF ResolveAnswered, toolVars
  <1>4. StoreInv /\ NetInv /\ MineInv(w)
    BY DEF Core, WorkerInv
  <1>5. Live(w) /\ mine[w] \in Record /\ mine[w].token.by = w /\ WellMinted(mine[w])
    BY <1>3, <1>4 DEF Live, Local, Shape, MineInv
  <1>6. out[w].status \in {"none", "success", "error"}
    BY DEF Local, OutRecord
  <1>7. WorkerInv(w)'
    BY OwnEnds DEF ResolveAnswered, Return
  <1>8. CASE HoldsClaim(redis, mine[w].token)
    <2>1. PICK rec : rec = Resolved(mine[w], out[w].status)
      OBVIOUS
    <2>2. rec \in Record /\ rec.state = "resolved" /\ rec.token = mine[w].token
          /\ rec.at = mine[w].at
      BY <1>5, <1>6, <2>1, ResolvedFacts
    <2>3. ResolvedPut(rec)
      BY <1>3, <1>5, <1>8, <2>1, <2>2 DEF ResolvedPut, ResolveAnswered, WellMinted
    <2>4. StoreInv' /\ NetInv'
      BY <1>2, <1>3, <1>4, <2>3, PutStore, PutNet
    <2>5. \A v \in Workers : v # w => WorkerInv(v)'
      BY <1>2, <1>3, <1>4, <2>3, ResolvedWorker DEF Core
    <2>. QED
      BY <1>3, <1>7, <2>4, <2>5 DEF Core, AtMostOnceEffect
  <1>9. CASE ~HoldsClaim(redis, mine[w].token)
    BY <1>2, <1>3, <1>7, <1>9, QuietCore DEF ResolveAnswered
  <1>. QED
    BY <1>8, <1>9

LEMMA ResolveUnansweredCore ==
    ASSUME Core, Shared, Local, NEW w \in Workers, ResolveUnanswered(w)
    PROVE  Core'
  <1>1. Step(w)
    BY DEF Step
  <1>2. (\A v \in Workers : v # w => Keeps(v)) /\ SettledStays
    BY <1>1, OthersKeep, WorkerSettledStays
  <1>3. PICK rec : rec = Resolved(mine[w], out[w].status)
    OBVIOUS
  <1>4. PICK d : d = CasCommand(w, mine[w].token, rec)
    OBVIOUS
  <1>5. pc[w] = "resolve" /\ now' = now /\ net' = net \cup {d} /\ ledger' = ledger
        /\ StoreUnchanged
    BY <1>3, <1>4 DEF ResolveUnanswered, toolVars
  <1>6. WorkerInv(w) /\ MineInv(w)
    BY DEF Core, WorkerInv
  <1>7. Live(w) /\ mine[w] \in Record /\ mine[w].token.by = w /\ WellMinted(mine[w])
    BY <1>5, <1>6 DEF Live, Local, Shape, MineInv
  <1>8. out[w].status \in {"none", "success", "error"}
    BY DEF Local, OutRecord
  <1>9. rec.state = "resolved" /\ rec.token = mine[w].token /\ rec.at = mine[w].at
    BY <1>3, <1>7, <1>8, ResolvedFacts
  <1>10. d.op = "cas" /\ d.rec = rec /\ d.ttl = TTL[w] /\ d.expect = mine[w].token
    BY <1>4 DEF CasCommand
  <1>11. CommandInv(d)'
    <2>1. pc'[w] \in {"resolve", "done", "crashed"}
      BY <1>2, <1>5 DEF SettledStays
    <2>2. WellMinted(d.rec)'
      BY <1>5, <1>7, <1>9, <1>10 DEF WellMinted, Minted
    <2>. QED
      BY <1>7, <1>9, <1>10, <2>1, <2>2 DEF CommandInv, IsTakeOver, IsResolve
  <1>12. WorkerInv(w)'
    <2>1. CASE RetryAgain(w)
      <3>1. \A c \in net' : c \in net \/ (Live(w) /\ c.rec.token = mine[w].token
                                            /\ ~IsTakeOver(c))
        BY <1>5, <1>7, <1>9, <1>10 DEF IsTakeOver
      <3>. QED
        BY <1>5, <1>6, <2>1, <3>1, RetryKeeps, QuietWorker
    <2>2. CASE ~RetryAgain(w)
      BY <2>2, OwnEnds DEF ResolveUnanswered, Return
    <2>. QED
      BY <2>1, <2>2
  <1>. QED
    BY <1>2, <1>5, <1>7, <1>9, <1>10, <1>11, <1>12, SendCore

-----------------------------------------------------------------------------
(* Steps that no worker takes.                                               *)

(* A late command meets the reason it was sent for, or is refused.           *)
LEMMA LandCore ==
    ASSUME Core, Shared, Local, NEW c \in net, Land(c)
    PROVE  Core'
  <1>1. \A v \in Workers : Keeps(v)
    BY DEF Land, workerVars, Keeps
  <1>2. SettledStays
    BY <1>1 DEF SettledStays, Keeps
  <1>3. now' = now /\ net' \subseteq net /\ ledger' = ledger
    BY DEF Land, toolVars
  <1>4. StoreInv /\ NetInv /\ CommandInv(c)
    BY DEF Core, NetInv
  <1>5. c.op \in {"claim", "cas"} /\ c.rec \in Record /\ c.expect \in Token
    BY DEF Shared, Command
  <1>6. c.rec.token.by \in Workers /\ c.rec.state \in {"claimed", "resolved"}
    BY <1>5, RecordFacts
  <1>7. WellMinted(c.rec) /\ c.ttl = TTL[c.rec.token.by] /\ c.rec.token \in Spent
    BY <1>4 DEF CommandInv, Spent
  <1>8. CASE Applicable(c) /\ c.rec.state = "claimed"
    <2>1. Put(c.rec, TTL[c.rec.token.by])
      BY <1>7, <1>8 DEF Land
    <2>2. /\ c.op = "claim" => ClaimPut(c.rec)
          /\ c.op = "cas" => TakePut(c.rec, c.expect)
      <3>1. CASE c.op = "claim"
        BY <1>3, <1>4, <1>5, <1>7, <1>8, <2>1, <3>1
        DEF ClaimPut, FreshPut, Applicable, CommandInv
      <3>2. CASE c.op = "cas"
        <4>1. IsTakeOver(c) /\ HoldsClaim(redis, c.expect)
          BY <1>8, <3>2 DEF IsTakeOver, Applicable
        <4>. QED
          BY <1>3, <1>4, <1>5, <1>7, <1>8, <2>1, <3>2, <4>1
          DEF TakePut, FreshPut, CommandInv
      <3>. QED
        BY <1>5, <3>1, <3>2
    <2>3. FreshPut(c.rec) /\ (ClaimPut(c.rec) \/ TakePut(c.rec, c.expect))
      BY <1>5, <2>2 DEF ClaimPut, TakePut
    <2>4. StoreInv' /\ NetInv'
      BY <1>2, <1>3, <1>4, <2>3, PutStore, PutNet
    <2>5. ASSUME NEW v \in Workers PROVE WorkerInv(v)'
      <3>1. WorkerInv(v) /\ ClaimInv(v)
        BY DEF Core, WorkerInv
      <3>2. TakePut(c.rec, c.expect) /\ c.rec.token = mine[v].token
              /\ pc[v] \in {"takeover", "recheck"} => c.expect = seen[v].token
        BY <1>4, <1>5, <1>8, <3>1 DEF ClaimInv, IsTakeOver, TakePut, CommandInv
      <3>. QED
        BY <1>1, <1>3, <1>4, <1>5, <1>7, <2>3, <3>1, <3>2, PutWorker
    <2>. QED
      BY <1>3, <2>4, <2>5 DEF Core, AtMostOnceEffect
  <1>9. CASE Applicable(c) /\ c.rec.state = "resolved"
    <2>1. Put(c.rec, TTL[c.rec.token.by])
      BY <1>7, <1>9 DEF Land
    <2>2. IsResolve(c) /\ HoldsClaim(redis, c.expect)
      BY <1>4, <1>5, <1>9 DEF IsResolve, CommandInv, Applicable
    <2>3. ResolvedPut(c.rec)
      BY <1>3, <1>4, <1>5, <1>7, <1>9, <2>1, <2>2 DEF ResolvedPut, CommandInv
    <2>4. StoreInv' /\ NetInv'
      BY <1>2, <1>3, <1>4, <2>3, PutStore, PutNet
    <2>5. \A v \in Workers : WorkerInv(v)'
      BY <1>1, <1>3, <1>4, <2>3, ResolvedWorker DEF Core
    <2>. QED
      BY <1>3, <2>4, <2>5 DEF Core, AtMostOnceEffect
  <1>10. CASE ~Applicable(c)
    <2>1. StoreUnchanged
      BY <1>10 DEF Land
    <2>2. WorkerInv(c.rec.token.by)'
      BY <1>1, <1>3, <1>6, <2>1, QuietWorker DEF Core
    <2>. QED
      BY <1>1, <1>2, <1>3, <1>6, <2>1, <2>2, QuietCore
  <1>. QED
    BY <1>6, <1>8, <1>9, <1>10

(* Time passes.  A key only expires once no worker acts on its claim any     *)
(* more and no claim command that Redis has already seen is under way.       *)
LEMMA TickCore ==
    ASSUME Core, Shared, Local, Tick
    PROVE  Core'
  <1>1. \A v \in Workers : Keeps(v)
    BY DEF Tick, workerVars, Keeps
  <1>2. /\ now' = now + 1 /\ net' = {c \in net : now < c.until} /\ holders' = holders
        /\ ledger' = ledger
    BY DEF Tick, toolVars
  <1>3. \A v \in Workers : Live(v) => now < by[v]
    BY TimingAssumption DEF TimingAssumption, Tick
  <1>4. \/ redis # Absent /\ now + 1 >= expires /\ redis' = Absent
        \/ (redis = Absent \/ now + 1 < expires) /\ redis' = redis /\ expires' = expires
    BY DEF Tick
  <1>5. now \in Nat /\ expires \in Nat
    BY DEF Shared
  <1>6. StoreInv /\ NetInv /\ AtMostOnceEffect
    BY DEF Core
  <1>7. ASSUME NEW rec \in Record, WellMinted(rec) PROVE WellMinted(rec)'
    <2>1. Minted(rec.token) \in Int
      BY RecordFacts
    <2>. QED
      BY <1>2, <1>5, <1>7, <2>1 DEF WellMinted, Minted
  <1>8. ASSUME NEW v \in Workers, KeyMayHaveExpired(v) PROVE KeyMayHaveExpired(v)'
    BY <1>2, <1>5, <1>8, Constants DEF KeyMayHaveExpired, Clock
  <1>9. StoreInv'
    <2>1. CASE redis' = redis /\ expires' = expires
               /\ (redis = Absent \/ now + 1 < expires)
      <3>1. redis # Absent => redis \in Record
        BY DEF Shared
      <3>2. redis # Absent => WellMinted(redis)'
        <4>1. SUFFICES ASSUME redis # Absent PROVE WellMinted(redis)'
          OBVIOUS
        <4>2. PICK rec \in Record : rec = redis /\ rec = redis'
          BY <2>1, <3>1, <4>1
        <4>3. WellMinted(rec)'
          BY <1>6, <1>7, <4>1, <4>2 DEF StoreInv
        <4>. QED
          BY <4>2, <4>3 DEF WellMinted, Minted
      <3>. QED
        BY <1>2, <1>6, <1>8, <2>1, <3>2 DEF StoreInv, Minted
    <2>2. CASE redis # Absent /\ now + 1 >= expires /\ redis' = Absent
      <3>1. redis \in Record
        BY <2>2 DEF Shared
      <3>2. /\ redis.token.by \in Workers /\ Minted(redis.token) \in Int
            /\ TTL[redis.token.by] \in Nat
        BY <3>1, RecordFacts, Constants
      <3>3. 0 <= Minted(redis.token) /\ Minted(redis.token) + TTL[redis.token.by] <= expires
            /\ redis.token \in holders
        BY <1>6, <2>2 DEF StoreInv, WellMinted
      <3>4. TTL[redis.token.by] <= now + 1 /\ now + 1 \in Int
        BY <1>5, <2>2, <3>2, <3>3
      <3>5. ASSUME NEW w \in Workers PROVE KeyMayHaveExpired(w)'
        <4>1. now + 1 + Skew[w] - InvokedAt >= TTL[w] - ExpiryMargin
          BY <3>2, <3>4, GoneLooksExpired
        <4>. QED
          BY <1>2, <1>5, <4>1, Constants DEF KeyMayHaveExpired, Clock
      <3>. QED
        BY <1>2, <2>2, <3>3, <3>5 DEF StoreInv
    <2>. QED
      BY <1>4, <2>1, <2>2
  <1>10. NetInv'
    <2>1. SUFFICES ASSUME NEW c \in net, now < c.until PROVE CommandInv(c)'
      BY <1>2 DEF NetInv
    <2>2. CommandInv(c) /\ c \in Command
      BY <1>6 DEF NetInv, Shared
    <2>3. c.rec \in Record /\ c.until \in Int /\ c.rec.token.by \in Workers
      BY <2>2, RecordFacts DEF Command
    <2>4. WellMinted(c.rec)'
      BY <1>7, <2>2, <2>3 DEF CommandInv
    <2>5. c.op = "claim" /\ c.rec.token \in holders
            => redis' = redis /\ expires' = expires
      <3>1. SUFFICES ASSUME c.op = "claim", c.rec.token \in holders, now + 1 >= expires
                     PROVE  FALSE
        BY <1>4
      <3>2. c.until < expires
        BY <2>2, <3>1 DEF CommandInv
      <3>. QED
        BY <1>5, <2>1, <2>3, <3>1, <3>2
    <2>6. IsTakeOver(c) /\ c.rec.token \in holders => ~HoldsClaim(redis', c.expect)
      BY <1>4, <2>2 DEF CommandInv, HoldsClaim, Absent
    <2>7. pc' = pc
      BY DEF Tick, workerVars
    <2>. QED
      BY <1>2, <2>2, <2>4, <2>5, <2>6, <2>7
      DEF CommandInv, IsTakeOver, IsResolve, Minted
  <1>11. ASSUME NEW v \in Workers PROVE WorkerInv(v)'
    <2>1. WorkerInv(v) /\ MineInv(v) /\ FreshInv(v) /\ SeenInv(v) /\ ClaimInv(v)
          /\ UnspentInv(v) /\ Keeps(v)
      BY <1>1 DEF Core, WorkerInv
    <2>2. Live(v)' <=> Live(v)
      BY <2>1 DEF Keeps, Live
    <2>3. Live(v) => mine[v] \in Record
      BY DEF Local, Shape
    <2>4. MineInv(v)'
      <3>1. SUFFICES ASSUME Live(v) PROVE MineInv(v)'
        BY <2>2 DEF MineInv
      <3>2. PICK m \in Record : m = mine[v] /\ m = mine'[v]
        BY <2>1, <2>3, <3>1 DEF Keeps
      <3>3. WellMinted(m) /\ WellMinted(m)'
        BY <1>7, <2>1, <3>1, <3>2 DEF MineInv
      <3>4. now' <= by'[v]
        BY <1>2, <1>3, <1>5, <2>1, <3>1 DEF Keeps, Local
      <3>. QED
        BY <2>1, <2>2, <3>1, <3>2, <3>3, <3>4 DEF MineInv, Keeps, Minted, WellMinted
    <2>5. FreshInv(v)'
      <3>1. Spent' \subseteq Spent
        BY <1>2 DEF Spent
      <3>. QED
        BY <2>1, <2>2, <3>1 DEF FreshInv, Keeps
    <2>6. SeenInv(v)'
      <3>1. SUFFICES ASSUME Live(v), seen[v] # Absent PROVE SeenInv(v)'
        BY <2>1, <2>2 DEF SeenInv, Keeps
      <3>2. seen[v] \in Record /\ seen[v].at \in Int
        BY <3>1, RecordFacts DEF Local
      <3>3. IsStale(v, seen[v]) => IsStale(v, seen[v])'
        BY <1>2, <1>5, <2>1, <3>2, Constants DEF IsStale, Clock, Keeps
      <3>. QED
        BY <1>2, <2>1, <2>2, <3>1, <3>3 DEF SeenInv, Keeps
    <2>7. Critical(v) => redis' = redis
      <3>1. SUFFICES ASSUME Critical(v), now + 1 >= expires PROVE FALSE
        BY <1>4
      <3>2. Live(v) /\ Holds(v) /\ mine[v] \in Record /\ mine[v].token.by = v
        BY <2>1, <3>1, CriticalBound DEF ClaimInv
      <3>3. /\ Minted(mine[v].token) \in Int /\ by[v] \in Nat /\ TTL[v] \in Nat
            /\ OpDelay \in Nat /\ ToolTimeout[v] \in Nat
        BY <3>2, RecordFacts, Constants DEF Local
      <3>4. by[v] <= Minted(mine[v].token) + 2 * OpDelay + ToolTimeout[v]
        BY <2>1, <3>1, <3>2, <3>3 DEF Critical, MineInv
      <3>5. Minted(mine[v].token) + TTL[v] <= expires
        BY <1>6, <3>2 DEF Holds, HoldsClaim, StoreInv, Absent
      <3>6. now < by[v] /\ 2 * OpDelay + ToolTimeout[v] < TTL[v]
        BY <1>3, <3>2, Lifetimes
      <3>. QED
        BY <1>5, <3>1, <3>3, <3>4, <3>5, <3>6
    <2>8. pc[v] = "claim" /\ mine[v].token \in holders => redis' = redis /\ expires' = expires
      <3>1. SUFFICES ASSUME pc[v] = "claim", mine[v].token \in holders, now + 1 >= expires
                     PROVE  FALSE
        BY <1>4, <2>1 DEF ClaimInv
      <3>2. Live(v) /\ Minted(mine[v].token) + OpDelay + CommandLife < expires
        BY <2>1, <3>1 DEF ClaimInv, Live
      <3>3. /\ Minted(mine[v].token) \in Int /\ by[v] \in Nat
            /\ OpDelay \in Nat /\ CommandLife \in Nat
        BY <2>3, <3>2, RecordFacts, Constants DEF Local
      <3>4. now < by[v] /\ by[v] <= Minted(mine[v].token) + OpDelay
        BY <1>3, <2>1, <3>1, <3>2 DEF MineInv
      <3>. QED
        BY <1>5, <3>1, <3>2, <3>3, <3>4
    <2>9. \A u : HoldsClaim(redis', u) => HoldsClaim(redis, u)
      BY <1>4 DEF HoldsClaim, Absent
    <2>10. ClaimInv(v)'
      <3>1. Critical(v)' <=> Critical(v)
        BY <2>1 DEF Critical, Keeps
      <3>2. Critical(v) => Holds(v)'
        BY <2>1, <2>7 DEF ClaimInv, Holds, HoldsClaim, Keeps
      <3>. QED
        BY <1>2, <2>1, <2>8, <2>9, <3>1, <3>2 DEF ClaimInv, Keeps, Minted, IsTakeOver
    <2>11. UnspentInv(v)'
      <3>1. Holds(v)' => Holds(v)
        BY <2>1, <2>9 DEF Holds, Keeps
      <3>. QED
        BY <1>2, <1>8, <2>1, <2>9, <3>1 DEF UnspentInv, Keeps
    <2>. QED
      BY <2>4, <2>5, <2>6, <2>10, <2>11 DEF WorkerInv
  <1>. QED
    BY <1>2, <1>6, <1>9, <1>10, <1>11 DEF Core, AtMostOnceEffect

-----------------------------------------------------------------------------
LEMMA InitCore == Init => Core
  <1>1. SUFFICES ASSUME Init PROVE Core
    OBVIOUS
  <1>2. StoreInv /\ NetInv /\ AtMostOnceEffect
    BY <1>1 DEF Init, StoreInv, NetInv, AtMostOnceEffect
  <1>3. ASSUME NEW w \in Workers PROVE WorkerInv(w)
    <2>1. pc[w] = "idle" /\ ~Live(w) /\ Spent = {}
      BY <1>1 DEF Init, Live, Spent
    <2>. QED
      BY <2>1 DEF WorkerInv, MineInv, FreshInv, SeenInv, ClaimInv, UnspentInv, Critical
  <1>. QED
    BY <1>2, <1>3 DEF Core

LEMMA StepCore ==
    ASSUME Core, Shared, Local, NEW w \in Workers, Step(w)
    PROVE  Core'
  <1>1. CASE ClaimAnswered(w) \/ ClaimUnanswered(w)
    BY <1>1, ClaimAnsweredCore, ClaimUnansweredCore
  <1>2. CASE Wake(w) \/ PollAnswered(w) \/ ReadUnanswered(w)
    BY <1>2, PollCore, ReadUnansweredCore
  <1>3. CASE ReconcileAnswered(w)
    BY <1>3, ReconcileAnsweredCore
  <1>4. CASE TakeOverAnswered(w) \/ TakeOverUnanswered(w) \/ RecheckAnswered(w)
    BY <1>4, TakeOverAnsweredCore, TakeOverUnansweredCore, RecheckAnsweredCore
  <1>5. CASE BeginExecute(w) \/ ExecuteFails(w) \/ ExecuteTimesOut(w)
    BY <1>5, ExecuteCore
  <1>6. CASE ExecuteApplies(w) \/ ExecuteUnknown(w)
    BY <1>6, EffectCore
  <1>7. CASE ResolveAnswered(w) \/ ResolveUnanswered(w)
    BY <1>7, ResolveAnsweredCore, ResolveUnansweredCore
  <1>. QED
    BY <1>1, <1>2, <1>3, <1>4, <1>5, <1>6, <1>7 DEF Step

(* Nothing of the invariant is about whether the ledger can be read.         *)
LEMMA StutterCore ==
    ASSUME Core, UNCHANGED <<now, redisVars, ledger, workerVars>>
    PROVE  Core'
  <1> USE DEF redisVars, workerVars
  <1>1. StoreInv'
    BY DEF Core, StoreInv, WellMinted, Minted, KeyMayHaveExpired, Clock
  <1>2. NetInv'
    BY DEF Core, NetInv, CommandInv, WellMinted, Minted, IsTakeOver, IsResolve, HoldsClaim
  <1>3. \A v \in Workers : Keeps(v)
    BY DEF Keeps
  <1>4. \A v \in Workers : WorkerInv(v)'
    BY <1>3, QuietWorker DEF Core, StoreUnchanged
  <1>. QED
    BY <1>1, <1>2, <1>4 DEF Core, AtMostOnceEffect

LEMMA NextCore ==
    ASSUME Core, TypeOK, Shape, [Next]_vars
    PROVE  Core'
  <1>1. Shared /\ Local
    BY TypeOKParts
  <1>2. CASE \E w \in Workers : Start(w) \/ Step(w) \/ Crash(w)
    BY <1>1, <1>2, StartCore, StepCore, CrashCore
  <1>3. CASE \E c \in net : Land(c)
    BY <1>1, <1>3, LandCore
  <1>4. CASE Tick
    BY <1>1, <1>4, TickCore
  <1>5. CASE Tear \/ UNCHANGED vars
    BY <1>5, StutterCore DEF Tear, vars, toolVars
  <1>. QED
    BY <1>2, <1>3, <1>4, <1>5 DEF Next

(* IInv is an invariant: every claim, command and decision of Guard.Run      *)
(* keeps the reason it rests on, over crashes, retries, late commands,       *)
(* expiry and takeovers.                                                     *)
THEOREM InvariantHolds == Spec => []IInv
  <1>1. Init => IInv
    BY InitCore, InitTyped DEF IInv, Core
  <1>2. IInv /\ [Next]_vars => IInv'
    <2>1. SUFFICES ASSUME IInv, [Next]_vars PROVE IInv'
      OBVIOUS
    <2>2. (TypeOK /\ Shape)'
      BY <2>1, NextTyped DEF IInv
    <2>3. Core'
      BY <2>1, NextCore DEF IInv, Core
    <2>. QED
      BY <2>2, <2>3 DEF IInv, Core
  <1>. QED
    BY <1>1, <1>2, PTL DEF Spec

(* The promise of the README and of key.go: however workers crash, wait,     *)
(* retry and take claims over, one idempotency key never gets two entries    *)
(* in the ledger.                                                            *)
THEOREM EffectAtMostOnce == Spec => []AtMostOnceEffect
  <1>1. IInv => AtMostOnceEffect
    BY DEF IInv
  <1>. QED
    BY <1>1, InvariantHolds, PTL

(* execute "must only be reached while we hold the claim": the tool's        *)
(* context is only ever created under a claim that Redis still holds.        *)
THEOREM ToolCallHoldsClaim == Spec => ExecuteHoldsClaim
  <1>1. IInv => \A w \in Workers : pc[w] = "execute" => HoldsClaim(redis, mine[w].token)
    BY DEF IInv, WorkerInv, ClaimInv, Critical, Holds
  <1>2. IInv => [\A w \in Workers :
                    pc[w] = "execute" /\ pc'[w] = "executing"
                       => HoldsClaim(redis, mine[w].token)]_vars
    BY <1>1
  <1>. QED
    BY <1>2, InvariantHolds, PTL DEF ExecuteHoldsClaim

=============================================================================
