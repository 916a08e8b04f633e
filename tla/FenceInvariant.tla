--------------------------- MODULE FenceInvariant ----------------------------
(***************************************************************************)
(* The inductive invariant behind the fence's promise.  AtMostOnceEffect    *)
(* alone says nothing about why a worker that is about to call the tool is  *)
(* the only one: that takes what each claim in Redis, each command under    *)
(* way and each worker's decision still rests on.                           *)
(***************************************************************************)
EXTENDS FenceTiming

(* The true time at which a token was minted.                                *)
Minted(t) == t.at - Skew[t.by]

(* The worker acts, or is about to act, on a claim it takes for its own.     *)
Critical(w) ==
    \/ pc[w] \in {"execute", "executing"}
    \/ pc[w] = "reconcile" /\ seen[w] = Absent

Holds(w) == HoldsClaim(redis, mine[w].token)

IsTakeOver(c) == c.op = "cas" /\ c.rec.state = "claimed"
IsResolve(c) == c.op = "cas" /\ c.rec.state = "resolved"

(* A token that a worker may still see again.                                *)
Spent == holders \cup {c.rec.token : c \in net}

WellMinted(rec) ==
    rec.at = rec.token.at /\ 0 <= Minted(rec.token) /\ Minted(rec.token) <= now

-----------------------------------------------------------------------------
(* What the types need beside themselves: a live worker holds a record it    *)
(* minted, and one that takes a claim over has read that claim.              *)
Shape ==
    \A w \in Workers :
        /\ pc[w] = "idle" => race[w] = 0
        /\ Live(w) => race[w] # 0 /\ mine[w] \in Record
        /\ pc[w] \in {"sleep", "poll", "takeover", "recheck"} => seen[w] \in Record

(* The key lives for the TTL of whoever wrote it, and once it has vanished   *)
(* every worker knows that it may have.                                      *)
StoreInv ==
    /\ redis # Absent =>
         /\ WellMinted(redis)
         /\ redis.token \in holders
         /\ now < expires
         /\ Minted(redis.token) + TTL[redis.token.by] <= expires
    /\ redis = Absent /\ holders # {} => \A w \in Workers : KeyMayHaveExpired(w)
    /\ ledger # {} => holders # {}

(* A command under way was sent for a reason that still holds, and one whose *)
(* token Redis has already seen can no longer be applied.                    *)
CommandInv(c) ==
    /\ WellMinted(c.rec)
    /\ c.ttl = TTL[c.rec.token.by]
    /\ c.op = "claim" =>
         /\ c.rec.state = "claimed" /\ c.rec.token.op = "claim"
         /\ c.until <= Minted(c.rec.token) + OpDelay + CommandLife
         /\ c.rec.token \in holders => redis # Absent /\ c.until < expires
    /\ IsTakeOver(c) =>
         /\ c.rec.token.op = "takeover"
         /\ c.expect \in holders
         /\ ToolTimeout[c.rec.token.by] + StaleGrace <= c.rec.at - c.expect.at
         /\ c.rec.token \in holders => ~HoldsClaim(redis, c.expect)
    /\ IsResolve(c) =>
         /\ c.expect = c.rec.token
         /\ pc[c.rec.token.by] \in {"resolve", "done", "crashed"}

NetInv == \A c \in net : CommandInv(c)

-----------------------------------------------------------------------------
(* The record w minted last, and how long ago that can be.                   *)
MineInv(w) ==
    Live(w) =>
        /\ WellMinted(mine[w])
        /\ mine[w].state = "claimed"
        /\ mine[w].token.by = w /\ mine[w].token.race = race[w]
        /\ now <= by[w]
        /\ pc[w] \in {"claim", "sleep", "poll", "reconcile"}
             => mine[w].token.op = "claim"
        /\ pc[w] \in {"takeover", "recheck"} => mine[w].token.op = "takeover"
        /\ pc[w] \in {"claim", "takeover"} => by[w] <= Minted(mine[w].token) + OpDelay
        /\ pc[w] \in {"recheck", "execute"} \/ (pc[w] = "reconcile" /\ seen[w] = Absent)
             => by[w] <= Minted(mine[w].token) + 2 * OpDelay
        /\ pc[w] = "executing"
             => by[w] <= Minted(mine[w].token) + 2 * OpDelay + ToolTimeout[w]

(* No token of w in Redis or under way equals one that w has still to mint.  *)
FreshInv(w) ==
    \A t \in Spent : t.by = w =>
        /\ pc[w] # "idle"
        /\ Live(w) => \/ t.race < race[w]
                      \/ t.race = race[w] /\ (t.op = "claim" \/ t = mine[w].token)

(* The claim w is after was in Redis, and was stale when w decided so.       *)
SeenInv(w) ==
    Live(w) /\ seen[w] # Absent =>
        /\ seen[w].at = seen[w].token.at
        /\ seen[w].token \in holders
        /\ pc[w] = "reconcile" => IsStale(w, seen[w])
        /\ pc[w] \in {"takeover", "recheck"} =>
             ToolTimeout[w] + StaleGrace <= mine[w].at - seen[w].at

(* The claim of w: held while it matters, and never back once it is gone.    *)
ClaimInv(w) ==
    /\ Critical(w) => Holds(w)
    /\ pc[w] = "claim" /\ mine[w].token \in holders =>
         redis # Absent /\ Minted(mine[w].token) + OpDelay + CommandLife < expires
    /\ pc[w] = "takeover" /\ mine[w].token \in holders =>
         ~HoldsClaim(redis, seen[w].token)
    /\ pc[w] \in {"takeover", "recheck"} =>
         \A c \in net : IsTakeOver(c) /\ c.rec.token = mine[w].token
                           => c.expect = seen[w].token

(* Whoever may go on to call the tool does so on an empty ledger.            *)
UnspentInv(w) ==
    /\ pc[w] \in {"execute", "executing"} => ledger = {}
    /\ pc[w] = "claim" /\ Holds(w) => ledger = {} \/ KeyMayHaveExpired(w)
    /\ pc[w] \in {"takeover", "recheck"} /\ out[w].kind = "reexecuted"
         /\ (Holds(w) \/ HoldsClaim(redis, seen[w].token)) => ledger = {}

WorkerInv(w) ==
    MineInv(w) /\ FreshInv(w) /\ SeenInv(w) /\ ClaimInv(w) /\ UnspentInv(w)

(* The inductive invariant: the reasons for AtMostOnceEffect, over claims,   *)
(* commands under way and the decisions of every worker.                     *)
IInv ==
    /\ TypeOK
    /\ Shape
    /\ StoreInv
    /\ NetInv
    /\ \A w \in Workers : WorkerInv(w)
    /\ AtMostOnceEffect

-----------------------------------------------------------------------------
(* What Run may tell its caller.  IInv says who may act; the rest says that  *)
(* the outcome under way still agrees with the ledger.                       *)

Settled(w) == pc[w] \in {"resolve", "done", "crashed"}

(* Redis still keeps the record under the token t, claimed or resolved.      *)
Keyed(t) == redis # Absent /\ redis.token = t

(* What w is about to report.  "error" is only safe for as long as the token *)
(* of w keeps every other worker out.                                        *)
OutcomeInv(w) ==
    /\ pc[w] \in {"takeover", "recheck"} =>
         /\ out[w].kind \in {"reconciled", "reexecuted"}
         /\ out[w].kind = "reconciled" => ledger # {}
    /\ pc[w] = "resolve" =>
         /\ mine[w].token \in holders
         /\ \/ out[w].status = "success" /\ ledger # {}
            \/ /\ out[w].status = "error" /\ ledger = {}
               /\ Keyed(mine[w].token)
               /\ by[w] <= Minted(mine[w].token) + 3 * OpDelay + ToolTimeout[w]

(* An outcome under way is true, or can no longer be applied.                *)
ReportInv(c) ==
    IsResolve(c) =>
        /\ c.rec.token \in holders
        /\ \/ c.rec.status = "success" /\ ledger # {}
           \/ c.rec.status = "error" /\ (Keyed(c.rec.token) => ledger = {})

TruthInv ==
    /\ \A w \in ledger : Settled(w)
    /\ \A w \in Workers : OutcomeInv(w)
    /\ \A c \in net : ReportInv(c)
    /\ CachedOutcomeIsTrue

(* A tool without Reconcile is never called after a takeover, and a claim    *)
(* that is not the key's first one is known to follow an expiry.             *)
FirstInv ==
    ~Reconcilable =>
        /\ \A w \in Workers : pc[w] \notin {"reconcile", "takeover", "recheck"}
        /\ \A c \in net : ~IsTakeOver(c)
        /\ redis # Absent /\ holders # {redis.token}
             => \A w \in Workers : KeyMayHaveExpired(w)
        /\ \A w \in Workers :
             pc[w] \in {"execute", "executing"} => holders = {mine[w].token}

(* The inductive invariant behind all that the fence promises: IInv, and why *)
(* each outcome that Guard.Run stores, sends or is about to return agrees    *)
(* with the ledger.                                                          *)
PromiseInv == IInv /\ TruthInv /\ FirstInv
=============================================================================
