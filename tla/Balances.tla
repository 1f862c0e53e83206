------------------------------ MODULE Balances ------------------------------
(***************************************************************************)
(* The platform credit of one workspace (billing/balances.ts): holds taken *)
(* before a run or an eval starts, settled when it ends, and reclaimed by  *)
(* a sweep when nobody settles them, with the code that drives them: the   *)
(* gate (billing/gate.ts) and a gateway process that may die (index.ts).   *)
(*                                                                         *)
(* A step is a statement or a transaction of the database, or what the     *)
(* gateway does between two awaits.  Of a release's transaction the read   *)
(* is a step of its own; its claim takes the row lock, so that the claim   *)
(* and the money move together when it commits.  A unit of money is what   *)
(* one step of a run, or one judge call of an eval, costs.                 *)
(***************************************************************************)
EXTENDS Integers, FiniteSets

CONSTANTS Runs, Evals,      \* what is started: interactive runs and evals
          Sweepers,         \* sweeps that may overlap
          NoWork,
          Credit,           \* the balance bought at first
          TopUps,           \* how often one unit is added later (bound)
          Estimates,        \* what the gate may ask for
          MaxCost,          \* how much a run or an eval may cost (bound)
          MaxCrashes,       \* how often the gateway may die (bound)
          Failures          \* which failures may happen: "start" (before the
                            \* run is handed to a sandbox), "spawn", "settle"

Work == Runs \cup Evals

ASSUME WorkAssumption == Runs \cap Evals = {} /\ NoWork \notin Work /\ IsFiniteSet(Work)
ASSUME MoneyAssumption == {Credit, TopUps, MaxCost, MaxCrashes} \cup Estimates \subseteq Nat
ASSUME FailuresAssumption == Failures \subseteq {"start", "spawn", "settle"}

VARIABLES
  balance, reserved,  \* the row of workspace_balances
  hold,       \* the row of billing_holds taken for a run or an eval
  ledger,     \* what is recorded of its cost: usage_events, true spend
  noted,      \* the keys of runHolds and evalHolds
  at,         \* where its start, its process or its settlement is
  pending,    \* cost that has come up and is not recorded yet
  bill,       \* the settleUsd its settlement has read
  list, tx,   \* of a sweep: the holds it has read, the one it is releasing
  charged,    \* ghost: what was taken out of the balance for it
  swept,      \* ghost: the holds a sweep has released
  topUps, crashes

table   == <<balance, reserved, hold, ledger>>
gateway == <<noted, at, pending, bill, list, tx>>
ghosts  == <<charged, swept, topUps, crashes>>
vars    == <<table, gateway, ghosts>>

NoHold == [amount |-> 0, state |-> "none"]

Init ==
  /\ balance = Credit /\ reserved = 0
  /\ hold = [w \in Work |-> NoHold]
  /\ ledger = [w \in Work |-> 0]
  /\ noted = {}
  /\ at = [w \in Work |-> "new"]
  /\ pending = [w \in Work |-> 0]
  /\ bill = [w \in Work |-> 0]
  /\ list = [s \in Sweepers |-> {}]
  /\ tx = [s \in Sweepers |-> NoWork]
  /\ charged = [w \in Work |-> 0]
  /\ swept = {} /\ topUps = 0 /\ crashes = 0

Go(w, place) == at' = [at EXCEPT ![w] = place]

-----------------------------------------------------------------------------
(* The balance and the holds *)

Available == balance - reserved
HasCredit_Balance(amount) == balance >= amount
HasCredit(amount) == Available >= amount

\* `released_at IS NULL`
Unreleased_Always(w) == TRUE
Unreleased(w) == hold[w].state \in {"standing", "expired"}

Less_Unclamped(total, amount) == total - amount
Less(total, amount) == IF total >= amount THEN total - amount ELSE 0

\* The claim and the two movements of a release that settles `cost`.
Released(w, cost) ==
  /\ hold' = [hold EXCEPT ![w].state = "released"]
  /\ reserved' = Less(reserved, hold[w].amount)
  /\ balance' = Less(balance, cost)
  /\ charged' = [charged EXCEPT ![w] = @ + cost]

\* addCredit
TopUp ==
  /\ topUps < TopUps
  /\ topUps' = topUps + 1
  /\ balance' = balance + 1
  /\ UNCHANGED <<reserved, hold, ledger, gateway, charged, swept, crashes>>

\* The time in expires_at comes.
Expire(w) ==
  /\ hold[w].state = "standing"
  /\ hold' = [hold EXCEPT ![w].state = "expired"]
  /\ UNCHANGED <<balance, reserved, ledger, gateway, ghosts>>

-----------------------------------------------------------------------------
(* mayStart and the start it allows *)

\* The workspace has spent its ceiling.
GateRefuses(w) ==
  /\ at[w] = "new"
  /\ Go(w, "over")
  /\ UNCHANGED <<table, noted, pending, bill, list, tx, ghosts>>

\* Without platform credit there is nothing to hold.
GateAsks(w) ==
  /\ at[w] = "new"
  /\ Go(w, IF balance <= 0 THEN "ready" ELSE "asked")
  /\ UNCHANGED <<table, noted, pending, bill, list, tx, ghosts>>

Reserve(w) ==
  /\ at[w] = "asked"
  /\ \E amount \in Estimates :
       IF HasCredit(amount)
       THEN /\ reserved' = reserved + amount
            /\ hold' = [hold EXCEPT ![w] = [amount |-> amount, state |-> "standing"]]
            /\ Go(w, "held")
       ELSE Go(w, "over") /\ UNCHANGED <<reserved, hold>>
  /\ UNCHANGED <<balance, ledger, noted, pending, bill, list, tx, ghosts>>

\* A run's hold is noted before the start, an eval's when start() returns.
NoteHold(w) ==
  /\ at[w] = "held"
  /\ noted' = IF w \in Runs THEN noted \cup {w} ELSE noted
  /\ Go(w, "ready")
  /\ UNCHANGED <<table, pending, bill, list, tx, ghosts>>

Starts(w) ==
  /\ at[w] = "ready"
  /\ noted' = IF hold[w] # NoHold THEN noted \cup {w} ELSE noted
  /\ Go(w, "up")
  /\ UNCHANGED <<table, pending, bill, list, tx, ghosts>>

\* No reservation, no pool slot, an empty dataset: a run is settled like one
\* that ended, an eval's hold is released.
StartRefused(w) ==
  /\ at[w] = "ready"
  /\ Go(w, IF w \in Runs THEN "exited" ELSE IF hold[w] # NoHold THEN "release" ELSE "over")
  /\ UNCHANGED <<table, noted, pending, bill, list, tx, ghosts>>

StartThrows(w) ==
  /\ "start" \in Failures /\ at[w] = "ready"
  /\ Go(w, "left")
  /\ UNCHANGED <<table, noted, pending, bill, list, tx, ghosts>>

\* The pool's spawnError: its handler frees the slot, and no exit follows.
SpawnError(w) ==
  /\ "spawn" \in Failures /\ w \in Runs /\ at[w] = "up"
  /\ pending[w] + ledger[w] = 0
  /\ Go(w, "left")
  /\ UNCHANGED <<table, noted, pending, bill, list, tx, ghosts>>

-----------------------------------------------------------------------------
(* What it costs, and its settlement *)

\* A step of a run is metered on the ingest chain; a judge call of an eval is
\* metered when its answer comes.  (The seconds a sandbox existed are metered
\* beside the chain and are left out.)
Costs(w) ==
  /\ at[w] = "up" /\ pending[w] + ledger[w] < MaxCost
  /\ pending' = [pending EXCEPT ![w] = @ + 1]
  /\ UNCHANGED <<table, noted, at, bill, list, tx, ghosts>>

Recorded(w) ==
  /\ pending[w] > 0
  /\ pending' = [pending EXCEPT ![w] = @ - 1]
  /\ ledger' = [ledger EXCEPT ![w] = @ + 1]
  /\ UNCHANGED <<balance, reserved, hold, noted, at, bill, list, tx, ghosts>>

\* A run's exit, an eval's onFinished.
Ends(w) ==
  /\ at[w] = "up"
  /\ Go(w, "exited")
  /\ UNCHANGED <<table, noted, pending, bill, list, tx, ghosts>>

\* settleRun is queued behind the steps of its run; settleEval waits for nothing.
Landed_Always(w) == TRUE
Landed(w) == w \in Runs => pending[w] = 0

Settle(w) ==
  /\ at[w] = "exited" /\ Landed(w)
  /\ noted' = noted \ {w}
  /\ Go(w, IF w \in noted THEN "read" ELSE "over")
  /\ UNCHANGED <<table, pending, bill, list, tx, ghosts>>

ReadSpend(w) ==
  /\ at[w] = "read"
  /\ bill' = [bill EXCEPT ![w] = ledger[w]]
  /\ Go(w, "release")
  /\ UNCHANGED <<table, noted, pending, list, tx, ghosts>>

\* "Left standing rather than force-released: the sweeper will reclaim it".
SettleFails(w) ==
  /\ "settle" \in Failures /\ at[w] \in {"read", "release", "claim"}
  /\ Go(w, "left")
  /\ UNCHANGED <<table, noted, pending, bill, list, tx, ghosts>>

ReleaseReads(w) ==
  /\ at[w] = "release"
  /\ Go(w, IF Unreleased(w) THEN "claim" ELSE "over")
  /\ UNCHANGED <<table, noted, pending, bill, list, tx, ghosts>>

ReleaseMoves(w) ==
  /\ at[w] = "claim"
  /\ IF Unreleased(w) THEN Released(w, bill[w])
                      ELSE UNCHANGED <<balance, reserved, hold, charged>>
  /\ Go(w, "over")
  /\ UNCHANGED <<ledger, noted, pending, bill, list, tx, swept, topUps, crashes>>

-----------------------------------------------------------------------------
(* sweepExpired *)

Expired_Noted == {w \in noted : hold[w].state = "expired"}
Expired == {w \in Work : hold[w].state = "expired"}

SweepReads(s) ==
  /\ list[s] = {} /\ tx[s] = NoWork
  /\ list' = [list EXCEPT ![s] = Expired]
  /\ UNCHANGED <<table, noted, at, pending, bill, tx, ghosts>>

SweepPicks(s, w) ==
  /\ w \in list[s] /\ tx[s] = NoWork
  /\ list' = [list EXCEPT ![s] = @ \ {w}]
  /\ tx' = [tx EXCEPT ![s] = IF Unreleased(w) THEN w ELSE NoWork]
  /\ UNCHANGED <<table, noted, at, pending, bill, ghosts>>

\* A swept hold settles nothing.
SweepMoves(s) ==
  /\ tx[s] # NoWork
  /\ IF Unreleased(tx[s])
     THEN Released(tx[s], 0) /\ swept' = swept \cup {tx[s]}
     ELSE UNCHANGED <<balance, reserved, hold, charged, swept>>
  /\ tx' = [tx EXCEPT ![s] = NoWork]
  /\ UNCHANGED <<ledger, noted, at, pending, bill, list, topUps, crashes>>

-----------------------------------------------------------------------------
\* The gateway dies and starts again: the maps, the runs and every open
\* transaction are gone, the tables are not.
Crash ==
  /\ crashes < MaxCrashes
  /\ crashes' = crashes + 1
  /\ noted' = {}
  /\ at' = [w \in Work |-> IF at[w] \in {"new", "over"} THEN at[w] ELSE "gone"]
  /\ pending' = [w \in Work |-> 0]
  /\ list' = [s \in Sweepers |-> {}]
  /\ tx' = [s \in Sweepers |-> NoWork]
  /\ UNCHANGED <<table, bill, charged, swept, topUps>>

Gate(w)       == GateRefuses(w) \/ GateAsks(w) \/ Reserve(w) \/ NoteHold(w)
Begin(w)      == Starts(w) \/ StartRefused(w) \/ StartThrows(w) \/ SpawnError(w)
Settlement(w) == Settle(w) \/ ReadSpend(w) \/ ReleaseReads(w) \/ ReleaseMoves(w)
Sweep(s)      == SweepReads(s) \/ (\E w \in Work : SweepPicks(s, w)) \/ SweepMoves(s)

Next ==
  \/ \E w \in Work :
       \/ Gate(w) \/ Begin(w) \/ Costs(w) \/ Recorded(w) \/ Ends(w)
       \/ Settlement(w) \/ SettleFails(w) \/ Expire(w)
  \/ \E s \in Sweepers : Sweep(s)
  \/ TopUp \/ Crash

Spec == Init /\ [][Next]_vars

\* Time passes, and a gateway that is up sweeps every five minutes.  Nothing is
\* assumed of runs, which may go on for ever, nor of settlements.
Fairness ==
  /\ \A w \in Work : WF_vars(Expire(w))
  /\ \A s \in Sweepers : WF_vars(Sweep(s))

FairSpec == Spec /\ Fairness

-----------------------------------------------------------------------------
Places == {"new", "asked", "held", "ready", "up", "exited", "read", "release",
           "claim", "over", "left", "gone"}

\* The CHECKs of the tables, among others: neither column is ever negative.
TableOK ==
  /\ balance \in Nat /\ reserved \in Nat
  /\ hold \in [Work -> [amount : Estimates \cup {0},
                        state : {"none", "standing", "expired", "released"}]]
  /\ ledger \in [Work -> 0..MaxCost]

GatewayOK ==
  /\ noted \subseteq Work
  /\ at \in [Work -> Places]
  /\ pending \in [Work -> 0..MaxCost] /\ bill \in [Work -> 0..MaxCost]
  /\ list \in [Sweepers -> SUBSET Work] /\ tx \in [Sweepers -> Work \cup {NoWork}]

GhostsOK ==
  /\ charged \in [Work -> Nat] /\ swept \subseteq Work
  /\ topUps \in 0..TopUps /\ crashes \in 0..MaxCrashes

TypeOK == TableOK /\ GatewayOK /\ GhostsOK

\* The sum of f over S, counted by the unit of money: w gives f[w] of them.
Coins(f, S) == UNION {{w} \X (1..f[w]) : w \in S}
Total(f, S) == Cardinality(Coins(f, S))

\* The counter that refuses work is the sum of the rows that explain it, in
\* every interleaving of settlements, sweeps and crashes: no release moves money
\* twice, and no hold protects nothing.
Amount == [w \in Work |-> hold[w].amount]
Unreturned == {w \in Work : Unreleased(w)}
ReservedIsSum == reserved = Total(Amount, Unreturned)

\* As long as every bill stays within its hold, whatever starts at once can be
\* paid: the balance covers what is reserved, and no charge is cut at zero.
Covered == \A w \in Work : bill[w] <= hold[w].amount
CoveredIsPaid ==
  Covered =>
    /\ reserved <= balance
    /\ balance = Credit + topUps - Total(charged, Work)

\* A run that was settled is charged what the ledger says its steps cost, each
\* once: neither its estimate, nor what was recorded when it exited.
RunsPayTheirCost ==
  \A w \in Runs : at[w] = "over" /\ hold[w].state = "released" /\ w \notin swept
                    => charged[w] = ledger[w]

\* Credit that is held becomes available again, even if the gateway that took
\* the hold is gone or its settlement failed.
HoldsComeBack == \A w \in Work : Unreleased(w) ~> ~ Unreleased(w)
=============================================================================
