----------------------------- MODULE EvalRunner -----------------------------
(***************************************************************************)
(* The eval orchestrator of one gateway process (evalRunner.ts) with the   *)
(* rows it keeps (evalStore.ts): start, pump, drain, a run's exit, retry,  *)
(* budget abort and cancel.                                                *)
(*                                                                         *)
(* Node runs one thing at a time, and every await lets everything else in. *)
(* A step here is what happens between two awaits, and each async call in  *)
(* progress is a thread with its own pc: pump(e) as started by start() or  *)
(* the retry timer is thread e, onRunExit(r) with the pump it ends in is   *)
(* thread r; drainAvailable (never twice at once, thanks to `draining`)    *)
(* and cancel(e) have pcs of their own.                                    *)
(*                                                                         *)
(* The dispatcher is used through what JobQueue promises: any waiting job  *)
(* may be admitted.  Leases outlast the job timeout, so none lapses here.  *)
(* A unit of money is what one finished attempt costs.                     *)
(***************************************************************************)
EXTENDS Integers, FiniteSets

CONSTANTS Evals, Workspaces, Ws,       \* Ws[e]: whose eval e is
          Jobs, EvalOf,                \* EvalOf[j]: the eval of a job
          Providers, Provider,         \* Provider[j]: whom the job calls
          Runs,                        \* run ids; one nobody uses is fresh
          NoKey, NoRun,
          PoolSize,                    \* JAROKU_EVAL_CONCURRENCY
          ProviderLimit,               \* JAROKU_LIMIT_<PROVIDER>
          MaxAttempts,                 \* JAROKU_JOB_ATTEMPTS
          Budget, NoBudget,            \* budget_usd, and its null
          Deleted,                     \* jobs whose example is deleted
          Cancellable,                 \* evals somebody may cancel
          Transients,                  \* outcomes isTransientFailure accepts
          MaxThrows                    \* how many set-ups may throw (bound)

ASSUME WsAssumption == Ws \in [Evals -> Workspaces]
ASSUME EvalOfAssumption == EvalOf \in [Jobs -> Evals]
ASSUME ProviderAssumption == Provider \in [Jobs -> Providers]
ASSUME LimitsAssumption == {PoolSize, ProviderLimit, MaxAttempts} \subseteq Nat \ {0}
ASSUME BudgetAssumption == Budget = NoBudget \/ Budget \in Nat
ASSUME TransientsAssumption == "succeeded" \notin Transients
ASSUME ThrowsAssumption == MaxThrows \in Nat
ASSUME ThreadsAssumption == Evals \cap Runs = {} /\ NoRun \notin Runs

Threads == Evals \cup Runs
Keys == Jobs \X (0..MaxAttempts)         \* `${job.id}:${attempt}`

ASSUME NoKeyAssumption == NoKey \notin Keys

VARIABLES
  row,        \* eval_jobs: status, attempt, and whether retry_not_before is ahead
  spent,      \* trueSpend of an eval
  status,     \* eval_runs.status
  starting,   \* workspaces with a start() on its way
  live,       \* evals in the map `live`
  cancelled,  \* evals whose Live says cancelled
  enqueued,   \* enqueuedAttempts
  timer,      \* Live.retryTimer: the jobs it was set for, or none
  queue,      \* attempts waiting in the dispatcher
  held,       \* attempts admitted and not acked
  slots,      \* runs that hold a provider slot
  pool,       \* runs whose process is up
  key,        \* per run, the attempt it executes (runToJob, leaseByRun)
  pc, todo, cur, verdict, outcome,   \* of the threads
  drainAt, drainKey, drainRun,       \* of drainAvailable
  cancelAt,                          \* of cancel(e)
  finished,   \* ghost: how often onFinished was called
  starts,     \* ghost: how many runs a job has had
  throws      \* how many set-ups have thrown

rows     == <<row, spent, status>>
memory   == <<starting, live, cancelled, enqueued, timer>>
capacity == <<queue, held, slots, pool, key>>
threads  == <<pc, todo, cur, verdict, outcome>>
drainer  == <<drainAt, drainKey, drainRun>>
ghosts   == <<finished, starts, throws>>
vars     == <<rows, memory, capacity, threads, drainer, cancelAt, ghosts>>

NoRow  == [status |-> "none", attempt |-> 0, backoff |-> FALSE]
NewRow == [status |-> "queued", attempt |-> 0, backoff |-> FALSE]

Init ==
  /\ row = [j \in Jobs |-> NoRow]
  /\ spent = [e \in Evals |-> 0]
  /\ status = [e \in Evals |-> "none"]
  /\ starting = {} /\ live = {} /\ cancelled = {} /\ enqueued = {}
  /\ timer = [e \in Evals |-> {}]
  /\ queue = {} /\ held = {} /\ slots = {} /\ pool = {}
  /\ key = [r \in Runs |-> NoKey]
  /\ pc = [t \in Threads |-> "idle"]
  /\ todo = [t \in Threads |-> {}]
  /\ cur = [t \in Threads |-> NoKey]
  /\ verdict = [t \in Threads |-> "none"]
  /\ outcome = [r \in Runs |-> "none"]
  /\ drainAt = "idle" /\ drainKey = NoKey /\ drainRun = NoRun
  /\ cancelAt = [e \in Evals |-> "no"]
  /\ finished = [e \in Evals |-> 0]
  /\ starts = [j \in Jobs |-> 0]
  /\ throws = 0

-----------------------------------------------------------------------------
JobsOf(e) == {j \in Jobs : EvalOf[j] = e}
KeyOf(j)  == <<j, row[j].attempt>>
Eval(t)   == IF t \in Evals THEN t ELSE EvalOf[key[t][1]]
Over(e)   == Budget # NoBudget /\ spent[e] >= Budget

Unsettled == {"queued", "running"}
AllTerminal_NoneQueued(e) == \A j \in JobsOf(e) : row[j].status # "queued"
AllTerminal(e) == \A j \in JobsOf(e) : row[j].status \notin Unsettled

\* cancelQueuedJobs: one UPDATE over the queued rows of the eval.
QueuedCancelled_All(e) ==
  [j \in Jobs |-> IF j \in JobsOf(e) THEN [row[j] EXCEPT !.status = "cancelled"] ELSE row[j]]
QueuedCancelled(e) ==
  [j \in Jobs |-> IF j \in JobsOf(e) /\ row[j].status = "queued"
                  THEN [row[j] EXCEPT !.status = "cancelled"] ELSE row[j]]

Go(t, p) == pc' = [pc EXCEPT ![t] = p]

\* The async call of thread t returns.
Ends(t) ==
  /\ Go(t, "idle")
  /\ key' = [r \in Runs |-> IF r = t THEN NoKey ELSE key[r]]

\* pump() starts by looking its eval up, and returns if it is not live.
Pump(t) ==
  IF Eval(t) \in live THEN Go(t, "budget") /\ UNCHANGED key ELSE Ends(t)

-----------------------------------------------------------------------------
(* start() *)

ActiveIn_LiveOnly(w) == \E e \in live : Ws[e] = w
ActiveIn(w) == w \in starting \/ \E e \in live : Ws[e] = w

Start(e) ==
  /\ status[e] = "none" /\ pc[e] = "idle"
  /\ ~ ActiveIn(Ws[e])
  /\ starting' = starting \cup {Ws[e]}
  /\ Go(e, "starting")
  /\ UNCHANGED <<rows, live, cancelled, enqueued, timer, capacity>>
  /\ UNCHANGED <<todo, cur, verdict, outcome, drainer, cancelAt, ghosts>>

\* The dataset is gone or empty, or a write throws before the eval is live.
StartFails(e) ==
  /\ pc[e] = "starting"
  /\ starting' = starting \ {Ws[e]}
  /\ Go(e, "idle")
  /\ UNCHANGED <<rows, live, cancelled, enqueued, timer, capacity>>
  /\ UNCHANGED <<todo, cur, verdict, outcome, drainer, cancelAt, ghosts>>

\* The rows are written, then the eval is live, then it is pumped.  Nobody
\* reads the rows of an eval that is not live yet.
GoesLive(e) ==
  /\ pc[e] = "starting"
  /\ row' = [j \in Jobs |-> IF EvalOf[j] = e THEN NewRow ELSE row[j]]
  /\ status' = [status EXCEPT ![e] = "running"]
  /\ live' = live \cup {e}
  /\ starting' = starting \ {Ws[e]}
  /\ Go(e, "budget")
  /\ UNCHANGED <<spent, cancelled, enqueued, timer, capacity>>
  /\ UNCHANGED <<todo, cur, verdict, outcome, drainer, cancelAt, ghosts>>

-----------------------------------------------------------------------------
(* pump() *)

ReadBudget(t) ==
  /\ pc[t] = "budget"
  /\ Go(t, IF Eval(t) \notin cancelled /\ Over(Eval(t)) THEN "abort" ELSE "scan")
  /\ UNCHANGED <<rows, memory, capacity, drainer, cancelAt, ghosts>>
  /\ UNCHANGED <<todo, cur, verdict, outcome>>

AbortRows(t) ==
  /\ pc[t] = "abort"
  /\ row' = QueuedCancelled(Eval(t))
  /\ Go(t, "flag")
  /\ UNCHANGED <<spent, status, memory, capacity, drainer, cancelAt, ghosts>>
  /\ UNCHANGED <<todo, cur, verdict, outcome>>

AbortFlag(t) ==
  /\ pc[t] = "flag"
  /\ cancelled' = cancelled \cup {Eval(t)}
  /\ Go(t, "mark")
  /\ UNCHANGED <<rows, starting, live, enqueued, timer, capacity, drainer, cancelAt>>
  /\ UNCHANGED <<todo, cur, verdict, outcome, ghosts>>

AbortStatus(t) ==
  /\ pc[t] = "mark"
  /\ status' = [status EXCEPT ![Eval(t)] = "aborted_over_budget"]
  /\ Go(t, "scan")
  /\ UNCHANGED <<row, spent, memory, capacity, drainer, cancelAt, ghosts>>
  /\ UNCHANGED <<todo, cur, verdict, outcome>>

\* What the dispatcher has to know about; a job in backoff is not eligible yet.
Eligible(e) == {KeyOf(j) : j \in {i \in JobsOf(e) : row[i].status = "queued"
                                                    /\ ~ row[i].backoff}}
Scan(t) ==
  /\ pc[t] = "scan"
  /\ todo' = [todo EXCEPT ![t] = IF Eval(t) \in cancelled THEN {} ELSE Eligible(Eval(t))]
  /\ Go(t, "send")
  /\ UNCHANGED <<rows, memory, capacity, drainer, cancelAt, ghosts>>
  /\ UNCHANGED <<cur, verdict, outcome>>

\* An attempt is noted before the awaits of enqueueJob, so that no other pump
\* sends it too.
Send_Again(t, k) ==
  /\ pc[t] = "send" /\ k \in todo[t]
  /\ enqueued' = enqueued \cup {k}
  /\ todo' = [todo EXCEPT ![t] = @ \ {k}]
  /\ cur' = [cur EXCEPT ![t] = k]
  /\ Go(t, "sending")
  /\ UNCHANGED <<rows, starting, live, cancelled, timer, capacity, drainer, cancelAt, ghosts>>
  /\ UNCHANGED <<verdict, outcome>>
Send(t, k) ==
  /\ pc[t] = "send" /\ k \in todo[t] \ enqueued
  /\ enqueued' = enqueued \cup {k}
  /\ todo' = [todo EXCEPT ![t] = @ \ {k}]
  /\ cur' = [cur EXCEPT ![t] = k]
  /\ Go(t, "sending")
  /\ UNCHANGED <<rows, starting, live, cancelled, timer, capacity, drainer, cancelAt, ghosts>>
  /\ UNCHANGED <<verdict, outcome>>

Sent(t) ==
  /\ pc[t] = "sending"
  /\ IF cur[t][1] \in Deleted
     THEN row' = [row EXCEPT ![cur[t][1]].status = "failed"] /\ UNCHANGED queue
     ELSE queue' = queue \cup {cur[t]} /\ UNCHANGED row
  /\ cur' = [cur EXCEPT ![t] = NoKey]
  /\ Go(t, "send")
  /\ UNCHANGED <<spent, status, memory, held, slots, pool, key, drainer, cancelAt, ghosts>>
  /\ UNCHANGED <<todo, verdict, outcome>>

\* All sent: a drain is kicked off, and finishIfDone looks whether the eval is
\* still live before it counts.
AllSent(t) ==
  /\ pc[t] = "send" /\ todo[t] \subseteq enqueued
  /\ todo' = [todo EXCEPT ![t] = {}]
  /\ drainAt' = IF drainAt = "idle" THEN "admit" ELSE drainAt
  /\ IF Eval(t) \in live THEN Go(t, "count") /\ UNCHANGED key ELSE Ends(t)
  /\ UNCHANGED <<rows, memory, queue, held, slots, pool, drainKey, drainRun, cancelAt, ghosts>>
  /\ UNCHANGED <<cur, verdict, outcome>>

Count(t) ==
  /\ pc[t] = "count"
  /\ Go(t, IF AllTerminal(Eval(t)) THEN "finish" ELSE "wake")
  /\ UNCHANGED <<rows, memory, capacity, drainer, cancelAt, ghosts>>
  /\ UNCHANGED <<todo, cur, verdict, outcome>>

Finish(t) ==
  /\ pc[t] = "finish"
  /\ live' = live \ {Eval(t)}
  /\ timer' = [timer EXCEPT ![Eval(t)] = {}]
  /\ Go(t, "status")
  /\ UNCHANGED <<rows, starting, cancelled, enqueued, capacity, drainer, cancelAt, ghosts>>
  /\ UNCHANGED <<todo, cur, verdict, outcome>>

\* The status is read, and written unless an abort has recorded its own.
Verdict(t) ==
  /\ pc[t] = "status"
  /\ verdict' = [verdict EXCEPT ![t] =
       IF status[Eval(t)] = "aborted_over_budget" THEN "none"
       ELSE IF Eval(t) \in cancelled THEN "cancelled" ELSE "completed"]
  /\ Go(t, "report")
  /\ UNCHANGED <<rows, memory, capacity, drainer, cancelAt, ghosts>>
  /\ UNCHANGED <<todo, cur, outcome>>

\* onFinished; nothing is left for scheduleRetryWake to do.
Report(t) ==
  /\ pc[t] = "report"
  /\ status' = [status EXCEPT ![Eval(t)] = IF verdict[t] = "none" THEN @ ELSE verdict[t]]
  /\ finished' = [finished EXCEPT ![Eval(t)] = @ + 1]
  /\ verdict' = [verdict EXCEPT ![t] = "none"]
  /\ Ends(t)
  /\ UNCHANGED <<row, spent, memory, queue, held, slots, pool, drainer, cancelAt>>
  /\ UNCHANGED <<todo, cur, outcome, starts, throws>>

Backing(e) == {j \in JobsOf(e) : row[j].status = "queued" /\ row[j].backoff}

ScheduleRetryWake(t) ==
  /\ pc[t] = "wake"
  /\ timer' = IF Eval(t) \notin live THEN timer
              ELSE [timer EXCEPT ![Eval(t)] =
                      IF Eval(t) \in cancelled THEN {} ELSE Backing(Eval(t))]
  /\ Ends(t)
  /\ UNCHANGED <<rows, starting, live, cancelled, enqueued, drainer, cancelAt, ghosts>>
  /\ UNCHANGED <<queue, held, slots, pool, todo, cur, verdict, outcome>>

\* The time in retry_not_before comes.
BackoffEnds(j) ==
  /\ row[j].backoff
  /\ row' = [row EXCEPT ![j].backoff = FALSE]
  /\ UNCHANGED <<spent, status, memory, capacity, threads, drainer, cancelAt, ghosts>>

\* One timer, for the earliest deadline.  (Bound: not while the last pump that
\* thread e stands for is still going.)
TimerFires(e) ==
  /\ \E j \in timer[e] : ~ row[j].backoff
  /\ pc[e] = "idle"
  /\ timer' = [timer EXCEPT ![e] = {}]
  /\ Pump(e)
  /\ UNCHANGED <<rows, starting, live, cancelled, enqueued, drainer, cancelAt, ghosts>>
  /\ UNCHANGED <<queue, held, slots, pool, todo, cur, verdict, outcome>>

-----------------------------------------------------------------------------
(* drainAvailable() and executeAdmitted() *)

\* The 500 ms timer; a drain that is already running makes it return.
DrainTimer ==
  /\ drainAt = "idle"
  /\ drainAt' = "admit"
  /\ UNCHANGED <<rows, memory, capacity, threads, drainKey, drainRun, cancelAt, ghosts>>

HasRoom_OffByOne == Cardinality(pool) <= PoolSize
HasRoom == Cardinality(pool) < PoolSize

DrainAdmits(k) ==
  /\ drainAt = "admit" /\ HasRoom /\ k \in queue
  /\ queue' = queue \ {k}
  /\ held' = held \cup {k}
  /\ drainKey' = k
  /\ drainAt' = "check"
  /\ UNCHANGED <<rows, memory, slots, pool, key, threads, drainRun, cancelAt, ghosts>>

DrainReturns ==
  /\ drainAt = "admit" /\ ~ (HasRoom /\ queue # {})
  /\ drainAt' = "idle"
  /\ UNCHANGED <<rows, memory, capacity, threads, drainKey, drainRun, cancelAt, ghosts>>

\* The admit is answered: is the eval still there and not cancelled?
DrainChecks ==
  /\ drainAt = "check"
  /\ drainAt' = IF EvalOf[drainKey[1]] \in live \ cancelled THEN "slot" ELSE "drop"
  /\ UNCHANGED <<rows, memory, capacity, threads, drainKey, drainRun, cancelAt, ghosts>>

DrainDrops ==
  /\ drainAt = "drop"
  /\ held' = held \ {drainKey}
  /\ drainAt' = "admit" /\ drainKey' = NoKey
  /\ UNCHANGED <<rows, memory, queue, slots, pool, key, threads, drainRun, cancelAt, ghosts>>

SlotsOf(p) == {r \in slots : Provider[key[r][1]] = p}
SlotFree == Cardinality(SlotsOf(Provider[drainKey[1]])) < ProviderLimit
Fresh(r) == pc[r] = "idle" /\ key[r] = NoKey

AcquireSlot(r) ==
  /\ drainAt = "slot" /\ SlotFree /\ Fresh(r)
  /\ slots' = slots \cup {r}
  /\ key' = [key EXCEPT ![r] = drainKey]
  /\ drainRun' = r
  /\ drainAt' = "row"
  /\ UNCHANGED <<rows, memory, queue, held, pool, threads, drainKey, cancelAt, ghosts>>

NoSlot ==
  /\ drainAt = "slot" /\ ~ SlotFree
  /\ drainAt' = "ack"
  /\ UNCHANGED <<rows, memory, capacity, threads, drainKey, drainRun, cancelAt, ghosts>>

\* Put back as it was: acked first, enqueued again next; the drain then stops.
RequeueAcks ==
  /\ drainAt = "ack"
  /\ held' = held \ {drainKey}
  /\ drainAt' = "requeue"
  /\ UNCHANGED <<rows, memory, queue, slots, pool, key, threads, drainKey, drainRun, cancelAt, ghosts>>

RequeueVerbatim_Drops ==
  /\ drainAt = "requeue"
  /\ queue' = queue
  /\ drainAt' = "idle" /\ drainKey' = NoKey
  /\ UNCHANGED <<rows, memory, held, slots, pool, key, threads, drainRun, cancelAt, ghosts>>
RequeueVerbatim ==
  /\ drainAt = "requeue"
  /\ queue' = queue \cup {drainKey}
  /\ drainAt' = "idle" /\ drainKey' = NoKey
  /\ UNCHANGED <<rows, memory, held, slots, pool, key, threads, drainRun, cancelAt, ghosts>>

\* The UPDATE names the job only: whatever its row said is overwritten.
MarkJobRunning ==
  /\ drainAt = "row"
  /\ row' = [row EXCEPT ![drainKey[1]] =
               [@ EXCEPT !.status = "running", !.attempt = drainKey[2]]]
  /\ drainAt' = "start"
  /\ UNCHANGED <<spent, status, memory, capacity, threads, drainKey, drainRun, cancelAt, ghosts>>

\* pool.tryStart; PoolNeverFull below says why its refusal is not modelled.
StartRun ==
  /\ drainAt = "start"
  /\ pool' = pool \cup {drainRun}
  /\ starts' = [starts EXCEPT ![drainKey[1]] = @ + 1]
  /\ drainAt' = "admit" /\ drainKey' = NoKey /\ drainRun' = NoRun
  /\ UNCHANGED <<rows, memory, queue, held, slots, key, threads, cancelAt, finished, throws>>

\* runSetup refuses: the run ends as one that could not spawn.
RefuseRun ==
  /\ drainAt = "start"
  /\ Go(drainRun, "ack")
  /\ outcome' = [outcome EXCEPT ![drainRun] = "failed"]
  /\ drainAt' = "admit" /\ drainKey' = NoKey /\ drainRun' = NoRun
  /\ UNCHANGED <<rows, memory, capacity, todo, cur, verdict, cancelAt, ghosts>>

\* markJobRunning or runSetup throws: everything reserved is handed back.
SetupThrows_KeepsSlot ==
  /\ drainAt \in {"row", "start"} /\ throws < MaxThrows
  /\ throws' = throws + 1
  /\ slots' = slots
  /\ key' = [key EXCEPT ![drainRun] = NoKey]
  /\ drainAt' = "ack" /\ drainRun' = NoRun
  /\ UNCHANGED <<rows, memory, queue, held, pool, threads, drainKey, cancelAt, finished, starts>>
SetupThrows ==
  /\ drainAt \in {"row", "start"} /\ throws < MaxThrows
  /\ throws' = throws + 1
  /\ slots' = slots \ {drainRun}
  /\ key' = [key EXCEPT ![drainRun] = NoKey]
  /\ drainAt' = "ack" /\ drainRun' = NoRun
  /\ UNCHANGED <<rows, memory, queue, held, pool, threads, drainKey, cancelAt, finished, starts>>

-----------------------------------------------------------------------------
(* onRunExit() *)

\* The process exits, times out, is stopped or never spawned: its pool slot is
\* free before anybody is told.
RunEnds(r) ==
  /\ r \in pool
  /\ pool' = pool \ {r}
  /\ \E o \in {"succeeded", "failed"} \cup Transients : outcome' = [outcome EXCEPT ![r] = o]
  /\ Go(r, "ack")
  /\ UNCHANGED <<rows, memory, queue, held, slots, key, todo, cur, verdict>>
  /\ UNCHANGED <<drainer, cancelAt, ghosts>>

ExitAcks(r) ==
  /\ pc[r] = "ack"
  /\ held' = held \ {key[r]}
  /\ Go(r, "release")
  /\ UNCHANGED <<rows, memory, queue, slots, pool, key, todo, cur, verdict, outcome>>
  /\ UNCHANGED <<drainer, cancelAt, ghosts>>

\* The provider slot comes back before the question whether the eval is live.
ExitReleases(r) ==
  /\ pc[r] = "release"
  /\ slots' = slots \ {r}
  /\ IF Eval(r) \in live THEN Go(r, "record") /\ UNCHANGED key ELSE Ends(r)
  /\ UNCHANGED <<rows, memory, queue, held, pool, todo, cur, verdict, outcome>>
  /\ UNCHANGED <<drainer, cancelAt, ghosts>>

\* finishJob: the row, and the money this attempt cost.
Record_RawOutcome(r) ==
  /\ pc[r] = "record"
  /\ row' = [row EXCEPT ![key[r][1]].status = outcome[r]]
  /\ spent' = [spent EXCEPT ![Eval(r)] = @ + 1]
  /\ Go(r, "decide")
  /\ UNCHANGED <<status, memory, capacity, todo, cur, verdict, outcome>>
  /\ UNCHANGED <<drainer, cancelAt, ghosts>>
Record(r) ==
  /\ pc[r] = "record"
  /\ row' = [row EXCEPT ![key[r][1]].status =
               IF outcome[r] = "succeeded" THEN "succeeded" ELSE "failed"]
  /\ spent' = [spent EXCEPT ![Eval(r)] = @ + 1]
  /\ Go(r, "decide")
  /\ UNCHANGED <<status, memory, capacity, todo, cur, verdict, outcome>>
  /\ UNCHANGED <<drainer, cancelAt, ghosts>>

AttemptsLeft_OffByOne(r) == key[r][2] + 1 <= MaxAttempts
AttemptsLeft(r) == key[r][2] + 1 < MaxAttempts

Retryable(r) ==
  /\ outcome[r] \in Transients
  /\ Eval(r) \notin cancelled
  /\ AttemptsLeft(r)
  /\ ~ Over(Eval(r))

Decide(r) ==
  /\ pc[r] = "decide"
  /\ outcome' = [outcome EXCEPT ![r] = "none"]
  /\ IF Retryable(r) THEN Go(r, "retry") /\ UNCHANGED key ELSE Pump(r)
  /\ UNCHANGED <<rows, memory, queue, held, slots, pool, todo, cur, verdict>>
  /\ UNCHANGED <<drainer, cancelAt, ghosts>>

RetryJob(r) ==
  /\ pc[r] = "retry"
  /\ row' = [row EXCEPT ![key[r][1]] =
               [status |-> "queued", attempt |-> key[r][2] + 1, backoff |-> TRUE]]
  /\ Pump(r)
  /\ UNCHANGED <<spent, status, memory, queue, held, slots, pool, todo, cur, verdict, outcome>>
  /\ UNCHANGED <<drainer, cancelAt, ghosts>>

-----------------------------------------------------------------------------
(* cancel() *)

Cancel(e) ==
  /\ e \in Cancellable \cap live /\ cancelAt[e] = "no"
  /\ cancelled' = cancelled \cup {e}
  /\ timer' = [timer EXCEPT ![e] = {}]
  /\ cancelAt' = [cancelAt EXCEPT ![e] = "rows"]
  /\ UNCHANGED <<rows, starting, live, enqueued, capacity, threads, drainer, ghosts>>

CancelRows(e) ==
  /\ cancelAt[e] = "rows"
  /\ row' = QueuedCancelled(e)
  /\ cancelAt' = [cancelAt EXCEPT ![e] = "purge"]
  /\ UNCHANGED <<spent, status, memory, capacity, threads, drainer, ghosts>>

\* purgePending of every attempt noted, then pool.stop of the runs that are
\* up: they end like any other, in a step of their own.
CancelPurges(e) ==
  /\ cancelAt[e] = "purge"
  /\ queue' = {k \in queue : ~ (EvalOf[k[1]] = e /\ k \in enqueued)}
  /\ cancelAt' = [cancelAt EXCEPT ![e] = "done"]
  /\ UNCHANGED <<rows, memory, held, slots, pool, key, threads, drainer, ghosts>>

-----------------------------------------------------------------------------
PumpStep(t) ==
  \/ ReadBudget(t) \/ AbortRows(t) \/ AbortFlag(t) \/ AbortStatus(t)
  \/ Scan(t) \/ (\E k \in Keys : Send(t, k)) \/ Sent(t) \/ AllSent(t)
  \/ Count(t) \/ Finish(t) \/ Verdict(t) \/ Report(t) \/ ScheduleRetryWake(t)

ExitStep(r) ==
  ExitAcks(r) \/ ExitReleases(r) \/ Record(r) \/ Decide(r) \/ RetryJob(r)

DrainStep ==
  \/ (\E k \in Keys : DrainAdmits(k)) \/ DrainReturns \/ DrainChecks \/ DrainDrops
  \/ (\E r \in Runs : AcquireSlot(r)) \/ NoSlot \/ RequeueAcks \/ RequeueVerbatim
  \/ MarkJobRunning \/ StartRun \/ RefuseRun \/ SetupThrows

CancelStep(e) == CancelRows(e) \/ CancelPurges(e)

Next ==
  \/ \E e \in Evals : Start(e) \/ StartFails(e) \/ GoesLive(e) \/ TimerFires(e)
  \/ \E e \in Evals : Cancel(e) \/ CancelStep(e)
  \/ \E t \in Threads : PumpStep(t)
  \/ \E r \in Runs : RunEnds(r) \/ ExitStep(r)
  \/ \E j \in Jobs : BackoffEnds(j)
  \/ DrainTimer \/ DrainStep

Spec == Init /\ [][Next]_vars

\* The event loop resumes every call whose await is over, timers go off, and a
\* run ends (it has a deadline).  Nobody has to start or cancel an eval.
Fairness ==
  /\ \A t \in Threads : WF_vars(PumpStep(t))
  /\ \A r \in Runs : WF_vars(RunEnds(r)) /\ WF_vars(ExitStep(r))
  /\ \A e \in Evals : WF_vars(GoesLive(e)) /\ WF_vars(TimerFires(e)) /\ WF_vars(CancelStep(e))
  /\ \A j \in Jobs : WF_vars(BackoffEnds(j))
  /\ WF_vars(DrainTimer) /\ WF_vars(DrainStep)

FairSpec == Spec /\ Fairness

-----------------------------------------------------------------------------
PumpAt == {"budget", "abort", "flag", "mark", "scan", "send", "sending",
           "count", "finish", "status", "report", "wake"}
ExitAt == {"ack", "release", "record", "decide", "retry"}
DrainPlaces == {"idle", "admit", "check", "drop", "slot", "ack", "requeue", "row", "start"}
Outcomes == {"none", "succeeded", "failed"} \cup Transients
Statuses == {"none", "queued", "running", "succeeded", "failed", "cancelled"}
JobRows  == [status : Statuses, attempt : 0..MaxAttempts, backoff : BOOLEAN]

RowsOK ==
  /\ row \in [Jobs -> JobRows]
  /\ spent \in [Evals -> Nat]
  /\ status \in [Evals -> {"none", "running", "aborted_over_budget", "cancelled", "completed"}]

MemoryOK ==
  /\ starting \subseteq Workspaces /\ live \subseteq Evals /\ cancelled \subseteq Evals
  /\ enqueued \subseteq Keys
  /\ timer \in [Evals -> SUBSET Jobs]

CapacityOK ==
  /\ queue \subseteq Keys /\ held \subseteq Keys
  /\ slots \subseteq Runs /\ pool \subseteq Runs
  /\ key \in [Runs -> Keys \cup {NoKey}]

ThreadsOK ==
  /\ pc \in [Threads -> {"idle", "starting"} \cup PumpAt \cup ExitAt]
  /\ todo \in [Threads -> SUBSET Keys]
  /\ cur \in [Threads -> Keys \cup {NoKey}]
  /\ verdict \in [Threads -> {"none", "cancelled", "completed"}]
  /\ outcome \in [Runs -> Outcomes]

DrainerOK ==
  /\ drainAt \in DrainPlaces
  /\ drainKey \in Keys \cup {NoKey} /\ drainRun \in Runs \cup {NoRun}
  /\ cancelAt \in [Evals -> {"no", "rows", "purge", "done"}]

GhostsOK ==
  finished \in [Evals -> Nat] /\ starts \in [Jobs -> Nat] /\ throws \in 0..MaxThrows

TypeOK == RowsOK /\ MemoryOK /\ CapacityOK /\ ThreadsOK /\ DrainerOK /\ GhostsOK

\* Capacity is neither leaked nor given back twice: a lease or a provider slot
\* is held exactly as long as a run is up or about to start, or its exit has
\* not got round to giving it back, however set-up, exit and cancel interleave.
Starting == drainAt \in {"row", "start"}
KeysUp   == {key[r] : r \in pool \cup {s \in Runs : pc[s] = "ack"}}
ReservationsAccounted ==
  /\ held = KeysUp \cup (IF drainAt \in {"check", "drop", "slot", "ack", "row", "start"}
                         THEN {drainKey} ELSE {})
  /\ slots = pool \cup {r \in Runs : pc[r] \in {"ack", "release"}}
             \cup (IF Starting THEN {drainRun} ELSE {})

\* An attempt never executes twice, and a job never has two runs at once, however
\* many pumps scan the same rows.
OneRunPerJob ==
  \A r, s \in pool \cup (IF Starting THEN {drainRun} ELSE {}) :
    key[r][1] = key[s][1] => r = s

\* "Bounded: every retry costs money again": throws and requeues do not buy a
\* job more runs than MaxAttempts.
AttemptsBounded == \A j \in Jobs : starts[j] <= MaxAttempts

\* The room a drain saw before its awaits is still there when it starts the
\* run: pool.tryStart never refuses it.
PoolNeverFull ==
  /\ Cardinality(pool) <= PoolSize
  /\ drainAt = "start" => Cardinality(pool) < PoolSize

\* start() claims its workspace before its first await, so two evals of one
\* workspace are never live together.
OneEvalPerWorkspace == \A e, f \in live : Ws[e] = Ws[f] => e = f

\* A result that was paid for is never overwritten by a late write.
SuccessStep ==
  \A j \in Jobs : row[j].status = "succeeded" => row'[j].status = "succeeded"
SuccessIsFinal == [][SuccessStep]_vars

\* When onFinished settles the eval's budget hold, no run of it is up: as long
\* as nobody cancels, no budget aborts and no job is retried, that is (NoMoreJobs
\* says what a retry does to it, and the README what a cancel does).
UpRuns(e) == {r \in pool : EvalOf[key[r][1]] = e}
SettledMeansIdle == \A e \in Evals : finished[e] > 0 => UpRuns(e) = {}

\* An eval that nobody cancels and none of whose jobs is retried comes to an
\* end, however often a job is refused a slot and put back.
EvalEnds == \A e \in Evals : e \in live ~> e \notin live

\* index.ts:5754, at onFinished: "No more jobs are coming".
NoMoreJobs == \A e \in Evals : finished[e] > 0 => AllTerminal(e)

\* index.ts:5746: whatever the outcome, cancelled included, the hold is settled
\* "the moment nothing is left to spend it": a cancelled eval finishes.
CancelEnds == \A e \in Evals : cancelAt[e] = "done" ~> finished[e] > 0
=============================================================================
