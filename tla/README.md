# Jaroku: a verification development in TLA+

Jaroku is a platform for building, running, evaluating and deploying AI agents.
A gateway (`server/src/index.ts`) serves clients over WebSockets, starts agent
runs in sandboxes, queues evaluations and deploys, gives jobs to deployed agents,
and bills workspaces for what they use; a loop for worker processes
(`server/src/worker.ts`) drains classes of the queue; a deployed agent runs in a
container of its own (`runtime/tool_templates/serve.py`). This directory models the parts in which
concurrency, failure and ordering decide whether the system is correct, checks
them with TLC and proves with TLAPS every safety property that the passing runs
check. Source paths below are relative to `src/server/src/`.

Contents: 1 the system's parts; 2 the modules; 3 the runs, their bounds and what
they show; 4 fairness and deadlock; 5 what is proved; 6 disagreements found; 7
what is left out; 8 the plan; 9 how to run it.

## 1. The system's parts

### Modelled

**Job queue** (`queue/backend.ts`, `inMemoryBackend.ts`, `redisBackend.ts`,
`dispatcher.ts`). State, per job class: a FIFO list of waiting jobs per
workspace; a ring of the workspaces that have any; leases with an expiry, each
carrying its job; named semaphores. Operations: `enqueue`, `tryAdmit`, `ack`,
`reapExpired`, `purgePending`, `purgeWorkspace`, `acquire/releaseSemaphore`.
Shared by every gateway and worker; in Redis each operation is one Lua script,
except that the reaper claims in one script and enqueues in another.
Hard: many admitters against one cap; leases that run out under a handler that
still works; two reapers at one lease; purges in the middle of a list.
Correct when: no job is lost or held twice, the cap holds, service is round
robin among workspaces and FIFO within one, nobody starves.

**Worker loop** (`queue/workerLoop.ts`, `worker.ts`). State: the handlers in
flight by lease, the loop's position, whether it is shutting down. Operations:
sweep, admit, run a handler (which acks for itself), drain and hand back on
SIGTERM. Talks to the queue only. Hard: death at any await, a handler that
throws, a hand-back made of two calls racing the handler and other workers'
reapers. Correct when: no submitted unit is lost, and it is done in the end.
`worker.ts` boots this loop but registers no handler today (its lines 14-27): the
queued classes, `run.eval` and `judge`, are drained inside the gateway by
`evalRunner.ts`. The handler of the model is therefore the generic one that
`workerLoop.test.ts` and `chaos.test.ts` use: it works, acks, or throws.

**Eval runner** (`evalRunner.ts`, with rows in `evalStore.ts` and processes in
`runPool.ts`, slots in `queue/semaphores.ts`). One Node process, but every
`await` lets other calls in: several `pump`s, one `drainAvailable`, a
`onRunExit` per run, `cancel`, retry timers. State: job rows in a database; the
map `live`, the set of enqueued attempts, `runToJob`/`leaseByRun`; queue leases,
provider slots and pool slots. Hard: results of counts and checks used after an
await; capacity taken in three places and returned in one; retries and budget
aborts racing scans. Correct when: capacity is neither leaked nor returned
twice, attempts are bounded, an eval ends exactly when its jobs have.

**Credit balances** (`billing/balances.ts`, `billing/gate.ts`, the balance and
hold queries of `db/repositories/billing.ts`, and the gateway's `runHolds`,
`evalHolds`, `settleRun`, `settleEval`, exit and spawn-error handlers in
`index.ts`). State: `workspace_balances` (balance, reserved), `billing_holds`,
the usage ledger, the in-memory maps from runs and evals to holds. Operations:
`mayStart`/`reserve`, `settle*`/`release`, `sweepExpired`, `addCredit`. Hard: a
settlement and a sweep at one hold, a ledger still being written when the exit
arrives, a gateway that dies, starts that fail after money was held. Correct
when: the reserved counter explains itself, holds are covered, what ran is paid
once, and every hold comes back.

**Interactive runs** (`runAgent`, `resumeRun`, `branchRun`, `cancelRun` and the
pool's event handlers in `index.ts`; `interactiveSlot.ts`; the run status writes
of `store.ts`; `runBinding.ts`; `runPool.ts`). State: `runs.status` in the
database; `liveRuns`, `pausedRuns`, `runWorkspaces`, `leaseByRun` in memory; the
workspace's one semaphore lease; the ingest chain, a queue of writes. Commands
come from people, events from the process, and both interleave at every await.
Hard: what is live is asked long before a run starts; a pause is announced in
memory at once and in the database later; five places delete entries of the same
maps; a reservation whose start did not happen, or threw. Correct when: one run of a
workspace is up, the maps say what is so, a reservation never outlives its use,
a paused row can be resumed and a reported end stands.

**Work items** (`work/dispatcher.ts`, `workStore.ts`, `lifecycle.ts`,
`actions.ts`; `deployDispatch.ts`, `deployRuns.ts`, `deployReconcile.ts`; the
container's `serve.py` and the runner in it). State: the job's row, the row of the
run it is tried as, the open runs with their tokens, the ingest chain, pending
confirmations; in the container, the process. The two sides share only HTTP
requests, each of which may fail, be lost, or be answered late. Hard: a dispatch
tried again although the container may have taken it; a job ended by its
dispatch, its trace, Stop, the sweep or the boot, whichever is first; a container
that says nothing more; a run that is paused, resumed or cancelled as a run, past
the job it belongs to. Correct when: the first ending stands and is true, no two
copies of a job work at once, no token outlives its run, and what was heard from
ends.

### Not modelled

| part | state and operations | why not |
| --- | --- | --- |
| event bridge, run tokens, backpressure (`queue/eventBridge.ts`, `sandbox/`) | events between processes, batches | planned (section 8); WorkItems has the pushes a run makes and the token they need |
| deploys (`deploy*.ts` but the three above) | building and releasing at an external host | mostly calls of that host; planned |
| OAuth refresh, Stripe webhooks, GitHub sync | single flight, idempotent deliveries | candidates (section 8) |
| steps, checkpoints, threads, activity, inbox | idempotent upserts and readings of rows | single SQL statements; where their order matters, it is in a module |
| relay (`wsRelay.ts`) | sockets and subscriptions, parsing | broadcasts carry no state back; validation is about text |
| authoring, chat, prompts, validators, judge rubric | text to and from models | about text, not about control |
| auth, secrets | sessions, capabilities, encryption | cryptography and table lookups |
| client, Tauri shell, site, deploy files | rendering, packaging | outside the server's concurrency |

Two thirds of the repository's 205,000 lines are such code: components that
render, handlers that read rows and answer, prompts, tables of prices, parsers and
SQL. What is modelled is the part where the order of steps decides the result,
and is a small share of the lines for that reason.

`PROJECT.json` lists every component with its files and status, and every hazard
at its line with the properties that cover it, or why none does.

## 2. The modules

    JobQueue            what the queue promises: waiting / held / lapsed
       ^  refinement (ImplementsJobQueue)
    FairQueue        <- FairQueueProofs          lists, ring, leases, reapers, purges, time
       ^  INSTANCE         ^  INSTANCE
    WorkerLoop       <- WorkerLoopProofs         worker processes that drain a class
    EvalRunner       <- EvalRunnerProofs         uses the queue as JobQueue promises it
    Balances         <- BalancesProofs           holds, settlements, sweep, gateway
    InteractiveRuns  <- InteractiveRunsProofs    runs people start, pause, resume
    WorkItems        <- WorkItemsProofs          jobs of deployed agents
    MC*                 constants and symmetry for TLC

`A <- B`: B extends A and TLAPS, and holds its theorems and proofs.

In every module an operator `Name_Variant` that stands before `Name` is a
mutation of it: what the code could plausibly have said instead. `PROJECT.json`
("mutants") pairs each property with one that breaks it.

**FairQueue** is one job class. `lists`, `ring` and `reserved` are the fields of
`ClassState`; a lease's expiry is kept as the time it has `left`, so that no
clock grows. A job stands for one enqueued *copy* of a unit of work. One action
per operation: `Enqueue`, `TryAdmit` (the pop of stale ring entries, the FIFO
pop, the rotation and the lease, all one script), `Ack`, `ReapClaim` and
`ReapEnqueue` (two scripts, so two steps), `PurgePending`, `PurgeWorkspace`, and
`Tick`. `passed` is a ghost counter of who was served while whom waited.

**JobQueue** forgets lists, ring and clock. The mapping: waiting is the union of
the lists, held the jobs under good leases, lapsed the jobs under expired ones
or in a reaper's hands.

**WorkerLoop** instantiates FairQueue and adds worker processes. Each call to the
queue is one step at the backend, and its answer reaches the worker in a later
one, so that a `SIGTERM`, a lapse or a reap fits in between. `Submit` is a
gateway's enqueue. `Die` loses what the process had in hand; the queue stays.

**EvalRunner** cuts every async function at its awaits; each call in progress is
a thread with its own program counter (`pc` for pumps and exits, `drainAt`,
`cancelAt`). `GoesLive` merges the three inserts of `startClaimed`, during which
the eval is not live and nobody else can see its rows. A finished attempt costs
one unit. `Deleted` jobs are those whose example has been deleted, which a run
start refuses. Timeouts count as failures (both are final for the row). Leases
(job timeout plus 30 s) outlast runs, so they do not lapse here; FairQueue and
WorkerLoop are about lapses. The branch for a pool that refuses a start
(lines 697-708) has no action: `PoolNeverFull` shows that it is never taken.

**Balances** has one step per statement or transaction. A release reads the hold,
then claims it and moves the money in one transaction (`ReleaseReads`,
`ReleaseMoves`); a sweep reads its list first and may be overtaken at each entry.
`ledger` is the usage rows' sum, `pending` the cost on its way there: for a run
the settlement queues behind it on the ingest chain, for an eval it does not.
The chain is one for the whole gateway in the code and one per run here, which
allows more interleavings. `Crash` empties the maps and loses what was pending.
A sum of money is the number of its coins (`Total` is a `Cardinality`), not a
recursion over holds: induction over data is beyond the provers, sets are not.

**InteractiveRuns** is one workspace; workspaces share only the pool, so whether a
slot is free is left open (`Starts` or `NoSlot`), and so is whether a start throws
(`Throws`): the `finally` of `reserveAndStart` hands the reservation back and the
error then leaves the caller without its clean-up. Nobody catches it but the
command that asks for a shadow run (`Caught`; the ghost `stuck` has the run): of
the others it is an unhandled rejection, and the gateway dies (`Unhandled`, by
`obs/log.ts:332`). A *call* is a command in
progress with its place in the code: a run's own (`runAgent` or, for a run in
`Branches`, `branchRun`) or one of `Resumes`. `at` cuts them at their awaits:
asked, copied (a branch) or binding, marking, marked (a resume), then registered
and `reserving`, `granted`, `handing`, `throwing` or `denied`. A resume reads `liveRuns` and its row in
one step: between the two there is one query, and a run that only then starts
cannot have reached a boundary. `Exits` and `SpawnError` are the pool's handlers,
`ReleasesSlot` what both call, `Say` an event whose write joins `chain` in the
workspace `contextForRun` finds, `Ingests` the next write. `pool.stop` asks a
process to go, which it may do at any time. Nothing a process printed arrives
after its exit. A lease lapses only when no command is in flight: it stands an
hour, and a command's awaits take seconds. `raced` is a ghost: the runs two resumes
were about at one time.

**WorkItems** has the dispatch loop of a job (`disp`, `try`), its Stop
(`stopper`), the open runs of `DeployRuns`, the ingest chain whose head is handled
in two steps (the run's row, then the job's), the sweep in two (it reads a row,
then acts by it), floating marks of a confirmation (`marks`), and the
container: the POST and its answer (`post`), the process (`box`) from booting over
working and asking to its `run_end` and `run_closed`. `EndsUnheard` is a run that
ends after its token was revoked.

The run of a job has the controls of any other run. `pauseRun` asks it over the
bus (`AsksPause`); at its next boundary it says so and ends without a `run_end`
(`Pauses`), and its `run_closed` says paused, on which the server does not close it
(`SaysClosed`), nor does the sweep (`SweepCloses`). `DeployDispatcher.resume` has no
caller: `resumeRun` marks the row running and starts a process of the server's own
(`ResumesHere`), which has no checkpoint to go on from and ends with an error
(`EndsHere`). Its end is that of the run, and closes the job. `CancelsRun` is
`cancelRun`: it writes the run's row and tells neither the job nor the container.

What may happen around the server in one behaviour is its `world`, chosen at the
start: that people ask, stop jobs, pause or cancel runs, that an answer, a control
line or a trace is lost, that the process dies or the container vanishes, that the
server restarts. Messages (attachments, the answer's text), archiving and deleting
are left out.

## 3. The runs

All together take a few minutes. `pass` runs check every property listed in
their cfg; `violation` runs check one and end in a counterexample (section 6).

| run | instance | shows |
| --- | --- | --- |
| `fair_queue` | 3 workspaces, one with 2 of the 4 jobs; 3 leases, cap 2, TTL 2 | `RingExact`, `OneCopy`, `CapRespected`, `NoOvertaking`, `FifoPerWorkspace`, the refinement of JobQueue, and `NeverStarved` although nobody has to ack |
| `workers` | 2 workers, 1 of which may die at any await or be stopped, the other may throw once; 1 unit with a second copy, 2 leases | `NothingLost`, `OneLiveHolder`, `EventuallyDone` under crashes, throws, lapses and the hand-back |
| `workers_throw` | 1 worker stopped, 1 throw | violation of `NothingLost` |
| `eval_retry` | 2 jobs, 2 attempts each, pool 2, budget 2, a cancel | `OneRunPerJob`, `SuccessIsFinal` with many pumps in flight |
| `eval_capacity` | 2 evals of one workspace, pool 1, 2 provider slots, a deleted example, a set-up that throws, 1 attempt | `AttemptsBounded`, `ReservationsAccounted`, `PoolNeverFull`, `SettledMeansIdle`, `OneEvalPerWorkspace` |
| `eval_live` | pool 2, one provider slot | `EvalEnds`: requeues for want of a slot do not livelock |
| `eval_cut_short` | retries | violation of `NoMoreJobs` |
| `eval_stuck` | cancel | violation of `CancelEnds` |
| `balances` | 1 run, 1 eval, credit 2 (+1), estimates 0 or 2, costs up to 2, 1 crash, every failure | `ReservedIsSum`, `CoveredIsPaid`, `RunsPayTheirCost`, `HoldsComeBack` |
| `interactive` | 2 runs, one of them a branch that may be cancelled, 2 resumes, 2 pauses, 1 crash | `OneRunPerWorkspace`, `LiveIsRunning`, `ReservationIsUsed`, `PausedIsIdle`, `EndIsKept`, with starts that are refused, fail or throw |
| `work` | 1 job of 2 attempts, 1 restart, fourteen worlds of two to four happenings | `OneCopyAtATime`, `OpenIsWatched`, `EndingIsTrue`, `FinalIsFinal`, `ReportedEnds`, `TokensComeBack` |
| `work_gone` | 1 job of 1 attempt, a container that vanishes | violation of `GoneIsSettled` |

Why the bounds are enough. The fairness of the ring needs a workspace with two
jobs, so that it comes round again, and two others to be overtaken; a cap below
the number of leases, so that it bites; a TTL of two, so that an age between
fresh and expired exists. The races of workers need two processes, one lease
each, and a second copy of a unit. Every race of the eval runner that reading the
code suggests is between two jobs, or between two calls about one job; two evals
are needed only for the claim of a workspace, and two attempts for every retry
effect (a third repeats the second). A pool of 1 below the provider limit makes
`PoolNeverFull` bite, a provider limit of 1 below the pool makes requeueing
happen; one attempt, where `AttemptsBounded` is checked, is the bound at which
the smallest mistake in it shows. For money, one run and one eval contend for a
credit that covers one estimate only, a cost may fall below, meet or exceed its
hold (0), and the sweep can meet a settlement at each of its steps. Overlapping
sweeps race each other at the same claim as a sweep and a settlement do, so one
suffices.

For interactive runs, two runs contend for a workspace and two resumes for a
run; two pauses let one run be paused, resumed and paused again. The branch is the
one that may be cancelled because it has all the fresh run has and a row before
its process. Jobs share nothing but the concurrency limit (a count before the
first write), so one job is enough, with the two attempts that make a retry. The
worlds are combinations rather than everything at once: a lost answer beside one
or two other troubles, for its aftermath is a second attempt; and for an accepted
run asks, Stop, deaths, losses and the restart together; pauses and cancels of a run
beside a Stop, a loss, a container that goes or a restart. Every combination of two
that the code treats apart is in one of them. There is one Stop per job and one
ask per run.

Bounds in guards: `TopUps`, `MaxCost`, `MaxCrashes`, `MaxThrows`, `MaxPauses`,
`MaxRestarts`; `LeaseTtl` is a number of ticks. `DieMidway` is FALSE in every run:
the single step between a reaper's claim and its enqueue (or a hand-back's ack and
its enqueue) at which a death does lose the job is excluded by name. With it TRUE
`workers` violates `NothingLost` at `redisBackend.ts:266`, whatever
`backend.ts:12` promises of leases; nothing in the code closes that window.

Symmetry is used over lease ids, run ids (random UUIDs in the code) and the calls
of `resumeRun`, and only in runs without liveness properties.

Some properties state their limits. `RunsPayTheirCost` is about runs whose hold
was not swept: a swept hold settles nothing, by design, and an eval is settled
without waiting for the judge (index.ts:5749). `CoveredIsPaid` holds as long as
no bill exceeds its hold. `OneLiveHolder` leaves out units that a shutdown has
handed back, which may be in the queue twice. `SettledMeansIdle` is checked
without retry, cancel and budget, because each of them may finish an eval while a
run is up: a retry as in section 6, a cancel or an abort when it cancels the row
of a job that a drain has checked and is about to start. The properties of
InteractiveRuns leave out `raced` runs (section 6), and `LiveIsRunning` makes an
exception of a start that threw under a caller that went on. `OneCopyAtATime` leaves out an
attempt whose POST was given up: it may have been executed, and the server cannot
know. `ReportedEnds` leaves out runs a push of whose trace did not get through, a
sweep that read the runs table before the run's row was there, runs that are
paused, and runs that `cancelRun` marked: it writes no `run_end`, and once it has,
nothing need end the job. `TokensComeBack` leaves out what is paused; a run that is
resumed or cancelled after that is claimed again.

## 4. Fairness and deadlock

- FairQueue: a worker keeps polling (weak fairness of `Admit`; it stays enabled
  once there is capacity, as leases lapse), every worker's loop sweeps, time
  passes. Nobody is obliged to ack.
- WorkerLoop: a live process runs its pending continuations (weak). A pass of
  `loop()` sweeps and admits, so both are strongly fair: other workers may
  disable them again and again, but the loop does come round.
- EvalRunner: Node resumes every call whose await is over, timers fire, and a run
  ends because `runPool` has a deadline. Starting and cancelling are free.
- Balances: time passes and the gateway sweeps every five minutes. Runs may go on
  for ever and settlements may fail for ever.
- WorkItems: the server resumes its calls and handles its chain (weak). A container
  owes nothing: it may say nothing for ever. Its answer to a POST is owed only in
  worlds without lost answers; otherwise the server gives up after thirty seconds
  (`GivesUp`, a step of the dispatch). A run not heard from falls silent (a clock),
  and the sweep comes round to every open run (strong: a new event makes it skip a
  run, but only for a while). Nobody need resume or cancel a run that is paused,
  and the process a resume starts here need not end.
- InteractiveRuns: safety only.

The worker, work and interactive runs say `CHECK_DEADLOCK FALSE`: when every unit
or job is done, or every command has been given, the system rightly stops (they
are finite in the model). In the others a deadlock would be reported.

## 5. What is proved

Every safety property of a passing run is a theorem, for all values of the
constants. The six proof modules assume only what the component's module assumes of its
constants, by name; the four theorems that need a hypothesis more (of WorkerLoop
and EvalRunner) state it, and it holds in the run that checks the property. TLC
checked every layer of the invariants on the runs' instances before it was
proved.

`FairQueueProofs` proves, for any sets of workspaces and jobs, any finite set of
leases, any TTL and cap (assumptions: `OwnerAssumption`, `NoJobAssumption`,
`LeaseIdsAssumption`, `LeaseTtlAssumption`, `CapAssumption`):

| theorem | statement |
| --- | --- |
| `TypeCorrect` | `Spec => []TypeOK` |
| `RingIsExact` | `Spec => []RingExact`: the ring names the workspaces with waiting jobs, each once |
| `RoundRobin` | `Spec => []NoOvertaking` |
| `CapHolds` | `Spec => []CapRespected` |
| `OneCopyHolds` | `Spec => []OneCopy` |
| `FirstInFirstOut` | `Spec => FifoPerWorkspace` |
| `QueueKeepsPromise` | `Spec => ImplementsJobQueue` |

`NoOvertaking` says that while `w` waits, no `u` is served more than once before
it. That alone is not inductive: after one service `u` could, for all it says,
still stand before `w` in the ring. `TurnsOwed` adds what is missing: the number
of times `u` has passed `w`, plus one if `u` is still ahead of `w`, is at most
one. A served workspace goes to the back, so the one moves from the second
summand to the first; a newcomer joins at the back, so it starts with zero and
zero. This is where the direction of the ring matters, and where pushing at the
popped end breaks the proof (and the run, with `AddToRing_InFront`). The
inductive invariant is `RingExact /\ TurnsOwed` (lemma `RingInvariant`), on top of
type correctness.

`CapHolds` needs the finiteness of leases and that only `TryAdmit` adds a live
lease, by one, under its guard. `OneCopyHolds` splits places into the order
inside lists and the disjointness of places, with one lemma per operation.
`QueueKeepsPromise` maps each action to one abstract step or a stutter; it uses
`OneCopyHolds` (a job that leaves one place is in no other) and `CapHolds`'
counting (distinct held jobs are no more than live leases). `FirstInFirstOut` is a
fact about sequences: a list is after any step what is read of the old one at
increasing positions (`ReadInOrder`: an admit's tail, what a purge keeps), with at
most one job behind all others (`JoinsBehind`); that a list has each job once, from
`OneCopyHolds`, makes positions and jobs the same thing.

`WorkerLoopProofs` proves, for any sets of workers, units, copies and leases,
whoever dies, stops or throws (`QueueAssumption`, `UnitAssumption`,
`NoLeaseAssumption`, `MaxThrowsAssumption`):

| theorem | statement |
| --- | --- |
| `TypeCorrect` | `Spec => []TypeOK` |
| `NoTwoHolders` | `Spec => []OneLiveHolder` |
| `WorkIsKept` | `~ DieMidway /\ Stoppable \cap Throwing = {}` implies `Spec => []NothingLost` |
| `WorkersKeepPromise` | `~ DieMidway` implies `Spec => Queue!ImplementsJobQueue` |
| `WorkersShareFairly` | `~ DieMidway` implies `Spec => [](Queue!CapRespected /\ Queue!NoOvertaking)` |

The module takes FairQueueProofs by INSTANCE, so that what a call does to the
queue is cited, not proved again (lemmas `EnqueueCall` to `ReapEnqueueCall`); the
last two theorems are those of FairQueue, carried over by a lemma (`WorkersDriveQueue`:
with no death midway, a behaviour of the workers is one of the queue they share,
which is how the module is written and says nothing of the code by itself). The
invariant `Inv` adds to the queue's own what the workers know: a lease belongs to
one worker and holds the job it was given with, or nothing any more (`LeaseInv`);
the queue and the handlers have work of submitted units only (`UnitInv`) and one
copy of each that no shutdown handed back (`CopyInv`); a handler acks after its unit
is done (`WorkedInv`). `NoTwoHolders` follows from `LeaseInv` and `CopyInv` without
any hypothesis. `WorkIsKept` has two, and each is the negation of a loss the code
has: a reaper that dies between its two scripts (`DieMidway`, a hazard at
`redisBackend.ts:266`), and a worker that is stopped while its handler throws
(finding 1). Without SIGTERM, or without throws, nothing is lost. A death midway
also breaks `Queue!Spec`, for the queue has no step that loses what a reaper took.

`BalancesProofs` proves, for any finite sets of runs and evals, any amounts, any
failures and any number of crashes and top-ups (`WorkAssumption`,
`MoneyAssumption`, `FailuresAssumption`):

| theorem | statement |
| --- | --- |
| `TypeCorrect` | `Spec => []TypeOK` |
| `ReservedIsExplained` | `Spec => []ReservedIsSum` |
| `HoldsAreCovered` | `Spec => []CoveredIsPaid` |
| `RunsAreChargedRight` | `Spec => []RunsPayTheirCost` |

`ReservedIsSum` is inductive on top of the types and `HoldInv` (what has not asked
holds nothing, what is charged was released). Its proof is a handful of lemmas
about sums as coins: one summand comes, goes or changes. The release that is cut at
zero (`Less`) never cuts, because the sum includes what is released.
`HoldsAreCovered` moves a charge and its hold together: a charge within its hold
leaves at least as much cover as it takes away. `RunsAreChargedRight` needs
`CostInv`: when a run's settlement reads the ledger, nothing is pending any more
(that is what queueing behind the ingest chain buys).

`EvalRunnerProofs` proves, for any number of evals, jobs, runs, providers and
attempts, any pool, cap and budget (`WsAssumption`, `EvalOfAssumption`,
`LimitsAssumption`, `ThreadsAssumption`, `NoKeyAssumption`,
`TransientsAssumption`):

| theorem | statement |
| --- | --- |
| `TypeCorrect` | `Spec => []TypeOK` |
| `OneEvalAtATime` | `Spec => []OneEvalPerWorkspace` |
| `PoolHasRoom` | `Spec => []PoolNeverFull` |
| `NeverTwoRuns` | `Spec => []OneRunPerJob` |
| `CapacityIsAccounted` | `Spec => []ReservationsAccounted` |
| `AttemptsAreBounded` | `Spec => []AttemptsBounded` |
| `SuccessesStand` | `Spec => SuccessIsFinal` |
| `SettledEvalsAreIdle` | `Uninterrupted` implies `Spec => []SettledMeansIdle` |
| `SettledEvalsAreDone` | `Uninterrupted` implies `Spec => []NoMoreJobs` |

The centre is `PlacesInv`, an account of every attempt while calls are anywhere
between two awaits. A job is at one place at most: being sent by one pump, in the
queue, in the drain's hands, or with a run that is up or whose exit is not through
(`OnePlace`). What is at a place is the last attempt that was ever sent (`SentInv`).
What a pump's scan holds, possibly long ago, and has not sent is the attempt after
that, of a job that is at no place (`UnsentInv`), or it has been sent by another
pump since, which `enqueuedAttempts` tells. So the check of that set right before
the send, with no await between, is what makes the scans harmless; the proof of
`Send` rests on it. A step that gives nothing a place leaves all that as it was
(`Shrinks`, lemma `FewerPlaces`); most of the forty actions are of that kind.
On this rest the others: a job never has two runs; capacity is given back once
because what gives it back has an attempt no other call has; the starts of a job are
counted by attempts before the one it is at (`StartsInv`); and a job that succeeded
is nowhere but in the exit that said so (`SuccessInv`), so whoever writes a row late
writes another one. `PoolHasRoom` is independent: only the drain fills the pool, so
the room it saw before three awaits is still there.

`Uninterrupted` says that nobody cancels, no budget aborts and there is one
attempt. It is the case of the run `eval_capacity`, and each of its parts is
needed: finding 2 is what a retry makes of `NoMoreJobs`, and section 3 says what a
cancel or an abort makes of `SettledMeansIdle`. Under it a row is settled only when
its attempt is nowhere any more (`OwedInv`), and a pump that found every job
settled is right for ever (`DoneInv`): that is what the comment at `onFinished` says (`index.ts:5754`).

`WorkItemsProofs` proves, for any set of jobs, any number of attempts and
restarts and any worlds (`BoundsAssumption`, `WorldsAssumption`):

| theorem | statement |
| --- | --- |
| `TypeCorrect` | `Spec => []TypeOK` |
| `FirstEndingStands` | `Spec => FinalIsFinal` |
| `NoTokenWithoutRun` | `Spec => []OpenIsWatched` |
| `NoSecondCopy` | `Spec => []OneCopyAtATime` |
| `EndingsAreTrue` | `Spec => []EndingIsTrue` |

The types are inductive once `Retriable` (a retry has an attempt left) and
`HeadIsEnd` (what is being finished is the `run_end` at the chain's head) are
added. `NoSecondCopy` needs three facts: an attempt is sent only after the ones
before it were left behind (`NotSentAhead`), one that is left behind is refused or
given up (`LeftBehind`), and what is executed was accepted
(`ExecutedIsAccepted`); that the container refuses before it starts anything is
what carries the step. `EndingsAreTrue` follows a status on its way to the
row: what the process and the ingest chain say is completed did complete
(`ReportsAreTrue`), and what was asked to stop or is noted as cancelled was
stopped by somebody (`StopsAreAsked`). Pausing, resuming and cancelling the run
adds its words to the chain (a pause is none that ends a job) and one more way to
fail; none of the five theorems needs an exception for it.

`InteractiveRunsProofs` proves, for any sets of runs, branches and calls of
`resumeRun`, any number of pauses and crashes (`CallsAssumption`,
`BoundsAssumption`):

| theorem | statement |
| --- | --- |
| `TypeCorrect` | `Spec => []TypeOK` |
| `OneRunAtATime` | `Spec => []OneRunPerWorkspace` |
| `LiveRunsAreRight` | `Spec => []LiveIsRunning`: each run with a process is in both maps; each live entry has a process, is starting, or is of a start that threw under a caller that went on |
| `NoReservationIsLost` | `Spec => []ReservationIsUsed` |
| `PausedRunsAreIdle` | `Spec => []PausedIsIdle` |
| `EndsAreKept` | `Spec => EndIsKept` |

The invariant is built in layers, each proved from the ones before. `CallsInv`: two
calls in flight are about two runs (`Alone`), and of a run whose call has not come
nothing is known (`Untouched`). `PlacesInv`: a run before its start has no process
(`NotUpYet`) and from its registration on it is live and placed (`Registered`),
which gives `LiveIsRunning`. A start that throws keeps its entry, and either the
gateway goes with it or the run joins `stuck`. `LeaseInv`: what is tracked, on its way back or granted
is the lease that stands, once (`LeaseIsKnown`, `GrantIsAlone`), and a run that is
up still has it or no call is in flight (`HeldOrAlone`). The last is where lapses
matter: a lease may lapse under a run that goes on, and the next `acquire` would
then succeed; what keeps the workspace to one run is that no new call is begun
while `liveRuns` has that run, and that a lease outlasts every call by far.
`RowsInv`: while a process works neither its row nor a queued write says it halted
(`BusyRows`, `BusySays`); a pause or an end is the last word queued about a run
(`LastWord`); and nothing is queued about a run whose row reads halted, or that is
being resumed or started (`QuietRows`, `ResumeQuiet`, `FreshQuiet`). With it `EndIsKept` is one case
per action that writes a row.

Model-checked only: liveness (`NeverStarved`, `EventuallyDone`, `EvalEnds`,
`HoldsComeBack`, `ReportedEnds`, `TokensComeBack`), for fairness and ENABLED are
outside the prover. `ImplementsJobQueue` is proved as safety: the abstract
specification states no fairness.

## 6. Where the code and its words disagree

1. *A thrown handler taken for a finished one* (`workers_throw`,
   `workerLoop.ts:188`). `shutdown` acks a lease and skips the enqueue when the
   handler has left `inFlight`; a handler that throws leaves it too, and relies
   on the lease that has just been acked. The unit is lost.
2. *An eval that ends before its retry* (`eval_cut_short`, `evalRunner.ts:779`).
   Between the terminal row and `retryJob` another pump finds nothing unsettled
   and completes the eval; the retried job stays queued.
3. *A cancelled eval that never ends* (`eval_stuck`, `evalRunner.ts:413`). With no
   run up nothing pumps it again; its workspace cannot start another.
4. *A job whose container is gone* (`work_gone`, `deployReconcile.ts:150`). A
   container that vanishes before its first push has no run row; the sweep then
   releases the run without ending the job, which reads running until a restart.

Met while modelling and kept as hazards, not as runs:

- queue and evals: an admit answered after shutdown's snapshot is never handed
  back, only reaped (`workerLoop.ts:185`); the hand-back of a lease that has been
  reaped meanwhile enqueues a second copy (187); two pumps whose counts overlap
  both call `onFinished` (`evalRunner.ts:857`); a run may start after a cancel
  (624) or over the budget (598); a backoff that ends between a pump's scan and
  its `scheduleRetryWake` is scheduled by neither (521).
- money: a sandbox that fails to spawn ends its run without settling it, so its
  hold stands for an hour (`index.ts:11930`); the segment after a pause and a
  branch run without a hold (13283).
- runs: two resumes of one run may both pass their checks, and the refused one
  deletes what the other registered (13353); a refused resume, a branch refused
  after its copy and a process that dies without a `run_end` leave a row that
  reads running until a restart (13333); a cancel just before a pause's write is
  overwritten by it, and one during a resume finds no process to stop (13390); a
  start that throws after the pool has named its slot leaves the slot taken
  (`runPool.ts:220`); when a shadow run's start throws, its reservation goes back,
  the command's handler catches the error (`index.ts:10984`), and `liveRuns`, "every
  run in flight" (1327), keeps an entry that never gets a process, for which the
  workspace is refused every other run until a restart. `LiveIsRunning` without its
  last disjunct is violated so in six steps: Asked, Registers, Reserves, Throws,
  Returns, Caught.
- jobs: a `run_end` that is lost while the `run_closed` after it gets through
  leaves a job running that the sweep no longer sees
  (`sandbox/controlPlaneRoutes.ts:151`); a deployed run that is cancelled as a run
  ends neither its container's work nor, on its own, its job (`index.ts:13390`).
- paused runs of containers: the comment at `deployRuns.ts:150` does not want "every
  paused run holding a live token for two hours with nothing ever revoking it", and
  that is what line 162 leaves of one that nobody resumes or cancels: a
  `run_closed` that says paused does not close it, the sweep skips it for ever
  (`deployReconcile.ts:149`, by design), and nothing resumes it in its container. Its
  job reads running meanwhile. `TokensComeBack` and `ReportedEnds` without their
  exceptions for a paused row are violated so.

## 7. What the models leave out

Redis' TTL on a reserved job's JSON (twenty lease times, `redisBackend.ts:234`);
the lapse of provider slots; `DeployDispatcher.resume`, which nothing calls; the optional workspace ceiling of evals and their
progress reports; priorities of job classes (each class is a queue of its own);
`addCredit` with a negative amount; sandbox seconds, which are metered beside
the ingest chain and may land after the settlement (`index.ts:11970`); the money
of a resumed segment or a branch, which has no hold (`index.ts:13283`); the agent's
steps and checkpoints; runs of evals and deploys in `liveRuns` (they are not
interactive and ask for no slot); statistics,
logging and wording everywhere. A database statement or transaction and a Redis
script are taken to be atomic and durable.

## 8. Plan

1. *EventBridge* and *RunEvents*: events of a worker's run to several gateways,
   at least once, in order per run; ingest batches, backpressure, revoked tokens.
2. *DeployReconcile*: a deploy interrupted at each step and found after a restart.
3. *TokenRefresh* and *Webhooks*: single flight of an OAuth refresh among callers,
   and idempotent deliveries that arrive twice or out of order.
4. Proofs of the safety of these modules, each in a module of its own beside the
   component, once TLC agrees with the strengthening; and, for EvalRunner, a
   weaker `SettledMeansIdle` that also holds with retries.

The order is by what a failure costs: first the queue everything passes
through, then the processes that drain it, then money, then user-visible state.
Runs stay few: a new module brings one or two.

## 9. Running it

    tlc -workers 2 -config FairQueue.cfg MCFairQueue     # likewise the others
    tlc -workers 2 -config Balances.cfg Balances
    tlapm FairQueueProofs.tla                            # 1492 obligations
    tlapm WorkerLoopProofs.tla                           # 2114 obligations
    tlapm EvalRunnerProofs.tla                           # 4828 obligations, minutes
    tlapm BalancesProofs.tla                             # 935 obligations
    tlapm WorkItemsProofs.tla                            # 963 obligations
    tlapm InteractiveRunsProofs.tla                      # 1478 obligations
