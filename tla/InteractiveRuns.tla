--------------------------- MODULE InteractiveRuns ---------------------------
(***************************************************************************)
(* The runs people start, pause, resume, branch and cancel in a workspace, *)
(* as one gateway supervises them (index.ts), with the reservation of the  *)
(* workspace's one interactive slot (interactiveSlot.ts) and the pool of   *)
(* processes (runPool.ts).                                                 *)
(*                                                                         *)
(* A command is a call that other calls, the processes' events and the     *)
(* chain of database writes interleave with at every await.  What a        *)
(* process says is two things: what its handler does at once, and a write  *)
(* queued on the ingest chain.  Money is in Balances, the trace left out.  *)
(* Workspaces share nothing but the pool, so one of them is enough:        *)
(* whether a slot is free is up to the others.                             *)
(***************************************************************************)
EXTENDS Naturals, Sequences

CONSTANTS Runs,         \* runs people may start
          Branches,     \* those of them that are branches of another run
          Resumes,      \* calls of resumeRun that may be in flight at once
          NoRun,
          Cancellable,  \* the runs somebody may cancel
          MaxPauses, MaxCrashes   \* bounds

\* A run is started, or made as a branch, by the one call that minted its id.
Calls == Runs \cup Resumes

ASSUME CallsAssumption == Runs \cap Resumes = {} /\ NoRun \notin Runs
ASSUME BoundsAssumption == MaxPauses \in Nat /\ MaxCrashes \in Nat

VARIABLES
  row,        \* runs.status in the database; "cancelled" is an error by that name
  chain,      \* the ingest chain: writes of it that are queued
  live,       \* the keys of liveRuns
  paused,     \* pausedRuns
  bound,      \* the keys of runWorkspaces: what contextForRun can place
  tracked,    \* the keys of leaseByRun, but for leases that have lapsed: to give
              \* back one of those does nothing
  lease,      \* the holder of the workspace's semaphore, whose cap is one
  returning,  \* releases that are on their way to the backend
  proc,       \* what each run's process is doing, until its exit is heard
  at, target, \* where each call is, and the run a resume is about
  binder,     \* resumes that bound their run to read credentials
  cancel,     \* where the cancel of a run is
  orphaned,   \* ghost: runs whose lease a gateway that died had taken
  raced,      \* ghost: runs that two calls were about at one time
  stuck,      \* ghost: runs whose start threw, and whose caller went on from that
  pauses, crashes

memory == <<live, paused, bound, tracked>>
calls  == <<at, target, binder, cancel>>
ghosts == <<orphaned, raced, stuck>>
counts == <<pauses, crashes>>
vars   == <<row, chain, memory, lease, returning, proc, calls, ghosts, counts>>

Init ==
  /\ row = [r \in Runs |-> "none"] /\ chain = <<>>
  /\ live = {} /\ paused = {} /\ bound = {} /\ tracked = {}
  /\ lease = NoRun /\ returning = {}
  /\ proc = [r \in Runs |-> "none"]
  /\ at = [c \in Calls |-> "idle"]
  /\ target = [c \in Resumes |-> NoRun] /\ binder = {}
  /\ cancel = [r \in Runs |-> "no"]
  /\ orphaned = {} /\ raced = {} /\ stuck = {} /\ pauses = 0 /\ crashes = 0

Up == {r \in Runs : proc[r] # "none"}
Of(c) == IF c \in Runs THEN c ELSE target[c]

InFlight == {c \in Calls : at[c] \notin {"idle", "over"}}

\* interactiveRunIn
NoneIsLive == live = {}

Goto(c, place) == at' = [at EXCEPT ![c] = place]

\* A call returns; a resume may be asked for again.
Finishes(c) ==
  /\ Goto(c, IF c \in Runs THEN "over" ELSE "idle")
  /\ target' = [d \in Resumes |-> IF d = c THEN NoRun ELSE target[d]]

\* A write is scoped to the workspace that contextForRun knew of when it came up:
\* its own or else the server's, where there is no such row.
Say(r, status) ==
  chain' = IF r \in bound THEN Append(chain, [run |-> r, status |-> status]) ELSE chain

-----------------------------------------------------------------------------
(* Commands that start a process *)

\* runAgent and branchRun refuse a workspace that has a run.
Asked(r) ==
  /\ at[r] = "idle" /\ NoneIsLive
  /\ Goto(r, "asked")
  /\ UNCHANGED <<row, chain, memory, lease, returning, proc, target, binder, cancel,
                 ghosts, counts>>

\* branchRun copies the parent's row and steps, and then reads credentials.
Copies(r) ==
  /\ r \in Branches /\ at[r] = "asked"
  /\ row' = [row EXCEPT ![r] = "running"]
  /\ Goto(r, "copied")
  /\ UNCHANGED <<chain, memory, lease, returning, proc, target, binder, cancel,
                 ghosts, counts>>

\* The gate or a credential refuses, or the agent's project cannot be had.
TurnedDown(c) ==
  /\ at[c] \in {"asked", "copied", "marked"}
  /\ Finishes(c)
  /\ UNCHANGED <<row, chain, memory, lease, returning, proc, binder, cancel, ghosts,
                 counts>>

\* resumeRun waits for the paused segment to go, asks what is live, and reads
\* the row: a query that is over long before a process that starts meanwhile can
\* reach a boundary.  The run is bound for as long as credentials are read.
ResumeAsked(c, r) ==
  /\ at[c] = "idle" /\ NoneIsLive /\ row[r] = "paused"
  /\ target' = [target EXCEPT ![c] = r]
  /\ bound' = bound \cup {r}
  /\ binder' = IF r \in bound THEN binder ELSE binder \cup {c}
  /\ Goto(c, "binding")
  /\ raced' = IF \E d \in InFlight : Of(d) = r THEN raced \cup {r} ELSE raced
  /\ UNCHANGED <<row, chain, live, paused, tracked, lease, returning, proc, cancel,
                 orphaned, stuck, counts>>

\* The credentials have been read, or were refused.
ResumeUnbinds(c) ==
  /\ at[c] = "binding"
  /\ bound' = IF c \in binder THEN bound \ {Of(c)} ELSE bound
  /\ binder' = binder \ {c}
  /\ \/ Goto(c, "marking") /\ UNCHANGED target
     \/ Finishes(c)
  /\ UNCHANGED <<row, chain, live, paused, tracked, lease, returning, proc, cancel,
                 ghosts, counts>>

\* setRunStatus(running), whatever the row says by now.
ResumeMarks_Not(c) ==
  /\ at[c] = "marking"
  /\ Goto(c, "marked")
  /\ UNCHANGED <<row, chain, memory, lease, returning, proc, target, binder, cancel,
                 ghosts, counts>>
ResumeMarks_Resumed(c) ==
  /\ at[c] = "marking"
  /\ row' = [row EXCEPT ![Of(c)] = "resumed"]
  /\ Goto(c, "marked")
  /\ UNCHANGED <<chain, memory, lease, returning, proc, target, binder, cancel,
                 ghosts, counts>>
ResumeMarks(c) ==
  /\ at[c] = "marking"
  /\ row' = [row EXCEPT ![Of(c)] = "running"]
  /\ Goto(c, "marked")
  /\ UNCHANGED <<chain, memory, lease, returning, proc, target, binder, cancel,
                 ghosts, counts>>

\* The maps are written before the start: its first events come on their own tick.
Registers(c) ==
  /\ at[c] \in {"asked", "copied", "marked"} /\ (c \in Branches => at[c] # "asked")
  /\ live' = live \cup {Of(c)} /\ bound' = bound \cup {Of(c)}
  /\ Goto(c, "reserving")
  /\ UNCHANGED <<row, chain, paused, tracked, lease, returning, proc, target, binder,
                 cancel, ghosts, counts>>

-----------------------------------------------------------------------------
(* reserveAndStart *)

Free_Always == TRUE
Free == lease = NoRun

\* acquireSemaphore
Reserves(c) ==
  LET r == Of(c) IN
  /\ at[c] = "reserving"
  /\ IF Free
     THEN /\ lease' = r
          /\ orphaned' = orphaned \ {r}
          /\ Goto(c, "granted")
     ELSE Goto(c, "denied") /\ UNCHANGED <<lease, orphaned>>
  /\ UNCHANGED <<row, chain, memory, returning, proc, target, binder, cancel,
                 raced, stuck, counts>>

\* tryStart took a slot of the pool.
Starts(c) ==
  LET r == Of(c) IN
  /\ at[c] = "granted"
  /\ proc' = [proc EXCEPT ![r] = "starting"]
  /\ tracked' = tracked \cup {r}
  /\ paused' = paused \ {r}
  /\ Finishes(c)
  /\ UNCHANGED <<row, chain, live, bound, lease, returning, binder, cancel,
                 ghosts, counts>>

\* "Reserved, but no pool slot was free": the reservation goes straight back.
NoSlot_Keeps(c) ==
  /\ at[c] = "granted"
  /\ Goto(c, "handing")
  /\ UNCHANGED <<row, chain, memory, lease, returning, proc, target, binder, cancel,
                 ghosts, counts>>
NoSlot(c) ==
  /\ at[c] = "granted"
  /\ returning' = returning \cup {Of(c)}
  /\ Goto(c, "handing")
  /\ UNCHANGED <<row, chain, memory, lease, proc, target, binder, cancel,
                 ghosts, counts>>

\* The caller undoes what it registered, once what it reserved is back.
Refused(c) ==
  LET r == Of(c) IN
  /\ \/ at[c] = "denied"
     \/ at[c] = "handing" /\ r \notin returning
  /\ live' = live \ {r} /\ bound' = bound \ {r}
  /\ Finishes(c)
  /\ UNCHANGED <<row, chain, paused, tracked, lease, returning, proc, binder,
                 cancel, ghosts, counts>>

\* start() threw: the finally hands the reservation back, and then the error goes
\* up to the caller, past what the caller would have undone.
Throws(c) ==
  /\ at[c] = "granted"
  /\ returning' = returning \cup {Of(c)}
  /\ Goto(c, "throwing")
  /\ UNCHANGED <<row, chain, memory, lease, proc, target, binder, cancel,
                 ghosts, counts>>

\* The command that asked for a shadow run catches it, and the gateway goes on.
Caught(r) ==
  /\ r \in Runs \ Branches /\ at[r] = "throwing" /\ r \notin returning
  /\ stuck' = stuck \cup {r}
  /\ Finishes(r)
  /\ UNCHANGED <<row, chain, memory, lease, returning, proc, binder, cancel,
                 orphaned, raced, counts>>

\* releaseSemaphore: nothing, unless the lease is still there.
Returns(r) ==
  /\ r \in returning
  /\ returning' = returning \ {r}
  /\ lease' = IF lease = r THEN NoRun ELSE lease
  /\ UNCHANGED <<row, chain, memory, proc, calls, ghosts, counts>>

\* An hour has passed: no call that was under way still is.
Lapses ==
  /\ ~Free /\ InFlight = {} /\ returning = {}
  /\ lease' = NoRun /\ tracked' = tracked \ {lease}
  /\ UNCHANGED <<row, chain, live, paused, bound, returning, proc, calls, ghosts,
                 counts>>

-----------------------------------------------------------------------------
(* The process and its events *)

\* A fresh run says run_start; a resumed one or a branch has its row.
Begins(r) ==
  /\ proc[r] = "starting"
  /\ proc' = [proc EXCEPT ![r] = "working"]
  /\ IF row[r] = "none" THEN Say(r, "running") ELSE UNCHANGED chain
  /\ UNCHANGED <<row, memory, lease, returning, calls, ghosts, counts>>

\* It stopped at a boundary: pausedRuns at once, the row by the chain.
Pauses(r) ==
  /\ proc[r] = "working" /\ pauses < MaxPauses
  /\ pauses' = pauses + 1
  /\ proc' = [proc EXCEPT ![r] = "halting"]
  /\ paused' = paused \cup {r}
  /\ Say(r, "paused")
  /\ UNCHANGED <<row, live, bound, tracked, lease, returning, calls, ghosts,
                 crashes>>

\* Its run_end.
Ends(r) ==
  /\ proc[r] = "working"
  /\ proc' = [proc EXCEPT ![r] = "halting"]
  /\ \E status \in {"completed", "error"} : Say(r, status)
  /\ UNCHANGED <<row, memory, lease, returning, calls, ghosts, counts>>

\* interactiveSlots.release, in the workspace that contextForRun knows of.
ReleasesSlot(r) ==
  /\ tracked' = tracked \ {r}
  /\ returning' = returning \cup ({r} \cap tracked \cap bound)

ForgetsEnded(r) == bound' = IF r \in paused THEN bound ELSE bound \ {r}

\* The exit handler, also of a process that dies without a last word.
Exits(r) ==
  /\ proc[r] # "none"
  /\ proc' = [proc EXCEPT ![r] = "none"]
  /\ ReleasesSlot(r)
  /\ live' = live \ {r}
  /\ ForgetsEnded(r)
  /\ UNCHANGED <<row, chain, paused, lease, calls, ghosts, counts>>

\* The spawnError handler.
SpawnError(r) ==
  /\ proc[r] = "starting"
  /\ proc' = [proc EXCEPT ![r] = "none"]
  /\ live' = live \ {r} /\ paused' = paused \ {r}
  /\ ReleasesSlot(r)
  /\ UNCHANGED <<row, chain, bound, lease, calls, ghosts, counts>>

\* The next write of the chain: every one is scoped to the workspace.
Ingests ==
  /\ chain # <<>>
  /\ LET write == Head(chain) IN
       row' = [row EXCEPT ![write.run] = write.status]
  /\ chain' = Tail(chain)
  /\ UNCHANGED <<memory, lease, returning, proc, calls, ghosts, counts>>

-----------------------------------------------------------------------------
(* cancelRun *)

\* getRun found it; a paused run with no process is forgotten.
CancelReads_Forgets(r) ==
  /\ r \in Cancellable /\ cancel[r] = "no" /\ row[r] # "none"
  /\ paused' = paused \ {r}
  /\ bound' = bound \ {r}
  /\ cancel' = [cancel EXCEPT ![r] = "marking"]
  /\ UNCHANGED <<row, chain, live, tracked, lease, returning, proc, at, target, binder,
                 ghosts, counts>>
CancelReads(r) ==
  /\ r \in Cancellable /\ cancel[r] = "no" /\ row[r] # "none"
  /\ paused' = paused \ {r}
  /\ bound' = IF r \in paused /\ r \notin live THEN bound \ {r} ELSE bound
  /\ cancel' = [cancel EXCEPT ![r] = "marking"]
  /\ UNCHANGED <<row, chain, live, tracked, lease, returning, proc, at, target, binder,
                 ghosts, counts>>

NotEnded_ButCompleted(r) == row[r] # "completed"
NotEnded(r) == row[r] \in {"running", "paused"}

\* markRunCancelled, and pool.stop: the process is asked to go, which it may do at
\* any time.
CancelMarks(r) ==
  /\ cancel[r] = "marking"
  /\ row' = IF NotEnded(r) THEN [row EXCEPT ![r] = "cancelled"] ELSE row
  /\ cancel' = [cancel EXCEPT ![r] = "done"]
  /\ UNCHANGED <<chain, memory, lease, returning, proc, at, target, binder,
                 ghosts, counts>>

-----------------------------------------------------------------------------
\* The gateway dies and its processes with it; leases stand in Redis.  At boot
\* reconcileInterruptedRuns closes every row that reads running.
GatewayDies ==
  /\ row' = [r \in Runs |-> IF row[r] = "running" THEN "error" ELSE row[r]]
  /\ chain' = <<>> /\ returning' = {}
  /\ live' = {} /\ paused' = {} /\ bound' = {} /\ tracked' = {}
  /\ proc' = [r \in Runs |-> "none"]
  /\ at' = [c \in Calls |-> IF c \in Runs /\ at[c] # "idle" THEN "over" ELSE "idle"]
  /\ binder' = {}
  /\ cancel' = [r \in Runs |-> IF cancel[r] = "no" THEN "no" ELSE "done"]
  /\ orphaned' = {lease} \cap Runs /\ stuck' = {}
  /\ target' = [c \in Resumes |-> NoRun]
  /\ UNCHANGED <<lease, raced, pauses>>

Crash ==
  /\ crashes < MaxCrashes
  /\ crashes' = crashes + 1
  /\ GatewayDies

\* Nothing catches what a start, a resume or a branch throws: an unhandled
\* rejection, which ends the process (obs/log.ts).
Unhandled(c) ==
  /\ at[c] = "throwing" /\ Of(c) \notin returning
  /\ GatewayDies
  /\ UNCHANGED crashes

Command(c) ==
  \/ c \in Runs /\ (Asked(c) \/ Copies(c))
  \/ c \in Resumes /\ \E r \in Runs : ResumeAsked(c, r)
Call(c) ==
  \/ c \in Resumes /\ (ResumeUnbinds(c) \/ ResumeMarks(c))
  \/ TurnedDown(c) \/ Registers(c)
  \/ Reserves(c) \/ Starts(c) \/ NoSlot(c) \/ Refused(c)
  \/ Throws(c) \/ Caught(c) \/ Unhandled(c)
Process(r) == Begins(r) \/ Pauses(r) \/ Ends(r) \/ Exits(r) \/ SpawnError(r)

Next ==
  \/ \E c \in Calls : Command(c) \/ Call(c)
  \/ \E r \in Runs : Process(r) \/ Returns(r) \/ CancelReads(r) \/ CancelMarks(r)
  \/ Lapses \/ Ingests \/ Crash

Spec == Init /\ [][Next]_vars

-----------------------------------------------------------------------------
Statuses == {"none", "running", "paused", "completed", "error", "cancelled"}
Places == {"idle", "asked", "copied", "binding", "marking", "marked",
           "reserving", "granted", "handing", "throwing", "denied", "over"}

RowsOK ==
  /\ row \in [Runs -> Statuses] /\ cancel \in [Runs -> {"no", "marking", "done"}]
  /\ chain \in Seq([run : Runs, status : Statuses])
MemoryOK ==
  /\ live \subseteq Runs /\ paused \subseteq Runs /\ bound \subseteq Runs
  /\ tracked \subseteq Runs
  /\ proc \in [Runs -> {"none", "starting", "working", "halting"}]
LeaseOK == lease \in Runs \cup {NoRun} /\ returning \subseteq Runs
CallsOK ==
  /\ at \in [Calls -> Places]
  /\ target \in [Resumes -> Runs \cup {NoRun}] /\ binder \subseteq Resumes
  /\ \A c \in Resumes : at[c] # "over" /\ (at[c] = "idle" \/ target[c] \in Runs)
GhostsOK ==
  /\ orphaned \subseteq Runs /\ raced \subseteq Runs /\ stuck \subseteq Runs
  /\ pauses \in 0..MaxPauses /\ crashes \in 0..MaxCrashes

TypeOK == RowsOK /\ MemoryOK /\ LeaseOK /\ CallsOK /\ GhostsOK

\* "ONE interactive run per workspace" (index.ts:1332), although whether one is
\* live is asked long before the start, and a lease lapses under a long run.
\* (Here and below, not so a run that two resumes raced for: the one that is
\* refused deletes what the other has registered.)
OneRunPerWorkspace == \A r, s \in Up \ raced : r = s

\* liveRuns is right both ways.  A run with a process is in it, and contextForRun
\* places it in the workspace of whoever started it, where its rows, its bill and
\* its reservation go (index.ts:896); and no entry is left without a process or
\* a start under way, to refuse the workspace every run until a restart, but one:
\* that of a start that threw under a caller that went on.
StartingPlaces == {"reserving", "granted", "handing", "throwing", "denied"}
Starting(r) == \E c \in Calls : at[c] \in StartingPlaces /\ Of(c) = r
LiveIsRunning ==
  /\ Up \ raced \subseteq live \cap bound
  /\ \A r \in live : r \in Up \/ Starting(r) \/ r \in stuck

\* interactiveSlot.ts: no reservation is left to stand out its hour.  It belongs
\* to a run that is up or is starting, or is being handed back, or to a gateway
\* that died.
ReservationIsUsed ==
  \/ Free
  \/ lease \in orphaned \cup raced \cup (tracked \cap Up) \cup returning
  \/ \E c \in Calls : at[c] = "granted" /\ Of(c) = lease

\* A row that reads paused can be resumed: no process of that run is at work.
PausedIsIdle ==
  \A r \in Runs \ raced : row[r] = "paused" => proc[r] \in {"none", "halting"}

\* What a run's own run_end wrote is not written over, by a cancel that comes
\* late, a resume or a restart.
EndIsKept ==
  [][\A r \in Runs \ raced : row[r] \in {"completed", "error"} => row'[r] = row[r]]_vars
=============================================================================
