----------------------------- MODULE WorkerLoop -----------------------------
(***************************************************************************)
(* Worker processes (worker.ts) that drain one job class of a shared       *)
(* FairQueue with queue/workerLoop.ts: each sweeps expired leases, admits, *)
(* runs a handler that acks for itself, and on SIGTERM drains, hands back  *)
(* what is still running and exits.  A worker may also die at any step.    *)
(*                                                                         *)
(* A step is what happens between two awaits: a call to the queue is one   *)
(* step at the backend, and its answer reaches the worker in a later one.  *)
(* A process that starts again is another worker.                          *)
(***************************************************************************)
EXTENDS Integers, Sequences, FiniteSets

CONSTANTS Workspaces, Jobs, Owner, NoJob, LeaseIds, LeaseTtl,
          MaxGlobalInFlight, NoCap,      \* of the FairQueue
          NoLease,       \* no lease id
          Units,         \* units of work
          UnitOf,        \* [Jobs -> Units]: of which unit a job is a copy
          Workers,
          Mortal,        \* the workers that may die at any step
          Stoppable,     \* the workers that may be sent SIGTERM
          Throwing,      \* the workers whose handlers may throw
          MaxThrows,     \* how many handlers may throw (bound)
          DieMidway      \* whether a worker may die between taking a job out
                         \* of the queue's hands and enqueueing it again

ASSUME QueueAssumption ==
  /\ Owner \in [Jobs -> Workspaces]
  /\ NoJob \notin Jobs
  /\ IsFiniteSet(LeaseIds)
  /\ LeaseTtl \in Nat \ {0}
  /\ MaxGlobalInFlight = NoCap \/ MaxGlobalInFlight \in Nat
ASSUME UnitAssumption == UnitOf \in [Jobs -> Units]
ASSUME NoLeaseAssumption == NoLease \notin LeaseIds
ASSUME MaxThrowsAssumption == MaxThrows \in Nat

VARIABLES lists, ring, reserved, left, reclaimed, passed

queue == <<lists, ring, reserved, left, reclaimed, passed>>

Queue == INSTANCE FairQueue

VARIABLES
  loop,       \* loop(): "top", "reply" (an admit is answered), "sweep"
              \* (a claimed job is in hand) or "exited"
  lease,      \* the lease of the admit being answered
  inHand,     \* the job claimed by the sweep and not yet enqueued
  inFlight,   \* per worker and lease id, how far its handler is
  jobOf,      \* per worker and lease id, the job the handler was given
  shutdown,   \* shutdown(): "no", "drain", "handback", "acked" or "gone"
  todo,       \* the snapshot of inFlight that shutdown() still has to visit
  turn,       \* the lease it is handing back
  submitted,  \* units enqueued by the gateway
  done,       \* units whose work has been done
  handedBack, \* units a shutdown has enqueued again
  throws      \* how many handlers have thrown

local == <<loop, lease, inHand, inFlight, jobOf, shutdown, todo, turn>>
ghosts == <<submitted, done, handedBack, throws>>
vars == <<queue, local, ghosts>>

Init ==
  /\ Queue!Init
  /\ loop = [w \in Workers |-> "top"]
  /\ lease = [w \in Workers |-> NoLease]
  /\ inHand = [w \in Workers |-> NoJob]
  /\ inFlight = [w \in Workers |-> [l \in LeaseIds |-> "none"]]
  /\ jobOf = [w \in Workers |-> [l \in LeaseIds |-> NoJob]]
  /\ shutdown = [w \in Workers |-> "no"]
  /\ todo = [w \in Workers |-> {}]
  /\ turn = [w \in Workers |-> NoLease]
  /\ submitted = {} /\ done = {} /\ handedBack = {} /\ throws = 0

-----------------------------------------------------------------------------
Alive(w)     == shutdown[w] # "gone"
InFlight(w)  == {l \in LeaseIds : inFlight[w][l] # "none"}
Known(w)     == InFlight(w) \cup todo[w] \cup {lease[w], turn[w]}
Fresh(l)     == reserved[l] = NoJob /\ \A w \in Workers : l \notin Known(w)
InQueue      == Queue!AllWaiting \cup Queue!Reserved \cup reclaimed
CopyOf(u, j) == UnitOf[j] = u /\ j \notin InQueue

\* dispatcher.ack: a lease that was acked or reaped already is a no-op.
Acked(l) == IF reserved[l] # NoJob THEN Queue!Ack(l) ELSE UNCHANGED queue

Submit(u) ==
  /\ u \notin submitted
  /\ submitted' = submitted \cup {u}
  /\ \E j \in Jobs : CopyOf(u, j) /\ Queue!Enqueue(j)
  /\ UNCHANGED <<local, done, handedBack, throws>>

-----------------------------------------------------------------------------
(* loop() and maybeReap() *)

SweepClaim_OwnOnly(w, l) ==
  /\ Alive(w) /\ loop[w] = "top" /\ l \in Known(w)
  /\ Queue!ReapClaim(l)
  /\ inHand' = [inHand EXCEPT ![w] = reserved[l]]
  /\ loop' = [loop EXCEPT ![w] = "sweep"]
  /\ UNCHANGED <<lease, inFlight, jobOf, shutdown, todo, turn, ghosts>>
SweepClaim_ReadsLate(w, l) ==
  /\ Alive(w) /\ loop[w] = "top"
  /\ Queue!ReapClaim(l)
  /\ inHand' = [inHand EXCEPT ![w] = reserved'[l]]
  /\ loop' = [loop EXCEPT ![w] = "sweep"]
  /\ UNCHANGED <<lease, inFlight, jobOf, shutdown, todo, turn, ghosts>>
SweepClaim(w, l) ==
  /\ Alive(w) /\ loop[w] = "top"
  /\ Queue!ReapClaim(l)
  /\ inHand' = [inHand EXCEPT ![w] = reserved[l]]
  /\ loop' = [loop EXCEPT ![w] = "sweep"]
  /\ UNCHANGED <<lease, inFlight, jobOf, shutdown, todo, turn, ghosts>>

SweepEnqueue_Twice(w) ==
  /\ Alive(w) /\ loop[w] = "sweep"
  /\ lists' = [lists EXCEPT ![Owner[inHand[w]]] = @ \o <<inHand[w], inHand[w]>>]
  /\ ring' = Queue!AddToRing(Owner[inHand[w]])
  /\ reclaimed' = reclaimed \ {inHand[w]}
  /\ inHand' = [inHand EXCEPT ![w] = NoJob]
  /\ loop' = [loop EXCEPT ![w] = "top"]
  /\ UNCHANGED <<reserved, left, passed>>
  /\ UNCHANGED <<lease, inFlight, jobOf, shutdown, todo, turn, ghosts>>
SweepEnqueue(w) ==
  /\ Alive(w) /\ loop[w] = "sweep"
  /\ Queue!ReapEnqueue(inHand[w])
  /\ inHand' = [inHand EXCEPT ![w] = NoJob]
  /\ loop' = [loop EXCEPT ![w] = "top"]
  /\ UNCHANGED <<lease, inFlight, jobOf, shutdown, todo, turn, ghosts>>

\* The backend runs the admit ...
AdmitRuns(w, l) ==
  /\ loop[w] = "top" /\ shutdown[w] = "no" /\ Fresh(l)
  /\ Queue!TryAdmit(l)
  /\ lease' = [lease EXCEPT ![w] = l]
  /\ jobOf' = [jobOf EXCEPT ![w][l] = reserved'[l]]
  /\ loop' = [loop EXCEPT ![w] = "reply"]
  /\ UNCHANGED <<inHand, inFlight, shutdown, todo, turn, ghosts>>

\* ... and its answer starts the handler, whatever has happened since.
Handle(w) ==
  /\ Alive(w) /\ loop[w] = "reply"
  /\ inFlight' = [inFlight EXCEPT ![w][lease[w]] = "working"]
  /\ lease' = [lease EXCEPT ![w] = NoLease]
  /\ loop' = [loop EXCEPT ![w] = "top"]
  /\ UNCHANGED <<queue, inHand, jobOf, shutdown, todo, turn, ghosts>>

LoopExits(w) ==
  /\ Alive(w) /\ loop[w] = "top" /\ shutdown[w] # "no"
  /\ loop' = [loop EXCEPT ![w] = "exited"]
  /\ UNCHANGED <<queue, lease, inHand, inFlight, jobOf, shutdown, todo, turn, ghosts>>

-----------------------------------------------------------------------------
(* A handler: it works, acks, and returns; or it throws and has not acked. *)

Work(w, l) ==
  /\ inFlight[w][l] = "working"
  /\ inFlight' = [inFlight EXCEPT ![w][l] = "worked"]
  /\ done' = done \cup {UnitOf[jobOf[w][l]]}
  /\ UNCHANGED <<queue, loop, lease, inHand, jobOf, shutdown, todo, turn, submitted, handedBack, throws>>

HandlerAcks(w, l) ==
  /\ inFlight[w][l] = "worked"
  /\ Acked(l)
  /\ inFlight' = [inFlight EXCEPT ![w][l] = "acked"]
  /\ UNCHANGED <<loop, lease, inHand, jobOf, shutdown, todo, turn, ghosts>>

Left(w, l) ==
  /\ inFlight' = [inFlight EXCEPT ![w][l] = "none"]
  /\ jobOf' = [jobOf EXCEPT ![w][l] = NoJob]

HandlerReturns(w, l) ==
  /\ inFlight[w][l] = "acked"
  /\ Left(w, l)
  /\ UNCHANGED <<queue, loop, lease, inHand, shutdown, todo, turn, ghosts>>

HandlerThrows_LoopAcks(w, l) ==
  /\ w \in Throwing /\ throws < MaxThrows /\ inFlight[w][l] = "working"
  /\ throws' = throws + 1
  /\ Left(w, l)
  /\ Acked(l)
  /\ UNCHANGED <<loop, lease, inHand, shutdown, todo, turn, submitted, done, handedBack>>
HandlerThrows(w, l) ==
  /\ w \in Throwing /\ throws < MaxThrows /\ inFlight[w][l] = "working"
  /\ throws' = throws + 1
  /\ Left(w, l)
  /\ UNCHANGED <<queue, loop, lease, inHand, shutdown, todo, turn, submitted, done, handedBack>>

-----------------------------------------------------------------------------
(* shutdown() *)

Stop(w) ==
  /\ w \in Stoppable /\ shutdown[w] = "no"
  /\ shutdown' = [shutdown EXCEPT ![w] = "drain"]
  /\ UNCHANGED <<queue, loop, lease, inHand, inFlight, jobOf, todo, turn, ghosts>>

\* Everything has finished or the drain window has closed.
DrainEnds(w) ==
  /\ shutdown[w] = "drain"
  /\ shutdown' = [shutdown EXCEPT ![w] = "handback"]
  /\ todo' = [todo EXCEPT ![w] = InFlight(w)]
  /\ UNCHANGED <<queue, loop, lease, inHand, inFlight, jobOf, turn, ghosts>>

\* It finished before its turn came.
SkipFinished(w, l) ==
  /\ shutdown[w] = "handback" /\ l \in todo[w] \ InFlight(w)
  /\ todo' = [todo EXCEPT ![w] = @ \ {l}]
  /\ UNCHANGED <<queue, loop, lease, inHand, inFlight, jobOf, shutdown, turn, ghosts>>

HandBackAcks(w, l) ==
  /\ shutdown[w] = "handback" /\ l \in todo[w] \cap InFlight(w)
  /\ Acked(l)
  /\ shutdown' = [shutdown EXCEPT ![w] = "acked"]
  /\ todo' = [todo EXCEPT ![w] = @ \ {l}]
  /\ turn' = [turn EXCEPT ![w] = l]
  /\ UNCHANGED <<loop, lease, inHand, inFlight, jobOf, ghosts>>

HandBackEnqueues(w) ==
  /\ shutdown[w] = "acked" /\ turn[w] \in InFlight(w)
  /\ \E j \in Jobs :
       /\ CopyOf(UnitOf[jobOf[w][turn[w]]], j) /\ Queue!Enqueue(j)
       /\ handedBack' = handedBack \cup {UnitOf[j]}
  /\ shutdown' = [shutdown EXCEPT ![w] = "handback"]
  /\ turn' = [turn EXCEPT ![w] = NoLease]
  /\ UNCHANGED <<loop, lease, inHand, inFlight, jobOf, todo, submitted, done, throws>>

\* It finished while the ack was in flight.
HandBackSkips(w) ==
  /\ shutdown[w] = "acked" /\ turn[w] \notin InFlight(w)
  /\ shutdown' = [shutdown EXCEPT ![w] = "handback"]
  /\ turn' = [turn EXCEPT ![w] = NoLease]
  /\ UNCHANGED <<queue, loop, lease, inHand, inFlight, jobOf, todo, ghosts>>

HandedBack(w) == shutdown[w] = "handback" /\ todo[w] = {} /\ loop[w] = "exited"

\* The process ends, and its handlers with it.
Vanish(w) ==
  /\ shutdown' = [shutdown EXCEPT ![w] = "gone"]
  /\ loop' = [loop EXCEPT ![w] = "exited"]
  /\ lease' = [lease EXCEPT ![w] = NoLease]
  /\ turn' = [turn EXCEPT ![w] = NoLease]
  /\ todo' = [todo EXCEPT ![w] = {}]
  /\ inHand' = [inHand EXCEPT ![w] = NoJob]
  /\ inFlight' = [inFlight EXCEPT ![w] = [l \in LeaseIds |-> "none"]]
  /\ jobOf' = [jobOf EXCEPT ![w] = [l \in LeaseIds |-> NoJob]]
  /\ UNCHANGED ghosts

Exit(w) ==
  /\ HandedBack(w)
  /\ Vanish(w)
  /\ UNCHANGED queue

\* kill -9, a crash, a power loss: what the queue holds stays, what the
\* process had in hand does not.
Die(w) ==
  /\ w \in Mortal /\ Alive(w)
  /\ DieMidway \/ (loop[w] # "sweep" /\ shutdown[w] # "acked")
  /\ Vanish(w)
  /\ reclaimed' = reclaimed \ {inHand[w]}
  /\ UNCHANGED <<lists, ring, reserved, left, passed>>

\* Time passes for the leases.
Tick ==
  /\ Queue!Tick
  /\ UNCHANGED <<local, ghosts>>

-----------------------------------------------------------------------------
Loop(w) ==
  \/ \E l \in LeaseIds : SweepClaim(w, l)
  \/ SweepEnqueue(w)
  \/ \E l \in LeaseIds : AdmitRuns(w, l)
  \/ Handle(w)
  \/ LoopExits(w)

Handler(w, l) == Work(w, l) \/ HandlerAcks(w, l) \/ HandlerReturns(w, l)

Shutdown(w) ==
  \/ DrainEnds(w)
  \/ \E l \in LeaseIds : SkipFinished(w, l) \/ HandBackAcks(w, l)
  \/ HandBackEnqueues(w)
  \/ HandBackSkips(w)
  \/ Exit(w)

Next ==
  \/ \E u \in Units : Submit(u)
  \/ \E w \in Workers :
       \/ Loop(w)
       \/ \E l \in LeaseIds : Handler(w, l) \/ HandlerThrows(w, l)
       \/ Stop(w)
       \/ Shutdown(w)
       \/ Die(w)
  \/ Tick

Spec == Init /\ [][Next]_vars

\* An event loop keeps running: a live worker's pending steps are taken and
\* time passes.  Its loop comes round to the sweep as well as to the admit
\* (maybeReap runs in every pass), so each is fair by itself.  Nobody has to
\* submit, stop, throw or die.
Fairness ==
  /\ WF_vars(Tick)
  /\ \A w \in Workers :
       /\ \A l \in LeaseIds : SF_vars(SweepClaim(w, l))
       /\ SF_vars(\E l \in LeaseIds : AdmitRuns(w, l))
       /\ WF_vars(SweepEnqueue(w))
       /\ WF_vars(Handle(w))
       /\ WF_vars(LoopExits(w))
       /\ WF_vars(Shutdown(w))
       /\ \A l \in LeaseIds : WF_vars(Handler(w, l))

FairSpec == Spec /\ Fairness

-----------------------------------------------------------------------------
LoopOK ==
  /\ loop \in [Workers -> {"top", "reply", "sweep", "exited"}]
  /\ lease \in [Workers -> LeaseIds \cup {NoLease}]
  /\ inHand \in [Workers -> Jobs \cup {NoJob}]
  /\ \A w \in Workers : loop[w] = "sweep" => inHand[w] \in Jobs

HandlersOK ==
  /\ inFlight \in [Workers -> [LeaseIds -> {"none", "working", "worked", "acked"}]]
  /\ jobOf \in [Workers -> [LeaseIds -> Jobs \cup {NoJob}]]

ShutdownOK ==
  /\ shutdown \in [Workers -> {"no", "drain", "handback", "acked", "gone"}]
  /\ todo \in [Workers -> SUBSET LeaseIds]
  /\ turn \in [Workers -> LeaseIds \cup {NoLease}]

GhostsOK ==
  /\ submitted \subseteq Units /\ done \cup handedBack \subseteq submitted
  /\ throws \in 0..MaxThrows

TypeOK == Queue!TypeOK /\ LoopOK /\ HandlersOK /\ ShutdownOK /\ GhostsOK

\* A unit that was submitted and is not done yet is in the queue, under
\* somebody's lease, or in the hands of a living worker that is about to
\* enqueue it again: a worker that dies or throws does not lose it.
HandingBack(u) ==
  \E w \in Workers : shutdown[w] = "acked" /\ turn[w] \in InFlight(w)
                     /\ UnitOf[jobOf[w][turn[w]]] = u

NothingLost ==
  \A u \in submitted \ done :
    (\E j \in InQueue : UnitOf[j] = u) \/ HandingBack(u)

\* Two handlers never work on one unit while both their leases are good:
\* whoever lost the race has a lease that ran out.  (A shutdown that hands a
\* unit back may do so after it was reaped, and then there are two of it.)
Holding(w, l) == inFlight[w][l] = "working" /\ reserved[l] # NoJob /\ left[l] > 0

OneLiveHolder ==
  \A w, v \in Workers : \A l, m \in LeaseIds :
    Holding(w, l) /\ Holding(v, m) /\ UnitOf[jobOf[w][l]] = UnitOf[jobOf[v][m]]
      /\ UnitOf[jobOf[w][l]] \notin handedBack
      => w = v /\ l = m

\* Whatever dies, throws or stops, a submitted unit is done in the end, as
\* long as one worker stays up.
EventuallyDone == \A u \in Units : u \in submitted ~> u \in done
=============================================================================
