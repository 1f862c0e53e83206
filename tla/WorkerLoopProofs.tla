-------------------------- MODULE WorkerLoopProofs --------------------------
(***************************************************************************)
(* Theorems about WorkerLoop, for any number of workers, units, copies and *)
(* lease ids, and whichever of the workers die, stop or throw.  What is    *)
(* proved of the queue in FairQueueProofs is used, not proved again.       *)
(***************************************************************************)
EXTENDS WorkerLoop, TLAPS

Proved == INSTANCE FairQueueProofs

-----------------------------------------------------------------------------
(* What a call to the queue does to it *)

LEMMA QueueAssumptions ==
  /\ Proved!OwnerAssumption
  /\ Proved!NoJobAssumption
  /\ Proved!LeaseIdsAssumption
  /\ Proved!LeaseTtlAssumption
  /\ Proved!CapAssumption
  BY QueueAssumption DEF Proved!OwnerAssumption, Proved!NoJobAssumption,
     Proved!LeaseIdsAssumption, Proved!LeaseTtlAssumption, Proved!CapAssumption,
     Proved!IsFiniteSet, IsFiniteSet

\* The queue as the workers see it is the queue the theorems are about.
LEMMA QueueIsProved ==
  /\ Queue!TypeOK <=> Proved!TypeOK
  /\ Queue!OneCopy <=> Proved!OneCopy
  /\ InQueue = Proved!Present
  BY DEF Queue!TypeOK, Proved!TypeOK, Queue!OneCopy, Proved!OneCopy, InQueue,
     Proved!Present, Queue!AllWaiting, Proved!AllWaiting, Queue!Waiting, Proved!Waiting,
     Queue!ToSet, Proved!ToSet, Queue!Reserved, Proved!Reserved, Queue!Taken,
     Proved!Taken

LEMMA QueueIsProvedNext ==
  /\ Queue!TypeOK' <=> Proved!TypeOK'
  /\ Queue!OneCopy' <=> Proved!OneCopy'
  /\ InQueue' = Proved!Present'
  BY DEF Queue!TypeOK, Proved!TypeOK, Queue!OneCopy, Proved!OneCopy, InQueue,
     Proved!Present, Queue!AllWaiting, Proved!AllWaiting, Queue!Waiting, Proved!Waiting,
     Queue!ToSet, Proved!ToSet, Queue!Reserved, Proved!Reserved, Queue!Taken,
     Proved!Taken

\* The queue is well typed and holds each copy at one place only.
QueueOK == Queue!TypeOK /\ Queue!OneCopy

LeaseCleared(l) ==
  \A m \in LeaseIds : reserved'[m] = IF m = l THEN NoJob ELSE reserved[m]

LEMMA EnqueueCall ==
  ASSUME QueueOK, NEW j \in Jobs, Queue!Enqueue(j)
  PROVE  QueueOK' /\ InQueue' = InQueue \cup {j} /\ reserved' = reserved
<1>1. Proved!Enqueue(j)
  BY DEF Queue!Enqueue, Proved!Enqueue, Queue!Push, Proved!Push, Queue!AddToRing,
     Proved!AddToRing, Queue!AllWaiting, Proved!AllWaiting, Queue!Waiting,
     Proved!Waiting, Queue!ToSet, Proved!ToSet, Queue!Reserved, Proved!Reserved,
     Queue!Taken, Proved!Taken
<1>2. Proved!TypeOK' /\ Proved!OneCopy' /\ Proved!Present' = Proved!Present \cup {j}
  BY <1>1, QueueAssumptions, QueueIsProved, Proved!EnqueueAdds DEF QueueOK
<1>3. QED
  BY <1>2, QueueIsProved, QueueIsProvedNext DEF QueueOK, Queue!Enqueue

LEMMA AdmitCall ==
  ASSUME QueueOK, NEW l \in LeaseIds, Queue!TryAdmit(l)
  PROVE  /\ QueueOK' /\ InQueue' = InQueue
         /\ \E h \in InQueue \cap Jobs :
              \A m \in LeaseIds : reserved'[m] = IF m = l THEN h ELSE reserved[m]
<1>1. Proved!TryAdmit(l)
  BY DEF Queue!TryAdmit, Proved!TryAdmit, Queue!HasCapacity, Proved!HasCapacity,
     Queue!Live, Proved!Live, Queue!Taken, Proved!Taken, Queue!Serve, Proved!Serve,
     Queue!Rotated, Proved!Rotated, Queue!Granted, Proved!Granted, Queue!InRing,
     Proved!InRing, Queue!Contains, Proved!Contains, Queue!NoneServed,
     Proved!NoneServed, Queue!Cardinality, Proved!Cardinality
<1>2. /\ Proved!TypeOK' /\ Proved!OneCopy' /\ Proved!Present' = Proved!Present
      /\ \E h \in Proved!Present \cap Jobs : reserved' = [reserved EXCEPT ![l] = h]
  BY <1>1, QueueAssumptions, QueueIsProved, Proved!AdmitMoves DEF QueueOK
<1>3. reserved \in [LeaseIds -> Jobs \cup {NoJob}]
  BY DEF QueueOK, Queue!TypeOK
<1>4. QED
  BY <1>2, <1>3, QueueIsProved, QueueIsProvedNext DEF QueueOK

LEMMA SameQueue ==
  ASSUME QueueOK, UNCHANGED queue
  PROVE  QueueOK' /\ UNCHANGED <<InQueue, reserved>>
<1>1. UNCHANGED <<Queue!AllWaiting, Queue!Taken, Queue!Reserved>>
  BY DEF queue, Queue!AllWaiting, Queue!Waiting, Queue!Taken, Queue!Reserved
<1>2. QED
  BY <1>1 DEF queue, QueueOK, Queue!TypeOK, Queue!OneCopy, InQueue

LEMMA NoJobNotInQueue ==
  ASSUME QueueOK
  PROVE  NoJob \notin InQueue
  BY QueueAssumption DEF QueueOK, Queue!TypeOK, InQueue, Queue!AllWaiting,
     Queue!Waiting, Queue!ToSet, Queue!Reserved, Queue!Taken

\* An ack takes its job out, and an ack that comes too late takes nothing.
LEMMA AckedCall ==
  ASSUME QueueOK, NEW l \in LeaseIds, Acked(l)
  PROVE  QueueOK' /\ InQueue' = InQueue \ {reserved[l]} /\ LeaseCleared(l)
<1>1. reserved \in [LeaseIds -> Jobs \cup {NoJob}]
  BY DEF QueueOK, Queue!TypeOK
<1>2. CASE reserved[l] # NoJob
  <2>1. Queue!Ack(l)
    BY <1>2 DEF Acked
  <2>2. Proved!Ack(l)
    BY <2>1 DEF Queue!Ack, Proved!Ack
  <2>3. /\ Proved!TypeOK' /\ Proved!OneCopy'
        /\ Proved!Present' = Proved!Present \ {reserved[l]}
    BY <2>2, QueueAssumptions, QueueIsProved, Proved!AckTakes DEF QueueOK
  <2>4. LeaseCleared(l)
    BY <1>1, <2>1 DEF Queue!Ack, LeaseCleared
  <2>5. QED
    BY <2>3, <2>4, QueueIsProved, QueueIsProvedNext DEF QueueOK
<1>3. CASE reserved[l] = NoJob
  <2>1. QueueOK' /\ InQueue' = InQueue /\ reserved' = reserved
    BY <1>3, SameQueue DEF Acked
  <2>2. NoJob \notin InQueue
    BY NoJobNotInQueue
  <2>3. QED
    BY <1>3, <2>1, <2>2 DEF LeaseCleared
<1>4. QED
  BY <1>2, <1>3

LEMMA ReapClaimCall ==
  ASSUME QueueOK, NEW l \in LeaseIds, Queue!ReapClaim(l)
  PROVE  QueueOK' /\ InQueue' = InQueue /\ LeaseCleared(l) /\ reserved[l] \in Jobs
<1>1. Proved!ReapClaim(l)
  BY DEF Queue!ReapClaim, Proved!ReapClaim, Queue!Expired, Proved!Expired, Queue!Taken,
     Proved!Taken
<1>2. /\ Proved!TypeOK' /\ Proved!OneCopy' /\ Proved!Present' = Proved!Present
      /\ reserved[l] \in Jobs
  BY <1>1, QueueAssumptions, QueueIsProved, Proved!ReapClaimMoves DEF QueueOK
<1>3. reserved \in [LeaseIds -> Jobs \cup {NoJob}]
  BY DEF QueueOK, Queue!TypeOK
<1>4. LeaseCleared(l)
  BY <1>3 DEF Queue!ReapClaim, LeaseCleared
<1>5. QED
  BY <1>2, <1>4, QueueIsProved, QueueIsProvedNext DEF QueueOK

LEMMA ReapEnqueueCall ==
  ASSUME QueueOK, NEW j \in Jobs, Queue!ReapEnqueue(j)
  PROVE  QueueOK' /\ UNCHANGED <<InQueue, reserved>>
<1>1. Proved!ReapEnqueue(j)
  BY DEF Queue!ReapEnqueue, Proved!ReapEnqueue, Queue!Push, Proved!Push,
     Queue!AddToRing, Proved!AddToRing
<1>2. Proved!TypeOK' /\ Proved!OneCopy' /\ Proved!Present' = Proved!Present
  BY <1>1, QueueAssumptions, QueueIsProved, Proved!ReapEnqueueMoves DEF QueueOK
<1>3. QED
  BY <1>2, QueueIsProved, QueueIsProvedNext DEF QueueOK, Queue!ReapEnqueue

LEMMA TickCall ==
  ASSUME QueueOK, Queue!Tick
  PROVE  QueueOK' /\ UNCHANGED <<InQueue, reserved>>
<1>1. Proved!Tick
  BY DEF Queue!Tick, Proved!Tick, Queue!Live, Proved!Live, Queue!Taken, Proved!Taken
<1>2. Proved!TypeOK' /\ Proved!OneCopy' /\ Proved!Present' = Proved!Present
  BY <1>1, QueueAssumptions, QueueIsProved, Proved!TickKeeps DEF QueueOK
<1>3. QED
  BY <1>2, QueueIsProved, QueueIsProvedNext DEF QueueOK, Queue!Tick

\* A reaper that dies with a job in its hands takes that job along, no other.
LEMMA ForgetCall ==
  ASSUME QueueOK, NEW S, reclaimed' = reclaimed \ S,
         UNCHANGED <<lists, ring, reserved, left, passed>>
  PROVE  QueueOK' /\ InQueue' \subseteq InQueue /\ reserved' = reserved
<1>1. Proved!TypeOK' /\ Proved!OneCopy' /\ Proved!Present' \subseteq Proved!Present
  BY QueueAssumptions, QueueIsProved, Proved!ForgetKeeps DEF QueueOK
<1>2. QED
  BY <1>1, QueueIsProved, QueueIsProvedNext DEF QueueOK

-----------------------------------------------------------------------------
(* The inductive invariant *)

\* The leases a worker's handlers have, and the one that is being answered.
Has(w) == {l \in LeaseIds : l \in InFlight(w) \/ l = lease[w]}

\* Where a loop is says what it has in hand.
LoopInv ==
  \A w \in Workers :
    /\ loop[w] = "reply" <=> lease[w] \in LeaseIds
    /\ lease[w] \notin InFlight(w)
    /\ loop[w] # "sweep" => inHand[w] = NoJob

LocalOK == LoopOK /\ HandlersOK /\ ShutdownOK /\ LoopInv

\* No two workers have one lease, and what a worker's lease holds, as long as
\* it holds anything, is the job the worker was given with it.
LeaseInv ==
  /\ \A w, v \in Workers : \A l \in Has(w) : l \in Has(v) => w = v
  /\ \A w \in Workers : \A l \in Has(w) : reserved[l] \in {NoJob, jobOf[w][l]}

\* The queue and the handlers have work of submitted units only, ...
UnitInv ==
  /\ \A j \in InQueue : UnitOf[j] \in submitted
  /\ \A w \in Workers : \A l \in Has(w) :
       jobOf[w][l] \in Jobs /\ UnitOf[jobOf[w][l]] \in submitted

\* ... and but one copy of a unit, unless a shutdown has handed it back.
CopyInv ==
  \A j, k \in InQueue : UnitOf[j] = UnitOf[k] /\ UnitOf[j] \notin handedBack => j = k

\* A handler acks, and returns, after its unit is done.
WorkedInv ==
  \A w \in Workers : \A l \in InFlight(w) :
    inFlight[w][l] # "working" => UnitOf[jobOf[w][l]] \in done

StopInv == \A w \in Workers : shutdown[w] \notin {"no", "gone"} => w \in Stoppable

\* No step takes the queue or a worker out of what it may be in.
LEMMA LocalStep ==
  ASSUME QueueOK, LocalOK, [Next]_vars
  PROVE  QueueOK' /\ LocalOK'
<1>1. ASSUME NEW u \in Units, Submit(u)
      PROVE  QueueOK' /\ LocalOK'
  <2>0. PICK j \in Jobs :
          /\ UnitOf[j] = u /\ Queue!Enqueue(j)
    BY <1>1 DEF Submit, CopyOf
  <2>1. QueueOK' /\ InQueue' = InQueue \cup {j} /\ reserved' = reserved
    BY <2>0, EnqueueCall
  <2>2. LoopOK'
    BY <1>1, <2>0, <2>1 DEF Submit, local, LocalOK, LoopOK, LoopInv
  <2>3. HandlersOK'
    BY <1>1, <2>0, <2>1 DEF Submit, local, LocalOK, LoopOK, HandlersOK, ShutdownOK,
       LoopInv, InFlight
  <2>4. ShutdownOK'
    BY <1>1, <2>0, <2>1 DEF Submit, local, LocalOK, LoopOK, HandlersOK, ShutdownOK
  <2>5. LoopInv'
    BY <1>1, <2>0, <2>1 DEF Submit, local, LocalOK, LoopOK, HandlersOK, ShutdownOK,
       LoopInv, InFlight
  <2>6. QED
    BY <2>1, <2>2, <2>3, <2>4, <2>5 DEF LocalOK
<1>2. ASSUME NEW w \in Workers, NEW l \in LeaseIds, SweepClaim(w, l)
      PROVE  QueueOK' /\ LocalOK'
  <2>1. QueueOK' /\ InQueue' = InQueue /\ LeaseCleared(l) /\ reserved[l] \in Jobs
    BY <1>2, ReapClaimCall DEF SweepClaim
  <2>2. LoopOK'
    BY <1>2, <2>1 DEF SweepClaim, ghosts, LocalOK, LoopOK, LoopInv
  <2>3. HandlersOK'
    BY <1>2, <2>1 DEF SweepClaim, ghosts, LocalOK, LoopOK, HandlersOK, ShutdownOK,
       LoopInv, InFlight
  <2>4. ShutdownOK'
    BY <1>2, <2>1 DEF SweepClaim, ghosts, LocalOK, LoopOK, HandlersOK, ShutdownOK
  <2>5. LoopInv'
    BY <1>2, <2>1 DEF SweepClaim, ghosts, LocalOK, LoopOK, HandlersOK, ShutdownOK,
       LoopInv, InFlight
  <2>6. QED
    BY <2>1, <2>2, <2>3, <2>4, <2>5 DEF LocalOK
<1>3. ASSUME NEW w \in Workers, SweepEnqueue(w)
      PROVE  QueueOK' /\ LocalOK'
  <2>1. QueueOK' /\ UNCHANGED <<InQueue, reserved>>
    BY <1>3, ReapEnqueueCall DEF SweepEnqueue, LocalOK, LoopOK
  <2>2. LoopOK'
    BY <1>3, <2>1 DEF SweepEnqueue, ghosts, LocalOK, LoopOK, LoopInv
  <2>3. HandlersOK'
    BY <1>3, <2>1 DEF SweepEnqueue, ghosts, LocalOK, LoopOK, HandlersOK, ShutdownOK,
       LoopInv, InFlight
  <2>4. ShutdownOK'
    BY <1>3, <2>1 DEF SweepEnqueue, ghosts, LocalOK, LoopOK, HandlersOK, ShutdownOK
  <2>5. LoopInv'
    BY <1>3, <2>1 DEF SweepEnqueue, ghosts, LocalOK, LoopOK, HandlersOK, ShutdownOK,
       LoopInv, InFlight
  <2>6. QED
    BY <2>1, <2>2, <2>3, <2>4, <2>5 DEF LocalOK
<1>4. ASSUME NEW w \in Workers, NEW l \in LeaseIds, AdmitRuns(w, l)
      PROVE  QueueOK' /\ LocalOK'
  <2>0. QueueOK' /\ InQueue' = InQueue
    BY <1>4, AdmitCall DEF AdmitRuns
  <2>1. PICK h \in InQueue \cap Jobs :
          \A m \in LeaseIds : reserved'[m] = IF m = l THEN h ELSE reserved[m]
    BY <1>4, AdmitCall DEF AdmitRuns
  <2>2. LoopOK'
    BY <1>4, <2>0, <2>1 DEF AdmitRuns, ghosts, LocalOK, LoopOK, LoopInv
  <2>3. HandlersOK'
    BY <1>4, <2>0, <2>1 DEF AdmitRuns, ghosts, LocalOK, LoopOK, HandlersOK, ShutdownOK,
       LoopInv, InFlight
  <2>4. ShutdownOK'
    BY <1>4, <2>0, <2>1 DEF AdmitRuns, ghosts, LocalOK, LoopOK, HandlersOK, ShutdownOK
  <2>5. LoopInv'
    BY <1>4, <2>0, <2>1 DEF AdmitRuns, ghosts, LocalOK, LoopOK, HandlersOK, ShutdownOK,
       LoopInv, InFlight, Fresh, Known
  <2>6. QED
    BY <2>0, <2>1, <2>2, <2>3, <2>4, <2>5 DEF LocalOK
<1>5. ASSUME NEW w \in Workers, Handle(w)
      PROVE  QueueOK' /\ LocalOK'
  <2>1. QueueOK' /\ UNCHANGED <<InQueue, reserved>>
    BY <1>5, SameQueue DEF Handle
  <2>2. LoopOK'
    BY <1>5, <2>1 DEF Handle, ghosts, LocalOK, LoopOK, LoopInv, queue
  <2>3. HandlersOK'
    BY <1>5, <2>1 DEF Handle, ghosts, LocalOK, LoopOK, HandlersOK, ShutdownOK, LoopInv,
       InFlight, queue
  <2>4. ShutdownOK'
    BY <1>5, <2>1 DEF Handle, ghosts, LocalOK, LoopOK, HandlersOK, ShutdownOK, queue
  <2>5. LoopInv'
    BY <1>5, <2>1, NoLeaseAssumption DEF Handle, ghosts, LocalOK, LoopOK, HandlersOK,
       ShutdownOK, LoopInv, InFlight, queue
  <2>6. QED
    BY <2>1, <2>2, <2>3, <2>4, <2>5 DEF LocalOK
<1>6. ASSUME NEW w \in Workers, LoopExits(w)
      PROVE  QueueOK' /\ LocalOK'
  <2>1. QueueOK' /\ UNCHANGED <<InQueue, reserved>>
    BY <1>6, SameQueue DEF LoopExits
  <2>2. LoopOK'
    BY <1>6, <2>1 DEF LoopExits, ghosts, LocalOK, LoopOK, LoopInv, queue
  <2>3. HandlersOK'
    BY <1>6, <2>1 DEF LoopExits, ghosts, LocalOK, LoopOK, HandlersOK, ShutdownOK,
       LoopInv, InFlight, queue
  <2>4. ShutdownOK'
    BY <1>6, <2>1 DEF LoopExits, ghosts, LocalOK, LoopOK, HandlersOK, ShutdownOK, queue
  <2>5. LoopInv'
    BY <1>6, <2>1 DEF LoopExits, ghosts, LocalOK, LoopOK, HandlersOK, ShutdownOK,
       LoopInv, InFlight, queue
  <2>6. QED
    BY <2>1, <2>2, <2>3, <2>4, <2>5 DEF LocalOK
<1>7. ASSUME NEW w \in Workers, NEW l \in LeaseIds, Work(w, l)
      PROVE  QueueOK' /\ LocalOK'
  <2>1. QueueOK' /\ UNCHANGED <<InQueue, reserved>>
    BY <1>7, SameQueue DEF Work
  <2>2. LoopOK'
    BY <1>7, <2>1 DEF Work, LocalOK, LoopOK, LoopInv, queue
  <2>3. HandlersOK'
    BY <1>7, <2>1 DEF Work, LocalOK, LoopOK, HandlersOK, ShutdownOK, LoopInv, InFlight,
       queue
  <2>4. ShutdownOK'
    BY <1>7, <2>1 DEF Work, LocalOK, LoopOK, HandlersOK, ShutdownOK, queue
  <2>5. LoopInv'
    BY <1>7, <2>1 DEF Work, LocalOK, LoopOK, HandlersOK, ShutdownOK, LoopInv, InFlight,
       queue
  <2>6. QED
    BY <2>1, <2>2, <2>3, <2>4, <2>5 DEF LocalOK
<1>8. ASSUME NEW w \in Workers, NEW l \in LeaseIds, HandlerAcks(w, l)
      PROVE  QueueOK' /\ LocalOK'
  <2>1. QueueOK' /\ InQueue' = InQueue \ {reserved[l]} /\ LeaseCleared(l)
    BY <1>8, AckedCall DEF HandlerAcks
  <2>2. LoopOK'
    BY <1>8, <2>1 DEF HandlerAcks, ghosts, LocalOK, LoopOK, LoopInv
  <2>3. HandlersOK'
    BY <1>8, <2>1 DEF HandlerAcks, ghosts, LocalOK, LoopOK, HandlersOK, ShutdownOK,
       LoopInv, InFlight
  <2>4. ShutdownOK'
    BY <1>8, <2>1 DEF HandlerAcks, ghosts, LocalOK, LoopOK, HandlersOK, ShutdownOK
  <2>5. LoopInv'
    BY <1>8, <2>1 DEF HandlerAcks, ghosts, LocalOK, LoopOK, HandlersOK, ShutdownOK,
       LoopInv, InFlight
  <2>6. QED
    BY <2>1, <2>2, <2>3, <2>4, <2>5 DEF LocalOK
<1>9. ASSUME NEW w \in Workers, NEW l \in LeaseIds, HandlerReturns(w, l)
      PROVE  QueueOK' /\ LocalOK'
  <2>1. QueueOK' /\ UNCHANGED <<InQueue, reserved>>
    BY <1>9, SameQueue DEF HandlerReturns
  <2>2. LoopOK'
    BY <1>9, <2>1 DEF HandlerReturns, Left, ghosts, LocalOK, LoopOK, LoopInv, queue
  <2>3. HandlersOK'
    BY <1>9, <2>1 DEF HandlerReturns, Left, ghosts, LocalOK, LoopOK, HandlersOK,
       ShutdownOK, LoopInv, InFlight, queue
  <2>4. ShutdownOK'
    BY <1>9, <2>1 DEF HandlerReturns, Left, ghosts, LocalOK, LoopOK, HandlersOK,
       ShutdownOK, queue
  <2>5. LoopInv'
    BY <1>9, <2>1 DEF HandlerReturns, Left, ghosts, LocalOK, LoopOK, HandlersOK,
       ShutdownOK, LoopInv, InFlight, queue
  <2>6. QED
    BY <2>1, <2>2, <2>3, <2>4, <2>5 DEF LocalOK
<1>10. ASSUME NEW w \in Workers, NEW l \in LeaseIds, HandlerThrows(w, l)
      PROVE  QueueOK' /\ LocalOK'
  <2>1. QueueOK' /\ UNCHANGED <<InQueue, reserved>>
    BY <1>10, SameQueue DEF HandlerThrows
  <2>2. LoopOK'
    BY <1>10, <2>1 DEF HandlerThrows, Left, LocalOK, LoopOK, LoopInv, queue
  <2>3. HandlersOK'
    BY <1>10, <2>1 DEF HandlerThrows, Left, LocalOK, LoopOK, HandlersOK, ShutdownOK,
       LoopInv, InFlight, queue
  <2>4. ShutdownOK'
    BY <1>10, <2>1 DEF HandlerThrows, Left, LocalOK, LoopOK, HandlersOK, ShutdownOK,
       queue
  <2>5. LoopInv'
    BY <1>10, <2>1 DEF HandlerThrows, Left, LocalOK, LoopOK, HandlersOK, ShutdownOK,
       LoopInv, InFlight, queue
  <2>6. QED
    BY <2>1, <2>2, <2>3, <2>4, <2>5 DEF LocalOK
<1>11. ASSUME NEW w \in Workers, Stop(w)
      PROVE  QueueOK' /\ LocalOK'
  <2>1. QueueOK' /\ UNCHANGED <<InQueue, reserved>>
    BY <1>11, SameQueue DEF Stop
  <2>2. LoopOK'
    BY <1>11, <2>1 DEF Stop, ghosts, LocalOK, LoopOK, LoopInv, queue
  <2>3. HandlersOK'
    BY <1>11, <2>1 DEF Stop, ghosts, LocalOK, LoopOK, HandlersOK, ShutdownOK, LoopInv,
       InFlight, queue
  <2>4. ShutdownOK'
    BY <1>11, <2>1 DEF Stop, ghosts, LocalOK, LoopOK, HandlersOK, ShutdownOK, queue
  <2>5. LoopInv'
    BY <1>11, <2>1 DEF Stop, ghosts, LocalOK, LoopOK, HandlersOK, ShutdownOK, LoopInv,
       InFlight, queue
  <2>6. QED
    BY <2>1, <2>2, <2>3, <2>4, <2>5 DEF LocalOK
<1>12. ASSUME NEW w \in Workers, DrainEnds(w)
      PROVE  QueueOK' /\ LocalOK'
  <2>1. QueueOK' /\ UNCHANGED <<InQueue, reserved>>
    BY <1>12, SameQueue DEF DrainEnds
  <2>2. LoopOK'
    BY <1>12, <2>1 DEF DrainEnds, ghosts, LocalOK, LoopOK, LoopInv, queue
  <2>3. HandlersOK'
    BY <1>12, <2>1 DEF DrainEnds, ghosts, LocalOK, LoopOK, HandlersOK, ShutdownOK,
       LoopInv, InFlight, queue
  <2>4. ShutdownOK'
    BY <1>12, <2>1 DEF DrainEnds, ghosts, LocalOK, LoopOK, HandlersOK, ShutdownOK,
       InFlight, queue
  <2>5. LoopInv'
    BY <1>12, <2>1 DEF DrainEnds, ghosts, LocalOK, LoopOK, HandlersOK, ShutdownOK,
       LoopInv, InFlight, queue
  <2>6. QED
    BY <2>1, <2>2, <2>3, <2>4, <2>5 DEF LocalOK
<1>13. ASSUME NEW w \in Workers, NEW l \in LeaseIds, SkipFinished(w, l)
      PROVE  QueueOK' /\ LocalOK'
  <2>1. QueueOK' /\ UNCHANGED <<InQueue, reserved>>
    BY <1>13, SameQueue DEF SkipFinished
  <2>2. LoopOK'
    BY <1>13, <2>1 DEF SkipFinished, ghosts, LocalOK, LoopOK, LoopInv, queue
  <2>3. HandlersOK'
    BY <1>13, <2>1 DEF SkipFinished, ghosts, LocalOK, LoopOK, HandlersOK, ShutdownOK,
       LoopInv, InFlight, queue
  <2>4. ShutdownOK'
    BY <1>13, <2>1 DEF SkipFinished, ghosts, LocalOK, LoopOK, HandlersOK, ShutdownOK,
       InFlight, queue
  <2>5. LoopInv'
    BY <1>13, <2>1 DEF SkipFinished, ghosts, LocalOK, LoopOK, HandlersOK, ShutdownOK,
       LoopInv, InFlight, queue
  <2>6. QED
    BY <2>1, <2>2, <2>3, <2>4, <2>5 DEF LocalOK
<1>14. ASSUME NEW w \in Workers, NEW l \in LeaseIds, HandBackAcks(w, l)
      PROVE  QueueOK' /\ LocalOK'
  <2>1. QueueOK' /\ InQueue' = InQueue \ {reserved[l]} /\ LeaseCleared(l)
    BY <1>14, AckedCall DEF HandBackAcks
  <2>2. LoopOK'
    BY <1>14, <2>1 DEF HandBackAcks, ghosts, LocalOK, LoopOK, LoopInv
  <2>3. HandlersOK'
    BY <1>14, <2>1 DEF HandBackAcks, ghosts, LocalOK, LoopOK, HandlersOK, ShutdownOK,
       LoopInv, InFlight
  <2>4. ShutdownOK'
    BY <1>14, <2>1 DEF HandBackAcks, ghosts, LocalOK, LoopOK, HandlersOK, ShutdownOK,
       InFlight
  <2>5. LoopInv'
    BY <1>14, <2>1 DEF HandBackAcks, ghosts, LocalOK, LoopOK, HandlersOK, ShutdownOK,
       LoopInv, InFlight
  <2>6. QED
    BY <2>1, <2>2, <2>3, <2>4, <2>5 DEF LocalOK
<1>15. ASSUME NEW w \in Workers, HandBackEnqueues(w)
      PROVE  QueueOK' /\ LocalOK'
  <2>0. PICK j \in Jobs :
          /\ UnitOf[j] = UnitOf[jobOf[w][turn[w]]] /\ Queue!Enqueue(j)
          /\ handedBack' = handedBack \cup {UnitOf[j]}
    BY <1>15 DEF HandBackEnqueues, CopyOf
  <2>1. QueueOK' /\ InQueue' = InQueue \cup {j} /\ reserved' = reserved
    BY <2>0, EnqueueCall
  <2>2. LoopOK'
    BY <1>15, <2>0, <2>1 DEF HandBackEnqueues, LocalOK, LoopOK, LoopInv
  <2>3. HandlersOK'
    BY <1>15, <2>0, <2>1 DEF HandBackEnqueues, LocalOK, LoopOK, HandlersOK, ShutdownOK,
       LoopInv, InFlight
  <2>4. ShutdownOK'
    BY <1>15, <2>0, <2>1 DEF HandBackEnqueues, LocalOK, LoopOK, HandlersOK, ShutdownOK,
       InFlight
  <2>5. LoopInv'
    BY <1>15, <2>0, <2>1 DEF HandBackEnqueues, LocalOK, LoopOK, HandlersOK, ShutdownOK,
       LoopInv, InFlight
  <2>6. QED
    BY <2>1, <2>2, <2>3, <2>4, <2>5 DEF LocalOK
<1>16. ASSUME NEW w \in Workers, HandBackSkips(w)
      PROVE  QueueOK' /\ LocalOK'
  <2>1. QueueOK' /\ UNCHANGED <<InQueue, reserved>>
    BY <1>16, SameQueue DEF HandBackSkips
  <2>2. LoopOK'
    BY <1>16, <2>1 DEF HandBackSkips, ghosts, LocalOK, LoopOK, LoopInv, queue
  <2>3. HandlersOK'
    BY <1>16, <2>1 DEF HandBackSkips, ghosts, LocalOK, LoopOK, HandlersOK, ShutdownOK,
       LoopInv, InFlight, queue
  <2>4. ShutdownOK'
    BY <1>16, <2>1 DEF HandBackSkips, ghosts, LocalOK, LoopOK, HandlersOK, ShutdownOK,
       InFlight, queue
  <2>5. LoopInv'
    BY <1>16, <2>1 DEF HandBackSkips, ghosts, LocalOK, LoopOK, HandlersOK, ShutdownOK,
       LoopInv, InFlight, queue
  <2>6. QED
    BY <2>1, <2>2, <2>3, <2>4, <2>5 DEF LocalOK
<1>17. ASSUME NEW w \in Workers, Exit(w)
      PROVE  QueueOK' /\ LocalOK'
  <2>1. QueueOK' /\ UNCHANGED <<InQueue, reserved>>
    BY <1>17, SameQueue DEF Exit
  <2>2. LoopOK'
    BY <1>17, <2>1 DEF Exit, Vanish, HandedBack, ghosts, LocalOK, LoopOK, LoopInv, queue
  <2>3. HandlersOK'
    BY <1>17, <2>1 DEF Exit, Vanish, HandedBack, ghosts, LocalOK, LoopOK, HandlersOK,
       ShutdownOK, LoopInv, InFlight, queue
  <2>4. ShutdownOK'
    BY <1>17, <2>1 DEF Exit, Vanish, HandedBack, ghosts, LocalOK, LoopOK, HandlersOK,
       ShutdownOK, queue
  <2>5. LoopInv'
    BY <1>17, <2>1, NoLeaseAssumption DEF Exit, Vanish, HandedBack, ghosts, LocalOK,
       LoopOK, HandlersOK, ShutdownOK, LoopInv, InFlight, queue
  <2>6. QED
    BY <2>1, <2>2, <2>3, <2>4, <2>5 DEF LocalOK
<1>18. ASSUME NEW w \in Workers, Die(w)
      PROVE  QueueOK' /\ LocalOK'
  <2>1. QueueOK' /\ InQueue' \subseteq InQueue /\ reserved' = reserved
    BY <1>18, ForgetCall DEF Die
  <2>2. LoopOK'
    BY <1>18, <2>1 DEF Die, Vanish, ghosts, LocalOK, LoopOK, LoopInv
  <2>3. HandlersOK'
    BY <1>18, <2>1 DEF Die, Vanish, ghosts, LocalOK, LoopOK, HandlersOK, ShutdownOK,
       LoopInv, InFlight
  <2>4. ShutdownOK'
    BY <1>18, <2>1 DEF Die, Vanish, ghosts, LocalOK, LoopOK, HandlersOK, ShutdownOK
  <2>5. LoopInv'
    BY <1>18, <2>1, NoLeaseAssumption DEF Die, Vanish, ghosts, LocalOK, LoopOK,
       HandlersOK, ShutdownOK, LoopInv, InFlight
  <2>6. QED
    BY <2>1, <2>2, <2>3, <2>4, <2>5 DEF LocalOK
<1>19. ASSUME Tick
      PROVE  QueueOK' /\ LocalOK'
  <2>1. QueueOK' /\ UNCHANGED <<InQueue, reserved>>
    BY <1>19, TickCall DEF Tick
  <2>2. LoopOK'
    BY <1>19, <2>1 DEF Tick, local, ghosts, LocalOK, LoopOK, LoopInv
  <2>3. HandlersOK'
    BY <1>19, <2>1 DEF Tick, local, ghosts, LocalOK, LoopOK, HandlersOK, ShutdownOK,
       LoopInv, InFlight
  <2>4. ShutdownOK'
    BY <1>19, <2>1 DEF Tick, local, ghosts, LocalOK, LoopOK, HandlersOK, ShutdownOK
  <2>5. LoopInv'
    BY <1>19, <2>1 DEF Tick, local, ghosts, LocalOK, LoopOK, HandlersOK, ShutdownOK,
       LoopInv, InFlight
  <2>6. QED
    BY <2>1, <2>2, <2>3, <2>4, <2>5 DEF LocalOK
<1>20. CASE UNCHANGED vars
  <2>1. QueueOK' /\ UNCHANGED <<InQueue, reserved>>
    BY <1>20, SameQueue DEF vars
  <2>2. LoopOK'
    BY <1>20, <2>1 DEF vars, local, ghosts, LocalOK, LoopOK, LoopInv, queue
  <2>3. HandlersOK'
    BY <1>20, <2>1 DEF vars, local, ghosts, LocalOK, LoopOK, HandlersOK, ShutdownOK,
       LoopInv, InFlight, queue
  <2>4. ShutdownOK'
    BY <1>20, <2>1 DEF vars, local, ghosts, LocalOK, LoopOK, HandlersOK, ShutdownOK,
       queue
  <2>5. LoopInv'
    BY <1>20, <2>1 DEF vars, local, ghosts, LocalOK, LoopOK, HandlersOK, ShutdownOK,
       LoopInv, InFlight, queue
  <2>6. QED
    BY <2>1, <2>2, <2>3, <2>4, <2>5 DEF LocalOK
<1>21. QED
  BY <1>1, <1>2, <1>3, <1>4, <1>5, <1>6, <1>7, <1>8, <1>9, <1>10, <1>11, <1>12, <1>13,
     <1>14, <1>15, <1>16, <1>17, <1>18, <1>19, <1>20 DEF Next, Loop, Handler, Shutdown

\* A lease id that comes up is nobody's.
LEMMA LeaseStep ==
  ASSUME QueueOK, LocalOK, LeaseInv, [Next]_vars
  PROVE  LeaseInv'
<1>1. ASSUME NEW u \in Units, Submit(u)
      PROVE  LeaseInv'
  <2>0. PICK j \in Jobs :
          /\ UnitOf[j] = u /\ Queue!Enqueue(j)
    BY <1>1 DEF Submit, CopyOf
  <2>1. QueueOK' /\ InQueue' = InQueue \cup {j} /\ reserved' = reserved
    BY <2>0, EnqueueCall
  <2>2. LeaseInv'
    BY <1>1, <2>0, <2>1 DEF Submit, local, LocalOK, LoopOK, HandlersOK, ShutdownOK,
       LoopInv, InFlight, Has, LeaseInv, LeaseCleared
  <2>3. QED
    BY <2>1, <2>2
<1>2. ASSUME NEW w \in Workers, NEW l \in LeaseIds, SweepClaim(w, l)
      PROVE  LeaseInv'
  <2>1. QueueOK' /\ InQueue' = InQueue /\ LeaseCleared(l) /\ reserved[l] \in Jobs
    BY <1>2, ReapClaimCall DEF SweepClaim
  <2>2. LeaseInv'
    <3>1. \A v \in Workers : Has(v)' = Has(v)
      BY <1>2 DEF SweepClaim, InFlight, Has
    <3>2. jobOf' = jobOf
      BY <1>2 DEF SweepClaim
    <3>3. QED
      BY <2>1, <3>1, <3>2 DEF LeaseInv, LeaseCleared, Has
  <2>3. QED
    BY <2>1, <2>2
<1>3. ASSUME NEW w \in Workers, SweepEnqueue(w)
      PROVE  LeaseInv'
  <2>1. QueueOK' /\ UNCHANGED <<InQueue, reserved>>
    BY <1>3, ReapEnqueueCall DEF SweepEnqueue, LocalOK, LoopOK
  <2>2. LeaseInv'
    BY <1>3, <2>1 DEF SweepEnqueue, ghosts, LocalOK, LoopOK, HandlersOK, ShutdownOK,
       LoopInv, InFlight, Has, LeaseInv, LeaseCleared
  <2>3. QED
    BY <2>1, <2>2
<1>4. ASSUME NEW w \in Workers, NEW l \in LeaseIds, AdmitRuns(w, l)
      PROVE  LeaseInv'
  <2>0. QueueOK' /\ InQueue' = InQueue
    BY <1>4, AdmitCall DEF AdmitRuns
  <2>1. PICK h \in InQueue \cap Jobs :
          \A m \in LeaseIds : reserved'[m] = IF m = l THEN h ELSE reserved[m]
    BY <1>4, AdmitCall DEF AdmitRuns
  <2>2. LeaseInv'
    <3>1. \A m \in LeaseIds :
            jobOf'[w][m] = IF m = l THEN h ELSE jobOf[w][m]
      BY <1>4, <2>1 DEF AdmitRuns, LocalOK, HandlersOK
    <3>2. \A v \in Workers : v # w => jobOf'[v] = jobOf[v]
      BY <1>4 DEF AdmitRuns, LocalOK, HandlersOK
    <3>3. \A v \in Workers : l \notin Has(v)
      BY <1>4 DEF AdmitRuns, Fresh, Known, Has
    <3>4. \A v \in Workers : Has(v)' = IF v = w THEN Has(w) \cup {l} ELSE Has(v)
      BY <1>4 DEF AdmitRuns, LocalOK, LoopOK, LoopInv, InFlight, Has
    <3>5. ASSUME NEW v \in Workers, NEW m \in Has(v)'
          PROVE  reserved'[m] \in {NoJob, jobOf'[v][m]}
      BY <2>1, <3>1, <3>2, <3>3, <3>4 DEF LeaseInv, Has
    <3>6. QED
      BY <3>3, <3>4, <3>5 DEF LeaseInv
  <2>3. QED
    BY <2>0, <2>1, <2>2
<1>5. ASSUME NEW w \in Workers, Handle(w)
      PROVE  LeaseInv'
  <2>1. QueueOK' /\ UNCHANGED <<InQueue, reserved>>
    BY <1>5, SameQueue DEF Handle
  <2>2. LeaseInv'
    BY <1>5, <2>1, NoLeaseAssumption DEF Handle, ghosts, LocalOK, LoopOK, HandlersOK,
       ShutdownOK, LoopInv, InFlight, Has, LeaseInv, LeaseCleared
  <2>3. QED
    BY <2>1, <2>2
<1>6. ASSUME NEW w \in Workers, LoopExits(w)
      PROVE  LeaseInv'
  <2>1. QueueOK' /\ UNCHANGED <<InQueue, reserved>>
    BY <1>6, SameQueue DEF LoopExits
  <2>2. LeaseInv'
    BY <1>6, <2>1 DEF LoopExits, ghosts, LocalOK, LoopOK, HandlersOK, ShutdownOK,
       LoopInv, InFlight, Has, LeaseInv, LeaseCleared
  <2>3. QED
    BY <2>1, <2>2
<1>7. ASSUME NEW w \in Workers, NEW l \in LeaseIds, Work(w, l)
      PROVE  LeaseInv'
  <2>1. QueueOK' /\ UNCHANGED <<InQueue, reserved>>
    BY <1>7, SameQueue DEF Work
  <2>2. LeaseInv'
    BY <1>7, <2>1 DEF Work, LocalOK, LoopOK, HandlersOK, ShutdownOK, LoopInv, InFlight,
       Has, LeaseInv, LeaseCleared
  <2>3. QED
    BY <2>1, <2>2
<1>8. ASSUME NEW w \in Workers, NEW l \in LeaseIds, HandlerAcks(w, l)
      PROVE  LeaseInv'
  <2>1. QueueOK' /\ InQueue' = InQueue \ {reserved[l]} /\ LeaseCleared(l)
    BY <1>8, AckedCall DEF HandlerAcks
  <2>2. LeaseInv'
    BY <1>8, <2>1 DEF HandlerAcks, ghosts, LocalOK, LoopOK, HandlersOK, ShutdownOK,
       LoopInv, InFlight, Has, LeaseInv, LeaseCleared
  <2>3. QED
    BY <2>1, <2>2
<1>9. ASSUME NEW w \in Workers, NEW l \in LeaseIds, HandlerReturns(w, l)
      PROVE  LeaseInv'
  <2>1. QueueOK' /\ UNCHANGED <<InQueue, reserved>>
    BY <1>9, SameQueue DEF HandlerReturns
  <2>2. LeaseInv'
    BY <1>9, <2>1, NoLeaseAssumption DEF HandlerReturns, Left, ghosts, LocalOK, LoopOK,
       HandlersOK, ShutdownOK, LoopInv, InFlight, Has, LeaseInv, LeaseCleared
  <2>3. QED
    BY <2>1, <2>2
<1>10. ASSUME NEW w \in Workers, NEW l \in LeaseIds, HandlerThrows(w, l)
      PROVE  LeaseInv'
  <2>1. QueueOK' /\ UNCHANGED <<InQueue, reserved>>
    BY <1>10, SameQueue DEF HandlerThrows
  <2>2. LeaseInv'
    BY <1>10, <2>1, NoLeaseAssumption DEF HandlerThrows, Left, LocalOK, LoopOK,
       HandlersOK, ShutdownOK, LoopInv, InFlight, Has, LeaseInv, LeaseCleared
  <2>3. QED
    BY <2>1, <2>2
<1>11. ASSUME NEW w \in Workers, Stop(w)
      PROVE  LeaseInv'
  <2>1. QueueOK' /\ UNCHANGED <<InQueue, reserved>>
    BY <1>11, SameQueue DEF Stop
  <2>2. LeaseInv'
    BY <1>11, <2>1 DEF Stop, ghosts, LocalOK, LoopOK, HandlersOK, ShutdownOK, LoopInv,
       InFlight, Has, LeaseInv, LeaseCleared
  <2>3. QED
    BY <2>1, <2>2
<1>12. ASSUME NEW w \in Workers, DrainEnds(w)
      PROVE  LeaseInv'
  <2>1. QueueOK' /\ UNCHANGED <<InQueue, reserved>>
    BY <1>12, SameQueue DEF DrainEnds
  <2>2. LeaseInv'
    BY <1>12, <2>1 DEF DrainEnds, ghosts, LocalOK, LoopOK, HandlersOK, ShutdownOK,
       LoopInv, InFlight, Has, LeaseInv, LeaseCleared
  <2>3. QED
    BY <2>1, <2>2
<1>13. ASSUME NEW w \in Workers, NEW l \in LeaseIds, SkipFinished(w, l)
      PROVE  LeaseInv'
  <2>1. QueueOK' /\ UNCHANGED <<InQueue, reserved>>
    BY <1>13, SameQueue DEF SkipFinished
  <2>2. LeaseInv'
    BY <1>13, <2>1 DEF SkipFinished, ghosts, LocalOK, LoopOK, HandlersOK, ShutdownOK,
       LoopInv, InFlight, Has, LeaseInv, LeaseCleared
  <2>3. QED
    BY <2>1, <2>2
<1>14. ASSUME NEW w \in Workers, NEW l \in LeaseIds, HandBackAcks(w, l)
      PROVE  LeaseInv'
  <2>1. QueueOK' /\ InQueue' = InQueue \ {reserved[l]} /\ LeaseCleared(l)
    BY <1>14, AckedCall DEF HandBackAcks
  <2>2. LeaseInv'
    <3>1. \A v \in Workers : Has(v)' = Has(v)
      BY <1>14 DEF HandBackAcks, InFlight, Has
    <3>2. jobOf' = jobOf
      BY <1>14 DEF HandBackAcks
    <3>3. QED
      BY <2>1, <3>1, <3>2 DEF LeaseInv, LeaseCleared, Has
  <2>3. QED
    BY <2>1, <2>2
<1>15. ASSUME NEW w \in Workers, HandBackEnqueues(w)
      PROVE  LeaseInv'
  <2>0. PICK j \in Jobs :
          /\ UnitOf[j] = UnitOf[jobOf[w][turn[w]]] /\ Queue!Enqueue(j)
          /\ handedBack' = handedBack \cup {UnitOf[j]}
    BY <1>15 DEF HandBackEnqueues, CopyOf
  <2>1. QueueOK' /\ InQueue' = InQueue \cup {j} /\ reserved' = reserved
    BY <2>0, EnqueueCall
  <2>2. LeaseInv'
    BY <1>15, <2>0, <2>1 DEF HandBackEnqueues, LocalOK, LoopOK, HandlersOK, ShutdownOK,
       LoopInv, InFlight, Has, LeaseInv, LeaseCleared
  <2>3. QED
    BY <2>1, <2>2
<1>16. ASSUME NEW w \in Workers, HandBackSkips(w)
      PROVE  LeaseInv'
  <2>1. QueueOK' /\ UNCHANGED <<InQueue, reserved>>
    BY <1>16, SameQueue DEF HandBackSkips
  <2>2. LeaseInv'
    BY <1>16, <2>1 DEF HandBackSkips, ghosts, LocalOK, LoopOK, HandlersOK, ShutdownOK,
       LoopInv, InFlight, Has, LeaseInv, LeaseCleared
  <2>3. QED
    BY <2>1, <2>2
<1>17. ASSUME NEW w \in Workers, Exit(w)
      PROVE  LeaseInv'
  <2>1. QueueOK' /\ UNCHANGED <<InQueue, reserved>>
    BY <1>17, SameQueue DEF Exit
  <2>2. LeaseInv'
    BY <1>17, <2>1, NoLeaseAssumption DEF Exit, Vanish, HandedBack, ghosts, LocalOK,
       LoopOK, HandlersOK, ShutdownOK, LoopInv, InFlight, Has, LeaseInv, LeaseCleared
  <2>3. QED
    BY <2>1, <2>2
<1>18. ASSUME NEW w \in Workers, Die(w)
      PROVE  LeaseInv'
  <2>1. QueueOK' /\ InQueue' \subseteq InQueue /\ reserved' = reserved
    BY <1>18, ForgetCall DEF Die
  <2>2. LeaseInv'
    BY <1>18, <2>1, NoLeaseAssumption DEF Die, Vanish, ghosts, LocalOK, LoopOK,
       HandlersOK, ShutdownOK, LoopInv, InFlight, Has, LeaseInv, LeaseCleared
  <2>3. QED
    BY <2>1, <2>2
<1>19. ASSUME Tick
      PROVE  LeaseInv'
  <2>1. QueueOK' /\ UNCHANGED <<InQueue, reserved>>
    BY <1>19, TickCall DEF Tick
  <2>2. LeaseInv'
    BY <1>19, <2>1 DEF Tick, local, ghosts, LocalOK, LoopOK, HandlersOK, ShutdownOK,
       LoopInv, InFlight, Has, LeaseInv, LeaseCleared
  <2>3. QED
    BY <2>1, <2>2
<1>20. CASE UNCHANGED vars
  <2>1. QueueOK' /\ UNCHANGED <<InQueue, reserved>>
    BY <1>20, SameQueue DEF vars
  <2>2. LeaseInv'
    BY <1>20, <2>1 DEF vars, local, ghosts, LocalOK, LoopOK, HandlersOK, ShutdownOK,
       LoopInv, InFlight, Has, LeaseInv, LeaseCleared
  <2>3. QED
    BY <2>1, <2>2
<1>21. QED
  BY <1>1, <1>2, <1>3, <1>4, <1>5, <1>6, <1>7, <1>8, <1>9, <1>10, <1>11, <1>12, <1>13,
     <1>14, <1>15, <1>16, <1>17, <1>18, <1>19, <1>20 DEF Next, Loop, Handler, Shutdown

\* What is handed back was given out, and that was submitted.
LEMMA UnitStep ==
  ASSUME QueueOK, LocalOK, UnitInv, GhostsOK, [Next]_vars
  PROVE  UnitInv' /\ GhostsOK'
<1>1. ASSUME NEW u \in Units, Submit(u)
      PROVE  UnitInv' /\ GhostsOK'
  <2>0. PICK j \in Jobs :
          /\ UnitOf[j] = u /\ Queue!Enqueue(j)
    BY <1>1 DEF Submit, CopyOf
  <2>1. QueueOK' /\ InQueue' = InQueue \cup {j} /\ reserved' = reserved
    BY <2>0, EnqueueCall
  <2>2. UnitInv'
    BY <1>1, <2>0, <2>1 DEF Submit, local, LocalOK, LoopOK, HandlersOK, ShutdownOK,
       LoopInv, InFlight, Has, UnitInv, LeaseCleared, CopyOf
  <2>3. GhostsOK'
    BY <1>1, <2>0, <2>1, UnitAssumption DEF Submit, local, LocalOK, LoopOK, HandlersOK,
       ShutdownOK, LoopInv, InFlight, Has, UnitInv, GhostsOK
  <2>4. QED
    BY <2>1, <2>2, <2>3
<1>2. ASSUME NEW w \in Workers, NEW l \in LeaseIds, SweepClaim(w, l)
      PROVE  UnitInv' /\ GhostsOK'
  <2>1. QueueOK' /\ InQueue' = InQueue /\ LeaseCleared(l) /\ reserved[l] \in Jobs
    BY <1>2, ReapClaimCall DEF SweepClaim
  <2>2. UnitInv'
    BY <1>2, <2>1 DEF SweepClaim, ghosts, LocalOK, LoopOK, HandlersOK, ShutdownOK,
       LoopInv, InFlight, Has, UnitInv, LeaseCleared
  <2>3. GhostsOK'
    BY <1>2, <2>1, UnitAssumption DEF SweepClaim, ghosts, LocalOK, LoopOK, HandlersOK,
       ShutdownOK, LoopInv, InFlight, Has, UnitInv, GhostsOK
  <2>4. QED
    BY <2>1, <2>2, <2>3
<1>3. ASSUME NEW w \in Workers, SweepEnqueue(w)
      PROVE  UnitInv' /\ GhostsOK'
  <2>1. QueueOK' /\ UNCHANGED <<InQueue, reserved>>
    BY <1>3, ReapEnqueueCall DEF SweepEnqueue, LocalOK, LoopOK
  <2>2. UnitInv'
    BY <1>3, <2>1 DEF SweepEnqueue, ghosts, LocalOK, LoopOK, HandlersOK, ShutdownOK,
       LoopInv, InFlight, Has, UnitInv, LeaseCleared
  <2>3. GhostsOK'
    BY <1>3, <2>1, UnitAssumption DEF SweepEnqueue, ghosts, LocalOK, LoopOK, HandlersOK,
       ShutdownOK, LoopInv, InFlight, Has, UnitInv, GhostsOK
  <2>4. QED
    BY <2>1, <2>2, <2>3
<1>4. ASSUME NEW w \in Workers, NEW l \in LeaseIds, AdmitRuns(w, l)
      PROVE  UnitInv' /\ GhostsOK'
  <2>0. QueueOK' /\ InQueue' = InQueue
    BY <1>4, AdmitCall DEF AdmitRuns
  <2>1. PICK h \in InQueue \cap Jobs :
          \A m \in LeaseIds : reserved'[m] = IF m = l THEN h ELSE reserved[m]
    BY <1>4, AdmitCall DEF AdmitRuns
  <2>2. UnitInv'
    BY <1>4, <2>0, <2>1 DEF AdmitRuns, ghosts, LocalOK, LoopOK, HandlersOK, ShutdownOK,
       LoopInv, InFlight, Has, UnitInv, LeaseCleared
  <2>3. GhostsOK'
    BY <1>4, <2>0, <2>1, UnitAssumption DEF AdmitRuns, ghosts, LocalOK, LoopOK,
       HandlersOK, ShutdownOK, LoopInv, InFlight, Has, UnitInv, GhostsOK
  <2>4. QED
    BY <2>0, <2>1, <2>2, <2>3
<1>5. ASSUME NEW w \in Workers, Handle(w)
      PROVE  UnitInv' /\ GhostsOK'
  <2>1. QueueOK' /\ UNCHANGED <<InQueue, reserved>>
    BY <1>5, SameQueue DEF Handle
  <2>2. UnitInv'
    BY <1>5, <2>1, NoLeaseAssumption DEF Handle, ghosts, LocalOK, LoopOK, HandlersOK,
       ShutdownOK, LoopInv, InFlight, Has, UnitInv, LeaseCleared
  <2>3. GhostsOK'
    BY <1>5, <2>1, UnitAssumption DEF Handle, ghosts, LocalOK, LoopOK, HandlersOK,
       ShutdownOK, LoopInv, InFlight, Has, UnitInv, GhostsOK
  <2>4. QED
    BY <2>1, <2>2, <2>3
<1>6. ASSUME NEW w \in Workers, LoopExits(w)
      PROVE  UnitInv' /\ GhostsOK'
  <2>1. QueueOK' /\ UNCHANGED <<InQueue, reserved>>
    BY <1>6, SameQueue DEF LoopExits
  <2>2. UnitInv'
    BY <1>6, <2>1 DEF LoopExits, ghosts, LocalOK, LoopOK, HandlersOK, ShutdownOK,
       LoopInv, InFlight, Has, UnitInv, LeaseCleared
  <2>3. GhostsOK'
    BY <1>6, <2>1, UnitAssumption DEF LoopExits, ghosts, LocalOK, LoopOK, HandlersOK,
       ShutdownOK, LoopInv, InFlight, Has, UnitInv, GhostsOK
  <2>4. QED
    BY <2>1, <2>2, <2>3
<1>7. ASSUME NEW w \in Workers, NEW l \in LeaseIds, Work(w, l)
      PROVE  UnitInv' /\ GhostsOK'
  <2>1. QueueOK' /\ UNCHANGED <<InQueue, reserved>>
    BY <1>7, SameQueue DEF Work
  <2>2. UnitInv'
    BY <1>7, <2>1 DEF Work, LocalOK, LoopOK, HandlersOK, ShutdownOK, LoopInv, InFlight,
       Has, UnitInv, LeaseCleared
  <2>3. GhostsOK'
    BY <1>7, <2>1, UnitAssumption DEF Work, LocalOK, LoopOK, HandlersOK, ShutdownOK,
       LoopInv, InFlight, Has, UnitInv, GhostsOK
  <2>4. QED
    BY <2>1, <2>2, <2>3
<1>8. ASSUME NEW w \in Workers, NEW l \in LeaseIds, HandlerAcks(w, l)
      PROVE  UnitInv' /\ GhostsOK'
  <2>1. QueueOK' /\ InQueue' = InQueue \ {reserved[l]} /\ LeaseCleared(l)
    BY <1>8, AckedCall DEF HandlerAcks
  <2>2. UnitInv'
    BY <1>8, <2>1 DEF HandlerAcks, ghosts, LocalOK, LoopOK, HandlersOK, ShutdownOK,
       LoopInv, InFlight, Has, UnitInv, LeaseCleared
  <2>3. GhostsOK'
    BY <1>8, <2>1, UnitAssumption DEF HandlerAcks, ghosts, LocalOK, LoopOK, HandlersOK,
       ShutdownOK, LoopInv, InFlight, Has, UnitInv, GhostsOK
  <2>4. QED
    BY <2>1, <2>2, <2>3
<1>9. ASSUME NEW w \in Workers, NEW l \in LeaseIds, HandlerReturns(w, l)
      PROVE  UnitInv' /\ GhostsOK'
  <2>1. QueueOK' /\ UNCHANGED <<InQueue, reserved>>
    BY <1>9, SameQueue DEF HandlerReturns
  <2>2. UnitInv'
    BY <1>9, <2>1, NoLeaseAssumption DEF HandlerReturns, Left, ghosts, LocalOK, LoopOK,
       HandlersOK, ShutdownOK, LoopInv, InFlight, Has, UnitInv, LeaseCleared
  <2>3. GhostsOK'
    BY <1>9, <2>1, UnitAssumption DEF HandlerReturns, Left, ghosts, LocalOK, LoopOK,
       HandlersOK, ShutdownOK, LoopInv, InFlight, Has, UnitInv, GhostsOK
  <2>4. QED
    BY <2>1, <2>2, <2>3
<1>10. ASSUME NEW w \in Workers, NEW l \in LeaseIds, HandlerThrows(w, l)
      PROVE  UnitInv' /\ GhostsOK'
  <2>1. QueueOK' /\ UNCHANGED <<InQueue, reserved>>
    BY <1>10, SameQueue DEF HandlerThrows
  <2>2. UnitInv'
    BY <1>10, <2>1, NoLeaseAssumption DEF HandlerThrows, Left, LocalOK, LoopOK,
       HandlersOK, ShutdownOK, LoopInv, InFlight, Has, UnitInv, LeaseCleared
  <2>3. GhostsOK'
    <3>1. throws' \in 0..MaxThrows
      BY <1>10, MaxThrowsAssumption DEF HandlerThrows, GhostsOK
    <3>2. QED
      BY <1>10, <3>1 DEF HandlerThrows, GhostsOK
  <2>4. QED
    BY <2>1, <2>2, <2>3
<1>11. ASSUME NEW w \in Workers, Stop(w)
      PROVE  UnitInv' /\ GhostsOK'
  <2>1. QueueOK' /\ UNCHANGED <<InQueue, reserved>>
    BY <1>11, SameQueue DEF Stop
  <2>2. UnitInv'
    BY <1>11, <2>1 DEF Stop, ghosts, LocalOK, LoopOK, HandlersOK, ShutdownOK, LoopInv,
       InFlight, Has, UnitInv, LeaseCleared
  <2>3. GhostsOK'
    BY <1>11, <2>1, UnitAssumption DEF Stop, ghosts, LocalOK, LoopOK, HandlersOK,
       ShutdownOK, LoopInv, InFlight, Has, UnitInv, GhostsOK
  <2>4. QED
    BY <2>1, <2>2, <2>3
<1>12. ASSUME NEW w \in Workers, DrainEnds(w)
      PROVE  UnitInv' /\ GhostsOK'
  <2>1. QueueOK' /\ UNCHANGED <<InQueue, reserved>>
    BY <1>12, SameQueue DEF DrainEnds
  <2>2. UnitInv'
    BY <1>12, <2>1 DEF DrainEnds, ghosts, LocalOK, LoopOK, HandlersOK, ShutdownOK,
       LoopInv, InFlight, Has, UnitInv, LeaseCleared
  <2>3. GhostsOK'
    BY <1>12, <2>1, UnitAssumption DEF DrainEnds, ghosts, LocalOK, LoopOK, HandlersOK,
       ShutdownOK, LoopInv, InFlight, Has, UnitInv, GhostsOK
  <2>4. QED
    BY <2>1, <2>2, <2>3
<1>13. ASSUME NEW w \in Workers, NEW l \in LeaseIds, SkipFinished(w, l)
      PROVE  UnitInv' /\ GhostsOK'
  <2>1. QueueOK' /\ UNCHANGED <<InQueue, reserved>>
    BY <1>13, SameQueue DEF SkipFinished
  <2>2. UnitInv'
    BY <1>13, <2>1 DEF SkipFinished, ghosts, LocalOK, LoopOK, HandlersOK, ShutdownOK,
       LoopInv, InFlight, Has, UnitInv, LeaseCleared
  <2>3. GhostsOK'
    BY <1>13, <2>1, UnitAssumption DEF SkipFinished, ghosts, LocalOK, LoopOK,
       HandlersOK, ShutdownOK, LoopInv, InFlight, Has, UnitInv, GhostsOK
  <2>4. QED
    BY <2>1, <2>2, <2>3
<1>14. ASSUME NEW w \in Workers, NEW l \in LeaseIds, HandBackAcks(w, l)
      PROVE  UnitInv' /\ GhostsOK'
  <2>1. QueueOK' /\ InQueue' = InQueue \ {reserved[l]} /\ LeaseCleared(l)
    BY <1>14, AckedCall DEF HandBackAcks
  <2>2. UnitInv'
    BY <1>14, <2>1 DEF HandBackAcks, ghosts, LocalOK, LoopOK, HandlersOK, ShutdownOK,
       LoopInv, InFlight, Has, UnitInv, LeaseCleared
  <2>3. GhostsOK'
    BY <1>14, <2>1, UnitAssumption DEF HandBackAcks, ghosts, LocalOK, LoopOK,
       HandlersOK, ShutdownOK, LoopInv, InFlight, Has, UnitInv, GhostsOK
  <2>4. QED
    BY <2>1, <2>2, <2>3
<1>15. ASSUME NEW w \in Workers, HandBackEnqueues(w)
      PROVE  UnitInv' /\ GhostsOK'
  <2>0. PICK j \in Jobs :
          /\ UnitOf[j] = UnitOf[jobOf[w][turn[w]]] /\ Queue!Enqueue(j)
          /\ handedBack' = handedBack \cup {UnitOf[j]}
    BY <1>15 DEF HandBackEnqueues, CopyOf
  <2>1. QueueOK' /\ InQueue' = InQueue \cup {j} /\ reserved' = reserved
    BY <2>0, EnqueueCall
  <2>2. UnitInv'
    BY <1>15, <2>0, <2>1 DEF HandBackEnqueues, LocalOK, LoopOK, HandlersOK, ShutdownOK,
       LoopInv, InFlight, Has, UnitInv, LeaseCleared, CopyOf
  <2>3. GhostsOK'
    BY <1>15, <2>0, <2>1, UnitAssumption DEF HandBackEnqueues, LocalOK, LoopOK,
       HandlersOK, ShutdownOK, LoopInv, InFlight, Has, UnitInv, GhostsOK
  <2>4. QED
    BY <2>1, <2>2, <2>3
<1>16. ASSUME NEW w \in Workers, HandBackSkips(w)
      PROVE  UnitInv' /\ GhostsOK'
  <2>1. QueueOK' /\ UNCHANGED <<InQueue, reserved>>
    BY <1>16, SameQueue DEF HandBackSkips
  <2>2. UnitInv'
    BY <1>16, <2>1 DEF HandBackSkips, ghosts, LocalOK, LoopOK, HandlersOK, ShutdownOK,
       LoopInv, InFlight, Has, UnitInv, LeaseCleared
  <2>3. GhostsOK'
    BY <1>16, <2>1, UnitAssumption DEF HandBackSkips, ghosts, LocalOK, LoopOK,
       HandlersOK, ShutdownOK, LoopInv, InFlight, Has, UnitInv, GhostsOK
  <2>4. QED
    BY <2>1, <2>2, <2>3
<1>17. ASSUME NEW w \in Workers, Exit(w)
      PROVE  UnitInv' /\ GhostsOK'
  <2>1. QueueOK' /\ UNCHANGED <<InQueue, reserved>>
    BY <1>17, SameQueue DEF Exit
  <2>2. UnitInv'
    BY <1>17, <2>1, NoLeaseAssumption DEF Exit, Vanish, HandedBack, ghosts, LocalOK,
       LoopOK, HandlersOK, ShutdownOK, LoopInv, InFlight, Has, UnitInv, LeaseCleared
  <2>3. GhostsOK'
    BY <1>17, <2>1, UnitAssumption DEF Exit, Vanish, HandedBack, ghosts, LocalOK,
       LoopOK, HandlersOK, ShutdownOK, LoopInv, InFlight, Has, UnitInv, GhostsOK
  <2>4. QED
    BY <2>1, <2>2, <2>3
<1>18. ASSUME NEW w \in Workers, Die(w)
      PROVE  UnitInv' /\ GhostsOK'
  <2>1. QueueOK' /\ InQueue' \subseteq InQueue /\ reserved' = reserved
    BY <1>18, ForgetCall DEF Die
  <2>2. UnitInv'
    BY <1>18, <2>1, NoLeaseAssumption DEF Die, Vanish, ghosts, LocalOK, LoopOK,
       HandlersOK, ShutdownOK, LoopInv, InFlight, Has, UnitInv, LeaseCleared
  <2>3. GhostsOK'
    BY <1>18, <2>1, UnitAssumption DEF Die, Vanish, ghosts, LocalOK, LoopOK, HandlersOK,
       ShutdownOK, LoopInv, InFlight, Has, UnitInv, GhostsOK
  <2>4. QED
    BY <2>1, <2>2, <2>3
<1>19. ASSUME Tick
      PROVE  UnitInv' /\ GhostsOK'
  <2>1. QueueOK' /\ UNCHANGED <<InQueue, reserved>>
    BY <1>19, TickCall DEF Tick
  <2>2. UnitInv'
    BY <1>19, <2>1 DEF Tick, local, ghosts, LocalOK, LoopOK, HandlersOK, ShutdownOK,
       LoopInv, InFlight, Has, UnitInv, LeaseCleared
  <2>3. GhostsOK'
    BY <1>19, <2>1, UnitAssumption DEF Tick, local, ghosts, LocalOK, LoopOK, HandlersOK,
       ShutdownOK, LoopInv, InFlight, Has, UnitInv, GhostsOK
  <2>4. QED
    BY <2>1, <2>2, <2>3
<1>20. CASE UNCHANGED vars
  <2>1. QueueOK' /\ UNCHANGED <<InQueue, reserved>>
    BY <1>20, SameQueue DEF vars
  <2>2. UnitInv'
    BY <1>20, <2>1 DEF vars, local, ghosts, LocalOK, LoopOK, HandlersOK, ShutdownOK,
       LoopInv, InFlight, Has, UnitInv, LeaseCleared
  <2>3. GhostsOK'
    BY <1>20, <2>1, UnitAssumption DEF vars, local, ghosts, LocalOK, LoopOK, HandlersOK,
       ShutdownOK, LoopInv, InFlight, Has, UnitInv, GhostsOK
  <2>4. QED
    BY <2>1, <2>2, <2>3
<1>21. QED
  BY <1>1, <1>2, <1>3, <1>4, <1>5, <1>6, <1>7, <1>8, <1>9, <1>10, <1>11, <1>12, <1>13,
     <1>14, <1>15, <1>16, <1>17, <1>18, <1>19, <1>20 DEF Next, Loop, Handler, Shutdown

\* Only a shutdown makes a second copy.
LEMMA CopyStep ==
  ASSUME QueueOK, LocalOK, UnitInv, CopyInv, [Next]_vars
  PROVE  CopyInv'
<1>1. ASSUME NEW u \in Units, Submit(u)
      PROVE  CopyInv'
  <2>0. PICK j \in Jobs :
          /\ UnitOf[j] = u /\ Queue!Enqueue(j)
    BY <1>1 DEF Submit, CopyOf
  <2>1. QueueOK' /\ InQueue' = InQueue \cup {j} /\ reserved' = reserved
    BY <2>0, EnqueueCall
  <2>2. CopyInv'
    BY <1>1, <2>0, <2>1 DEF Submit, local, LocalOK, LoopOK, HandlersOK, ShutdownOK,
       LoopInv, InFlight, Has, UnitInv, CopyInv
  <2>3. QED
    BY <2>1, <2>2
<1>2. ASSUME NEW w \in Workers, NEW l \in LeaseIds, SweepClaim(w, l)
      PROVE  CopyInv'
  <2>1. QueueOK' /\ InQueue' = InQueue /\ LeaseCleared(l) /\ reserved[l] \in Jobs
    BY <1>2, ReapClaimCall DEF SweepClaim
  <2>2. CopyInv'
    BY <1>2, <2>1 DEF SweepClaim, ghosts, LocalOK, LoopOK, HandlersOK, ShutdownOK,
       LoopInv, InFlight, Has, UnitInv, CopyInv
  <2>3. QED
    BY <2>1, <2>2
<1>3. ASSUME NEW w \in Workers, SweepEnqueue(w)
      PROVE  CopyInv'
  <2>1. QueueOK' /\ UNCHANGED <<InQueue, reserved>>
    BY <1>3, ReapEnqueueCall DEF SweepEnqueue, LocalOK, LoopOK
  <2>2. CopyInv'
    BY <1>3, <2>1 DEF SweepEnqueue, ghosts, LocalOK, LoopOK, HandlersOK, ShutdownOK,
       LoopInv, InFlight, Has, UnitInv, CopyInv
  <2>3. QED
    BY <2>1, <2>2
<1>4. ASSUME NEW w \in Workers, NEW l \in LeaseIds, AdmitRuns(w, l)
      PROVE  CopyInv'
  <2>0. QueueOK' /\ InQueue' = InQueue
    BY <1>4, AdmitCall DEF AdmitRuns
  <2>1. PICK h \in InQueue \cap Jobs :
          \A m \in LeaseIds : reserved'[m] = IF m = l THEN h ELSE reserved[m]
    BY <1>4, AdmitCall DEF AdmitRuns
  <2>2. CopyInv'
    BY <1>4, <2>0, <2>1 DEF AdmitRuns, ghosts, LocalOK, LoopOK, HandlersOK, ShutdownOK,
       LoopInv, InFlight, Has, UnitInv, CopyInv
  <2>3. QED
    BY <2>0, <2>1, <2>2
<1>5. ASSUME NEW w \in Workers, Handle(w)
      PROVE  CopyInv'
  <2>1. QueueOK' /\ UNCHANGED <<InQueue, reserved>>
    BY <1>5, SameQueue DEF Handle
  <2>2. CopyInv'
    BY <1>5, <2>1, NoLeaseAssumption DEF Handle, ghosts, LocalOK, LoopOK, HandlersOK,
       ShutdownOK, LoopInv, InFlight, Has, UnitInv, CopyInv
  <2>3. QED
    BY <2>1, <2>2
<1>6. ASSUME NEW w \in Workers, LoopExits(w)
      PROVE  CopyInv'
  <2>1. QueueOK' /\ UNCHANGED <<InQueue, reserved>>
    BY <1>6, SameQueue DEF LoopExits
  <2>2. CopyInv'
    BY <1>6, <2>1 DEF LoopExits, ghosts, LocalOK, LoopOK, HandlersOK, ShutdownOK,
       LoopInv, InFlight, Has, UnitInv, CopyInv
  <2>3. QED
    BY <2>1, <2>2
<1>7. ASSUME NEW w \in Workers, NEW l \in LeaseIds, Work(w, l)
      PROVE  CopyInv'
  <2>1. QueueOK' /\ UNCHANGED <<InQueue, reserved>>
    BY <1>7, SameQueue DEF Work
  <2>2. CopyInv'
    BY <1>7, <2>1 DEF Work, LocalOK, LoopOK, HandlersOK, ShutdownOK, LoopInv, InFlight,
       Has, UnitInv, CopyInv
  <2>3. QED
    BY <2>1, <2>2
<1>8. ASSUME NEW w \in Workers, NEW l \in LeaseIds, HandlerAcks(w, l)
      PROVE  CopyInv'
  <2>1. QueueOK' /\ InQueue' = InQueue \ {reserved[l]} /\ LeaseCleared(l)
    BY <1>8, AckedCall DEF HandlerAcks
  <2>2. CopyInv'
    BY <1>8, <2>1 DEF HandlerAcks, ghosts, LocalOK, LoopOK, HandlersOK, ShutdownOK,
       LoopInv, InFlight, Has, UnitInv, CopyInv
  <2>3. QED
    BY <2>1, <2>2
<1>9. ASSUME NEW w \in Workers, NEW l \in LeaseIds, HandlerReturns(w, l)
      PROVE  CopyInv'
  <2>1. QueueOK' /\ UNCHANGED <<InQueue, reserved>>
    BY <1>9, SameQueue DEF HandlerReturns
  <2>2. CopyInv'
    BY <1>9, <2>1, NoLeaseAssumption DEF HandlerReturns, Left, ghosts, LocalOK, LoopOK,
       HandlersOK, ShutdownOK, LoopInv, InFlight, Has, UnitInv, CopyInv
  <2>3. QED
    BY <2>1, <2>2
<1>10. ASSUME NEW w \in Workers, NEW l \in LeaseIds, HandlerThrows(w, l)
      PROVE  CopyInv'
  <2>1. QueueOK' /\ UNCHANGED <<InQueue, reserved>>
    BY <1>10, SameQueue DEF HandlerThrows
  <2>2. CopyInv'
    BY <1>10, <2>1, NoLeaseAssumption DEF HandlerThrows, Left, LocalOK, LoopOK,
       HandlersOK, ShutdownOK, LoopInv, InFlight, Has, UnitInv, CopyInv
  <2>3. QED
    BY <2>1, <2>2
<1>11. ASSUME NEW w \in Workers, Stop(w)
      PROVE  CopyInv'
  <2>1. QueueOK' /\ UNCHANGED <<InQueue, reserved>>
    BY <1>11, SameQueue DEF Stop
  <2>2. CopyInv'
    BY <1>11, <2>1 DEF Stop, ghosts, LocalOK, LoopOK, HandlersOK, ShutdownOK, LoopInv,
       InFlight, Has, UnitInv, CopyInv
  <2>3. QED
    BY <2>1, <2>2
<1>12. ASSUME NEW w \in Workers, DrainEnds(w)
      PROVE  CopyInv'
  <2>1. QueueOK' /\ UNCHANGED <<InQueue, reserved>>
    BY <1>12, SameQueue DEF DrainEnds
  <2>2. CopyInv'
    BY <1>12, <2>1 DEF DrainEnds, ghosts, LocalOK, LoopOK, HandlersOK, ShutdownOK,
       LoopInv, InFlight, Has, UnitInv, CopyInv
  <2>3. QED
    BY <2>1, <2>2
<1>13. ASSUME NEW w \in Workers, NEW l \in LeaseIds, SkipFinished(w, l)
      PROVE  CopyInv'
  <2>1. QueueOK' /\ UNCHANGED <<InQueue, reserved>>
    BY <1>13, SameQueue DEF SkipFinished
  <2>2. CopyInv'
    BY <1>13, <2>1 DEF SkipFinished, ghosts, LocalOK, LoopOK, HandlersOK, ShutdownOK,
       LoopInv, InFlight, Has, UnitInv, CopyInv
  <2>3. QED
    BY <2>1, <2>2
<1>14. ASSUME NEW w \in Workers, NEW l \in LeaseIds, HandBackAcks(w, l)
      PROVE  CopyInv'
  <2>1. QueueOK' /\ InQueue' = InQueue \ {reserved[l]} /\ LeaseCleared(l)
    BY <1>14, AckedCall DEF HandBackAcks
  <2>2. CopyInv'
    BY <1>14, <2>1 DEF HandBackAcks, ghosts, LocalOK, LoopOK, HandlersOK, ShutdownOK,
       LoopInv, InFlight, Has, UnitInv, CopyInv
  <2>3. QED
    BY <2>1, <2>2
<1>15. ASSUME NEW w \in Workers, HandBackEnqueues(w)
      PROVE  CopyInv'
  <2>0. PICK j \in Jobs :
          /\ UnitOf[j] = UnitOf[jobOf[w][turn[w]]] /\ Queue!Enqueue(j)
          /\ handedBack' = handedBack \cup {UnitOf[j]}
    BY <1>15 DEF HandBackEnqueues, CopyOf
  <2>1. QueueOK' /\ InQueue' = InQueue \cup {j} /\ reserved' = reserved
    BY <2>0, EnqueueCall
  <2>2. CopyInv'
    BY <1>15, <2>0, <2>1 DEF HandBackEnqueues, LocalOK, LoopOK, HandlersOK, ShutdownOK,
       LoopInv, InFlight, Has, UnitInv, CopyInv
  <2>3. QED
    BY <2>1, <2>2
<1>16. ASSUME NEW w \in Workers, HandBackSkips(w)
      PROVE  CopyInv'
  <2>1. QueueOK' /\ UNCHANGED <<InQueue, reserved>>
    BY <1>16, SameQueue DEF HandBackSkips
  <2>2. CopyInv'
    BY <1>16, <2>1 DEF HandBackSkips, ghosts, LocalOK, LoopOK, HandlersOK, ShutdownOK,
       LoopInv, InFlight, Has, UnitInv, CopyInv
  <2>3. QED
    BY <2>1, <2>2
<1>17. ASSUME NEW w \in Workers, Exit(w)
      PROVE  CopyInv'
  <2>1. QueueOK' /\ UNCHANGED <<InQueue, reserved>>
    BY <1>17, SameQueue DEF Exit
  <2>2. CopyInv'
    BY <1>17, <2>1, NoLeaseAssumption DEF Exit, Vanish, HandedBack, ghosts, LocalOK,
       LoopOK, HandlersOK, ShutdownOK, LoopInv, InFlight, Has, UnitInv, CopyInv
  <2>3. QED
    BY <2>1, <2>2
<1>18. ASSUME NEW w \in Workers, Die(w)
      PROVE  CopyInv'
  <2>1. QueueOK' /\ InQueue' \subseteq InQueue /\ reserved' = reserved
    BY <1>18, ForgetCall DEF Die
  <2>2. CopyInv'
    BY <1>18, <2>1, NoLeaseAssumption DEF Die, Vanish, ghosts, LocalOK, LoopOK,
       HandlersOK, ShutdownOK, LoopInv, InFlight, Has, UnitInv, CopyInv
  <2>3. QED
    BY <2>1, <2>2
<1>19. ASSUME Tick
      PROVE  CopyInv'
  <2>1. QueueOK' /\ UNCHANGED <<InQueue, reserved>>
    BY <1>19, TickCall DEF Tick
  <2>2. CopyInv'
    BY <1>19, <2>1 DEF Tick, local, ghosts, LocalOK, LoopOK, HandlersOK, ShutdownOK,
       LoopInv, InFlight, Has, UnitInv, CopyInv
  <2>3. QED
    BY <2>1, <2>2
<1>20. CASE UNCHANGED vars
  <2>1. QueueOK' /\ UNCHANGED <<InQueue, reserved>>
    BY <1>20, SameQueue DEF vars
  <2>2. CopyInv'
    BY <1>20, <2>1 DEF vars, local, ghosts, LocalOK, LoopOK, HandlersOK, ShutdownOK,
       LoopInv, InFlight, Has, UnitInv, CopyInv
  <2>3. QED
    BY <2>1, <2>2
<1>21. QED
  BY <1>1, <1>2, <1>3, <1>4, <1>5, <1>6, <1>7, <1>8, <1>9, <1>10, <1>11, <1>12, <1>13,
     <1>14, <1>15, <1>16, <1>17, <1>18, <1>19, <1>20 DEF Next, Loop, Handler, Shutdown

LEMMA WorkedStep ==
  ASSUME QueueOK, LocalOK, WorkedInv, StopInv, [Next]_vars
  PROVE  WorkedInv' /\ StopInv'
<1>1. ASSUME NEW u \in Units, Submit(u)
      PROVE  WorkedInv' /\ StopInv'
  <2>0. PICK j \in Jobs :
          /\ UnitOf[j] = u /\ Queue!Enqueue(j)
    BY <1>1 DEF Submit, CopyOf
  <2>1. QueueOK' /\ InQueue' = InQueue \cup {j} /\ reserved' = reserved
    BY <2>0, EnqueueCall
  <2>2. WorkedInv'
    BY <1>1, <2>0, <2>1 DEF Submit, local, LocalOK, LoopOK, HandlersOK, ShutdownOK,
       LoopInv, InFlight, Has, WorkedInv
  <2>3. StopInv'
    BY <1>1, <2>0, <2>1 DEF Submit, local, LocalOK, LoopOK, HandlersOK, ShutdownOK,
       LoopInv, InFlight, Has, StopInv
  <2>4. QED
    BY <2>1, <2>2, <2>3
<1>2. ASSUME NEW w \in Workers, NEW l \in LeaseIds, SweepClaim(w, l)
      PROVE  WorkedInv' /\ StopInv'
  <2>1. QueueOK' /\ InQueue' = InQueue /\ LeaseCleared(l) /\ reserved[l] \in Jobs
    BY <1>2, ReapClaimCall DEF SweepClaim
  <2>2. WorkedInv'
    BY <1>2, <2>1 DEF SweepClaim, ghosts, LocalOK, LoopOK, HandlersOK, ShutdownOK,
       LoopInv, InFlight, Has, WorkedInv
  <2>3. StopInv'
    BY <1>2, <2>1 DEF SweepClaim, ghosts, LocalOK, LoopOK, HandlersOK, ShutdownOK,
       LoopInv, InFlight, Has, StopInv
  <2>4. QED
    BY <2>1, <2>2, <2>3
<1>3. ASSUME NEW w \in Workers, SweepEnqueue(w)
      PROVE  WorkedInv' /\ StopInv'
  <2>1. QueueOK' /\ UNCHANGED <<InQueue, reserved>>
    BY <1>3, ReapEnqueueCall DEF SweepEnqueue, LocalOK, LoopOK
  <2>2. WorkedInv'
    BY <1>3, <2>1 DEF SweepEnqueue, ghosts, LocalOK, LoopOK, HandlersOK, ShutdownOK,
       LoopInv, InFlight, Has, WorkedInv
  <2>3. StopInv'
    BY <1>3, <2>1 DEF SweepEnqueue, ghosts, LocalOK, LoopOK, HandlersOK, ShutdownOK,
       LoopInv, InFlight, Has, StopInv
  <2>4. QED
    BY <2>1, <2>2, <2>3
<1>4. ASSUME NEW w \in Workers, NEW l \in LeaseIds, AdmitRuns(w, l)
      PROVE  WorkedInv' /\ StopInv'
  <2>0. QueueOK' /\ InQueue' = InQueue
    BY <1>4, AdmitCall DEF AdmitRuns
  <2>1. PICK h \in InQueue \cap Jobs :
          \A m \in LeaseIds : reserved'[m] = IF m = l THEN h ELSE reserved[m]
    BY <1>4, AdmitCall DEF AdmitRuns
  <2>2. WorkedInv'
    <3>1. \A m \in LeaseIds :
            jobOf'[w][m] = IF m = l THEN h ELSE jobOf[w][m]
      BY <1>4, <2>1 DEF AdmitRuns, LocalOK, HandlersOK
    <3>2. \A v \in Workers : v # w => jobOf'[v] = jobOf[v]
      BY <1>4 DEF AdmitRuns, LocalOK, HandlersOK
    <3>3. \A v \in Workers : l \notin Has(v)
      BY <1>4 DEF AdmitRuns, Fresh, Known, Has
    <3>4. inFlight' = inFlight /\ done' = done
      BY <1>4 DEF AdmitRuns, ghosts
    <3>5. \A v \in Workers : InFlight(v)' = InFlight(v) /\ InFlight(v) \subseteq Has(v)
      BY <3>4 DEF InFlight, Has
    <3>6. QED
      BY <3>1, <3>2, <3>3, <3>4, <3>5 DEF WorkedInv, Has
  <2>3. StopInv'
    BY <1>4, <2>0, <2>1 DEF AdmitRuns, ghosts, LocalOK, LoopOK, HandlersOK, ShutdownOK,
       LoopInv, InFlight, Has, StopInv
  <2>4. QED
    BY <2>0, <2>1, <2>2, <2>3
<1>5. ASSUME NEW w \in Workers, Handle(w)
      PROVE  WorkedInv' /\ StopInv'
  <2>1. QueueOK' /\ UNCHANGED <<InQueue, reserved>>
    BY <1>5, SameQueue DEF Handle
  <2>2. WorkedInv'
    BY <1>5, <2>1, NoLeaseAssumption DEF Handle, ghosts, LocalOK, LoopOK, HandlersOK,
       ShutdownOK, LoopInv, InFlight, Has, WorkedInv
  <2>3. StopInv'
    BY <1>5, <2>1 DEF Handle, ghosts, LocalOK, LoopOK, HandlersOK, ShutdownOK, LoopInv,
       InFlight, Has, StopInv
  <2>4. QED
    BY <2>1, <2>2, <2>3
<1>6. ASSUME NEW w \in Workers, LoopExits(w)
      PROVE  WorkedInv' /\ StopInv'
  <2>1. QueueOK' /\ UNCHANGED <<InQueue, reserved>>
    BY <1>6, SameQueue DEF LoopExits
  <2>2. WorkedInv'
    BY <1>6, <2>1 DEF LoopExits, ghosts, LocalOK, LoopOK, HandlersOK, ShutdownOK,
       LoopInv, InFlight, Has, WorkedInv
  <2>3. StopInv'
    BY <1>6, <2>1 DEF LoopExits, ghosts, LocalOK, LoopOK, HandlersOK, ShutdownOK,
       LoopInv, InFlight, Has, StopInv
  <2>4. QED
    BY <2>1, <2>2, <2>3
<1>7. ASSUME NEW w \in Workers, NEW l \in LeaseIds, Work(w, l)
      PROVE  WorkedInv' /\ StopInv'
  <2>1. QueueOK' /\ UNCHANGED <<InQueue, reserved>>
    BY <1>7, SameQueue DEF Work
  <2>2. WorkedInv'
    BY <1>7, <2>1 DEF Work, LocalOK, LoopOK, HandlersOK, ShutdownOK, LoopInv, InFlight,
       Has, WorkedInv
  <2>3. StopInv'
    BY <1>7, <2>1 DEF Work, LocalOK, LoopOK, HandlersOK, ShutdownOK, LoopInv, InFlight,
       Has, StopInv
  <2>4. QED
    BY <2>1, <2>2, <2>3
<1>8. ASSUME NEW w \in Workers, NEW l \in LeaseIds, HandlerAcks(w, l)
      PROVE  WorkedInv' /\ StopInv'
  <2>1. QueueOK' /\ InQueue' = InQueue \ {reserved[l]} /\ LeaseCleared(l)
    BY <1>8, AckedCall DEF HandlerAcks
  <2>2. WorkedInv'
    BY <1>8, <2>1 DEF HandlerAcks, ghosts, LocalOK, LoopOK, HandlersOK, ShutdownOK,
       LoopInv, InFlight, Has, WorkedInv
  <2>3. StopInv'
    BY <1>8, <2>1 DEF HandlerAcks, ghosts, LocalOK, LoopOK, HandlersOK, ShutdownOK,
       LoopInv, InFlight, Has, StopInv
  <2>4. QED
    BY <2>1, <2>2, <2>3
<1>9. ASSUME NEW w \in Workers, NEW l \in LeaseIds, HandlerReturns(w, l)
      PROVE  WorkedInv' /\ StopInv'
  <2>1. QueueOK' /\ UNCHANGED <<InQueue, reserved>>
    BY <1>9, SameQueue DEF HandlerReturns
  <2>2. WorkedInv'
    BY <1>9, <2>1, NoLeaseAssumption DEF HandlerReturns, Left, ghosts, LocalOK, LoopOK,
       HandlersOK, ShutdownOK, LoopInv, InFlight, Has, WorkedInv
  <2>3. StopInv'
    BY <1>9, <2>1 DEF HandlerReturns, Left, ghosts, LocalOK, LoopOK, HandlersOK,
       ShutdownOK, LoopInv, InFlight, Has, StopInv
  <2>4. QED
    BY <2>1, <2>2, <2>3
<1>10. ASSUME NEW w \in Workers, NEW l \in LeaseIds, HandlerThrows(w, l)
      PROVE  WorkedInv' /\ StopInv'
  <2>1. QueueOK' /\ UNCHANGED <<InQueue, reserved>>
    BY <1>10, SameQueue DEF HandlerThrows
  <2>2. WorkedInv'
    BY <1>10, <2>1, NoLeaseAssumption DEF HandlerThrows, Left, LocalOK, LoopOK,
       HandlersOK, ShutdownOK, LoopInv, InFlight, Has, WorkedInv
  <2>3. StopInv'
    BY <1>10, <2>1 DEF HandlerThrows, Left, LocalOK, LoopOK, HandlersOK, ShutdownOK,
       LoopInv, InFlight, Has, StopInv
  <2>4. QED
    BY <2>1, <2>2, <2>3
<1>11. ASSUME NEW w \in Workers, Stop(w)
      PROVE  WorkedInv' /\ StopInv'
  <2>1. QueueOK' /\ UNCHANGED <<InQueue, reserved>>
    BY <1>11, SameQueue DEF Stop
  <2>2. WorkedInv'
    BY <1>11, <2>1 DEF Stop, ghosts, LocalOK, LoopOK, HandlersOK, ShutdownOK, LoopInv,
       InFlight, Has, WorkedInv
  <2>3. StopInv'
    BY <1>11, <2>1 DEF Stop, ghosts, LocalOK, LoopOK, HandlersOK, ShutdownOK, LoopInv,
       InFlight, Has, StopInv
  <2>4. QED
    BY <2>1, <2>2, <2>3
<1>12. ASSUME NEW w \in Workers, DrainEnds(w)
      PROVE  WorkedInv' /\ StopInv'
  <2>1. QueueOK' /\ UNCHANGED <<InQueue, reserved>>
    BY <1>12, SameQueue DEF DrainEnds
  <2>2. WorkedInv'
    BY <1>12, <2>1 DEF DrainEnds, ghosts, LocalOK, LoopOK, HandlersOK, ShutdownOK,
       LoopInv, InFlight, Has, WorkedInv
  <2>3. StopInv'
    BY <1>12, <2>1 DEF DrainEnds, ghosts, LocalOK, LoopOK, HandlersOK, ShutdownOK,
       LoopInv, InFlight, Has, StopInv
  <2>4. QED
    BY <2>1, <2>2, <2>3
<1>13. ASSUME NEW w \in Workers, NEW l \in LeaseIds, SkipFinished(w, l)
      PROVE  WorkedInv' /\ StopInv'
  <2>1. QueueOK' /\ UNCHANGED <<InQueue, reserved>>
    BY <1>13, SameQueue DEF SkipFinished
  <2>2. WorkedInv'
    BY <1>13, <2>1 DEF SkipFinished, ghosts, LocalOK, LoopOK, HandlersOK, ShutdownOK,
       LoopInv, InFlight, Has, WorkedInv
  <2>3. StopInv'
    BY <1>13, <2>1 DEF SkipFinished, ghosts, LocalOK, LoopOK, HandlersOK, ShutdownOK,
       LoopInv, InFlight, Has, StopInv
  <2>4. QED
    BY <2>1, <2>2, <2>3
<1>14. ASSUME NEW w \in Workers, NEW l \in LeaseIds, HandBackAcks(w, l)
      PROVE  WorkedInv' /\ StopInv'
  <2>1. QueueOK' /\ InQueue' = InQueue \ {reserved[l]} /\ LeaseCleared(l)
    BY <1>14, AckedCall DEF HandBackAcks
  <2>2. WorkedInv'
    BY <1>14, <2>1 DEF HandBackAcks, ghosts, LocalOK, LoopOK, HandlersOK, ShutdownOK,
       LoopInv, InFlight, Has, WorkedInv
  <2>3. StopInv'
    BY <1>14, <2>1 DEF HandBackAcks, ghosts, LocalOK, LoopOK, HandlersOK, ShutdownOK,
       LoopInv, InFlight, Has, StopInv
  <2>4. QED
    BY <2>1, <2>2, <2>3
<1>15. ASSUME NEW w \in Workers, HandBackEnqueues(w)
      PROVE  WorkedInv' /\ StopInv'
  <2>0. PICK j \in Jobs :
          /\ UnitOf[j] = UnitOf[jobOf[w][turn[w]]] /\ Queue!Enqueue(j)
          /\ handedBack' = handedBack \cup {UnitOf[j]}
    BY <1>15 DEF HandBackEnqueues, CopyOf
  <2>1. QueueOK' /\ InQueue' = InQueue \cup {j} /\ reserved' = reserved
    BY <2>0, EnqueueCall
  <2>2. WorkedInv'
    BY <1>15, <2>0, <2>1 DEF HandBackEnqueues, LocalOK, LoopOK, HandlersOK, ShutdownOK,
       LoopInv, InFlight, Has, WorkedInv
  <2>3. StopInv'
    BY <1>15, <2>0, <2>1 DEF HandBackEnqueues, LocalOK, LoopOK, HandlersOK, ShutdownOK,
       LoopInv, InFlight, Has, StopInv
  <2>4. QED
    BY <2>1, <2>2, <2>3
<1>16. ASSUME NEW w \in Workers, HandBackSkips(w)
      PROVE  WorkedInv' /\ StopInv'
  <2>1. QueueOK' /\ UNCHANGED <<InQueue, reserved>>
    BY <1>16, SameQueue DEF HandBackSkips
  <2>2. WorkedInv'
    BY <1>16, <2>1 DEF HandBackSkips, ghosts, LocalOK, LoopOK, HandlersOK, ShutdownOK,
       LoopInv, InFlight, Has, WorkedInv
  <2>3. StopInv'
    BY <1>16, <2>1 DEF HandBackSkips, ghosts, LocalOK, LoopOK, HandlersOK, ShutdownOK,
       LoopInv, InFlight, Has, StopInv
  <2>4. QED
    BY <2>1, <2>2, <2>3
<1>17. ASSUME NEW w \in Workers, Exit(w)
      PROVE  WorkedInv' /\ StopInv'
  <2>1. QueueOK' /\ UNCHANGED <<InQueue, reserved>>
    BY <1>17, SameQueue DEF Exit
  <2>2. WorkedInv'
    BY <1>17, <2>1, NoLeaseAssumption DEF Exit, Vanish, HandedBack, ghosts, LocalOK,
       LoopOK, HandlersOK, ShutdownOK, LoopInv, InFlight, Has, WorkedInv
  <2>3. StopInv'
    BY <1>17, <2>1 DEF Exit, Vanish, HandedBack, ghosts, LocalOK, LoopOK, HandlersOK,
       ShutdownOK, LoopInv, InFlight, Has, StopInv
  <2>4. QED
    BY <2>1, <2>2, <2>3
<1>18. ASSUME NEW w \in Workers, Die(w)
      PROVE  WorkedInv' /\ StopInv'
  <2>1. QueueOK' /\ InQueue' \subseteq InQueue /\ reserved' = reserved
    BY <1>18, ForgetCall DEF Die
  <2>2. WorkedInv'
    BY <1>18, <2>1, NoLeaseAssumption DEF Die, Vanish, ghosts, LocalOK, LoopOK,
       HandlersOK, ShutdownOK, LoopInv, InFlight, Has, WorkedInv
  <2>3. StopInv'
    BY <1>18, <2>1 DEF Die, Vanish, ghosts, LocalOK, LoopOK, HandlersOK, ShutdownOK,
       LoopInv, InFlight, Has, StopInv
  <2>4. QED
    BY <2>1, <2>2, <2>3
<1>19. ASSUME Tick
      PROVE  WorkedInv' /\ StopInv'
  <2>1. QueueOK' /\ UNCHANGED <<InQueue, reserved>>
    BY <1>19, TickCall DEF Tick
  <2>2. WorkedInv'
    BY <1>19, <2>1 DEF Tick, local, ghosts, LocalOK, LoopOK, HandlersOK, ShutdownOK,
       LoopInv, InFlight, Has, WorkedInv
  <2>3. StopInv'
    BY <1>19, <2>1 DEF Tick, local, ghosts, LocalOK, LoopOK, HandlersOK, ShutdownOK,
       LoopInv, InFlight, Has, StopInv
  <2>4. QED
    BY <2>1, <2>2, <2>3
<1>20. CASE UNCHANGED vars
  <2>1. QueueOK' /\ UNCHANGED <<InQueue, reserved>>
    BY <1>20, SameQueue DEF vars
  <2>2. WorkedInv'
    BY <1>20, <2>1 DEF vars, local, ghosts, LocalOK, LoopOK, HandlersOK, ShutdownOK,
       LoopInv, InFlight, Has, WorkedInv
  <2>3. StopInv'
    BY <1>20, <2>1 DEF vars, local, ghosts, LocalOK, LoopOK, HandlersOK, ShutdownOK,
       LoopInv, InFlight, Has, StopInv
  <2>4. QED
    BY <2>1, <2>2, <2>3
<1>21. QED
  BY <1>1, <1>2, <1>3, <1>4, <1>5, <1>6, <1>7, <1>8, <1>9, <1>10, <1>11, <1>12, <1>13,
     <1>14, <1>15, <1>16, <1>17, <1>18, <1>19, <1>20 DEF Next, Loop, Handler, Shutdown

-----------------------------------------------------------------------------
(* Type correctness, and who holds what *)

Inv ==
  /\ QueueOK /\ LocalOK /\ GhostsOK
  /\ LeaseInv /\ UnitInv /\ CopyInv /\ WorkedInv /\ StopInv

LEMMA InitInv == Init => Inv
<1> SUFFICES ASSUME Init
             PROVE  Inv
  OBVIOUS
<1>1. QueueOK /\ InQueue = {}
  <2>1. Proved!Init
    BY DEF Init, Queue!Init, Proved!Init, Queue!NoneServed, Proved!NoneServed
  <2>2. Proved!TypeOK /\ Proved!OneCopy /\ Proved!Present = {}
    BY <2>1, QueueAssumptions, Proved!StartsEmpty
  <2>3. QED
    BY <2>2, QueueIsProved DEF QueueOK
<1>2. LocalOK /\ \A w \in Workers : Has(w) = {} /\ InFlight(w) = {}
  BY NoLeaseAssumption DEF Init, LocalOK, LoopOK, HandlersOK, ShutdownOK, LoopInv,
     InFlight, Has
<1>3. LeaseInv /\ UnitInv /\ CopyInv /\ WorkedInv
  BY <1>1, <1>2 DEF LeaseInv, UnitInv, CopyInv, WorkedInv
<1>4. GhostsOK /\ StopInv
  BY MaxThrowsAssumption DEF Init, GhostsOK, StopInv
<1>5. QED
  BY <1>1, <1>2, <1>3, <1>4 DEF Inv

LEMMA Invariant == Spec => []Inv
<1>1. Inv /\ [Next]_vars => Inv'
  BY LocalStep, LeaseStep, UnitStep, CopyStep, WorkedStep DEF Inv
<1>2. QED
  BY <1>1, InitInv, PTL DEF Spec

\* The queue, the loops, the handlers and the shutdowns hold values of their
\* types; in particular no work is done or handed back that was not submitted.
THEOREM TypeCorrect == Spec => []TypeOK
<1>1. Inv => TypeOK
  BY DEF Inv, QueueOK, LocalOK, TypeOK
<1>2. QED
  BY <1>1, Invariant, PTL

\* However sweeps, admits, acks and deaths interleave, no two handlers work on
\* one unit under leases that are both still good, but for a unit that a
\* shutdown handed back.
THEOREM NoTwoHolders == Spec => []OneLiveHolder
<1>1. Inv => OneLiveHolder
  <2> SUFFICES ASSUME Inv, NEW w \in Workers, NEW v \in Workers,
                      NEW l \in LeaseIds, NEW m \in LeaseIds,
                      Holding(w, l), Holding(v, m),
                      UnitOf[jobOf[w][l]] = UnitOf[jobOf[v][m]],
                      UnitOf[jobOf[w][l]] \notin handedBack
               PROVE  w = v /\ l = m
    BY DEF OneLiveHolder
  <2>1. l \in Has(w) /\ m \in Has(v)
    BY DEF Holding, Has, InFlight
  <2>2. reserved[l] = jobOf[w][l] /\ reserved[m] = jobOf[v][m]
    BY <2>1 DEF Inv, LeaseInv, Holding
  <2>3. l \in Queue!Taken /\ m \in Queue!Taken
    BY DEF Holding, Queue!Taken
  <2>4. reserved[l] \in InQueue /\ reserved[m] \in InQueue
    BY <2>3 DEF InQueue, Queue!Reserved
  <2>5. reserved[l] = reserved[m]
    BY <2>2, <2>4 DEF Inv, CopyInv
  <2>6. l = m
    BY <2>3, <2>5 DEF Inv, QueueOK, Queue!OneCopy
  <2>7. QED
    BY <2>1, <2>6 DEF Inv, LeaseInv
<1>2. QED
  BY <1>1, Invariant, PTL

-----------------------------------------------------------------------------
(* Nothing is lost *)

\* A worker that dies between two steps and not in the middle of one that takes
\* a job out of the queue leaves the queue as it is.
LEMMA CleanDeath ==
  ASSUME QueueOK, LocalOK, ~ DieMidway, NEW w \in Workers, Die(w)
  PROVE  UNCHANGED queue
<1>1. inHand[w] = NoJob
  BY DEF Die, LocalOK, LoopInv
<1>2. NoJob \notin reclaimed
  BY NoJobNotInQueue DEF InQueue
<1>3. QED
  BY <1>1, <1>2 DEF Die, queue

\* A unit is out of danger while it is done, in the queue or on its way back.
Safe(u) == u \in done \/ (\E j \in InQueue : UnitOf[j] = u) \/ HandingBack(u)

LEMMA Kept ==
  ASSUME NothingLost, submitted' = submitted, submitted \subseteq Units,
         done \subseteq done',
         \A j \in InQueue :
           j \in InQueue' \/ UnitOf[j] \in done' \/ HandingBack(UnitOf[j])',
         \A u \in Units : HandingBack(u) => Safe(u)'
  PROVE  NothingLost'
  BY DEF NothingLost, Safe

LEMMA NothingLostStep ==
  ASSUME QueueOK, LocalOK, LeaseInv, WorkedInv, StopInv, submitted \subseteq Units,
         NothingLost, ~ DieMidway, Stoppable \cap Throwing = {}, [Next]_vars
  PROVE  NothingLost'
<1>1. ASSUME NEW u \in Units, Submit(u)
      PROVE  NothingLost'
  <2>0. PICK j \in Jobs :
          /\ UnitOf[j] = u /\ Queue!Enqueue(j)
    BY <1>1 DEF Submit, CopyOf
  <2>1. QueueOK' /\ InQueue' = InQueue \cup {j} /\ reserved' = reserved
    BY <2>0, EnqueueCall
  <2>2. \A v \in Units : HandingBack(v)' <=> HandingBack(v)
    BY <1>1 DEF Submit, local, HandingBack, InFlight
  <2>3. QED
    BY <1>1, <2>0, <2>1, <2>2 DEF Submit, NothingLost
<1>2. ASSUME NEW w \in Workers, NEW l \in LeaseIds, SweepClaim(w, l)
      PROVE  NothingLost'
  <2>1. QueueOK' /\ InQueue' = InQueue /\ LeaseCleared(l) /\ reserved[l] \in Jobs
    BY <1>2, ReapClaimCall DEF SweepClaim
  <2>2. \A u \in Units : HandingBack(u) => Safe(u)'
    BY <1>2, <2>1 DEF SweepClaim, ghosts, LocalOK, LoopOK, HandlersOK, ShutdownOK,
       LoopInv, InFlight, HandingBack, Safe
  <2>3. QED
    BY <1>2, <2>1, <2>2, Kept DEF SweepClaim, ghosts
<1>3. ASSUME NEW w \in Workers, SweepEnqueue(w)
      PROVE  NothingLost'
  <2>1. QueueOK' /\ UNCHANGED <<InQueue, reserved>>
    BY <1>3, ReapEnqueueCall DEF SweepEnqueue, LocalOK, LoopOK
  <2>2. \A u \in Units : HandingBack(u) => Safe(u)'
    BY <1>3, <2>1 DEF SweepEnqueue, ghosts, LocalOK, LoopOK, HandlersOK, ShutdownOK,
       LoopInv, InFlight, HandingBack, Safe
  <2>3. QED
    BY <1>3, <2>1, <2>2, Kept DEF SweepEnqueue, ghosts
<1>4. ASSUME NEW w \in Workers, NEW l \in LeaseIds, AdmitRuns(w, l)
      PROVE  NothingLost'
  <2>0. QueueOK' /\ InQueue' = InQueue
    BY <1>4, AdmitCall DEF AdmitRuns
  <2>1. PICK h \in InQueue \cap Jobs :
          \A m \in LeaseIds : reserved'[m] = IF m = l THEN h ELSE reserved[m]
    BY <1>4, AdmitCall DEF AdmitRuns
  <2>2. \A u \in Units : HandingBack(u) => Safe(u)'
    BY <1>4, <2>0, <2>1 DEF AdmitRuns, ghosts, LocalOK, LoopOK, HandlersOK, ShutdownOK,
       LoopInv, InFlight, HandingBack, Safe
  <2>3. QED
    BY <1>4, <2>0, <2>1, <2>2, Kept DEF AdmitRuns, ghosts
<1>5. ASSUME NEW w \in Workers, Handle(w)
      PROVE  NothingLost'
  <2>1. QueueOK' /\ UNCHANGED <<InQueue, reserved>>
    BY <1>5, SameQueue DEF Handle
  <2>2. \A u \in Units : HandingBack(u) => Safe(u)'
    BY <1>5, <2>1 DEF Handle, ghosts, LocalOK, LoopOK, HandlersOK, ShutdownOK, LoopInv,
       InFlight, HandingBack, Safe
  <2>3. QED
    BY <1>5, <2>1, <2>2, Kept DEF Handle, ghosts
<1>6. ASSUME NEW w \in Workers, LoopExits(w)
      PROVE  NothingLost'
  <2>1. QueueOK' /\ UNCHANGED <<InQueue, reserved>>
    BY <1>6, SameQueue DEF LoopExits
  <2>2. \A u \in Units : HandingBack(u) => Safe(u)'
    BY <1>6, <2>1 DEF LoopExits, ghosts, LocalOK, LoopOK, HandlersOK, ShutdownOK,
       LoopInv, InFlight, HandingBack, Safe
  <2>3. QED
    BY <1>6, <2>1, <2>2, Kept DEF LoopExits, ghosts
<1>7. ASSUME NEW w \in Workers, NEW l \in LeaseIds, Work(w, l)
      PROVE  NothingLost'
  <2>1. QueueOK' /\ UNCHANGED <<InQueue, reserved>>
    BY <1>7, SameQueue DEF Work
  <2>2. \A u \in Units : HandingBack(u) => Safe(u)'
    BY <1>7, <2>1 DEF Work, LocalOK, LoopOK, HandlersOK, ShutdownOK, LoopInv, InFlight,
       HandingBack, Safe
  <2>3. QED
    BY <1>7, <2>1, <2>2, Kept DEF Work
<1>8. ASSUME NEW w \in Workers, NEW l \in LeaseIds, HandlerAcks(w, l)
      PROVE  NothingLost'
  <2>1. QueueOK' /\ InQueue' = InQueue \ {reserved[l]} /\ LeaseCleared(l)
    BY <1>8, AckedCall DEF HandlerAcks
  <2>2. \A j \in InQueue \ InQueue' : j = jobOf[w][l]
    BY <1>8, <2>1, NoJobNotInQueue DEF HandlerAcks, LeaseInv, Has, InFlight
  <2>3. UnitOf[jobOf[w][l]] \in done
    BY <1>8 DEF HandlerAcks, WorkedInv, InFlight
  <2>4. \A u \in Units : HandingBack(u) => Safe(u)'
    BY <1>8, <2>1, <2>2, <2>3 DEF HandlerAcks, ghosts, LocalOK, LoopOK, HandlersOK,
       ShutdownOK, LoopInv, InFlight, HandingBack, Safe
  <2>5. QED
    BY <1>8, <2>1, <2>2, <2>3, <2>4, Kept DEF HandlerAcks, ghosts
<1>9. ASSUME NEW w \in Workers, NEW l \in LeaseIds, HandlerReturns(w, l)
      PROVE  NothingLost'
  <2>1. QueueOK' /\ UNCHANGED <<InQueue, reserved>>
    BY <1>9, SameQueue DEF HandlerReturns
  <2>2. \A u \in Units : HandingBack(u) => Safe(u)'
    BY <1>9, <2>1 DEF HandlerReturns, Left, ghosts, LocalOK, LoopOK, HandlersOK,
       ShutdownOK, LoopInv, InFlight, WorkedInv, HandingBack, Safe
  <2>3. QED
    BY <1>9, <2>1, <2>2, Kept DEF HandlerReturns, Left, ghosts
<1>10. ASSUME NEW w \in Workers, NEW l \in LeaseIds, HandlerThrows(w, l)
      PROVE  NothingLost'
  <2>1. QueueOK' /\ UNCHANGED <<InQueue, reserved>>
    BY <1>10, SameQueue DEF HandlerThrows
  <2>2. \A u \in Units : HandingBack(u) => Safe(u)'
    BY <1>10, <2>1 DEF HandlerThrows, Left, LocalOK, LoopOK, HandlersOK, ShutdownOK,
       LoopInv, InFlight, StopInv, HandingBack, Safe
  <2>3. QED
    BY <1>10, <2>1, <2>2, Kept DEF HandlerThrows, Left
<1>11. ASSUME NEW w \in Workers, Stop(w)
      PROVE  NothingLost'
  <2>1. QueueOK' /\ UNCHANGED <<InQueue, reserved>>
    BY <1>11, SameQueue DEF Stop
  <2>2. \A u \in Units : HandingBack(u) => Safe(u)'
    BY <1>11, <2>1 DEF Stop, ghosts, LocalOK, LoopOK, HandlersOK, ShutdownOK, LoopInv,
       InFlight, HandingBack, Safe
  <2>3. QED
    BY <1>11, <2>1, <2>2, Kept DEF Stop, ghosts
<1>12. ASSUME NEW w \in Workers, DrainEnds(w)
      PROVE  NothingLost'
  <2>1. QueueOK' /\ UNCHANGED <<InQueue, reserved>>
    BY <1>12, SameQueue DEF DrainEnds
  <2>2. \A u \in Units : HandingBack(u) => Safe(u)'
    BY <1>12, <2>1 DEF DrainEnds, ghosts, LocalOK, LoopOK, HandlersOK, ShutdownOK,
       LoopInv, InFlight, HandingBack, Safe
  <2>3. QED
    BY <1>12, <2>1, <2>2, Kept DEF DrainEnds, ghosts
<1>13. ASSUME NEW w \in Workers, NEW l \in LeaseIds, SkipFinished(w, l)
      PROVE  NothingLost'
  <2>1. QueueOK' /\ UNCHANGED <<InQueue, reserved>>
    BY <1>13, SameQueue DEF SkipFinished
  <2>2. \A u \in Units : HandingBack(u) => Safe(u)'
    BY <1>13, <2>1 DEF SkipFinished, ghosts, LocalOK, LoopOK, HandlersOK, ShutdownOK,
       LoopInv, InFlight, HandingBack, Safe
  <2>3. QED
    BY <1>13, <2>1, <2>2, Kept DEF SkipFinished, ghosts
<1>14. ASSUME NEW w \in Workers, NEW l \in LeaseIds, HandBackAcks(w, l)
      PROVE  NothingLost'
  <2>1. QueueOK' /\ InQueue' = InQueue \ {reserved[l]} /\ LeaseCleared(l)
    BY <1>14, AckedCall DEF HandBackAcks
  <2>2. \A j \in InQueue \ InQueue' : j = jobOf[w][l]
    BY <1>14, <2>1, NoJobNotInQueue DEF HandBackAcks, LeaseInv, Has, InFlight
  <2>3. HandingBack(UnitOf[jobOf[w][l]])'
    BY <1>14 DEF HandBackAcks, HandingBack, InFlight, LocalOK, ShutdownOK
  <2>4. \A u \in Units : HandingBack(u) => Safe(u)'
    BY <1>14, <2>1, <2>2, <2>3 DEF HandBackAcks, ghosts, LocalOK, LoopOK, HandlersOK,
       ShutdownOK, LoopInv, InFlight, HandingBack, Safe
  <2>5. QED
    BY <1>14, <2>1, <2>2, <2>3, <2>4, Kept DEF HandBackAcks, ghosts
<1>15. ASSUME NEW w \in Workers, HandBackEnqueues(w)
      PROVE  NothingLost'
  <2>0. PICK j \in Jobs :
          /\ UnitOf[j] = UnitOf[jobOf[w][turn[w]]] /\ Queue!Enqueue(j)
          /\ handedBack' = handedBack \cup {UnitOf[j]}
    BY <1>15 DEF HandBackEnqueues, CopyOf
  <2>1. QueueOK' /\ InQueue' = InQueue \cup {j} /\ reserved' = reserved
    BY <2>0, EnqueueCall
  <2>2. \A u \in Units : HandingBack(u) => Safe(u)'
    BY <1>15, <2>0, <2>1 DEF HandBackEnqueues, LocalOK, LoopOK, HandlersOK, ShutdownOK,
       LoopInv, InFlight, HandingBack, Safe
  <2>3. QED
    BY <1>15, <2>0, <2>1, <2>2, Kept DEF HandBackEnqueues
<1>16. ASSUME NEW w \in Workers, HandBackSkips(w)
      PROVE  NothingLost'
  <2>1. QueueOK' /\ UNCHANGED <<InQueue, reserved>>
    BY <1>16, SameQueue DEF HandBackSkips
  <2>2. \A u \in Units : HandingBack(u) => Safe(u)'
    BY <1>16, <2>1 DEF HandBackSkips, ghosts, LocalOK, LoopOK, HandlersOK, ShutdownOK,
       LoopInv, InFlight, HandingBack, Safe
  <2>3. QED
    BY <1>16, <2>1, <2>2, Kept DEF HandBackSkips, ghosts
<1>17. ASSUME NEW w \in Workers, Exit(w)
      PROVE  NothingLost'
  <2>1. QueueOK' /\ UNCHANGED <<InQueue, reserved>>
    BY <1>17, SameQueue DEF Exit
  <2>2. \A u \in Units : HandingBack(u) => Safe(u)'
    BY <1>17, <2>1 DEF Exit, Vanish, HandedBack, ghosts, LocalOK, LoopOK, HandlersOK,
       ShutdownOK, LoopInv, InFlight, HandingBack, Safe
  <2>3. QED
    BY <1>17, <2>1, <2>2, Kept DEF Exit, Vanish, HandedBack, ghosts
<1>18. ASSUME NEW w \in Workers, Die(w)
      PROVE  NothingLost'
  <2>1. QueueOK' /\ UNCHANGED <<InQueue, reserved>>
    BY <1>18, CleanDeath, SameQueue
  <2>2. \A u \in Units : HandingBack(u) => Safe(u)'
    BY <1>18, <2>1 DEF Die, Vanish, ghosts, LocalOK, LoopOK, HandlersOK, ShutdownOK,
       LoopInv, InFlight, HandingBack, Safe
  <2>3. QED
    BY <1>18, <2>1, <2>2, Kept DEF Die, Vanish, ghosts
<1>19. ASSUME Tick
      PROVE  NothingLost'
  <2>1. QueueOK' /\ UNCHANGED <<InQueue, reserved>>
    BY <1>19, TickCall DEF Tick
  <2>2. \A u \in Units : HandingBack(u) => Safe(u)'
    BY <1>19, <2>1 DEF Tick, local, ghosts, LocalOK, LoopOK, HandlersOK, ShutdownOK,
       LoopInv, InFlight, HandingBack, Safe
  <2>3. QED
    BY <1>19, <2>1, <2>2, Kept DEF Tick, local, ghosts
<1>20. CASE UNCHANGED vars
  <2>1. QueueOK' /\ UNCHANGED <<InQueue, reserved>>
    BY <1>20, SameQueue DEF vars
  <2>2. \A u \in Units : HandingBack(u) => Safe(u)'
    BY <1>20, <2>1 DEF vars, local, ghosts, LocalOK, LoopOK, HandlersOK, ShutdownOK,
       LoopInv, InFlight, HandingBack, Safe
  <2>3. QED
    BY <1>20, <2>1, <2>2, Kept DEF vars, local, ghosts
<1>21. QED
  BY <1>1, <1>2, <1>3, <1>4, <1>5, <1>6, <1>7, <1>8, <1>9, <1>10, <1>11, <1>12, <1>13,
     <1>14, <1>15, <1>16, <1>17, <1>18, <1>19, <1>20 DEF Next, Loop, Handler, Shutdown

\* A submitted unit that is not done is in the queue, under a lease or about to
\* be enqueued again, whoever dies, throws or is stopped: as long as nobody
\* dies with a job taken out of the queue and not yet put back, and handlers do
\* not throw in a worker that is shutting down.  (Run workers_throw shows what
\* happens if they do.)
THEOREM WorkIsKept ==
  ASSUME ~ DieMidway, Stoppable \cap Throwing = {}
  PROVE  Spec => []NothingLost
<1>1. Init => NothingLost
  BY DEF Init, NothingLost
<1>2. Inv /\ NothingLost /\ [Next]_vars => NothingLost'
  BY NothingLostStep DEF Inv, GhostsOK
<1>3. QED
  BY <1>1, <1>2, Invariant, PTL DEF Spec

-----------------------------------------------------------------------------
(* The queue's promises *)

\* Each step of the workers is one call to the queue, or leaves it alone.
LEMMA OneCallEach ==
  ASSUME QueueOK, LocalOK, ~ DieMidway, [Next]_vars
  PROVE  Queue!Next \/ UNCHANGED queue
<1>1. ASSUME NEW u \in Units, Submit(u)
      PROVE  Queue!Next \/ UNCHANGED queue
  BY <1>1 DEF Submit, Queue!Next
<1>2. ASSUME NEW w \in Workers, NEW l \in LeaseIds, SweepClaim(w, l)
      PROVE  Queue!Next \/ UNCHANGED queue
  BY <1>2 DEF SweepClaim, Queue!Next
<1>3. ASSUME NEW w \in Workers, SweepEnqueue(w)
      PROVE  Queue!Next \/ UNCHANGED queue
  BY <1>3 DEF SweepEnqueue, Queue!Next, LocalOK, LoopOK
<1>4. ASSUME NEW w \in Workers, NEW l \in LeaseIds, AdmitRuns(w, l)
      PROVE  Queue!Next \/ UNCHANGED queue
  BY <1>4 DEF AdmitRuns, Queue!Next, Queue!Admit
<1>5. ASSUME NEW w \in Workers, Handle(w)
      PROVE  Queue!Next \/ UNCHANGED queue
  BY <1>5 DEF Handle
<1>6. ASSUME NEW w \in Workers, LoopExits(w)
      PROVE  Queue!Next \/ UNCHANGED queue
  BY <1>6 DEF LoopExits
<1>7. ASSUME NEW w \in Workers, NEW l \in LeaseIds, Work(w, l)
      PROVE  Queue!Next \/ UNCHANGED queue
  BY <1>7 DEF Work
<1>8. ASSUME NEW w \in Workers, NEW l \in LeaseIds, HandlerAcks(w, l)
      PROVE  Queue!Next \/ UNCHANGED queue
  BY <1>8 DEF HandlerAcks, Acked, Queue!Next
<1>9. ASSUME NEW w \in Workers, NEW l \in LeaseIds, HandlerReturns(w, l)
      PROVE  Queue!Next \/ UNCHANGED queue
  BY <1>9 DEF HandlerReturns
<1>10. ASSUME NEW w \in Workers, NEW l \in LeaseIds, HandlerThrows(w, l)
      PROVE  Queue!Next \/ UNCHANGED queue
  BY <1>10 DEF HandlerThrows
<1>11. ASSUME NEW w \in Workers, Stop(w)
      PROVE  Queue!Next \/ UNCHANGED queue
  BY <1>11 DEF Stop
<1>12. ASSUME NEW w \in Workers, DrainEnds(w)
      PROVE  Queue!Next \/ UNCHANGED queue
  BY <1>12 DEF DrainEnds
<1>13. ASSUME NEW w \in Workers, NEW l \in LeaseIds, SkipFinished(w, l)
      PROVE  Queue!Next \/ UNCHANGED queue
  BY <1>13 DEF SkipFinished
<1>14. ASSUME NEW w \in Workers, NEW l \in LeaseIds, HandBackAcks(w, l)
      PROVE  Queue!Next \/ UNCHANGED queue
  BY <1>14 DEF HandBackAcks, Acked, Queue!Next
<1>15. ASSUME NEW w \in Workers, HandBackEnqueues(w)
      PROVE  Queue!Next \/ UNCHANGED queue
  BY <1>15 DEF HandBackEnqueues, Queue!Next
<1>16. ASSUME NEW w \in Workers, HandBackSkips(w)
      PROVE  Queue!Next \/ UNCHANGED queue
  BY <1>16 DEF HandBackSkips
<1>17. ASSUME NEW w \in Workers, Exit(w)
      PROVE  Queue!Next \/ UNCHANGED queue
  BY <1>17 DEF Exit
<1>18. ASSUME NEW w \in Workers, Die(w)
      PROVE  Queue!Next \/ UNCHANGED queue
  BY <1>18, CleanDeath
<1>19. ASSUME Tick
      PROVE  Queue!Next \/ UNCHANGED queue
  BY <1>19 DEF Tick, Queue!Next
<1>20. CASE UNCHANGED vars
  BY <1>20 DEF vars
<1>21. QED
  BY <1>1, <1>2, <1>3, <1>4, <1>5, <1>6, <1>7, <1>8, <1>9, <1>10, <1>11, <1>12, <1>13,
     <1>14, <1>15, <1>16, <1>17, <1>18, <1>19, <1>20 DEF Next, Loop, Handler, Shutdown

\* The workers call the queue and change it in no other way, so that what is true
\* of FairQueue is true of the queue they share.
LEMMA WorkersDriveQueue ==
  ASSUME ~ DieMidway
  PROVE  Spec => Queue!Spec
<1>1. Init => Queue!Init
  BY DEF Init
<1>2. Inv /\ [Next]_vars => [Queue!Next]_(Queue!vars)
  BY OneCallEach DEF Inv, Queue!vars, queue
<1>3. QED
  BY <1>1, <1>2, Invariant, PTL DEF Spec, Queue!Spec

LEMMA QueueSpecIsProved == Queue!Spec => Proved!Spec
<1>1. Queue!Init => Proved!Init
  BY DEF Queue!Init, Proved!Init, Queue!NoneServed, Proved!NoneServed
<1>2. Queue!Next => Proved!Next
  BY DEF Queue!Next, Proved!Next, Queue!Enqueue, Proved!Enqueue, Queue!Push,
     Proved!Push, Queue!AddToRing, Proved!AddToRing, Queue!AllWaiting,
     Proved!AllWaiting, Queue!Waiting, Proved!Waiting, Queue!ToSet, Proved!ToSet,
     Queue!Reserved, Proved!Reserved, Queue!Taken, Proved!Taken, Queue!Admit,
     Proved!Admit, Queue!TryAdmit, Proved!TryAdmit, Queue!HasCapacity,
     Proved!HasCapacity, Queue!Live, Proved!Live, Queue!Serve, Proved!Serve,
     Queue!Rotated, Proved!Rotated, Queue!Granted, Proved!Granted, Queue!InRing,
     Proved!InRing, Queue!Contains, Proved!Contains, Queue!NoneServed,
     Proved!NoneServed, Queue!Cardinality, Proved!Cardinality, Queue!Ack, Proved!Ack,
     Queue!ReapClaim, Proved!ReapClaim, Queue!Expired, Proved!Expired,
     Queue!ReapEnqueue, Proved!ReapEnqueue, Queue!PurgePending, Proved!PurgePending,
     Queue!LeaveRing, Proved!LeaveRing, Queue!RemoveAt, Proved!RemoveAt,
     Queue!PurgeWorkspace, Proved!PurgeWorkspace, Queue!Tick, Proved!Tick
<1>3. [Queue!Next]_(Queue!vars) => [Proved!Next]_(Proved!vars)
  BY <1>2 DEF Queue!vars, Proved!vars
<1>4. QED
  BY <1>1, <1>3, PTL DEF Queue!Spec, Proved!Spec

\* The workers together keep the queue's promise: a copy that was submitted
\* waits, is held or has lapsed until it is settled; none goes missing.
THEOREM WorkersKeepPromise ==
  ASSUME ~ DieMidway
  PROVE  Spec => Queue!ImplementsJobQueue
<1>1. Proved!Promise!Init => Queue!Promise!Init
  BY DEF Queue!Promise!Init, Proved!Promise!Init, Queue!AllWaiting, Proved!AllWaiting,
     Queue!Waiting, Proved!Waiting, Queue!ToSet, Proved!ToSet, Queue!Live, Proved!Live,
     Queue!Expired, Proved!Expired, Queue!Taken, Proved!Taken
<1>2. [Proved!Promise!Next]_(Proved!Promise!vars)
        => [Queue!Promise!Next]_(Queue!Promise!vars)
  BY DEF Queue!Promise!Init, Proved!Promise!Init, Queue!Promise!Submit,
     Proved!Promise!Submit, Queue!Promise!Grant, Proved!Promise!Grant,
     Queue!Promise!Lapse, Proved!Promise!Lapse, Queue!Promise!GiveBack,
     Proved!Promise!GiveBack, Queue!Promise!Settle, Proved!Promise!Settle,
     Queue!Promise!Withdraw, Proved!Promise!Withdraw, Queue!Promise!Next,
     Proved!Promise!Next, Queue!Promise!vars, Proved!Promise!vars,
     Queue!Promise!Cardinality, Proved!Promise!Cardinality, Queue!AllWaiting,
     Proved!AllWaiting, Queue!Waiting, Proved!Waiting, Queue!ToSet, Proved!ToSet,
     Queue!Live, Proved!Live, Queue!Expired, Proved!Expired, Queue!Taken, Proved!Taken
<1>3. Proved!ImplementsJobQueue => Queue!ImplementsJobQueue
  BY <1>1, <1>2, PTL DEF Queue!ImplementsJobQueue, Proved!ImplementsJobQueue,
     Queue!Promise!Spec, Proved!Promise!Spec
<1>4. Proved!Spec => Proved!ImplementsJobQueue
  BY QueueAssumptions, Proved!QueueKeepsPromise
<1>5. QED
  BY <1>3, <1>4, QueueSpecIsProved, WorkersDriveQueue, PTL

\* In particular no two leases, lists or reapers ever hold one copy of a job, ...
THEOREM CopiesStayApart == Spec => []Queue!OneCopy
<1>1. Inv => Queue!OneCopy
  BY DEF Inv, QueueOK
<1>2. QED
  BY <1>1, Invariant, PTL

\* ... the cap holds for all the workers together, and none of the workspaces
\* they serve is overtaken twice.
THEOREM WorkersShareFairly ==
  ASSUME ~ DieMidway
  PROVE  Spec => [](Queue!CapRespected /\ Queue!NoOvertaking)
<1>1. Proved!Spec => []Proved!CapRespected /\ []Proved!NoOvertaking
  BY QueueAssumptions, Proved!CapHolds, Proved!RoundRobin, PTL
<1>2. /\ Queue!CapRespected <=> Proved!CapRespected
      /\ Queue!NoOvertaking <=> Proved!NoOvertaking
  BY DEF Queue!CapRespected, Proved!CapRespected, Queue!NoOvertaking,
     Proved!NoOvertaking, Queue!Live, Proved!Live, Queue!Taken, Proved!Taken,
     Queue!InRing, Proved!InRing, Queue!Contains, Proved!Contains, Queue!Cardinality,
     Proved!Cardinality
<1>3. QED
  BY <1>1, <1>2, QueueSpecIsProved, WorkersDriveQueue, PTL

=============================================================================
