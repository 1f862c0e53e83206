----------------------------- MODULE FairQueue ------------------------------
(***************************************************************************)
(* The fair queue of one job class: queue/backend.ts as implemented by     *)
(* queue/inMemoryBackend.ts and queue/redisBackend.ts, driven through      *)
(* queue/dispatcher.ts.                                                    *)
(*                                                                         *)
(* Each workspace has a FIFO list of jobs, and a ring holds the workspaces *)
(* that have any, in the order they will be served.  Admitting takes the   *)
(* workspace at the head of the ring, pops its oldest job and records it   *)
(* under a lease; the workspace goes to the back of the ring if it has     *)
(* more.  A lease that is not acked in time stops counting against the cap *)
(* at once, and a reaper later claims it and enqueues its job again.       *)
(*                                                                         *)
(* A job here is one enqueued COPY of a unit of work: enqueueing the same  *)
(* unit again is another element of Jobs.  A lease's expiry is kept as the *)
(* time it has left (expiresAtMs - now), so no clock has to be bounded.    *)
(*                                                                         *)
(* An operator Name_Variant before Name is a mutation of it: what the code *)
(* could plausibly have said instead, for which some property must fail.   *)
(***************************************************************************)
EXTENDS Integers, Sequences, FiniteSets, SequencesExt

CONSTANTS Workspaces,
          Jobs,
          Owner,              \* [Jobs -> Workspaces], QueueJob.workspaceId
          NoJob,              \* what a lease id that is not in use holds
          LeaseIds,           \* randomUUID()s; an id nobody holds is fresh
          LeaseTtl,           \* AdmitOptions.leaseTtlMs
          MaxGlobalInFlight,  \* AdmitOptions.maxGlobalInFlight
          NoCap               \* its null: bounded by the workers only

ASSUME OwnerAssumption == Owner \in [Jobs -> Workspaces]
ASSUME NoJobAssumption == NoJob \notin Jobs
ASSUME LeaseIdsAssumption == IsFiniteSet(LeaseIds)
ASSUME LeaseTtlAssumption == LeaseTtl \in Nat \ {0}
ASSUME CapAssumption == MaxGlobalInFlight = NoCap \/ MaxGlobalInFlight \in Nat

VARIABLES
  lists,      \* ClassState.lists: per workspace, its waiting jobs in order
  ring,       \* ClassState.ring: the workspaces with waiting jobs, head first
  reserved,   \* ClassState.leases: per lease id, the job it holds
  left,       \* per lease id, expiresAtMs - now, never below zero
  reclaimed,  \* jobs a reaper has claimed and not yet enqueued again
  passed      \* ghost: per waiting workspace, how often each other workspace
              \* was served since it last was, or since it joined the ring

vars == <<lists, ring, reserved, left, reclaimed, passed>>

NoneServed == [u \in Workspaces |-> 0]

Init ==
  /\ lists = [w \in Workspaces |-> <<>>]
  /\ ring = <<>>
  /\ reserved = [l \in LeaseIds |-> NoJob]
  /\ left = [l \in LeaseIds |-> 0]
  /\ reclaimed = {}
  /\ passed = [w \in Workspaces |-> NoneServed]

-----------------------------------------------------------------------------
Waiting(w) == ToSet(lists[w])
AllWaiting == UNION {Waiting(w) : w \in Workspaces}
InRing(w)  == Contains(ring, w)
Taken      == {l \in LeaseIds : reserved[l] # NoJob}
Live       == {l \in Taken : left[l] > 0}
Expired    == {l \in Taken : left[l] <= 0}
Reserved   == {reserved[l] : l \in Taken}

\* Only leases that are still good count against the cap.
HasCapacity_OffByOne ==
  MaxGlobalInFlight # NoCap => Cardinality(Live) <= MaxGlobalInFlight
HasCapacity ==
  MaxGlobalInFlight # NoCap => Cardinality(Live) < MaxGlobalInFlight

\* A workspace joins the ring, at the back, when its list's length becomes one.
AddToRing_Always(w) == Append(ring, w)
AddToRing_InFront(w) == IF Len(lists[w]) = 0 THEN <<w>> \o ring ELSE ring
AddToRing(w) == IF Len(lists[w]) = 0 THEN Append(ring, w) ELSE ring

Push_InFront(j) ==
  /\ lists' = [lists EXCEPT ![Owner[j]] = <<j>> \o @]
  /\ ring' = AddToRing(Owner[j])
Push(j) ==
  /\ lists' = [lists EXCEPT ![Owner[j]] = Append(@, j)]
  /\ ring' = AddToRing(Owner[j])

Enqueue(j) ==
  /\ j \notin AllWaiting \cup Reserved \cup reclaimed
  /\ Push(j)
  /\ UNCHANGED <<reserved, left, reclaimed, passed>>

\* The ring once w has been served: at the back if it has more, else out.
Rotated_Out(w, rest) == rest
Rotated(w, rest) == IF Len(lists[w]) > 1 THEN Append(rest, w) ELSE rest

\* The job goes under the lease.  Expired leases are left alone: each still
\* carries a job that only a reaper may take.
Granted_Trimming(l, j) ==
  [m \in LeaseIds |-> IF m = l THEN j
                      ELSE IF m \in Expired THEN NoJob ELSE reserved[m]]
Granted(l, j) == [reserved EXCEPT ![l] = j]

\* The admit of lease l serves the k-th entry of the ring, the first whose
\* list is not empty; stale entries before it are dropped on the way.
Serve(l, k) ==
  LET w == ring[k]
  IN  /\ lists[w] # <<>>
      /\ \A i \in 1..(k - 1) : lists[ring[i]] = <<>>
      /\ lists' = [lists EXCEPT ![w] = Tail(@)]
      /\ ring' = Rotated(w, SubSeq(ring, k + 1, Len(ring)))
      /\ reserved' = Granted(l, Head(lists[w]))
      /\ left' = [left EXCEPT ![l] = LeaseTtl]
      /\ passed' = [v \in Workspaces |->
           IF v = w \/ ~ InRing(v) THEN NoneServed
           ELSE [passed[v] EXCEPT ![w] = @ + 1]]

\* An admit that finds no capacity or an empty ring answers null and changes
\* nothing.
TryAdmit(l) ==
  /\ reserved[l] = NoJob
  /\ HasCapacity
  /\ \E k \in DOMAIN ring : Serve(l, k)
  /\ UNCHANGED reclaimed

Ack(l) ==
  /\ reserved[l] # NoJob
  /\ reserved' = [reserved EXCEPT ![l] = NoJob]
  /\ left' = [left EXCEPT ![l] = 0]
  /\ UNCHANGED <<lists, ring, reclaimed, passed>>

\* A reaper takes an expired lease away (one script in Redis, one loop turn in
\* memory), and enqueues its job again in a later step.
ReapClaim_KeepsLease(l) ==
  /\ l \in Expired
  /\ reclaimed' = reclaimed \cup {reserved[l]}
  /\ UNCHANGED <<lists, ring, reserved, left, passed>>
ReapClaim(l) ==
  /\ l \in Expired
  /\ reclaimed' = reclaimed \cup {reserved[l]}
  /\ reserved' = [reserved EXCEPT ![l] = NoJob]
  /\ UNCHANGED <<lists, ring, left, passed>>

ReapEnqueue(j) ==
  /\ j \in reclaimed
  /\ reclaimed' = reclaimed \ {j}
  /\ Push(j)
  /\ UNCHANGED <<reserved, left, passed>>

\* ring.splice(ring.indexOf(w), 1), or LREM ring 1 w.
LeaveRing(w) ==
  \E i \in DOMAIN ring :
    /\ ring[i] = w
    /\ \A k \in 1..(i - 1) : ring[k] # w
    /\ ring' = RemoveAt(ring, i)

\* list.filter: what is kept is read at increasing positions.
PurgePending(w, keys) ==
  /\ Waiting(w) \cap keys # {}
  /\ \E n \in 0..Len(lists[w]) : \E at \in [1..n -> DOMAIN lists[w]] :
       /\ \A i, k \in 1..n : i < k => at[i] < at[k]
       /\ {at[i] : i \in 1..n} = {i \in DOMAIN lists[w] : lists[w][i] \notin keys}
       /\ lists' = [lists EXCEPT ![w] = [i \in 1..n |-> lists[w][at[i]]]]
  /\ IF Waiting(w) \subseteq keys THEN LeaveRing(w) ELSE UNCHANGED ring
  /\ passed' = IF Waiting(w) \subseteq keys
               THEN [passed EXCEPT ![w] = NoneServed] ELSE passed
  /\ UNCHANGED <<reserved, left, reclaimed>>

PurgeWorkspace(w) ==
  /\ lists[w] # <<>>
  /\ lists' = [lists EXCEPT ![w] = <<>>]
  /\ LeaveRing(w)
  /\ passed' = [passed EXCEPT ![w] = NoneServed]
  /\ UNCHANGED <<reserved, left, reclaimed>>

\* Time passes for every lease at once.
Tick_PastZero ==
  /\ Live # {}
  /\ left' = [l \in LeaseIds |-> left[l] - 1]
  /\ UNCHANGED <<lists, ring, reserved, reclaimed, passed>>
Tick ==
  /\ Live # {}
  /\ left' = [l \in LeaseIds |-> IF left[l] > 0 THEN left[l] - 1 ELSE 0]
  /\ UNCHANGED <<lists, ring, reserved, reclaimed, passed>>

Admit == \E l \in LeaseIds : TryAdmit(l)

Next ==
  \/ \E j \in Jobs : Enqueue(j)
  \/ Admit
  \/ \E l \in LeaseIds : Ack(l)
  \/ \E l \in LeaseIds : ReapClaim(l)
  \/ \E j \in Jobs : ReapEnqueue(j)
  \/ \E w \in Workspaces : \E keys \in SUBSET Waiting(w) : PurgePending(w, keys)
  \/ \E w \in Workspaces : PurgeWorkspace(w)
  \/ Tick

Spec == Init /\ [][Next]_vars

\* Some worker keeps asking (workerLoop.ts loop), some reaper keeps sweeping
\* (maybeReap) and finishes what it claimed, and time passes.  Nobody is
\* obliged to ack: a worker that died never will.
Fairness ==
  /\ WF_vars(Admit)
  /\ WF_vars(Tick)
  /\ \A l \in LeaseIds : WF_vars(ReapClaim(l))
  /\ \A j \in Jobs : WF_vars(ReapEnqueue(j))

FairSpec == Spec /\ Fairness

-----------------------------------------------------------------------------
TypeOK ==
  /\ lists \in [Workspaces -> Seq(Jobs)]
  /\ ring \in Seq(Workspaces)
  /\ reserved \in [LeaseIds -> Jobs \cup {NoJob}]
  /\ left \in [LeaseIds -> 0..LeaseTtl]
  /\ reclaimed \in SUBSET Jobs
  /\ passed \in [Workspaces -> [Workspaces -> Nat]]

\* The ring names every workspace that has waiting jobs exactly once, and no
\* other: a workspace missing from it would never be served, and one named
\* twice would be served twice per turn.
RingExact ==
  /\ IsInjective(ring)
  /\ \A w \in Workspaces : InRing(w) <=> lists[w] # <<>>

\* A copy of a job is in one place only: at one position of its own
\* workspace's list, under one lease, or in one reaper's hands.
OneCopy ==
  /\ \A w \in Workspaces : \A i, k \in DOMAIN lists[w] :
       /\ Owner[lists[w][i]] = w
       /\ lists[w][i] = lists[w][k] => i = k
  /\ \A l, m \in Taken : reserved[l] = reserved[m] => l = m
  /\ AllWaiting \cap Reserved = {}
  /\ (AllWaiting \cup Reserved) \cap reclaimed = {}

\* The admit script's capacity check and its reservation are one step, so the
\* live leases of a class never exceed its cap.
CapRespected ==
  MaxGlobalInFlight # NoCap => Cardinality(Live) <= MaxGlobalInFlight

\* Round robin by workspace, however many jobs each has: while a workspace is
\* waiting, no other one is served more than once before it gets its turn.
NoOvertaking ==
  \A w, u \in Workspaces : InRing(w) /\ u # w => passed[w][u] <= 1

\* The inductive form: a workspace that is still ahead has not been served yet.
Before(s, u, w) == \E i, k \in DOMAIN s : i < k /\ s[i] = u /\ s[k] = w

TurnsOwed ==
  \A w, u \in Workspaces :
    /\ InRing(w) /\ u # w => passed[w][u] + (IF Before(ring, u, w) THEN 1 ELSE 0) <= 1
    /\ ~ InRing(w) => passed[w][u] = 0

\* Within a workspace the queue is first in, first out: whoever stands before a
\* job after a step stood before it already, whether jobs join, leave or are
\* purged, and only the oldest is ever admitted.
FifoStep ==
  \A w \in Workspaces : \A k \in DOMAIN lists[w] :
    /\ \A p, q \in DOMAIN lists'[w] : p < q /\ lists'[w][q] = lists[w][k]
         => \E i \in DOMAIN lists[w] : i < k /\ lists'[w][p] = lists[w][i]
    /\ \A i \in DOMAIN lists[w] :
         i < k /\ lists[w][k] \in Reserved' => lists[w][i] \notin AllWaiting'
FifoPerWorkspace == [][FifoStep]_vars

\* No step of the lists, ring and leases does anything the abstract queue does
\* not allow: in particular no job is ever lost and no lease is ever doubled.
Promise == INSTANCE JobQueue WITH
  waiting <- AllWaiting,
  held    <- {reserved[l] : l \in Live},
  lapsed  <- {reserved[l] : l \in Expired} \cup reclaimed

ImplementsJobQueue == Promise!Spec

\* A waiting job does not wait for ever, even if nobody ever acks a lease and
\* however much the other workspaces enqueue: it is admitted or purged.
NeverStarved == \A j \in Jobs : j \in AllWaiting ~> j \notin AllWaiting
=============================================================================
