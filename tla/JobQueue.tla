------------------------------ MODULE JobQueue ------------------------------
(***************************************************************************)
(* What the queue promises to whoever uses it (queue/backend.ts), with no  *)
(* lists, no ring and no clock: a job that was submitted is waiting, held  *)
(* under a lease that is still good, or lapsed (its lease ran out and it   *)
(* has not been given back yet).  It leaves only by being settled by an    *)
(* ack or withdrawn by a purge, never by going missing, and no more than   *)
(* MaxGlobalInFlight jobs are held at once.                                *)
(***************************************************************************)
EXTENDS Integers, FiniteSets

CONSTANTS Jobs,               \* the copies of work that are ever enqueued
          MaxGlobalInFlight,  \* the cap on live leases, or NoCap
          NoCap               \* the null of AdmitOptions.maxGlobalInFlight

VARIABLES waiting, held, lapsed

vars == <<waiting, held, lapsed>>

Init == waiting = {} /\ held = {} /\ lapsed = {}

Submit(j) ==
  /\ j \notin waiting \cup held \cup lapsed
  /\ waiting' = waiting \cup {j}
  /\ UNCHANGED <<held, lapsed>>

Grant(j) ==
  /\ j \in waiting
  /\ MaxGlobalInFlight # NoCap => Cardinality(held) < MaxGlobalInFlight
  /\ waiting' = waiting \ {j}
  /\ held' = held \cup {j}
  /\ UNCHANGED lapsed

Lapse(S) ==
  /\ S # {}
  /\ held' = held \ S
  /\ lapsed' = lapsed \cup S
  /\ UNCHANGED waiting

GiveBack(j) ==
  /\ j \in lapsed
  /\ lapsed' = lapsed \ {j}
  /\ waiting' = waiting \cup {j}
  /\ UNCHANGED held

Settle(j) ==
  /\ j \in held \cup lapsed
  /\ held' = held \ {j}
  /\ lapsed' = lapsed \ {j}
  /\ UNCHANGED waiting

Withdraw(S) ==
  /\ S # {}
  /\ waiting' = waiting \ S
  /\ UNCHANGED <<held, lapsed>>

Next ==
  \/ \E j \in Jobs : Submit(j) \/ Grant(j) \/ GiveBack(j) \/ Settle(j)
  \/ \E S \in SUBSET held : Lapse(S)
  \/ \E S \in SUBSET waiting : Withdraw(S)

Spec == Init /\ [][Next]_vars
=============================================================================
