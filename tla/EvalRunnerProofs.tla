-------------------------- MODULE EvalRunnerProofs --------------------------
(***************************************************************************)
(* Theorems about EvalRunner, for any number of evals, jobs and runs, any  *)
(* assignment of evals to workspaces and of jobs to evals, any cap and     *)
(* budget, and any number of attempts.                                     *)
(*                                                                         *)
(* The invariants come in layers, each proved inductive from the ones      *)
(* before it.  A ...Step lemma has one step per action of Next:            *)
(*   Base       the types, and what a call under way has in hand;          *)
(*   KnownInv, UnstartedInv, StartingInv, WorkspaceInv                     *)
(*              who may be live in a workspace  (OneEvalPerWorkspace);     *)
(*   PoolInv    what the pool still has to lose  (PoolNeverFull);          *)
(*   PlacesInv  an attempt is sent once and is at one place from then on   *)
(*              (OneRunPerJob, ReservationsAccounted);                     *)
(*   StartsInv  the runs of a job are attempts it made  (AttemptsBounded); *)
(*   SuccessInv a success is final  (SuccessIsFinal);                      *)
(*   CalmInv, OwedInv, DoneInv                                             *)
(*              what an eval that nothing cuts short still owes            *)
(*              (SettledMeansIdle, NoMoreJobs).                            *)
(***************************************************************************)
EXTENDS EvalRunner, FiniteSetTheorems, TLAPS

-----------------------------------------------------------------------------
(* Types and places *)

\* A call that is under way has what its place in the code says.
ThreadInv ==
  /\ \A t \in Threads : pc[t] = "sending" => cur[t] \in Keys
  /\ \A r \in Runs : r \in pool => pc[r] = "idle" /\ key[r] \in Keys
  /\ \A r \in Runs : pc[r] # "idle" => pc[r] # "starting" /\ key[r] \in Keys
  /\ \A r \in Runs : pc[r] = "retry" => key[r][2] + 1 < MaxAttempts
  /\ \A e \in Evals : pc[e] \notin ExitAt

\* The drain has an attempt in hand outside "idle" and "admit", and a run for
\* it between the slot and the start.
Draining == drainAt \notin {"idle", "admit"}
DrainInv ==
  /\ Draining <=> drainKey \in Keys
  /\ Starting <=> drainRun \in Runs
  /\ Starting => drainRun \notin pool /\ pc[drainRun] = "idle" /\ key[drainRun] = drainKey

PlaceInv == ThreadInv /\ DrainInv
Base == TypeOK /\ PlaceInv

\* An attempt is a job and a number; a call under way belongs to an eval.
LEMMA KeyParts ==
  ASSUME NEW k \in Keys
  PROVE  k[1] \in Jobs /\ k[2] \in 0..MaxAttempts /\ EvalOf[k[1]] \in Evals
  BY EvalOfAssumption DEF Keys

LEMMA EvalType ==
  ASSUME Base, NEW t \in Threads, pc[t] # "idle"
  PROVE  Eval(t) \in Evals
  BY KeyParts DEF Base, PlaceInv, ThreadInv, Threads, Eval

\* The updates of a job's row keep its type.
LEMMA RowEdits ==
  ASSUME NEW x \in JobRows
  PROVE  /\ \A s \in Statuses : [x EXCEPT !.status = s] \in JobRows
         /\ \A a \in 0..MaxAttempts :
              [x EXCEPT !.status = "running", !.attempt = a] \in JobRows
         /\ [x EXCEPT !.backoff = FALSE] \in JobRows
  BY DEF JobRows, Statuses

LEMMA NewRowType == NewRow \in JobRows
<1>1. 0 \in 0..MaxAttempts
  BY LimitsAssumption
<1>2. QED
  BY <1>1 DEF JobRows, Statuses, NewRow

\* What a scan finds is attempts.
LEMMA EligibleKeys ==
  ASSUME RowsOK, NEW e \in Evals
  PROVE  Eligible(e) \subseteq Keys
  BY DEF RowsOK, JobRows, Eligible, KeyOf, JobsOf, Keys

\* What pump's first line, or the end of a call, leaves of the thread.
LEMMA PumpEffect ==
  ASSUME Base, NEW t \in Threads, Pump(t) \/ Ends(t)
  PROVE  /\ pc' = [pc EXCEPT ![t] = pc'[t]] /\ pc'[t] \in {"budget", "idle"}
         /\ key' \in [Runs -> Keys \cup {NoKey}]
         /\ \A r \in Runs : r # t \/ pc'[t] = "budget" => key'[r] = key[r]
         /\ t \in Runs /\ pc'[t] = "idle" => key'[t] = NoKey
<1> Base /\ pc \in [Threads -> {"idle", "starting"} \cup PumpAt \cup ExitAt] /\ key \in [Runs -> Keys \cup {NoKey}]
  BY DEF Base, TypeOK, ThreadsOK, CapacityOK
<1>1. CASE Ends(t)
  BY <1>1 DEF Ends, Go
<1>2. CASE Eval(t) \in live /\ Pump(t)
  BY <1>2 DEF Pump, Go
<1>3. CASE Eval(t) \notin live /\ Pump(t)
  BY <1>1, <1>3 DEF Pump
<1>4. QED
  BY <1>1, <1>2, <1>3

\* No step takes a variable out of its type.
LEMMA TypeStep ==
  ASSUME Base, [Next]_vars
  PROVE  RowsOK' /\ MemoryOK' /\ CapacityOK' /\ ThreadsOK' /\ DrainerOK' /\ GhostsOK'
<1>1. ASSUME NEW e \in Evals, Start(e)
      PROVE  RowsOK' /\ MemoryOK' /\ CapacityOK' /\ ThreadsOK' /\ DrainerOK' /\ GhostsOK'
  <2>1. RowsOK'
    BY <1>1 DEF Base, TypeOK, Start, rows, RowsOK, JobRows, Statuses
  <2>2. MemoryOK'
    BY <1>1, WsAssumption DEF Start, Go, Base, TypeOK, RowsOK, MemoryOK, ThreadsOK
  <2>3. CapacityOK'
    BY <1>1 DEF Base, TypeOK, Start, capacity, CapacityOK
  <2>4. ThreadsOK'
    BY <1>1 DEF Start, rows, Go, Base, TypeOK, RowsOK, MemoryOK, ThreadsOK, Threads,
       PumpAt, ExitAt, Keys, Outcomes
  <2>5. DrainerOK'
    BY <1>1 DEF Base, TypeOK, Start, rows, drainer, DrainerOK, DrainPlaces
  <2>6. GhostsOK'
    BY <1>1 DEF Base, TypeOK, Start, ghosts, GhostsOK
  <2>7. QED
    BY <2>1, <2>2, <2>3, <2>4, <2>5, <2>6
<1>2. ASSUME NEW e \in Evals, StartFails(e)
      PROVE  RowsOK' /\ MemoryOK' /\ CapacityOK' /\ ThreadsOK' /\ DrainerOK' /\ GhostsOK'
  <2>1. RowsOK'
    BY <1>2 DEF Base, TypeOK, StartFails, rows, RowsOK, JobRows, Statuses
  <2>2. MemoryOK'
    BY <1>2, WsAssumption DEF StartFails, Go, Base, TypeOK, RowsOK, MemoryOK, ThreadsOK
  <2>3. CapacityOK'
    BY <1>2 DEF Base, TypeOK, StartFails, capacity, CapacityOK
  <2>4. ThreadsOK'
    BY <1>2 DEF StartFails, rows, Go, Base, TypeOK, RowsOK, MemoryOK, ThreadsOK,
       Threads, PumpAt, ExitAt, Keys, Outcomes
  <2>5. DrainerOK'
    BY <1>2 DEF Base, TypeOK, StartFails, rows, drainer, DrainerOK, DrainPlaces
  <2>6. GhostsOK'
    BY <1>2 DEF Base, TypeOK, StartFails, ghosts, GhostsOK
  <2>7. QED
    BY <2>1, <2>2, <2>3, <2>4, <2>5, <2>6
<1>3. ASSUME NEW e \in Evals, GoesLive(e)
      PROVE  RowsOK' /\ MemoryOK' /\ CapacityOK' /\ ThreadsOK' /\ DrainerOK' /\ GhostsOK'
  <2>1. RowsOK'
    BY <1>3, RowEdits, NewRowType, KeyParts, LimitsAssumption DEF GoesLive, Go, Base,
       TypeOK, RowsOK, MemoryOK, ThreadsOK, Statuses
  <2>2. MemoryOK'
    BY <1>3, WsAssumption DEF GoesLive, Go, Base, TypeOK, RowsOK, MemoryOK, ThreadsOK
  <2>3. CapacityOK'
    BY <1>3 DEF Base, TypeOK, GoesLive, capacity, CapacityOK
  <2>4. ThreadsOK'
    BY <1>3 DEF GoesLive, Go, Base, TypeOK, RowsOK, MemoryOK, ThreadsOK, Threads,
       PumpAt, ExitAt, Keys, Outcomes
  <2>5. DrainerOK'
    BY <1>3 DEF GoesLive, rows, drainer, Go, Base, TypeOK, RowsOK, MemoryOK, ThreadsOK,
       DrainerOK, DrainPlaces
  <2>6. GhostsOK'
    BY <1>3 DEF Base, TypeOK, GoesLive, ghosts, GhostsOK
  <2>7. QED
    BY <2>1, <2>2, <2>3, <2>4, <2>5, <2>6
<1>4. ASSUME NEW e \in Evals, TimerFires(e)
      PROVE  RowsOK' /\ MemoryOK' /\ CapacityOK' /\ ThreadsOK' /\ DrainerOK' /\ GhostsOK'
  <2>1. RowsOK'
    BY <1>4 DEF Base, TypeOK, TimerFires, rows, RowsOK, JobRows, Statuses
  <2>2. MemoryOK'
    BY <1>4, WsAssumption, ThreadsAssumption, NoKeyAssumption DEF TimerFires, Go, Pump,
       Ends, Base, TypeOK, RowsOK, MemoryOK, CapacityOK, ThreadsOK
  <2>3. CapacityOK'
    BY <1>4, ThreadsAssumption, NoKeyAssumption DEF TimerFires, Go, Pump, Ends, Base,
       TypeOK, MemoryOK, CapacityOK, ThreadsOK
  <2>4. ThreadsOK'
    BY <1>4, ThreadsAssumption, NoKeyAssumption DEF TimerFires, rows, Go, Pump, Ends,
       Base, TypeOK, RowsOK, MemoryOK, CapacityOK, ThreadsOK, Threads, PumpAt, ExitAt,
       Keys, Outcomes
  <2>5. DrainerOK'
    BY <1>4 DEF Base, TypeOK, TimerFires, rows, drainer, DrainerOK, DrainPlaces
  <2>6. GhostsOK'
    BY <1>4 DEF Base, TypeOK, TimerFires, ghosts, GhostsOK
  <2>7. QED
    BY <2>1, <2>2, <2>3, <2>4, <2>5, <2>6
<1>5. ASSUME NEW e \in Evals, Cancel(e)
      PROVE  RowsOK' /\ MemoryOK' /\ CapacityOK' /\ ThreadsOK' /\ DrainerOK' /\ GhostsOK'
  <2>1. RowsOK'
    BY <1>5, RowEdits, NewRowType, KeyParts, LimitsAssumption DEF Cancel, rows, Base,
       TypeOK, RowsOK, MemoryOK, ThreadsOK, DrainerOK, Statuses
  <2>2. MemoryOK'
    BY <1>5, WsAssumption DEF Cancel, Base, TypeOK, RowsOK, MemoryOK, ThreadsOK,
       DrainerOK
  <2>3. CapacityOK'
    BY <1>5 DEF Base, TypeOK, Cancel, capacity, CapacityOK
  <2>4. ThreadsOK'
    BY <1>5 DEF Cancel, rows, threads, Base, TypeOK, RowsOK, MemoryOK, ThreadsOK,
       DrainerOK, Threads, PumpAt, ExitAt, Keys, Outcomes
  <2>5. DrainerOK'
    BY <1>5 DEF Cancel, rows, drainer, Base, TypeOK, RowsOK, MemoryOK, ThreadsOK,
       DrainerOK, DrainPlaces
  <2>6. GhostsOK'
    BY <1>5 DEF Base, TypeOK, Cancel, ghosts, GhostsOK
  <2>7. QED
    BY <2>1, <2>2, <2>3, <2>4, <2>5, <2>6
<1>6. ASSUME NEW e \in Evals, CancelRows(e)
      PROVE  RowsOK' /\ MemoryOK' /\ CapacityOK' /\ ThreadsOK' /\ DrainerOK' /\ GhostsOK'
  <2>1. RowsOK'
    BY <1>6, RowEdits, NewRowType, KeyParts, LimitsAssumption DEF CancelRows, rows,
       memory, Base, TypeOK, RowsOK, MemoryOK, ThreadsOK, DrainerOK, Statuses,
       QueuedCancelled, JobsOf
  <2>2. MemoryOK'
    BY <1>6 DEF Base, TypeOK, CancelRows, memory, MemoryOK
  <2>3. CapacityOK'
    BY <1>6 DEF Base, TypeOK, CancelRows, capacity, CapacityOK
  <2>4. ThreadsOK'
    BY <1>6 DEF Base, TypeOK, CancelRows, memory, threads, ThreadsOK, PumpAt
  <2>5. DrainerOK'
    BY <1>6 DEF CancelRows, rows, drainer, Base, TypeOK, RowsOK, DrainerOK, DrainPlaces
  <2>6. GhostsOK'
    BY <1>6 DEF Base, TypeOK, CancelRows, ghosts, GhostsOK
  <2>7. QED
    BY <2>1, <2>2, <2>3, <2>4, <2>5, <2>6
<1>7. ASSUME NEW e \in Evals, CancelPurges(e)
      PROVE  RowsOK' /\ MemoryOK' /\ CapacityOK' /\ ThreadsOK' /\ DrainerOK' /\ GhostsOK'
  <2>1. RowsOK'
    BY <1>7 DEF Base, TypeOK, CancelPurges, rows, memory, RowsOK, JobRows, Statuses
  <2>2. MemoryOK'
    BY <1>7 DEF Base, TypeOK, CancelPurges, memory, MemoryOK
  <2>3. CapacityOK'
    BY <1>7 DEF CancelPurges, Base, TypeOK, CapacityOK, DrainerOK
  <2>4. ThreadsOK'
    BY <1>7 DEF Base, TypeOK, CancelPurges, rows, memory, threads, ThreadsOK, PumpAt
  <2>5. DrainerOK'
    BY <1>7 DEF CancelPurges, rows, drainer, Base, TypeOK, RowsOK, CapacityOK,
       DrainerOK, DrainPlaces
  <2>6. GhostsOK'
    BY <1>7 DEF Base, TypeOK, CancelPurges, ghosts, GhostsOK
  <2>7. QED
    BY <2>1, <2>2, <2>3, <2>4, <2>5, <2>6
<1>8. ASSUME NEW t \in Threads, ReadBudget(t)
      PROVE  RowsOK' /\ MemoryOK' /\ CapacityOK' /\ ThreadsOK' /\ DrainerOK' /\ GhostsOK'
  <2>1. RowsOK'
    BY <1>8 DEF Base, TypeOK, ReadBudget, rows, memory, RowsOK, JobRows, Statuses
  <2>2. MemoryOK'
    BY <1>8 DEF Base, TypeOK, ReadBudget, memory, MemoryOK
  <2>3. CapacityOK'
    BY <1>8 DEF Base, TypeOK, ReadBudget, capacity, CapacityOK
  <2>4. ThreadsOK'
    BY <1>8 DEF ReadBudget, rows, memory, Go, Base, TypeOK, RowsOK, MemoryOK, ThreadsOK,
       Threads, PumpAt, ExitAt, Keys, Outcomes
  <2>5. DrainerOK'
    BY <1>8 DEF Base, TypeOK, ReadBudget, rows, drainer, DrainerOK, DrainPlaces
  <2>6. GhostsOK'
    BY <1>8 DEF Base, TypeOK, ReadBudget, ghosts, GhostsOK
  <2>7. QED
    BY <2>1, <2>2, <2>3, <2>4, <2>5, <2>6
<1>9. ASSUME NEW t \in Threads, AbortRows(t)
      PROVE  RowsOK' /\ MemoryOK' /\ CapacityOK' /\ ThreadsOK' /\ DrainerOK' /\ GhostsOK'
  <2>1. RowsOK'
    BY <1>9, RowEdits, NewRowType, KeyParts, LimitsAssumption DEF AbortRows, memory, Go,
       Base, TypeOK, RowsOK, MemoryOK, ThreadsOK, Statuses, QueuedCancelled, JobsOf
  <2>2. MemoryOK'
    BY <1>9 DEF Base, TypeOK, AbortRows, memory, MemoryOK
  <2>3. CapacityOK'
    BY <1>9 DEF Base, TypeOK, AbortRows, capacity, CapacityOK
  <2>4. ThreadsOK'
    BY <1>9 DEF AbortRows, memory, Go, Base, TypeOK, RowsOK, MemoryOK, ThreadsOK,
       Threads, PumpAt, ExitAt, Keys, Outcomes
  <2>5. DrainerOK'
    BY <1>9 DEF AbortRows, rows, drainer, Go, Base, TypeOK, RowsOK, ThreadsOK,
       DrainerOK, DrainPlaces
  <2>6. GhostsOK'
    BY <1>9 DEF Base, TypeOK, AbortRows, ghosts, GhostsOK
  <2>7. QED
    BY <2>1, <2>2, <2>3, <2>4, <2>5, <2>6
<1>10. ASSUME NEW t \in Threads, AbortFlag(t)
      PROVE  RowsOK' /\ MemoryOK' /\ CapacityOK' /\ ThreadsOK' /\ DrainerOK' /\ GhostsOK'
  <2>1. RowsOK'
    BY <1>10, RowEdits, NewRowType, KeyParts, LimitsAssumption, EvalType DEF AbortFlag,
       rows, Go, Base, TypeOK, RowsOK, MemoryOK, ThreadsOK, Statuses
  <2>2. MemoryOK'
    BY <1>10, WsAssumption, EvalType DEF AbortFlag, Go, Base, TypeOK, RowsOK, MemoryOK,
       ThreadsOK
  <2>3. CapacityOK'
    BY <1>10 DEF Base, TypeOK, AbortFlag, capacity, CapacityOK
  <2>4. ThreadsOK'
    BY <1>10 DEF AbortFlag, rows, Go, Base, TypeOK, RowsOK, MemoryOK, ThreadsOK,
       Threads, PumpAt, ExitAt, Keys, Outcomes
  <2>5. DrainerOK'
    BY <1>10 DEF Base, TypeOK, AbortFlag, rows, drainer, DrainerOK, DrainPlaces
  <2>6. GhostsOK'
    BY <1>10 DEF Base, TypeOK, AbortFlag, ghosts, GhostsOK
  <2>7. QED
    BY <2>1, <2>2, <2>3, <2>4, <2>5, <2>6
<1>11. ASSUME NEW t \in Threads, AbortStatus(t)
      PROVE  RowsOK' /\ MemoryOK' /\ CapacityOK' /\ ThreadsOK' /\ DrainerOK' /\ GhostsOK'
  <2>1. RowsOK'
    BY <1>11, RowEdits, NewRowType, KeyParts, LimitsAssumption, EvalType DEF
       AbortStatus, memory, Go, Base, TypeOK, RowsOK, MemoryOK, ThreadsOK, Statuses
  <2>2. MemoryOK'
    BY <1>11 DEF Base, TypeOK, AbortStatus, memory, MemoryOK
  <2>3. CapacityOK'
    BY <1>11 DEF Base, TypeOK, AbortStatus, capacity, CapacityOK
  <2>4. ThreadsOK'
    BY <1>11 DEF AbortStatus, memory, Go, Base, TypeOK, RowsOK, MemoryOK, ThreadsOK,
       Threads, PumpAt, ExitAt, Keys, Outcomes
  <2>5. DrainerOK'
    BY <1>11 DEF AbortStatus, rows, drainer, Go, Base, TypeOK, RowsOK, ThreadsOK,
       DrainerOK, DrainPlaces
  <2>6. GhostsOK'
    BY <1>11 DEF Base, TypeOK, AbortStatus, ghosts, GhostsOK
  <2>7. QED
    BY <2>1, <2>2, <2>3, <2>4, <2>5, <2>6
<1>12. ASSUME NEW t \in Threads, Scan(t)
      PROVE  RowsOK' /\ MemoryOK' /\ CapacityOK' /\ ThreadsOK' /\ DrainerOK' /\ GhostsOK'
  <2>1. RowsOK'
    BY <1>12 DEF Base, TypeOK, Scan, rows, memory, RowsOK, JobRows, Statuses
  <2>2. MemoryOK'
    BY <1>12 DEF Base, TypeOK, Scan, memory, MemoryOK
  <2>3. CapacityOK'
    BY <1>12 DEF Base, TypeOK, Scan, capacity, CapacityOK
  <2>4. ThreadsOK'
    <3>1. todo'[t] \in SUBSET Keys
      BY <1>12, EvalType, EligibleKeys DEF Scan, Base, TypeOK, ThreadsOK, Threads
    <3>2. todo' = [todo EXCEPT ![t] = todo'[t]] /\ pc' = [pc EXCEPT ![t] = "send"]
      BY <1>12 DEF Scan, Go, Base, TypeOK, ThreadsOK
    <3>3. UNCHANGED <<cur, verdict, outcome>>
      BY <1>12 DEF Scan
    <3>4. QED
      BY <3>1, <3>2, <3>3 DEF Base, TypeOK, ThreadsOK, PumpAt
  <2>5. DrainerOK'
    BY <1>12 DEF Base, TypeOK, Scan, rows, drainer, DrainerOK, DrainPlaces
  <2>6. GhostsOK'
    BY <1>12 DEF Base, TypeOK, Scan, ghosts, GhostsOK
  <2>7. QED
    BY <2>1, <2>2, <2>3, <2>4, <2>5, <2>6
<1>13. ASSUME NEW t \in Threads, NEW k \in Keys, Send(t, k)
      PROVE  RowsOK' /\ MemoryOK' /\ CapacityOK' /\ ThreadsOK' /\ DrainerOK' /\ GhostsOK'
  <2>1. RowsOK'
    BY <1>13 DEF Base, TypeOK, Send, rows, RowsOK, JobRows, Statuses
  <2>2. MemoryOK'
    BY <1>13, WsAssumption DEF Send, Go, Base, TypeOK, RowsOK, MemoryOK, ThreadsOK
  <2>3. CapacityOK'
    BY <1>13 DEF Base, TypeOK, Send, capacity, CapacityOK
  <2>4. ThreadsOK'
    BY <1>13 DEF Send, rows, Go, Base, TypeOK, RowsOK, MemoryOK, ThreadsOK, Threads,
       PumpAt, ExitAt, Keys, Outcomes
  <2>5. DrainerOK'
    BY <1>13 DEF Base, TypeOK, Send, rows, drainer, DrainerOK, DrainPlaces
  <2>6. GhostsOK'
    BY <1>13 DEF Base, TypeOK, Send, ghosts, GhostsOK
  <2>7. QED
    BY <2>1, <2>2, <2>3, <2>4, <2>5, <2>6
<1>14. ASSUME NEW t \in Threads, Sent(t)
      PROVE  RowsOK' /\ MemoryOK' /\ CapacityOK' /\ ThreadsOK' /\ DrainerOK' /\ GhostsOK'
  <2>1. RowsOK'
    <3>1. cur[t] \in Keys /\ cur[t][1] \in Jobs
      BY <1>14, KeyParts DEF Sent, Base, PlaceInv, ThreadInv
    <3>2. CASE row' = [row EXCEPT ![cur[t][1]].status = "failed"]
      BY <1>14, <3>1, <3>2, RowEdits DEF Sent, Base, TypeOK, RowsOK, Statuses
    <3>3. CASE UNCHANGED row
      BY <1>14, <3>3 DEF Sent, Base, TypeOK, RowsOK
    <3>4. QED
      BY <1>14, <3>2, <3>3 DEF Sent
  <2>2. MemoryOK'
    BY <1>14 DEF Base, TypeOK, Sent, memory, MemoryOK
  <2>3. CapacityOK'
    BY <1>14 DEF Sent, Go, Base, TypeOK, RowsOK, CapacityOK, ThreadsOK, Threads,
       PlaceInv, ThreadInv, DrainInv, Starting, Draining, PumpAt, ExitAt
  <2>4. ThreadsOK'
    BY <1>14 DEF Sent, memory, Go, Base, TypeOK, RowsOK, MemoryOK, CapacityOK,
       ThreadsOK, Threads, PumpAt, ExitAt, Keys, Outcomes
  <2>5. DrainerOK'
    BY <1>14 DEF Sent, rows, drainer, Go, Base, TypeOK, RowsOK, CapacityOK, ThreadsOK,
       DrainerOK, DrainPlaces
  <2>6. GhostsOK'
    BY <1>14 DEF Base, TypeOK, Sent, ghosts, GhostsOK
  <2>7. QED
    BY <2>1, <2>2, <2>3, <2>4, <2>5, <2>6
<1>15. ASSUME NEW t \in Threads, AllSent(t)
      PROVE  RowsOK' /\ MemoryOK' /\ CapacityOK' /\ ThreadsOK' /\ DrainerOK' /\ GhostsOK'
  <2>1. RowsOK'
    BY <1>15 DEF Base, TypeOK, AllSent, rows, memory, RowsOK, JobRows, Statuses
  <2>2. MemoryOK'
    BY <1>15 DEF Base, TypeOK, AllSent, memory, MemoryOK
  <2>3. CapacityOK'
    BY <1>15, ThreadsAssumption, NoKeyAssumption DEF AllSent, Go, Ends, Base, TypeOK,
       CapacityOK, ThreadsOK, DrainerOK
  <2>4. ThreadsOK'
    BY <1>15, ThreadsAssumption, NoKeyAssumption DEF AllSent, rows, memory, Go, Ends,
       Base, TypeOK, RowsOK, MemoryOK, CapacityOK, ThreadsOK, DrainerOK, Threads,
       PumpAt, ExitAt, Keys, Outcomes
  <2>5. DrainerOK'
    BY <1>15, ThreadsAssumption, NoKeyAssumption DEF AllSent, rows, Go, Ends, Base,
       TypeOK, RowsOK, CapacityOK, ThreadsOK, DrainerOK, DrainPlaces
  <2>6. GhostsOK'
    BY <1>15 DEF Base, TypeOK, AllSent, ghosts, GhostsOK
  <2>7. QED
    BY <2>1, <2>2, <2>3, <2>4, <2>5, <2>6
<1>16. ASSUME NEW t \in Threads, Count(t)
      PROVE  RowsOK' /\ MemoryOK' /\ CapacityOK' /\ ThreadsOK' /\ DrainerOK' /\ GhostsOK'
  <2>1. RowsOK'
    BY <1>16 DEF Base, TypeOK, Count, rows, memory, RowsOK, JobRows, Statuses
  <2>2. MemoryOK'
    BY <1>16 DEF Base, TypeOK, Count, memory, MemoryOK
  <2>3. CapacityOK'
    BY <1>16 DEF Base, TypeOK, Count, capacity, CapacityOK
  <2>4. ThreadsOK'
    BY <1>16 DEF Count, rows, memory, Go, Base, TypeOK, RowsOK, MemoryOK, ThreadsOK,
       Threads, PumpAt, ExitAt, Keys, Outcomes
  <2>5. DrainerOK'
    BY <1>16 DEF Base, TypeOK, Count, rows, drainer, DrainerOK, DrainPlaces
  <2>6. GhostsOK'
    BY <1>16 DEF Base, TypeOK, Count, ghosts, GhostsOK
  <2>7. QED
    BY <2>1, <2>2, <2>3, <2>4, <2>5, <2>6
<1>17. ASSUME NEW t \in Threads, Finish(t)
      PROVE  RowsOK' /\ MemoryOK' /\ CapacityOK' /\ ThreadsOK' /\ DrainerOK' /\ GhostsOK'
  <2>1. RowsOK'
    BY <1>17 DEF Base, TypeOK, Finish, rows, RowsOK, JobRows, Statuses
  <2>2. MemoryOK'
    BY <1>17, WsAssumption, EvalType DEF Finish, Go, Base, TypeOK, RowsOK, MemoryOK,
       ThreadsOK
  <2>3. CapacityOK'
    BY <1>17 DEF Base, TypeOK, Finish, capacity, CapacityOK
  <2>4. ThreadsOK'
    BY <1>17 DEF Finish, rows, Go, Base, TypeOK, RowsOK, MemoryOK, ThreadsOK, Threads,
       PumpAt, ExitAt, Keys, Outcomes
  <2>5. DrainerOK'
    BY <1>17 DEF Base, TypeOK, Finish, rows, drainer, DrainerOK, DrainPlaces
  <2>6. GhostsOK'
    BY <1>17 DEF Base, TypeOK, Finish, ghosts, GhostsOK
  <2>7. QED
    BY <2>1, <2>2, <2>3, <2>4, <2>5, <2>6
<1>18. ASSUME NEW t \in Threads, Verdict(t)
      PROVE  RowsOK' /\ MemoryOK' /\ CapacityOK' /\ ThreadsOK' /\ DrainerOK' /\ GhostsOK'
  <2>1. RowsOK'
    BY <1>18 DEF Base, TypeOK, Verdict, rows, memory, RowsOK, JobRows, Statuses
  <2>2. MemoryOK'
    BY <1>18 DEF Base, TypeOK, Verdict, memory, MemoryOK
  <2>3. CapacityOK'
    BY <1>18 DEF Base, TypeOK, Verdict, capacity, CapacityOK
  <2>4. ThreadsOK'
    BY <1>18 DEF Verdict, rows, memory, Go, Base, TypeOK, RowsOK, MemoryOK, ThreadsOK,
       Threads, PumpAt, ExitAt, Keys, Outcomes
  <2>5. DrainerOK'
    BY <1>18 DEF Base, TypeOK, Verdict, rows, drainer, DrainerOK, DrainPlaces
  <2>6. GhostsOK'
    BY <1>18 DEF Base, TypeOK, Verdict, ghosts, GhostsOK
  <2>7. QED
    BY <2>1, <2>2, <2>3, <2>4, <2>5, <2>6
<1>19. ASSUME NEW t \in Threads, Report(t)
      PROVE  RowsOK' /\ MemoryOK' /\ CapacityOK' /\ ThreadsOK' /\ DrainerOK' /\ GhostsOK'
  <2>1. RowsOK'
    BY <1>19, RowEdits, NewRowType, KeyParts, LimitsAssumption, EvalType,
       ThreadsAssumption, NoKeyAssumption DEF Report, memory, Go, Ends, Base, TypeOK,
       RowsOK, MemoryOK, CapacityOK, ThreadsOK, GhostsOK, Statuses
  <2>2. MemoryOK'
    BY <1>19 DEF Base, TypeOK, Report, memory, MemoryOK
  <2>3. CapacityOK'
    BY <1>19, ThreadsAssumption, NoKeyAssumption DEF Report, Go, Ends, Base, TypeOK,
       RowsOK, CapacityOK, ThreadsOK, GhostsOK
  <2>4. ThreadsOK'
    BY <1>19, ThreadsAssumption, NoKeyAssumption DEF Report, memory, Go, Ends, Base,
       TypeOK, RowsOK, MemoryOK, CapacityOK, ThreadsOK, GhostsOK, Threads, PumpAt,
       ExitAt, Keys, Outcomes
  <2>5. DrainerOK'
    BY <1>19, ThreadsAssumption, NoKeyAssumption DEF Report, rows, drainer, Go, Ends,
       Base, TypeOK, RowsOK, CapacityOK, ThreadsOK, DrainerOK, GhostsOK, DrainPlaces
  <2>6. GhostsOK'
    BY <1>19, KeyParts, ThrowsAssumption, EvalType, ThreadsAssumption, NoKeyAssumption
       DEF Report, Go, Ends, Base, TypeOK, RowsOK, CapacityOK, ThreadsOK, GhostsOK
  <2>7. QED
    BY <2>1, <2>2, <2>3, <2>4, <2>5, <2>6
<1>20. ASSUME NEW t \in Threads, ScheduleRetryWake(t)
      PROVE  RowsOK' /\ MemoryOK' /\ CapacityOK' /\ ThreadsOK' /\ DrainerOK' /\ GhostsOK'
  <2>1. RowsOK'
    BY <1>20 DEF Base, TypeOK, ScheduleRetryWake, rows, RowsOK, JobRows, Statuses
  <2>2. MemoryOK'
    BY <1>20, WsAssumption, EvalType, ThreadsAssumption, NoKeyAssumption DEF
       ScheduleRetryWake, Go, Ends, Base, TypeOK, RowsOK, MemoryOK, CapacityOK,
       ThreadsOK, JobsOf, Backing
  <2>3. CapacityOK'
    BY <1>20, ThreadsAssumption, NoKeyAssumption DEF ScheduleRetryWake, Go, Ends, Base,
       TypeOK, MemoryOK, CapacityOK, ThreadsOK
  <2>4. ThreadsOK'
    BY <1>20, ThreadsAssumption, NoKeyAssumption DEF ScheduleRetryWake, rows, Go, Ends,
       Base, TypeOK, RowsOK, MemoryOK, CapacityOK, ThreadsOK, Threads, PumpAt, ExitAt,
       Keys, Outcomes
  <2>5. DrainerOK'
    BY <1>20 DEF Base, TypeOK, ScheduleRetryWake, rows, drainer, DrainerOK, DrainPlaces
  <2>6. GhostsOK'
    BY <1>20 DEF Base, TypeOK, ScheduleRetryWake, ghosts, GhostsOK
  <2>7. QED
    BY <2>1, <2>2, <2>3, <2>4, <2>5, <2>6
<1>21. ASSUME NEW r \in Runs, RunEnds(r)
      PROVE  RowsOK' /\ MemoryOK' /\ CapacityOK' /\ ThreadsOK' /\ DrainerOK' /\ GhostsOK'
  <2>1. RowsOK'
    BY <1>21 DEF Base, TypeOK, RunEnds, rows, memory, RowsOK, JobRows, Statuses
  <2>2. MemoryOK'
    BY <1>21 DEF Base, TypeOK, RunEnds, memory, MemoryOK
  <2>3. CapacityOK'
    BY <1>21 DEF RunEnds, Go, Base, TypeOK, CapacityOK, ThreadsOK
  <2>4. ThreadsOK'
    BY <1>21 DEF RunEnds, rows, memory, Go, Base, TypeOK, RowsOK, MemoryOK, CapacityOK,
       ThreadsOK, Threads, PumpAt, ExitAt, Keys, Outcomes
  <2>5. DrainerOK'
    BY <1>21 DEF Base, TypeOK, RunEnds, rows, drainer, DrainerOK, DrainPlaces
  <2>6. GhostsOK'
    BY <1>21 DEF Base, TypeOK, RunEnds, ghosts, GhostsOK
  <2>7. QED
    BY <2>1, <2>2, <2>3, <2>4, <2>5, <2>6
<1>22. ASSUME NEW r \in Runs, ExitAcks(r)
      PROVE  RowsOK' /\ MemoryOK' /\ CapacityOK' /\ ThreadsOK' /\ DrainerOK' /\ GhostsOK'
  <2>1. RowsOK'
    BY <1>22 DEF Base, TypeOK, ExitAcks, rows, memory, RowsOK, JobRows, Statuses
  <2>2. MemoryOK'
    BY <1>22 DEF Base, TypeOK, ExitAcks, memory, MemoryOK
  <2>3. CapacityOK'
    BY <1>22 DEF ExitAcks, Go, Base, TypeOK, CapacityOK, ThreadsOK
  <2>4. ThreadsOK'
    BY <1>22 DEF ExitAcks, rows, memory, Go, Base, TypeOK, RowsOK, MemoryOK, CapacityOK,
       ThreadsOK, Threads, PumpAt, ExitAt, Keys, Outcomes
  <2>5. DrainerOK'
    BY <1>22 DEF Base, TypeOK, ExitAcks, rows, drainer, DrainerOK, DrainPlaces
  <2>6. GhostsOK'
    BY <1>22 DEF Base, TypeOK, ExitAcks, ghosts, GhostsOK
  <2>7. QED
    BY <2>1, <2>2, <2>3, <2>4, <2>5, <2>6
<1>23. ASSUME NEW r \in Runs, ExitReleases(r)
      PROVE  RowsOK' /\ MemoryOK' /\ CapacityOK' /\ ThreadsOK' /\ DrainerOK' /\ GhostsOK'
  <2>1. RowsOK'
    BY <1>23 DEF Base, TypeOK, ExitReleases, rows, memory, RowsOK, JobRows, Statuses
  <2>2. MemoryOK'
    BY <1>23 DEF Base, TypeOK, ExitReleases, memory, MemoryOK
  <2>3. CapacityOK'
    BY <1>23, ThreadsAssumption, NoKeyAssumption DEF ExitReleases, Go, Ends, Base,
       TypeOK, CapacityOK, ThreadsOK
  <2>4. ThreadsOK'
    <3>1. pc' = [pc EXCEPT ![r] = pc'[r]] /\ pc'[r] \in PumpAt \cup ExitAt \cup {"idle"}
      BY <1>23, PumpEffect, ThreadsAssumption DEF ExitReleases, Go, Base, TypeOK,
         ThreadsOK, Threads, PumpAt, ExitAt
    <3>2. UNCHANGED <<todo, cur, verdict, outcome>>
      BY <1>23 DEF ExitReleases
    <3>3. QED
      BY <3>1, <3>2 DEF Base, TypeOK, ThreadsOK
  <2>5. DrainerOK'
    BY <1>23 DEF Base, TypeOK, ExitReleases, rows, drainer, DrainerOK, DrainPlaces
  <2>6. GhostsOK'
    BY <1>23 DEF Base, TypeOK, ExitReleases, ghosts, GhostsOK
  <2>7. QED
    BY <2>1, <2>2, <2>3, <2>4, <2>5, <2>6
<1>24. ASSUME NEW r \in Runs, Record(r)
      PROVE  RowsOK' /\ MemoryOK' /\ CapacityOK' /\ ThreadsOK' /\ DrainerOK' /\ GhostsOK'
  <2>1. RowsOK'
    <3> DEFINE s == IF outcome[r] = "succeeded" THEN "succeeded" ELSE "failed"
    <3>1. key[r][1] \in Jobs /\ Eval(r) \in Evals /\ s \in Statuses
      BY <1>24, KeyParts, EvalType DEF Record, Base, PlaceInv, ThreadInv, Threads,
         Statuses
    <3>2. row' = [row EXCEPT ![key[r][1]].status = s]
      BY <1>24 DEF Record
    <3> HIDE DEF s
    <3>3. row' \in [Jobs -> JobRows]
      BY <3>1, <3>2, RowEdits DEF Base, TypeOK, RowsOK
    <3>4. QED
      BY <1>24, <3>1, <3>3 DEF Record, Base, TypeOK, RowsOK
  <2>2. MemoryOK'
    BY <1>24 DEF Base, TypeOK, Record, memory, MemoryOK
  <2>3. CapacityOK'
    BY <1>24 DEF Base, TypeOK, Record, capacity, CapacityOK
  <2>4. ThreadsOK'
    BY <1>24 DEF Record, memory, Go, Base, TypeOK, RowsOK, MemoryOK, ThreadsOK, Threads,
       PumpAt, ExitAt, Keys, Outcomes
  <2>5. DrainerOK'
    BY <1>24 DEF Record, rows, drainer, Go, Base, TypeOK, RowsOK, ThreadsOK, DrainerOK,
       DrainPlaces
  <2>6. GhostsOK'
    BY <1>24 DEF Base, TypeOK, Record, ghosts, GhostsOK
  <2>7. QED
    BY <2>1, <2>2, <2>3, <2>4, <2>5, <2>6
<1>25. ASSUME NEW r \in Runs, Decide(r)
      PROVE  RowsOK' /\ MemoryOK' /\ CapacityOK' /\ ThreadsOK' /\ DrainerOK' /\ GhostsOK'
  <2>1. RowsOK'
    BY <1>25 DEF Base, TypeOK, Decide, rows, memory, RowsOK, JobRows, Statuses
  <2>2. MemoryOK'
    BY <1>25 DEF Base, TypeOK, Decide, memory, MemoryOK
  <2>3. CapacityOK'
    BY <1>25, ThreadsAssumption, NoKeyAssumption DEF Decide, Go, Pump, Ends, Base,
       TypeOK, CapacityOK, ThreadsOK
  <2>4. ThreadsOK'
    BY <1>25, ThreadsAssumption, NoKeyAssumption DEF Decide, rows, memory, Go, Pump,
       Ends, Base, TypeOK, RowsOK, MemoryOK, CapacityOK, ThreadsOK, Threads, PumpAt,
       ExitAt, Keys, Outcomes
  <2>5. DrainerOK'
    BY <1>25 DEF Base, TypeOK, Decide, rows, drainer, DrainerOK, DrainPlaces
  <2>6. GhostsOK'
    BY <1>25 DEF Base, TypeOK, Decide, ghosts, GhostsOK
  <2>7. QED
    BY <2>1, <2>2, <2>3, <2>4, <2>5, <2>6
<1>26. ASSUME NEW r \in Runs, RetryJob(r)
      PROVE  RowsOK' /\ MemoryOK' /\ CapacityOK' /\ ThreadsOK' /\ DrainerOK' /\ GhostsOK'
  <2>1. RowsOK'
    BY <1>26, KeyParts, LimitsAssumption, ThreadsAssumption, NoKeyAssumption DEF
       RetryJob, memory, Go, Pump, Ends, Base, TypeOK, RowsOK, MemoryOK, CapacityOK,
       ThreadsOK, Threads, PlaceInv, ThreadInv, DrainInv, Starting, Draining, JobRows,
       Statuses, ExitAt
  <2>2. MemoryOK'
    BY <1>26 DEF Base, TypeOK, RetryJob, memory, MemoryOK
  <2>3. CapacityOK'
    BY <1>26, ThreadsAssumption, NoKeyAssumption DEF RetryJob, Go, Pump, Ends, Base,
       TypeOK, RowsOK, CapacityOK, ThreadsOK
  <2>4. ThreadsOK'
    <3>1. pc' = [pc EXCEPT ![r] = pc'[r]] /\ pc'[r] \in PumpAt \cup ExitAt \cup {"idle"}
      BY <1>26, PumpEffect, ThreadsAssumption DEF RetryJob, Base, TypeOK, ThreadsOK,
         Threads, PumpAt, ExitAt
    <3>2. UNCHANGED <<todo, cur, verdict, outcome>>
      BY <1>26 DEF RetryJob
    <3>3. QED
      BY <3>1, <3>2 DEF Base, TypeOK, ThreadsOK
  <2>5. DrainerOK'
    BY <1>26, ThreadsAssumption, NoKeyAssumption DEF RetryJob, rows, drainer, Go, Pump,
       Ends, Base, TypeOK, RowsOK, CapacityOK, ThreadsOK, DrainerOK, DrainPlaces
  <2>6. GhostsOK'
    BY <1>26 DEF Base, TypeOK, RetryJob, ghosts, GhostsOK
  <2>7. QED
    BY <2>1, <2>2, <2>3, <2>4, <2>5, <2>6
<1>27. ASSUME NEW j \in Jobs, BackoffEnds(j)
      PROVE  RowsOK' /\ MemoryOK' /\ CapacityOK' /\ ThreadsOK' /\ DrainerOK' /\ GhostsOK'
  <2>1. RowsOK'
    BY <1>27, RowEdits, NewRowType, KeyParts, LimitsAssumption DEF BackoffEnds, memory,
       Base, TypeOK, RowsOK, MemoryOK, ThreadsOK, Statuses
  <2>2. MemoryOK'
    BY <1>27 DEF Base, TypeOK, BackoffEnds, memory, MemoryOK
  <2>3. CapacityOK'
    BY <1>27 DEF Base, TypeOK, BackoffEnds, capacity, CapacityOK
  <2>4. ThreadsOK'
    BY <1>27 DEF Base, TypeOK, BackoffEnds, memory, threads, ThreadsOK, PumpAt
  <2>5. DrainerOK'
    BY <1>27 DEF BackoffEnds, rows, drainer, Base, TypeOK, RowsOK, DrainerOK,
       DrainPlaces
  <2>6. GhostsOK'
    BY <1>27 DEF Base, TypeOK, BackoffEnds, ghosts, GhostsOK
  <2>7. QED
    BY <2>1, <2>2, <2>3, <2>4, <2>5, <2>6
<1>28. ASSUME DrainTimer
      PROVE  RowsOK' /\ MemoryOK' /\ CapacityOK' /\ ThreadsOK' /\ DrainerOK' /\ GhostsOK'
  <2>1. RowsOK'
    BY <1>28 DEF Base, TypeOK, DrainTimer, rows, memory, RowsOK, JobRows, Statuses
  <2>2. MemoryOK'
    BY <1>28 DEF Base, TypeOK, DrainTimer, memory, MemoryOK
  <2>3. CapacityOK'
    BY <1>28 DEF Base, TypeOK, DrainTimer, capacity, CapacityOK
  <2>4. ThreadsOK'
    BY <1>28 DEF Base, TypeOK, DrainTimer, rows, memory, threads, ThreadsOK, PumpAt
  <2>5. DrainerOK'
    BY <1>28 DEF DrainTimer, rows, Base, TypeOK, RowsOK, DrainerOK, DrainPlaces
  <2>6. GhostsOK'
    BY <1>28 DEF Base, TypeOK, DrainTimer, ghosts, GhostsOK
  <2>7. QED
    BY <2>1, <2>2, <2>3, <2>4, <2>5, <2>6
<1>29. ASSUME NEW k \in Keys, DrainAdmits(k)
      PROVE  RowsOK' /\ MemoryOK' /\ CapacityOK' /\ ThreadsOK' /\ DrainerOK' /\ GhostsOK'
  <2>1. RowsOK'
    BY <1>29 DEF Base, TypeOK, DrainAdmits, rows, memory, RowsOK, JobRows, Statuses
  <2>2. MemoryOK'
    BY <1>29 DEF Base, TypeOK, DrainAdmits, memory, MemoryOK
  <2>3. CapacityOK'
    BY <1>29 DEF DrainAdmits, Base, TypeOK, CapacityOK, DrainerOK
  <2>4. ThreadsOK'
    BY <1>29 DEF Base, TypeOK, DrainAdmits, rows, memory, threads, ThreadsOK, PumpAt
  <2>5. DrainerOK'
    BY <1>29 DEF DrainAdmits, rows, Base, TypeOK, RowsOK, CapacityOK, DrainerOK,
       DrainPlaces
  <2>6. GhostsOK'
    BY <1>29 DEF Base, TypeOK, DrainAdmits, ghosts, GhostsOK
  <2>7. QED
    BY <2>1, <2>2, <2>3, <2>4, <2>5, <2>6
<1>30. ASSUME DrainReturns
      PROVE  RowsOK' /\ MemoryOK' /\ CapacityOK' /\ ThreadsOK' /\ DrainerOK' /\ GhostsOK'
  <2>1. RowsOK'
    BY <1>30 DEF Base, TypeOK, DrainReturns, rows, memory, RowsOK, JobRows, Statuses
  <2>2. MemoryOK'
    BY <1>30 DEF Base, TypeOK, DrainReturns, memory, MemoryOK
  <2>3. CapacityOK'
    BY <1>30 DEF Base, TypeOK, DrainReturns, capacity, CapacityOK
  <2>4. ThreadsOK'
    BY <1>30 DEF Base, TypeOK, DrainReturns, rows, memory, threads, ThreadsOK, PumpAt
  <2>5. DrainerOK'
    BY <1>30 DEF DrainReturns, rows, Base, TypeOK, RowsOK, DrainerOK, DrainPlaces
  <2>6. GhostsOK'
    BY <1>30 DEF Base, TypeOK, DrainReturns, ghosts, GhostsOK
  <2>7. QED
    BY <2>1, <2>2, <2>3, <2>4, <2>5, <2>6
<1>31. ASSUME DrainChecks
      PROVE  RowsOK' /\ MemoryOK' /\ CapacityOK' /\ ThreadsOK' /\ DrainerOK' /\ GhostsOK'
  <2>1. RowsOK'
    BY <1>31 DEF Base, TypeOK, DrainChecks, rows, memory, RowsOK, JobRows, Statuses
  <2>2. MemoryOK'
    BY <1>31 DEF Base, TypeOK, DrainChecks, memory, MemoryOK
  <2>3. CapacityOK'
    BY <1>31 DEF Base, TypeOK, DrainChecks, capacity, CapacityOK
  <2>4. ThreadsOK'
    BY <1>31 DEF Base, TypeOK, DrainChecks, rows, memory, threads, ThreadsOK, PumpAt
  <2>5. DrainerOK'
    BY <1>31 DEF DrainChecks, rows, Base, TypeOK, RowsOK, DrainerOK, DrainPlaces
  <2>6. GhostsOK'
    BY <1>31 DEF Base, TypeOK, DrainChecks, ghosts, GhostsOK
  <2>7. QED
    BY <2>1, <2>2, <2>3, <2>4, <2>5, <2>6
<1>32. ASSUME DrainDrops
      PROVE  RowsOK' /\ MemoryOK' /\ CapacityOK' /\ ThreadsOK' /\ DrainerOK' /\ GhostsOK'
  <2>1. RowsOK'
    BY <1>32 DEF Base, TypeOK, DrainDrops, rows, memory, RowsOK, JobRows, Statuses
  <2>2. MemoryOK'
    BY <1>32 DEF Base, TypeOK, DrainDrops, memory, MemoryOK
  <2>3. CapacityOK'
    BY <1>32 DEF DrainDrops, Base, TypeOK, CapacityOK, DrainerOK
  <2>4. ThreadsOK'
    BY <1>32 DEF Base, TypeOK, DrainDrops, rows, memory, threads, ThreadsOK, PumpAt
  <2>5. DrainerOK'
    BY <1>32 DEF DrainDrops, rows, Base, TypeOK, RowsOK, CapacityOK, DrainerOK,
       DrainPlaces
  <2>6. GhostsOK'
    BY <1>32 DEF Base, TypeOK, DrainDrops, ghosts, GhostsOK
  <2>7. QED
    BY <2>1, <2>2, <2>3, <2>4, <2>5, <2>6
<1>33. ASSUME NEW r \in Runs, AcquireSlot(r)
      PROVE  RowsOK' /\ MemoryOK' /\ CapacityOK' /\ ThreadsOK' /\ DrainerOK' /\ GhostsOK'
  <2>1. RowsOK'
    BY <1>33 DEF Base, TypeOK, AcquireSlot, rows, memory, RowsOK, JobRows, Statuses
  <2>2. MemoryOK'
    BY <1>33 DEF Base, TypeOK, AcquireSlot, memory, MemoryOK
  <2>3. CapacityOK'
    BY <1>33, ThreadsAssumption, NoKeyAssumption DEF AcquireSlot, Base, TypeOK,
       CapacityOK, DrainerOK
  <2>4. ThreadsOK'
    BY <1>33 DEF Base, TypeOK, AcquireSlot, rows, memory, threads, ThreadsOK, PumpAt
  <2>5. DrainerOK'
    BY <1>33, ThreadsAssumption, NoKeyAssumption DEF AcquireSlot, rows, Base, TypeOK,
       RowsOK, CapacityOK, DrainerOK, DrainPlaces
  <2>6. GhostsOK'
    BY <1>33 DEF Base, TypeOK, AcquireSlot, ghosts, GhostsOK
  <2>7. QED
    BY <2>1, <2>2, <2>3, <2>4, <2>5, <2>6
<1>34. ASSUME NoSlot
      PROVE  RowsOK' /\ MemoryOK' /\ CapacityOK' /\ ThreadsOK' /\ DrainerOK' /\ GhostsOK'
  <2>1. RowsOK'
    BY <1>34 DEF Base, TypeOK, NoSlot, rows, memory, RowsOK, JobRows, Statuses
  <2>2. MemoryOK'
    BY <1>34 DEF Base, TypeOK, NoSlot, memory, MemoryOK
  <2>3. CapacityOK'
    BY <1>34 DEF Base, TypeOK, NoSlot, capacity, CapacityOK
  <2>4. ThreadsOK'
    BY <1>34 DEF Base, TypeOK, NoSlot, rows, memory, threads, ThreadsOK, PumpAt
  <2>5. DrainerOK'
    BY <1>34 DEF NoSlot, rows, Base, TypeOK, RowsOK, DrainerOK, DrainPlaces
  <2>6. GhostsOK'
    BY <1>34 DEF Base, TypeOK, NoSlot, ghosts, GhostsOK
  <2>7. QED
    BY <2>1, <2>2, <2>3, <2>4, <2>5, <2>6
<1>35. ASSUME RequeueAcks
      PROVE  RowsOK' /\ MemoryOK' /\ CapacityOK' /\ ThreadsOK' /\ DrainerOK' /\ GhostsOK'
  <2>1. RowsOK'
    BY <1>35 DEF Base, TypeOK, RequeueAcks, rows, memory, RowsOK, JobRows, Statuses
  <2>2. MemoryOK'
    BY <1>35 DEF Base, TypeOK, RequeueAcks, memory, MemoryOK
  <2>3. CapacityOK'
    BY <1>35 DEF RequeueAcks, Base, TypeOK, CapacityOK, DrainerOK
  <2>4. ThreadsOK'
    BY <1>35 DEF Base, TypeOK, RequeueAcks, rows, memory, threads, ThreadsOK, PumpAt
  <2>5. DrainerOK'
    BY <1>35 DEF RequeueAcks, rows, Base, TypeOK, RowsOK, CapacityOK, DrainerOK,
       DrainPlaces
  <2>6. GhostsOK'
    BY <1>35 DEF Base, TypeOK, RequeueAcks, ghosts, GhostsOK
  <2>7. QED
    BY <2>1, <2>2, <2>3, <2>4, <2>5, <2>6
<1>36. ASSUME RequeueVerbatim
      PROVE  RowsOK' /\ MemoryOK' /\ CapacityOK' /\ ThreadsOK' /\ DrainerOK' /\ GhostsOK'
  <2>1. RowsOK'
    BY <1>36 DEF Base, TypeOK, RequeueVerbatim, rows, memory, RowsOK, JobRows, Statuses
  <2>2. MemoryOK'
    BY <1>36 DEF Base, TypeOK, RequeueVerbatim, memory, MemoryOK
  <2>3. CapacityOK'
    BY <1>36 DEF RequeueVerbatim, Base, TypeOK, CapacityOK, DrainerOK, Threads,
       PlaceInv, ThreadInv, DrainInv, Starting, Draining, PumpAt, ExitAt
  <2>4. ThreadsOK'
    BY <1>36 DEF Base, TypeOK, RequeueVerbatim, rows, memory, threads, ThreadsOK, PumpAt
  <2>5. DrainerOK'
    BY <1>36 DEF RequeueVerbatim, rows, Base, TypeOK, RowsOK, CapacityOK, DrainerOK,
       DrainPlaces
  <2>6. GhostsOK'
    BY <1>36 DEF Base, TypeOK, RequeueVerbatim, ghosts, GhostsOK
  <2>7. QED
    BY <2>1, <2>2, <2>3, <2>4, <2>5, <2>6
<1>37. ASSUME MarkJobRunning
      PROVE  RowsOK' /\ MemoryOK' /\ CapacityOK' /\ ThreadsOK' /\ DrainerOK' /\ GhostsOK'
  <2>1. RowsOK'
    BY <1>37, RowEdits, NewRowType, KeyParts, LimitsAssumption DEF MarkJobRunning, rows,
       memory, Base, TypeOK, RowsOK, MemoryOK, ThreadsOK, DrainerOK, Threads, PlaceInv,
       ThreadInv, DrainInv, Starting, Draining, Statuses, ExitAt
  <2>2. MemoryOK'
    BY <1>37 DEF Base, TypeOK, MarkJobRunning, memory, MemoryOK
  <2>3. CapacityOK'
    BY <1>37 DEF Base, TypeOK, MarkJobRunning, capacity, CapacityOK
  <2>4. ThreadsOK'
    BY <1>37 DEF Base, TypeOK, MarkJobRunning, memory, threads, ThreadsOK, PumpAt
  <2>5. DrainerOK'
    BY <1>37 DEF MarkJobRunning, rows, Base, TypeOK, RowsOK, DrainerOK, DrainPlaces
  <2>6. GhostsOK'
    BY <1>37 DEF Base, TypeOK, MarkJobRunning, ghosts, GhostsOK
  <2>7. QED
    BY <2>1, <2>2, <2>3, <2>4, <2>5, <2>6
<1>38. ASSUME StartRun
      PROVE  RowsOK' /\ MemoryOK' /\ CapacityOK' /\ ThreadsOK' /\ DrainerOK' /\ GhostsOK'
  <2>1. RowsOK'
    BY <1>38 DEF Base, TypeOK, StartRun, rows, memory, RowsOK, JobRows, Statuses
  <2>2. MemoryOK'
    BY <1>38 DEF Base, TypeOK, StartRun, memory, MemoryOK
  <2>3. CapacityOK'
    BY <1>38, ThreadsAssumption, NoKeyAssumption DEF StartRun, Base, TypeOK, CapacityOK,
       DrainerOK, GhostsOK, Threads, PlaceInv, ThreadInv, DrainInv, Starting, Draining,
       PumpAt, ExitAt
  <2>4. ThreadsOK'
    BY <1>38 DEF Base, TypeOK, StartRun, rows, memory, threads, ThreadsOK, PumpAt
  <2>5. DrainerOK'
    BY <1>38, ThreadsAssumption, NoKeyAssumption DEF StartRun, rows, Base, TypeOK,
       RowsOK, CapacityOK, DrainerOK, GhostsOK, DrainPlaces
  <2>6. GhostsOK'
    BY <1>38, KeyParts, ThrowsAssumption, ThreadsAssumption, NoKeyAssumption DEF
       StartRun, Base, TypeOK, CapacityOK, DrainerOK, GhostsOK, Threads, PlaceInv,
       ThreadInv, DrainInv, Starting, Draining, PumpAt, ExitAt
  <2>7. QED
    BY <2>1, <2>2, <2>3, <2>4, <2>5, <2>6
<1>39. ASSUME RefuseRun
      PROVE  RowsOK' /\ MemoryOK' /\ CapacityOK' /\ ThreadsOK' /\ DrainerOK' /\ GhostsOK'
  <2>1. RowsOK'
    BY <1>39 DEF Base, TypeOK, RefuseRun, rows, memory, RowsOK, JobRows, Statuses
  <2>2. MemoryOK'
    BY <1>39 DEF Base, TypeOK, RefuseRun, memory, MemoryOK
  <2>3. CapacityOK'
    BY <1>39 DEF Base, TypeOK, RefuseRun, capacity, CapacityOK
  <2>4. ThreadsOK'
    BY <1>39, ThreadsAssumption, NoKeyAssumption DEF RefuseRun, rows, memory, Go, Base,
       TypeOK, RowsOK, MemoryOK, ThreadsOK, DrainerOK, Threads, PumpAt, ExitAt, Keys,
       Outcomes
  <2>5. DrainerOK'
    BY <1>39, ThreadsAssumption, NoKeyAssumption DEF RefuseRun, rows, Go, Base, TypeOK,
       RowsOK, ThreadsOK, DrainerOK, DrainPlaces
  <2>6. GhostsOK'
    BY <1>39 DEF Base, TypeOK, RefuseRun, ghosts, GhostsOK
  <2>7. QED
    BY <2>1, <2>2, <2>3, <2>4, <2>5, <2>6
<1>40. ASSUME SetupThrows
      PROVE  RowsOK' /\ MemoryOK' /\ CapacityOK' /\ ThreadsOK' /\ DrainerOK' /\ GhostsOK'
  <2>1. RowsOK'
    BY <1>40 DEF Base, TypeOK, SetupThrows, rows, memory, RowsOK, JobRows, Statuses
  <2>2. MemoryOK'
    BY <1>40 DEF Base, TypeOK, SetupThrows, memory, MemoryOK
  <2>3. CapacityOK'
    BY <1>40, ThreadsAssumption, NoKeyAssumption DEF SetupThrows, Base, TypeOK,
       CapacityOK, DrainerOK, GhostsOK
  <2>4. ThreadsOK'
    BY <1>40 DEF Base, TypeOK, SetupThrows, rows, memory, threads, ThreadsOK, PumpAt
  <2>5. DrainerOK'
    BY <1>40, ThreadsAssumption, NoKeyAssumption DEF SetupThrows, rows, Base, TypeOK,
       RowsOK, CapacityOK, DrainerOK, GhostsOK, DrainPlaces
  <2>6. GhostsOK'
    BY <1>40, KeyParts, ThrowsAssumption, ThreadsAssumption, NoKeyAssumption DEF
       SetupThrows, Base, TypeOK, CapacityOK, DrainerOK, GhostsOK
  <2>7. QED
    BY <2>1, <2>2, <2>3, <2>4, <2>5, <2>6
<1>41. CASE UNCHANGED vars
  <2>1. RowsOK'
    BY <1>41 DEF Base, TypeOK, vars, rows, memory, RowsOK, JobRows, Statuses
  <2>2. MemoryOK'
    BY <1>41 DEF Base, TypeOK, vars, memory, MemoryOK
  <2>3. CapacityOK'
    BY <1>41 DEF Base, TypeOK, vars, capacity, CapacityOK
  <2>4. ThreadsOK'
    BY <1>41 DEF Base, TypeOK, vars, rows, memory, threads, ThreadsOK, PumpAt
  <2>5. DrainerOK'
    BY <1>41 DEF Base, TypeOK, vars, rows, drainer, DrainerOK, DrainPlaces
  <2>6. GhostsOK'
    BY <1>41 DEF Base, TypeOK, vars, ghosts, GhostsOK
  <2>7. QED
    BY <2>1, <2>2, <2>3, <2>4, <2>5, <2>6
<1>42. QED
  BY <1>1, <1>2, <1>3, <1>4, <1>5, <1>6, <1>7, <1>8, <1>9, <1>10, <1>11, <1>12, <1>13,
     <1>14, <1>15, <1>16, <1>17, <1>18, <1>19, <1>20, <1>21, <1>22, <1>23, <1>24, <1>25,
     <1>26, <1>27, <1>28, <1>29, <1>30, <1>31, <1>32, <1>33, <1>34, <1>35, <1>36, <1>37,
     <1>38, <1>39, <1>40, <1>41 DEF Next, CancelStep, PumpStep, ExitStep, DrainStep

\* ... or breaks what its place says.
LEMMA PlaceStep ==
  ASSUME Base, [Next]_vars
  PROVE  ThreadInv' /\ DrainInv'
<1>1. ASSUME NEW e \in Evals, Start(e)
      PROVE  ThreadInv' /\ DrainInv'
  <2>1. ThreadInv'
    BY <1>1, ThreadsAssumption, NoKeyAssumption DEF Start, rows, capacity, drainer,
       ghosts, Go, Base, TypeOK, RowsOK, MemoryOK, CapacityOK, ThreadsOK, DrainerOK,
       GhostsOK, Threads, PlaceInv, ThreadInv, DrainInv, Starting, Draining, PumpAt,
       ExitAt
  <2>2. DrainInv'
    BY <1>1, ThreadsAssumption, NoKeyAssumption DEF Start, rows, capacity, drainer,
       ghosts, Go, Base, TypeOK, RowsOK, MemoryOK, CapacityOK, ThreadsOK, DrainerOK,
       GhostsOK, Threads, PlaceInv, ThreadInv, DrainInv, Starting, Draining, PumpAt,
       ExitAt, DrainPlaces
  <2>3. QED
    BY <2>1, <2>2
<1>2. ASSUME NEW e \in Evals, StartFails(e)
      PROVE  ThreadInv' /\ DrainInv'
  <2>1. ThreadInv'
    BY <1>2 DEF StartFails, capacity, Go, Base, TypeOK, MemoryOK, CapacityOK, ThreadsOK,
       Threads, PlaceInv, ThreadInv, DrainInv, Starting, Draining, PumpAt, ExitAt
  <2>2. DrainInv'
    BY <1>2 DEF StartFails, rows, capacity, drainer, Go, Base, TypeOK, RowsOK, MemoryOK,
       CapacityOK, ThreadsOK, DrainerOK, Threads, PlaceInv, ThreadInv, DrainInv,
       Starting, Draining, PumpAt, ExitAt, DrainPlaces
  <2>3. QED
    BY <2>1, <2>2
<1>3. ASSUME NEW e \in Evals, GoesLive(e)
      PROVE  ThreadInv' /\ DrainInv'
  <2>1. ThreadInv'
    BY <1>3 DEF GoesLive, capacity, Go, Base, TypeOK, RowsOK, MemoryOK, CapacityOK,
       ThreadsOK, Threads, PlaceInv, ThreadInv, DrainInv, Starting, Draining, PumpAt,
       ExitAt
  <2>2. DrainInv'
    BY <1>3 DEF GoesLive, rows, capacity, drainer, Go, Base, TypeOK, RowsOK, MemoryOK,
       CapacityOK, ThreadsOK, DrainerOK, Threads, PlaceInv, ThreadInv, DrainInv,
       Starting, Draining, PumpAt, ExitAt, DrainPlaces
  <2>3. QED
    BY <2>1, <2>2
<1>4. ASSUME NEW e \in Evals, TimerFires(e)
      PROVE  ThreadInv' /\ DrainInv'
  <2>1. ThreadInv'
    BY <1>4, ThreadsAssumption, NoKeyAssumption DEF TimerFires, Go, Pump, Ends, Base,
       TypeOK, MemoryOK, CapacityOK, ThreadsOK, Threads, PlaceInv, ThreadInv, DrainInv,
       Starting, Draining, PumpAt, ExitAt
  <2>2. DrainInv'
    BY <1>4, ThreadsAssumption, NoKeyAssumption DEF TimerFires, rows, drainer, Go, Pump,
       Ends, Base, TypeOK, RowsOK, MemoryOK, CapacityOK, ThreadsOK, DrainerOK, Threads,
       PlaceInv, ThreadInv, DrainInv, Starting, Draining, PumpAt, ExitAt, DrainPlaces
  <2>3. QED
    BY <2>1, <2>2
<1>5. ASSUME NEW e \in Evals, Cancel(e)
      PROVE  ThreadInv' /\ DrainInv'
  <2>1. ThreadInv'
    BY <1>5 DEF Base, PlaceInv, Cancel, capacity, threads, ThreadInv
  <2>2. DrainInv'
    BY <1>5 DEF Base, PlaceInv, Cancel, rows, capacity, threads, drainer, DrainInv,
       Draining, Starting
  <2>3. QED
    BY <2>1, <2>2
<1>6. ASSUME NEW e \in Evals, CancelRows(e)
      PROVE  ThreadInv' /\ DrainInv'
  <2>1. ThreadInv'
    BY <1>6 DEF Base, PlaceInv, CancelRows, memory, capacity, threads, ThreadInv
  <2>2. DrainInv'
    BY <1>6 DEF CancelRows, rows, capacity, threads, drainer, Base, TypeOK, RowsOK,
       CapacityOK, ThreadsOK, DrainerOK, Threads, PlaceInv, ThreadInv, DrainInv,
       Starting, Draining, PumpAt, ExitAt, DrainPlaces
  <2>3. QED
    BY <2>1, <2>2
<1>7. ASSUME NEW e \in Evals, CancelPurges(e)
      PROVE  ThreadInv' /\ DrainInv'
  <2>1. ThreadInv'
    BY <1>7 DEF Base, PlaceInv, CancelPurges, memory, threads, ThreadInv
  <2>2. DrainInv'
    BY <1>7 DEF Base, PlaceInv, CancelPurges, rows, threads, drainer, DrainInv,
       Draining, Starting
  <2>3. QED
    BY <2>1, <2>2
<1>8. ASSUME NEW t \in Threads, ReadBudget(t)
      PROVE  ThreadInv' /\ DrainInv'
  <2>1. ThreadInv'
    BY <1>8 DEF ReadBudget, memory, capacity, Go, Base, TypeOK, MemoryOK, CapacityOK,
       ThreadsOK, Threads, PlaceInv, ThreadInv, DrainInv, Starting, Draining, PumpAt,
       ExitAt
  <2>2. DrainInv'
    BY <1>8 DEF ReadBudget, rows, capacity, drainer, Go, Base, TypeOK, RowsOK,
       CapacityOK, ThreadsOK, DrainerOK, Threads, PlaceInv, ThreadInv, DrainInv,
       Starting, Draining, PumpAt, ExitAt, DrainPlaces
  <2>3. QED
    BY <2>1, <2>2
<1>9. ASSUME NEW t \in Threads, AbortRows(t)
      PROVE  ThreadInv' /\ DrainInv'
  <2>1. ThreadInv'
    BY <1>9 DEF AbortRows, memory, capacity, Go, Base, TypeOK, RowsOK, MemoryOK,
       CapacityOK, ThreadsOK, Threads, PlaceInv, ThreadInv, DrainInv, Starting,
       Draining, PumpAt, ExitAt
  <2>2. DrainInv'
    BY <1>9 DEF AbortRows, rows, capacity, drainer, Go, Base, TypeOK, RowsOK,
       CapacityOK, ThreadsOK, DrainerOK, Threads, PlaceInv, ThreadInv, DrainInv,
       Starting, Draining, PumpAt, ExitAt, DrainPlaces
  <2>3. QED
    BY <2>1, <2>2
<1>10. ASSUME NEW t \in Threads, AbortFlag(t)
      PROVE  ThreadInv' /\ DrainInv'
  <2>1. ThreadInv'
    BY <1>10 DEF AbortFlag, capacity, Go, Base, TypeOK, RowsOK, MemoryOK, CapacityOK,
       ThreadsOK, Threads, PlaceInv, ThreadInv, DrainInv, Starting, Draining, PumpAt,
       ExitAt
  <2>2. DrainInv'
    BY <1>10 DEF AbortFlag, rows, capacity, drainer, Go, Base, TypeOK, RowsOK, MemoryOK,
       CapacityOK, ThreadsOK, DrainerOK, Threads, PlaceInv, ThreadInv, DrainInv,
       Starting, Draining, PumpAt, ExitAt, DrainPlaces
  <2>3. QED
    BY <2>1, <2>2
<1>11. ASSUME NEW t \in Threads, AbortStatus(t)
      PROVE  ThreadInv' /\ DrainInv'
  <2>1. ThreadInv'
    BY <1>11 DEF AbortStatus, memory, capacity, Go, Base, TypeOK, RowsOK, MemoryOK,
       CapacityOK, ThreadsOK, Threads, PlaceInv, ThreadInv, DrainInv, Starting,
       Draining, PumpAt, ExitAt
  <2>2. DrainInv'
    BY <1>11 DEF AbortStatus, rows, capacity, drainer, Go, Base, TypeOK, RowsOK,
       CapacityOK, ThreadsOK, DrainerOK, Threads, PlaceInv, ThreadInv, DrainInv,
       Starting, Draining, PumpAt, ExitAt, DrainPlaces
  <2>3. QED
    BY <2>1, <2>2
<1>12. ASSUME NEW t \in Threads, Scan(t)
      PROVE  ThreadInv' /\ DrainInv'
  <2>1. ThreadInv'
    BY <1>12 DEF Scan, memory, capacity, Go, Base, TypeOK, MemoryOK, CapacityOK,
       ThreadsOK, Threads, PlaceInv, ThreadInv, DrainInv, Starting, Draining, PumpAt,
       ExitAt
  <2>2. DrainInv'
    BY <1>12 DEF Scan, rows, capacity, drainer, Go, Base, TypeOK, RowsOK, CapacityOK,
       ThreadsOK, DrainerOK, Threads, PlaceInv, ThreadInv, DrainInv, Starting, Draining,
       PumpAt, ExitAt, DrainPlaces
  <2>3. QED
    BY <2>1, <2>2
<1>13. ASSUME NEW t \in Threads, NEW k \in Keys, Send(t, k)
      PROVE  ThreadInv' /\ DrainInv'
  <2>1. ThreadInv'
    BY <1>13 DEF Send, capacity, Go, Base, TypeOK, MemoryOK, CapacityOK, ThreadsOK,
       Threads, PlaceInv, ThreadInv, DrainInv, Starting, Draining, PumpAt, ExitAt
  <2>2. DrainInv'
    BY <1>13 DEF Send, rows, capacity, drainer, Go, Base, TypeOK, RowsOK, MemoryOK,
       CapacityOK, ThreadsOK, DrainerOK, Threads, PlaceInv, ThreadInv, DrainInv,
       Starting, Draining, PumpAt, ExitAt, DrainPlaces
  <2>3. QED
    BY <2>1, <2>2
<1>14. ASSUME NEW t \in Threads, Sent(t)
      PROVE  ThreadInv' /\ DrainInv'
  <2>1. ThreadInv'
    BY <1>14 DEF Sent, memory, Go, Base, TypeOK, RowsOK, MemoryOK, CapacityOK,
       ThreadsOK, Threads, PlaceInv, ThreadInv, DrainInv, Starting, Draining, PumpAt,
       ExitAt
  <2>2. DrainInv'
    BY <1>14 DEF Sent, rows, drainer, Go, Base, TypeOK, RowsOK, CapacityOK, ThreadsOK,
       DrainerOK, Threads, PlaceInv, ThreadInv, DrainInv, Starting, Draining, PumpAt,
       ExitAt, DrainPlaces
  <2>3. QED
    BY <2>1, <2>2
<1>15. ASSUME NEW t \in Threads, AllSent(t)
      PROVE  ThreadInv' /\ DrainInv'
  <2>1. ThreadInv'
    BY <1>15, ThreadsAssumption, NoKeyAssumption DEF AllSent, memory, Go, Ends, Base,
       TypeOK, MemoryOK, CapacityOK, ThreadsOK, DrainerOK, Threads, PlaceInv, ThreadInv,
       DrainInv, Starting, Draining, PumpAt, ExitAt
  <2>2. DrainInv'
    BY <1>15, ThreadsAssumption, NoKeyAssumption DEF AllSent, rows, Go, Ends, Base,
       TypeOK, RowsOK, CapacityOK, ThreadsOK, DrainerOK, Threads, PlaceInv, ThreadInv,
       DrainInv, Starting, Draining, PumpAt, ExitAt, DrainPlaces
  <2>3. QED
    BY <2>1, <2>2
<1>16. ASSUME NEW t \in Threads, Count(t)
      PROVE  ThreadInv' /\ DrainInv'
  <2>1. ThreadInv'
    BY <1>16 DEF Count, memory, capacity, Go, Base, TypeOK, MemoryOK, CapacityOK,
       ThreadsOK, Threads, PlaceInv, ThreadInv, DrainInv, Starting, Draining, PumpAt,
       ExitAt
  <2>2. DrainInv'
    BY <1>16 DEF Count, rows, capacity, drainer, Go, Base, TypeOK, RowsOK, CapacityOK,
       ThreadsOK, DrainerOK, Threads, PlaceInv, ThreadInv, DrainInv, Starting, Draining,
       PumpAt, ExitAt, DrainPlaces
  <2>3. QED
    BY <2>1, <2>2
<1>17. ASSUME NEW t \in Threads, Finish(t)
      PROVE  ThreadInv' /\ DrainInv'
  <2>1. ThreadInv'
    BY <1>17 DEF Finish, capacity, Go, Base, TypeOK, MemoryOK, CapacityOK, ThreadsOK,
       Threads, PlaceInv, ThreadInv, DrainInv, Starting, Draining, PumpAt, ExitAt
  <2>2. DrainInv'
    BY <1>17 DEF Finish, rows, capacity, drainer, Go, Base, TypeOK, RowsOK, MemoryOK,
       CapacityOK, ThreadsOK, DrainerOK, Threads, PlaceInv, ThreadInv, DrainInv,
       Starting, Draining, PumpAt, ExitAt, DrainPlaces
  <2>3. QED
    BY <2>1, <2>2
<1>18. ASSUME NEW t \in Threads, Verdict(t)
      PROVE  ThreadInv' /\ DrainInv'
  <2>1. ThreadInv'
    BY <1>18 DEF Verdict, memory, capacity, Go, Base, TypeOK, MemoryOK, CapacityOK,
       ThreadsOK, Threads, PlaceInv, ThreadInv, DrainInv, Starting, Draining, PumpAt,
       ExitAt
  <2>2. DrainInv'
    BY <1>18 DEF Verdict, rows, capacity, drainer, Go, Base, TypeOK, RowsOK, CapacityOK,
       ThreadsOK, DrainerOK, Threads, PlaceInv, ThreadInv, DrainInv, Starting, Draining,
       PumpAt, ExitAt, DrainPlaces
  <2>3. QED
    BY <2>1, <2>2
<1>19. ASSUME NEW t \in Threads, Report(t)
      PROVE  ThreadInv' /\ DrainInv'
  <2>1. ThreadInv'
    BY <1>19, ThreadsAssumption, NoKeyAssumption DEF Report, memory, Go, Ends, Base,
       TypeOK, RowsOK, MemoryOK, CapacityOK, ThreadsOK, GhostsOK, Threads, PlaceInv,
       ThreadInv, DrainInv, Starting, Draining, PumpAt, ExitAt
  <2>2. DrainInv'
    BY <1>19, ThreadsAssumption, NoKeyAssumption DEF Report, rows, drainer, Go, Ends,
       Base, TypeOK, RowsOK, CapacityOK, ThreadsOK, DrainerOK, GhostsOK, Threads,
       PlaceInv, ThreadInv, DrainInv, Starting, Draining, PumpAt, ExitAt, DrainPlaces
  <2>3. QED
    BY <2>1, <2>2
<1>20. ASSUME NEW t \in Threads, ScheduleRetryWake(t)
      PROVE  ThreadInv' /\ DrainInv'
  <2>1. ThreadInv'
    BY <1>20, ThreadsAssumption, NoKeyAssumption DEF ScheduleRetryWake, Go, Ends, Base,
       TypeOK, MemoryOK, CapacityOK, ThreadsOK, Threads, PlaceInv, ThreadInv, DrainInv,
       Starting, Draining, PumpAt, ExitAt
  <2>2. DrainInv'
    BY <1>20, ThreadsAssumption, NoKeyAssumption DEF ScheduleRetryWake, rows, drainer,
       Go, Ends, Base, TypeOK, RowsOK, MemoryOK, CapacityOK, ThreadsOK, DrainerOK,
       Threads, PlaceInv, ThreadInv, DrainInv, Starting, Draining, PumpAt, ExitAt,
       DrainPlaces
  <2>3. QED
    BY <2>1, <2>2
<1>21. ASSUME NEW r \in Runs, RunEnds(r)
      PROVE  ThreadInv' /\ DrainInv'
  <2>1. ThreadInv'
    BY <1>21, ThreadsAssumption, NoKeyAssumption DEF RunEnds, rows, memory, drainer,
       ghosts, Go, Base, TypeOK, RowsOK, MemoryOK, CapacityOK, ThreadsOK, DrainerOK,
       GhostsOK, Threads, PlaceInv, ThreadInv, DrainInv, Starting, Draining, PumpAt,
       ExitAt
  <2>2. DrainInv'
    BY <1>21 DEF RunEnds, rows, drainer, Go, Base, TypeOK, RowsOK, CapacityOK,
       ThreadsOK, DrainerOK, Threads, PlaceInv, ThreadInv, DrainInv, Starting, Draining,
       PumpAt, ExitAt, DrainPlaces
  <2>3. QED
    BY <2>1, <2>2
<1>22. ASSUME NEW r \in Runs, ExitAcks(r)
      PROVE  ThreadInv' /\ DrainInv'
  <2>1. ThreadInv'
    BY <1>22 DEF ExitAcks, memory, Go, Base, TypeOK, MemoryOK, CapacityOK, ThreadsOK,
       Threads, PlaceInv, ThreadInv, DrainInv, Starting, Draining, PumpAt, ExitAt
  <2>2. DrainInv'
    BY <1>22 DEF ExitAcks, rows, drainer, Go, Base, TypeOK, RowsOK, CapacityOK,
       ThreadsOK, DrainerOK, Threads, PlaceInv, ThreadInv, DrainInv, Starting, Draining,
       PumpAt, ExitAt, DrainPlaces
  <2>3. QED
    BY <2>1, <2>2
<1>23. ASSUME NEW r \in Runs, ExitReleases(r)
      PROVE  ThreadInv' /\ DrainInv'
  <2>1. ThreadInv'
    BY <1>23, ThreadsAssumption, NoKeyAssumption DEF ExitReleases, memory, Go, Ends,
       Base, TypeOK, MemoryOK, CapacityOK, ThreadsOK, Threads, PlaceInv, ThreadInv,
       DrainInv, Starting, Draining, PumpAt, ExitAt
  <2>2. DrainInv'
    BY <1>23, ThreadsAssumption, NoKeyAssumption DEF ExitReleases, rows, drainer, Go,
       Ends, Base, TypeOK, RowsOK, CapacityOK, ThreadsOK, DrainerOK, Threads, PlaceInv,
       ThreadInv, DrainInv, Starting, Draining, PumpAt, ExitAt, DrainPlaces
  <2>3. QED
    BY <2>1, <2>2
<1>24. ASSUME NEW r \in Runs, Record(r)
      PROVE  ThreadInv' /\ DrainInv'
  <2>1. ThreadInv'
    BY <1>24 DEF Record, memory, capacity, Go, Base, TypeOK, RowsOK, MemoryOK,
       CapacityOK, ThreadsOK, Threads, PlaceInv, ThreadInv, DrainInv, Starting,
       Draining, PumpAt, ExitAt
  <2>2. DrainInv'
    BY <1>24 DEF Record, rows, capacity, drainer, Go, Base, TypeOK, RowsOK, CapacityOK,
       ThreadsOK, DrainerOK, Threads, PlaceInv, ThreadInv, DrainInv, Starting, Draining,
       PumpAt, ExitAt, DrainPlaces
  <2>3. QED
    BY <2>1, <2>2
<1>25. ASSUME NEW r \in Runs, Decide(r)
      PROVE  ThreadInv' /\ DrainInv'
  <2>1. ThreadInv'
    BY <1>25, ThreadsAssumption, NoKeyAssumption DEF Decide, memory, Go, Pump, Ends,
       Base, TypeOK, MemoryOK, CapacityOK, ThreadsOK, Threads, PlaceInv, ThreadInv,
       DrainInv, Starting, Draining, PumpAt, ExitAt, Retryable, AttemptsLeft
  <2>2. DrainInv'
    BY <1>25, ThreadsAssumption, NoKeyAssumption DEF Decide, rows, drainer, Go, Pump,
       Ends, Base, TypeOK, RowsOK, CapacityOK, ThreadsOK, DrainerOK, Threads, PlaceInv,
       ThreadInv, DrainInv, Starting, Draining, PumpAt, ExitAt, DrainPlaces
  <2>3. QED
    BY <2>1, <2>2
<1>26. ASSUME NEW r \in Runs, RetryJob(r)
      PROVE  ThreadInv' /\ DrainInv'
  <2>1. ThreadInv'
    BY <1>26, ThreadsAssumption, NoKeyAssumption DEF RetryJob, memory, Go, Pump, Ends,
       Base, TypeOK, RowsOK, MemoryOK, CapacityOK, ThreadsOK, Threads, PlaceInv,
       ThreadInv, DrainInv, Starting, Draining, PumpAt, ExitAt
  <2>2. DrainInv'
    BY <1>26, ThreadsAssumption, NoKeyAssumption DEF RetryJob, rows, drainer, Go, Pump,
       Ends, Base, TypeOK, RowsOK, CapacityOK, ThreadsOK, DrainerOK, Threads, PlaceInv,
       ThreadInv, DrainInv, Starting, Draining, PumpAt, ExitAt, DrainPlaces
  <2>3. QED
    BY <2>1, <2>2
<1>27. ASSUME NEW j \in Jobs, BackoffEnds(j)
      PROVE  ThreadInv' /\ DrainInv'
  <2>1. ThreadInv'
    BY <1>27 DEF Base, PlaceInv, BackoffEnds, memory, capacity, threads, ThreadInv
  <2>2. DrainInv'
    BY <1>27 DEF BackoffEnds, rows, capacity, threads, drainer, Base, TypeOK, RowsOK,
       CapacityOK, ThreadsOK, DrainerOK, Threads, PlaceInv, ThreadInv, DrainInv,
       Starting, Draining, PumpAt, ExitAt, DrainPlaces
  <2>3. QED
    BY <2>1, <2>2
<1>28. ASSUME DrainTimer
      PROVE  ThreadInv' /\ DrainInv'
  <2>1. ThreadInv'
    BY <1>28 DEF Base, PlaceInv, DrainTimer, memory, capacity, threads, ThreadInv
  <2>2. DrainInv'
    BY <1>28 DEF DrainTimer, rows, capacity, threads, Base, TypeOK, RowsOK, CapacityOK,
       ThreadsOK, DrainerOK, Threads, PlaceInv, ThreadInv, DrainInv, Starting, Draining,
       PumpAt, ExitAt, DrainPlaces
  <2>3. QED
    BY <2>1, <2>2
<1>29. ASSUME NEW k \in Keys, DrainAdmits(k)
      PROVE  ThreadInv' /\ DrainInv'
  <2>1. ThreadInv'
    BY <1>29 DEF Base, PlaceInv, DrainAdmits, memory, threads, ThreadInv
  <2>2. DrainInv'
    BY <1>29 DEF DrainAdmits, rows, threads, Base, TypeOK, RowsOK, CapacityOK,
       ThreadsOK, DrainerOK, Threads, PlaceInv, ThreadInv, DrainInv, Starting, Draining,
       PumpAt, ExitAt, DrainPlaces
  <2>3. QED
    BY <2>1, <2>2
<1>30. ASSUME DrainReturns
      PROVE  ThreadInv' /\ DrainInv'
  <2>1. ThreadInv'
    BY <1>30 DEF Base, PlaceInv, DrainReturns, memory, capacity, threads, ThreadInv
  <2>2. DrainInv'
    BY <1>30 DEF DrainReturns, rows, capacity, threads, Base, TypeOK, RowsOK,
       CapacityOK, ThreadsOK, DrainerOK, Threads, PlaceInv, ThreadInv, DrainInv,
       Starting, Draining, PumpAt, ExitAt, DrainPlaces
  <2>3. QED
    BY <2>1, <2>2
<1>31. ASSUME DrainChecks
      PROVE  ThreadInv' /\ DrainInv'
  <2>1. ThreadInv'
    BY <1>31 DEF Base, PlaceInv, DrainChecks, memory, capacity, threads, ThreadInv
  <2>2. DrainInv'
    BY <1>31 DEF DrainChecks, rows, capacity, threads, Base, TypeOK, RowsOK, CapacityOK,
       ThreadsOK, DrainerOK, Threads, PlaceInv, ThreadInv, DrainInv, Starting, Draining,
       PumpAt, ExitAt, DrainPlaces
  <2>3. QED
    BY <2>1, <2>2
<1>32. ASSUME DrainDrops
      PROVE  ThreadInv' /\ DrainInv'
  <2>1. ThreadInv'
    BY <1>32 DEF Base, PlaceInv, DrainDrops, memory, threads, ThreadInv
  <2>2. DrainInv'
    BY <1>32, ThreadsAssumption, NoKeyAssumption DEF DrainDrops, rows, memory, threads,
       ghosts, Base, TypeOK, RowsOK, MemoryOK, CapacityOK, ThreadsOK, DrainerOK,
       GhostsOK, Threads, PlaceInv, ThreadInv, DrainInv, Starting, Draining, PumpAt,
       ExitAt, DrainPlaces
  <2>3. QED
    BY <2>1, <2>2
<1>33. ASSUME NEW r \in Runs, AcquireSlot(r)
      PROVE  ThreadInv' /\ DrainInv'
  <2>1. ThreadInv'
    BY <1>33, ThreadsAssumption, NoKeyAssumption DEF AcquireSlot, memory, threads, Base,
       TypeOK, MemoryOK, CapacityOK, ThreadsOK, DrainerOK, Threads, PlaceInv, ThreadInv,
       DrainInv, Starting, Draining, PumpAt, ExitAt, Fresh
  <2>2. DrainInv'
    BY <1>33, ThreadsAssumption, NoKeyAssumption DEF AcquireSlot, rows, threads, Base,
       TypeOK, RowsOK, CapacityOK, ThreadsOK, DrainerOK, Threads, PlaceInv, ThreadInv,
       DrainInv, Starting, Draining, PumpAt, ExitAt, Fresh, DrainPlaces
  <2>3. QED
    BY <2>1, <2>2
<1>34. ASSUME NoSlot
      PROVE  ThreadInv' /\ DrainInv'
  <2>1. ThreadInv'
    BY <1>34 DEF Base, PlaceInv, NoSlot, memory, capacity, threads, ThreadInv
  <2>2. DrainInv'
    BY <1>34 DEF NoSlot, rows, capacity, threads, Base, TypeOK, RowsOK, CapacityOK,
       ThreadsOK, DrainerOK, Threads, PlaceInv, ThreadInv, DrainInv, Starting, Draining,
       PumpAt, ExitAt, DrainPlaces
  <2>3. QED
    BY <2>1, <2>2
<1>35. ASSUME RequeueAcks
      PROVE  ThreadInv' /\ DrainInv'
  <2>1. ThreadInv'
    BY <1>35 DEF Base, PlaceInv, RequeueAcks, memory, threads, ThreadInv
  <2>2. DrainInv'
    BY <1>35 DEF RequeueAcks, rows, threads, Base, TypeOK, RowsOK, CapacityOK,
       ThreadsOK, DrainerOK, Threads, PlaceInv, ThreadInv, DrainInv, Starting, Draining,
       PumpAt, ExitAt, DrainPlaces
  <2>3. QED
    BY <2>1, <2>2
<1>36. ASSUME RequeueVerbatim
      PROVE  ThreadInv' /\ DrainInv'
  <2>1. ThreadInv'
    BY <1>36 DEF Base, PlaceInv, RequeueVerbatim, memory, threads, ThreadInv
  <2>2. DrainInv'
    BY <1>36, ThreadsAssumption, NoKeyAssumption DEF RequeueVerbatim, rows, memory,
       threads, ghosts, Base, TypeOK, RowsOK, MemoryOK, CapacityOK, ThreadsOK,
       DrainerOK, GhostsOK, Threads, PlaceInv, ThreadInv, DrainInv, Starting, Draining,
       PumpAt, ExitAt, DrainPlaces
  <2>3. QED
    BY <2>1, <2>2
<1>37. ASSUME MarkJobRunning
      PROVE  ThreadInv' /\ DrainInv'
  <2>1. ThreadInv'
    BY <1>37 DEF Base, PlaceInv, MarkJobRunning, memory, capacity, threads, ThreadInv
  <2>2. DrainInv'
    BY <1>37 DEF MarkJobRunning, rows, capacity, threads, Base, TypeOK, RowsOK,
       CapacityOK, ThreadsOK, DrainerOK, Threads, PlaceInv, ThreadInv, DrainInv,
       Starting, Draining, PumpAt, ExitAt, DrainPlaces
  <2>3. QED
    BY <2>1, <2>2
<1>38. ASSUME StartRun
      PROVE  ThreadInv' /\ DrainInv'
  <2>1. ThreadInv'
    BY <1>38, ThreadsAssumption, NoKeyAssumption DEF StartRun, memory, threads, Base,
       TypeOK, MemoryOK, CapacityOK, ThreadsOK, DrainerOK, GhostsOK, Threads, PlaceInv,
       ThreadInv, DrainInv, Starting, Draining, PumpAt, ExitAt
  <2>2. DrainInv'
    BY <1>38, ThreadsAssumption, NoKeyAssumption DEF StartRun, rows, threads, Base,
       TypeOK, RowsOK, CapacityOK, ThreadsOK, DrainerOK, GhostsOK, DrainInv, Starting,
       Draining
  <2>3. QED
    BY <2>1, <2>2
<1>39. ASSUME RefuseRun
      PROVE  ThreadInv' /\ DrainInv'
  <2>1. ThreadInv'
    BY <1>39, ThreadsAssumption, NoKeyAssumption DEF RefuseRun, memory, capacity, Go,
       Base, TypeOK, MemoryOK, CapacityOK, ThreadsOK, DrainerOK, Threads, PlaceInv,
       ThreadInv, DrainInv, Starting, Draining, PumpAt, ExitAt
  <2>2. DrainInv'
    BY <1>39, ThreadsAssumption, NoKeyAssumption DEF RefuseRun, rows, capacity, Go,
       Base, TypeOK, RowsOK, CapacityOK, ThreadsOK, DrainerOK, DrainInv, Starting,
       Draining
  <2>3. QED
    BY <2>1, <2>2
<1>40. ASSUME SetupThrows
      PROVE  ThreadInv' /\ DrainInv'
  <2>1. ThreadInv'
    BY <1>40, ThreadsAssumption, NoKeyAssumption DEF SetupThrows, memory, threads, Base,
       TypeOK, MemoryOK, CapacityOK, ThreadsOK, DrainerOK, GhostsOK, Threads, PlaceInv,
       ThreadInv, DrainInv, Starting, Draining, PumpAt, ExitAt
  <2>2. DrainInv'
    BY <1>40, ThreadsAssumption, NoKeyAssumption DEF SetupThrows, rows, threads, Base,
       TypeOK, RowsOK, CapacityOK, ThreadsOK, DrainerOK, GhostsOK, Threads, PlaceInv,
       ThreadInv, DrainInv, Starting, Draining, PumpAt, ExitAt, DrainPlaces
  <2>3. QED
    BY <2>1, <2>2
<1>41. CASE UNCHANGED vars
  <2>1. ThreadInv'
    BY <1>41 DEF Base, PlaceInv, vars, memory, capacity, threads, ThreadInv
  <2>2. DrainInv'
    BY <1>41 DEF Base, PlaceInv, vars, rows, capacity, threads, drainer, DrainInv,
       Draining, Starting
  <2>3. QED
    BY <2>1, <2>2
<1>42. QED
  BY <1>1, <1>2, <1>3, <1>4, <1>5, <1>6, <1>7, <1>8, <1>9, <1>10, <1>11, <1>12, <1>13,
     <1>14, <1>15, <1>16, <1>17, <1>18, <1>19, <1>20, <1>21, <1>22, <1>23, <1>24, <1>25,
     <1>26, <1>27, <1>28, <1>29, <1>30, <1>31, <1>32, <1>33, <1>34, <1>35, <1>36, <1>37,
     <1>38, <1>39, <1>40, <1>41 DEF Next, CancelStep, PumpStep, ExitStep, DrainStep

LEMMA BaseInvariant == Spec => []Base
<1>1. Init => Base
  BY LimitsAssumption, ThrowsAssumption, ThreadsAssumption, NoKeyAssumption DEF Init,
     Base, TypeOK, RowsOK, MemoryOK, CapacityOK, ThreadsOK, DrainerOK, GhostsOK,
     PlaceInv, ThreadInv, DrainInv, Draining, Starting, Threads, JobRows, Statuses,
     NoRow, PumpAt, ExitAt, Outcomes, DrainPlaces
<1>2. Base /\ [Next]_vars => Base'
  BY TypeStep, PlaceStep DEF Base, TypeOK, PlaceInv
<1>3. QED
  BY <1>1, <1>2, PTL DEF Spec

\* Rows, memory, reservations, calls and the drain keep their types, whichever
\* of the calls of the orchestrator are under way together.
THEOREM TypeCorrect == Spec => []TypeOK
<1>1. Base => TypeOK
  BY DEF Base
<1>2. QED
  BY <1>1, BaseInvariant, PTL

-----------------------------------------------------------------------------
(* One eval per workspace *)

Sending == {t \in Threads : pc[t] = "sending"}
Working == {r \in Runs : r \in pool \/ pc[r] \in ExitAt}

\* Whatever holds an attempt has got it from enqueuedAttempts.
KnownInv ==
  /\ \A t \in Sending : cur[t] \in enqueued
  /\ queue \subseteq enqueued
  /\ Draining => drainKey \in enqueued
  /\ \A r \in Runs : key[r] # NoKey => key[r] \in enqueued

\* Of an eval that start() has not written yet there is nothing but the call.
UnstartedInv ==
  \A e \in Evals : status[e] = "none" =>
    /\ e \notin live /\ pc[e] \in {"idle", "starting"}
    /\ \A k \in enqueued : EvalOf[k[1]] # e
    /\ \A t \in Threads : \A k \in todo[t] : EvalOf[k[1]] # e
    /\ \A j \in JobsOf(e) : row[j].status = "none"
StartingInv == \A e \in Evals : pc[e] = "starting" => status[e] = "none"

\* A claim lasts from before the first await to the moment the eval is live.
WorkspaceInv ==
  /\ \A e, f \in Evals : pc[e] = "starting" /\ pc[f] = "starting" /\ Ws[e] = Ws[f] => e = f
  /\ \A e \in Evals : pc[e] = "starting" => Ws[e] \in starting /\ \A f \in live : Ws[f] # Ws[e]
  /\ OneEvalPerWorkspace

\* An attempt that is on its way has been noted, and stays so.
LEMMA KnownStep ==
  ASSUME Base, KnownInv, [Next]_vars
  PROVE  KnownInv'
<1>1. ASSUME NEW e \in Evals, Start(e)
      PROVE  KnownInv'
  BY <1>1 DEF Start, capacity, drainer, Go, Base, TypeOK, MemoryOK, CapacityOK,
     ThreadsOK, DrainerOK, Threads, Draining, KnownInv, Sending
<1>2. ASSUME NEW e \in Evals, StartFails(e)
      PROVE  KnownInv'
  BY <1>2 DEF StartFails, capacity, drainer, Go, Base, TypeOK, MemoryOK, CapacityOK,
     ThreadsOK, DrainerOK, Threads, Draining, KnownInv, Sending
<1>3. ASSUME NEW e \in Evals, GoesLive(e)
      PROVE  KnownInv'
  BY <1>3 DEF GoesLive, capacity, drainer, Go, Base, TypeOK, RowsOK, MemoryOK,
     CapacityOK, ThreadsOK, DrainerOK, Threads, Draining, KnownInv, Sending
<1>4. ASSUME NEW e \in Evals, TimerFires(e)
      PROVE  KnownInv'
  BY <1>4, ThreadsAssumption, NoKeyAssumption DEF TimerFires, drainer, Go, Pump, Ends,
     Base, TypeOK, MemoryOK, CapacityOK, ThreadsOK, DrainerOK, Threads, Draining,
     KnownInv, Sending
<1>5. ASSUME NEW e \in Evals, Cancel(e)
      PROVE  KnownInv'
  BY <1>5 DEF Cancel, capacity, threads, drainer, KnownInv, Sending, Draining
<1>6. ASSUME NEW e \in Evals, CancelRows(e)
      PROVE  KnownInv'
  BY <1>6 DEF CancelRows, memory, capacity, threads, drainer, KnownInv, Sending,
     Draining
<1>7. ASSUME NEW e \in Evals, CancelPurges(e)
      PROVE  KnownInv'
  BY <1>7 DEF CancelPurges, memory, threads, drainer, Base, TypeOK, MemoryOK,
     CapacityOK, ThreadsOK, DrainerOK, Threads, Draining, KnownInv, Sending
<1>8. ASSUME NEW t \in Threads, ReadBudget(t)
      PROVE  KnownInv'
  BY <1>8 DEF ReadBudget, memory, capacity, drainer, Go, Base, TypeOK, MemoryOK,
     CapacityOK, ThreadsOK, DrainerOK, Threads, Draining, KnownInv, Sending
<1>9. ASSUME NEW t \in Threads, AbortRows(t)
      PROVE  KnownInv'
  BY <1>9 DEF AbortRows, memory, capacity, drainer, Go, Base, TypeOK, RowsOK, MemoryOK,
     CapacityOK, ThreadsOK, DrainerOK, Threads, Draining, KnownInv, Sending
<1>10. ASSUME NEW t \in Threads, AbortFlag(t)
      PROVE  KnownInv'
  BY <1>10 DEF AbortFlag, capacity, drainer, Go, Base, TypeOK, RowsOK, MemoryOK,
     CapacityOK, ThreadsOK, DrainerOK, Threads, Draining, KnownInv, Sending
<1>11. ASSUME NEW t \in Threads, AbortStatus(t)
      PROVE  KnownInv'
  BY <1>11 DEF AbortStatus, memory, capacity, drainer, Go, Base, TypeOK, RowsOK,
     MemoryOK, CapacityOK, ThreadsOK, DrainerOK, Threads, Draining, KnownInv, Sending
<1>12. ASSUME NEW t \in Threads, Scan(t)
      PROVE  KnownInv'
  BY <1>12 DEF Scan, memory, capacity, drainer, Go, Base, TypeOK, MemoryOK, CapacityOK,
     ThreadsOK, DrainerOK, Threads, Draining, KnownInv, Sending
<1>13. ASSUME NEW t \in Threads, NEW k \in Keys, Send(t, k)
      PROVE  KnownInv'
  BY <1>13 DEF Send, capacity, drainer, Go, Base, TypeOK, MemoryOK, CapacityOK,
     ThreadsOK, DrainerOK, Threads, Draining, KnownInv, Sending
<1>14. ASSUME NEW t \in Threads, Sent(t)
      PROVE  KnownInv'
  BY <1>14 DEF Sent, memory, drainer, Go, Base, TypeOK, RowsOK, MemoryOK, CapacityOK,
     ThreadsOK, DrainerOK, Threads, Draining, KnownInv, Sending
<1>15. ASSUME NEW t \in Threads, AllSent(t)
      PROVE  KnownInv'
  BY <1>15, ThreadsAssumption, NoKeyAssumption DEF AllSent, memory, Go, Ends, Base,
     TypeOK, MemoryOK, CapacityOK, ThreadsOK, DrainerOK, Threads, Draining, KnownInv,
     Sending
<1>16. ASSUME NEW t \in Threads, Count(t)
      PROVE  KnownInv'
  BY <1>16 DEF Count, memory, capacity, drainer, Go, Base, TypeOK, MemoryOK, CapacityOK,
     ThreadsOK, DrainerOK, Threads, Draining, KnownInv, Sending
<1>17. ASSUME NEW t \in Threads, Finish(t)
      PROVE  KnownInv'
  BY <1>17 DEF Finish, capacity, drainer, Go, Base, TypeOK, MemoryOK, CapacityOK,
     ThreadsOK, DrainerOK, Threads, Draining, KnownInv, Sending
<1>18. ASSUME NEW t \in Threads, Verdict(t)
      PROVE  KnownInv'
  BY <1>18 DEF Verdict, memory, capacity, drainer, Go, Base, TypeOK, MemoryOK,
     CapacityOK, ThreadsOK, DrainerOK, Threads, Draining, KnownInv, Sending
<1>19. ASSUME NEW t \in Threads, Report(t)
      PROVE  KnownInv'
  BY <1>19, ThreadsAssumption, NoKeyAssumption DEF Report, memory, drainer, Go, Ends,
     Base, TypeOK, RowsOK, MemoryOK, CapacityOK, ThreadsOK, DrainerOK, GhostsOK,
     Threads, Draining, KnownInv, Sending
<1>20. ASSUME NEW t \in Threads, ScheduleRetryWake(t)
      PROVE  KnownInv'
  BY <1>20, ThreadsAssumption, NoKeyAssumption DEF ScheduleRetryWake, drainer, Go, Ends,
     Base, TypeOK, MemoryOK, CapacityOK, ThreadsOK, DrainerOK, Threads, Draining,
     KnownInv, Sending
<1>21. ASSUME NEW r \in Runs, RunEnds(r)
      PROVE  KnownInv'
  BY <1>21 DEF RunEnds, memory, drainer, Go, Base, TypeOK, MemoryOK, CapacityOK,
     ThreadsOK, DrainerOK, Threads, Draining, KnownInv, Sending
<1>22. ASSUME NEW r \in Runs, ExitAcks(r)
      PROVE  KnownInv'
  BY <1>22 DEF ExitAcks, memory, drainer, Go, Base, TypeOK, MemoryOK, CapacityOK,
     ThreadsOK, DrainerOK, Threads, Draining, KnownInv, Sending
<1>23. ASSUME NEW r \in Runs, ExitReleases(r)
      PROVE  KnownInv'
  BY <1>23, ThreadsAssumption, NoKeyAssumption DEF ExitReleases, memory, drainer, Go,
     Ends, Base, TypeOK, MemoryOK, CapacityOK, ThreadsOK, DrainerOK, Threads, Draining,
     KnownInv, Sending
<1>24. ASSUME NEW r \in Runs, Record(r)
      PROVE  KnownInv'
  BY <1>24 DEF Record, memory, capacity, drainer, Go, Base, TypeOK, RowsOK, MemoryOK,
     CapacityOK, ThreadsOK, DrainerOK, Threads, Draining, KnownInv, Sending
<1>25. ASSUME NEW r \in Runs, Decide(r)
      PROVE  KnownInv'
  BY <1>25, ThreadsAssumption, NoKeyAssumption DEF Decide, memory, drainer, Go, Pump,
     Ends, Base, TypeOK, MemoryOK, CapacityOK, ThreadsOK, DrainerOK, Threads, Draining,
     KnownInv, Sending
<1>26. ASSUME NEW r \in Runs, RetryJob(r)
      PROVE  KnownInv'
  BY <1>26, ThreadsAssumption, NoKeyAssumption DEF RetryJob, memory, drainer, Go, Pump,
     Ends, Base, TypeOK, RowsOK, MemoryOK, CapacityOK, ThreadsOK, DrainerOK, Threads,
     Draining, KnownInv, Sending
<1>27. ASSUME NEW j \in Jobs, BackoffEnds(j)
      PROVE  KnownInv'
  BY <1>27 DEF BackoffEnds, memory, capacity, threads, drainer, KnownInv, Sending,
     Draining
<1>28. ASSUME DrainTimer
      PROVE  KnownInv'
  BY <1>28 DEF DrainTimer, memory, capacity, threads, Base, TypeOK, MemoryOK,
     CapacityOK, ThreadsOK, DrainerOK, Threads, Draining, KnownInv, Sending
<1>29. ASSUME NEW k \in Keys, DrainAdmits(k)
      PROVE  KnownInv'
  BY <1>29 DEF DrainAdmits, memory, threads, Base, TypeOK, MemoryOK, CapacityOK,
     ThreadsOK, DrainerOK, Threads, Draining, KnownInv, Sending
<1>30. ASSUME DrainReturns
      PROVE  KnownInv'
  BY <1>30 DEF DrainReturns, memory, capacity, threads, Base, TypeOK, MemoryOK,
     CapacityOK, ThreadsOK, DrainerOK, Threads, Draining, KnownInv, Sending
<1>31. ASSUME DrainChecks
      PROVE  KnownInv'
  BY <1>31 DEF DrainChecks, memory, capacity, threads, Base, TypeOK, MemoryOK,
     CapacityOK, ThreadsOK, DrainerOK, Threads, Draining, KnownInv, Sending
<1>32. ASSUME DrainDrops
      PROVE  KnownInv'
  BY <1>32 DEF DrainDrops, memory, threads, Base, TypeOK, MemoryOK, CapacityOK,
     ThreadsOK, DrainerOK, Threads, Draining, KnownInv, Sending
<1>33. ASSUME NEW r \in Runs, AcquireSlot(r)
      PROVE  KnownInv'
  BY <1>33, ThreadsAssumption, NoKeyAssumption DEF AcquireSlot, memory, threads, Base,
     TypeOK, MemoryOK, CapacityOK, ThreadsOK, DrainerOK, Threads, Draining, KnownInv,
     Sending, Fresh
<1>34. ASSUME NoSlot
      PROVE  KnownInv'
  BY <1>34 DEF NoSlot, memory, capacity, threads, Base, TypeOK, MemoryOK, CapacityOK,
     ThreadsOK, DrainerOK, Threads, Draining, KnownInv, Sending
<1>35. ASSUME RequeueAcks
      PROVE  KnownInv'
  BY <1>35 DEF RequeueAcks, memory, threads, Base, TypeOK, MemoryOK, CapacityOK,
     ThreadsOK, DrainerOK, Threads, Draining, KnownInv, Sending
<1>36. ASSUME RequeueVerbatim
      PROVE  KnownInv'
  BY <1>36 DEF RequeueVerbatim, memory, threads, Base, TypeOK, MemoryOK, CapacityOK,
     ThreadsOK, DrainerOK, Threads, Draining, KnownInv, Sending
<1>37. ASSUME MarkJobRunning
      PROVE  KnownInv'
  BY <1>37 DEF MarkJobRunning, memory, capacity, threads, Base, TypeOK, RowsOK,
     MemoryOK, CapacityOK, ThreadsOK, DrainerOK, Threads, Draining, KnownInv, Sending
<1>38. ASSUME StartRun
      PROVE  KnownInv'
  BY <1>38, ThreadsAssumption, NoKeyAssumption DEF StartRun, memory, threads, Base,
     TypeOK, MemoryOK, CapacityOK, ThreadsOK, DrainerOK, GhostsOK, Threads, Draining,
     KnownInv, Sending
<1>39. ASSUME RefuseRun
      PROVE  KnownInv'
  BY <1>39, ThreadsAssumption, NoKeyAssumption DEF RefuseRun, memory, capacity, Go,
     Base, TypeOK, MemoryOK, CapacityOK, ThreadsOK, DrainerOK, Threads, Draining,
     KnownInv, Sending
<1>40. ASSUME SetupThrows
      PROVE  KnownInv'
  BY <1>40, ThreadsAssumption, NoKeyAssumption DEF SetupThrows, memory, threads, Base,
     TypeOK, MemoryOK, CapacityOK, ThreadsOK, DrainerOK, GhostsOK, Threads, Draining,
     KnownInv, Sending
<1>41. CASE UNCHANGED vars
  BY <1>41 DEF vars, memory, capacity, threads, drainer, KnownInv, Sending, Draining
<1>42. QED
  BY <1>1, <1>2, <1>3, <1>4, <1>5, <1>6, <1>7, <1>8, <1>9, <1>10, <1>11, <1>12, <1>13,
     <1>14, <1>15, <1>16, <1>17, <1>18, <1>19, <1>20, <1>21, <1>22, <1>23, <1>24, <1>25,
     <1>26, <1>27, <1>28, <1>29, <1>30, <1>31, <1>32, <1>33, <1>34, <1>35, <1>36, <1>37,
     <1>38, <1>39, <1>40, <1>41 DEF Next, CancelStep, PumpStep, ExitStep, DrainStep

\* ... nobody works on an eval before start() has written it.
LEMMA UnstartedStep ==
  ASSUME Base, KnownInv, UnstartedInv, StartingInv, [Next]_vars
  PROVE  UnstartedInv' /\ StartingInv'
<1>1. ASSUME NEW e \in Evals, Start(e)
      PROVE  UnstartedInv' /\ StartingInv'
  <2>1. UnstartedInv'
    BY <1>1, KeyParts, EvalType DEF Start, rows, Go, Base, TypeOK, RowsOK, MemoryOK,
       ThreadsOK, Threads, UnstartedInv, JobsOf
  <2>2. StartingInv'
    BY <1>1, KeyParts, EvalType DEF Start, rows, Go, Base, TypeOK, RowsOK, MemoryOK,
       ThreadsOK, StartingInv
  <2>3. QED
    BY <2>1, <2>2
<1>2. ASSUME NEW e \in Evals, StartFails(e)
      PROVE  UnstartedInv' /\ StartingInv'
  <2>1. UnstartedInv'
    BY <1>2, KeyParts, EvalType DEF StartFails, rows, Go, Base, TypeOK, RowsOK,
       MemoryOK, ThreadsOK, Threads, UnstartedInv, JobsOf
  <2>2. StartingInv'
    BY <1>2, KeyParts, EvalType DEF StartFails, rows, Go, Base, TypeOK, RowsOK,
       MemoryOK, ThreadsOK, StartingInv
  <2>3. QED
    BY <2>1, <2>2
<1>3. ASSUME NEW e \in Evals, GoesLive(e)
      PROVE  UnstartedInv' /\ StartingInv'
  <2>1. UnstartedInv'
    BY <1>3, KeyParts, EvalType DEF GoesLive, Go, Base, TypeOK, RowsOK, MemoryOK,
       ThreadsOK, Threads, UnstartedInv, JobsOf, NewRow
  <2>2. StartingInv'
    BY <1>3, KeyParts, EvalType DEF GoesLive, Go, Base, TypeOK, RowsOK, MemoryOK,
       ThreadsOK, Threads, PlaceInv, ThreadInv, DrainInv, Starting, Draining, KnownInv,
       UnstartedInv, StartingInv, Sending, PumpAt, ExitAt, JobsOf, NewRow
  <2>3. QED
    BY <2>1, <2>2
<1>4. ASSUME NEW e \in Evals, TimerFires(e)
      PROVE  UnstartedInv' /\ StartingInv'
  <2>1. UnstartedInv'
    BY <1>4, KeyParts, EvalType, ThreadsAssumption, NoKeyAssumption DEF TimerFires,
       rows, Go, Pump, Ends, Base, TypeOK, RowsOK, MemoryOK, CapacityOK, ThreadsOK,
       Threads, UnstartedInv, JobsOf, Eval
  <2>2. StartingInv'
    BY <1>4, KeyParts, EvalType, ThreadsAssumption, NoKeyAssumption DEF TimerFires,
       rows, Go, Pump, Ends, Base, TypeOK, RowsOK, MemoryOK, CapacityOK, ThreadsOK,
       Threads, PlaceInv, ThreadInv, DrainInv, Starting, Draining, KnownInv,
       UnstartedInv, StartingInv, Sending, PumpAt, ExitAt, JobsOf, Eval
  <2>3. QED
    BY <2>1, <2>2
<1>5. ASSUME NEW e \in Evals, Cancel(e)
      PROVE  UnstartedInv' /\ StartingInv'
  <2>1. UnstartedInv'
    BY <1>5 DEF Cancel, rows, threads, UnstartedInv
  <2>2. StartingInv'
    BY <1>5 DEF Cancel, rows, threads, StartingInv
  <2>3. QED
    BY <2>1, <2>2
<1>6. ASSUME NEW e \in Evals, CancelRows(e)
      PROVE  UnstartedInv' /\ StartingInv'
  <2>1. UnstartedInv'
    BY <1>6, KeyParts, EvalType DEF CancelRows, rows, memory, threads, Base, TypeOK,
       RowsOK, MemoryOK, ThreadsOK, DrainerOK, Threads, UnstartedInv, JobsOf,
       QueuedCancelled
  <2>2. StartingInv'
    BY <1>6 DEF CancelRows, memory, threads, StartingInv
  <2>3. QED
    BY <2>1, <2>2
<1>7. ASSUME NEW e \in Evals, CancelPurges(e)
      PROVE  UnstartedInv' /\ StartingInv'
  <2>1. UnstartedInv'
    BY <1>7 DEF CancelPurges, rows, memory, threads, UnstartedInv
  <2>2. StartingInv'
    BY <1>7 DEF CancelPurges, rows, memory, threads, StartingInv
  <2>3. QED
    BY <2>1, <2>2
<1>8. ASSUME NEW t \in Threads, ReadBudget(t)
      PROVE  UnstartedInv' /\ StartingInv'
  <2>1. UnstartedInv'
    BY <1>8, KeyParts, EvalType DEF ReadBudget, rows, memory, Go, Base, TypeOK, RowsOK,
       MemoryOK, ThreadsOK, Threads, UnstartedInv, JobsOf, Eval
  <2>2. StartingInv'
    BY <1>8, KeyParts, EvalType DEF ReadBudget, rows, memory, Go, Base, TypeOK, RowsOK,
       MemoryOK, ThreadsOK, StartingInv, Eval
  <2>3. QED
    BY <2>1, <2>2
<1>9. ASSUME NEW t \in Threads, AbortRows(t)
      PROVE  UnstartedInv' /\ StartingInv'
  <2>1. UnstartedInv'
    BY <1>9, KeyParts, EvalType DEF AbortRows, memory, Go, Base, TypeOK, RowsOK,
       MemoryOK, ThreadsOK, Threads, UnstartedInv, JobsOf, Eval, QueuedCancelled
  <2>2. StartingInv'
    BY <1>9, KeyParts, EvalType DEF AbortRows, memory, Go, Base, TypeOK, RowsOK,
       MemoryOK, ThreadsOK, StartingInv, JobsOf, Eval, QueuedCancelled
  <2>3. QED
    BY <2>1, <2>2
<1>10. ASSUME NEW t \in Threads, AbortFlag(t)
      PROVE  UnstartedInv' /\ StartingInv'
  <2>1. UnstartedInv'
    BY <1>10, KeyParts, EvalType DEF AbortFlag, rows, Go, Base, TypeOK, RowsOK,
       MemoryOK, ThreadsOK, Threads, UnstartedInv, JobsOf, Eval
  <2>2. StartingInv'
    BY <1>10, KeyParts, EvalType DEF AbortFlag, rows, Go, Base, TypeOK, RowsOK,
       MemoryOK, ThreadsOK, StartingInv, Eval
  <2>3. QED
    BY <2>1, <2>2
<1>11. ASSUME NEW t \in Threads, AbortStatus(t)
      PROVE  UnstartedInv' /\ StartingInv'
  <2>1. UnstartedInv'
    BY <1>11, KeyParts, EvalType DEF AbortStatus, memory, Go, Base, TypeOK, RowsOK,
       MemoryOK, ThreadsOK, Threads, UnstartedInv, JobsOf, Eval
  <2>2. StartingInv'
    BY <1>11, KeyParts, EvalType, ThreadsAssumption, NoKeyAssumption DEF AbortStatus,
       rows, memory, capacity, drainer, ghosts, Go, Base, TypeOK, RowsOK, MemoryOK,
       CapacityOK, ThreadsOK, DrainerOK, GhostsOK, Threads, PlaceInv, ThreadInv,
       DrainInv, Starting, Draining, KnownInv, UnstartedInv, StartingInv, Sending,
       PumpAt, ExitAt, JobsOf, Eval
  <2>3. QED
    BY <2>1, <2>2
<1>12. ASSUME NEW t \in Threads, Scan(t)
      PROVE  UnstartedInv' /\ StartingInv'
  <2>1. UnstartedInv'
    BY <1>12, KeyParts, EvalType DEF Scan, rows, memory, Go, Base, TypeOK, RowsOK,
       MemoryOK, ThreadsOK, Threads, UnstartedInv, JobsOf, Eval, Eligible, KeyOf
  <2>2. StartingInv'
    BY <1>12, KeyParts, EvalType DEF Scan, rows, memory, Go, Base, TypeOK, RowsOK,
       MemoryOK, ThreadsOK, StartingInv, JobsOf, Eval, Eligible, KeyOf
  <2>3. QED
    BY <2>1, <2>2
<1>13. ASSUME NEW t \in Threads, NEW k \in Keys, Send(t, k)
      PROVE  UnstartedInv' /\ StartingInv'
  <2>1. UnstartedInv'
    BY <1>13, KeyParts, EvalType DEF Send, rows, Go, Base, TypeOK, RowsOK, MemoryOK,
       ThreadsOK, Threads, UnstartedInv, JobsOf
  <2>2. StartingInv'
    BY <1>13, KeyParts, EvalType DEF Send, rows, Go, Base, TypeOK, RowsOK, MemoryOK,
       ThreadsOK, StartingInv
  <2>3. QED
    BY <2>1, <2>2
<1>14. ASSUME NEW t \in Threads, Sent(t)
      PROVE  UnstartedInv' /\ StartingInv'
  <2>1. UnstartedInv'
    BY <1>14, KeyParts, EvalType DEF Sent, memory, Go, Base, TypeOK, RowsOK, MemoryOK,
       CapacityOK, ThreadsOK, Threads, PlaceInv, ThreadInv, DrainInv, Starting,
       Draining, KnownInv, UnstartedInv, StartingInv, Sending, PumpAt, ExitAt, JobsOf
  <2>2. StartingInv'
    BY <1>14, KeyParts, EvalType DEF Sent, memory, Go, Base, TypeOK, RowsOK, MemoryOK,
       CapacityOK, ThreadsOK, StartingInv
  <2>3. QED
    BY <2>1, <2>2
<1>15. ASSUME NEW t \in Threads, AllSent(t)
      PROVE  UnstartedInv' /\ StartingInv'
  <2>1. UnstartedInv'
    BY <1>15, KeyParts, EvalType, ThreadsAssumption, NoKeyAssumption DEF AllSent, rows,
       memory, Go, Ends, Base, TypeOK, RowsOK, MemoryOK, CapacityOK, ThreadsOK,
       DrainerOK, Threads, UnstartedInv, JobsOf, Eval
  <2>2. StartingInv'
    BY <1>15, KeyParts, EvalType, ThreadsAssumption, NoKeyAssumption DEF AllSent, rows,
       memory, Go, Ends, Base, TypeOK, RowsOK, MemoryOK, CapacityOK, ThreadsOK,
       DrainerOK, Threads, PlaceInv, ThreadInv, DrainInv, Starting, Draining, KnownInv,
       UnstartedInv, StartingInv, Sending, PumpAt, ExitAt, JobsOf, Eval
  <2>3. QED
    BY <2>1, <2>2
<1>16. ASSUME NEW t \in Threads, Count(t)
      PROVE  UnstartedInv' /\ StartingInv'
  <2>1. UnstartedInv'
    BY <1>16, KeyParts, EvalType DEF Count, rows, memory, Go, Base, TypeOK, RowsOK,
       MemoryOK, ThreadsOK, Threads, UnstartedInv, JobsOf, Eval
  <2>2. StartingInv'
    BY <1>16, KeyParts, EvalType DEF Count, rows, memory, Go, Base, TypeOK, RowsOK,
       MemoryOK, ThreadsOK, StartingInv, Eval
  <2>3. QED
    BY <2>1, <2>2
<1>17. ASSUME NEW t \in Threads, Finish(t)
      PROVE  UnstartedInv' /\ StartingInv'
  <2>1. UnstartedInv'
    BY <1>17, KeyParts, EvalType DEF Finish, rows, Go, Base, TypeOK, RowsOK, MemoryOK,
       ThreadsOK, Threads, UnstartedInv, JobsOf, Eval
  <2>2. StartingInv'
    BY <1>17, KeyParts, EvalType DEF Finish, rows, Go, Base, TypeOK, RowsOK, MemoryOK,
       ThreadsOK, StartingInv, Eval
  <2>3. QED
    BY <2>1, <2>2
<1>18. ASSUME NEW t \in Threads, Verdict(t)
      PROVE  UnstartedInv' /\ StartingInv'
  <2>1. UnstartedInv'
    BY <1>18, KeyParts, EvalType DEF Verdict, rows, memory, Go, Base, TypeOK, RowsOK,
       MemoryOK, ThreadsOK, Threads, UnstartedInv, JobsOf, Eval
  <2>2. StartingInv'
    BY <1>18, KeyParts, EvalType DEF Verdict, rows, memory, Go, Base, TypeOK, RowsOK,
       MemoryOK, ThreadsOK, StartingInv, Eval
  <2>3. QED
    BY <2>1, <2>2
<1>19. ASSUME NEW t \in Threads, Report(t)
      PROVE  UnstartedInv' /\ StartingInv'
  <2>1. UnstartedInv'
    BY <1>19, KeyParts, EvalType, ThreadsAssumption, NoKeyAssumption DEF Report, memory,
       Go, Ends, Base, TypeOK, RowsOK, MemoryOK, CapacityOK, ThreadsOK, GhostsOK,
       Threads, UnstartedInv, JobsOf, Eval
  <2>2. StartingInv'
    BY <1>19, KeyParts, EvalType, ThreadsAssumption, NoKeyAssumption DEF Report, memory,
       Go, Ends, Base, TypeOK, RowsOK, MemoryOK, CapacityOK, ThreadsOK, GhostsOK,
       Threads, PlaceInv, ThreadInv, DrainInv, Starting, Draining, KnownInv,
       UnstartedInv, StartingInv, Sending, PumpAt, ExitAt, JobsOf, Eval
  <2>3. QED
    BY <2>1, <2>2
<1>20. ASSUME NEW t \in Threads, ScheduleRetryWake(t)
      PROVE  UnstartedInv' /\ StartingInv'
  <2>1. UnstartedInv'
    BY <1>20, KeyParts, EvalType, ThreadsAssumption, NoKeyAssumption DEF
       ScheduleRetryWake, rows, Go, Ends, Base, TypeOK, RowsOK, MemoryOK, CapacityOK,
       ThreadsOK, Threads, UnstartedInv, JobsOf, Eval
  <2>2. StartingInv'
    BY <1>20, KeyParts, EvalType, ThreadsAssumption, NoKeyAssumption DEF
       ScheduleRetryWake, rows, Go, Ends, Base, TypeOK, RowsOK, MemoryOK, CapacityOK,
       ThreadsOK, StartingInv, Eval
  <2>3. QED
    BY <2>1, <2>2
<1>21. ASSUME NEW r \in Runs, RunEnds(r)
      PROVE  UnstartedInv' /\ StartingInv'
  <2>1. UnstartedInv'
    BY <1>21, KeyParts, EvalType, ThreadsAssumption, NoKeyAssumption DEF RunEnds, rows,
       memory, drainer, ghosts, Go, Base, TypeOK, RowsOK, MemoryOK, CapacityOK,
       ThreadsOK, DrainerOK, GhostsOK, Threads, PlaceInv, ThreadInv, DrainInv, Starting,
       Draining, KnownInv, UnstartedInv, StartingInv, Sending, PumpAt, ExitAt, JobsOf
  <2>2. StartingInv'
    BY <1>21, KeyParts, EvalType DEF RunEnds, rows, memory, Go, Base, TypeOK, RowsOK,
       MemoryOK, CapacityOK, ThreadsOK, StartingInv
  <2>3. QED
    BY <2>1, <2>2
<1>22. ASSUME NEW r \in Runs, ExitAcks(r)
      PROVE  UnstartedInv' /\ StartingInv'
  <2>1. UnstartedInv'
    BY <1>22, KeyParts, EvalType DEF ExitAcks, rows, memory, Go, Base, TypeOK, RowsOK,
       MemoryOK, CapacityOK, ThreadsOK, Threads, UnstartedInv, JobsOf
  <2>2. StartingInv'
    BY <1>22, KeyParts, EvalType DEF ExitAcks, rows, memory, Go, Base, TypeOK, RowsOK,
       MemoryOK, CapacityOK, ThreadsOK, StartingInv
  <2>3. QED
    BY <2>1, <2>2
<1>23. ASSUME NEW r \in Runs, ExitReleases(r)
      PROVE  UnstartedInv' /\ StartingInv'
  <2>1. UnstartedInv'
    BY <1>23, KeyParts, EvalType, ThreadsAssumption, NoKeyAssumption DEF ExitReleases,
       rows, memory, Go, Ends, Base, TypeOK, RowsOK, MemoryOK, CapacityOK, ThreadsOK,
       Threads, UnstartedInv, JobsOf, Eval
  <2>2. StartingInv'
    BY <1>23, KeyParts, EvalType, ThreadsAssumption, NoKeyAssumption DEF ExitReleases,
       rows, memory, Go, Ends, Base, TypeOK, RowsOK, MemoryOK, CapacityOK, ThreadsOK,
       Threads, PlaceInv, ThreadInv, DrainInv, Starting, Draining, KnownInv,
       UnstartedInv, StartingInv, Sending, PumpAt, ExitAt, JobsOf, Eval
  <2>3. QED
    BY <2>1, <2>2
<1>24. ASSUME NEW r \in Runs, Record(r)
      PROVE  UnstartedInv' /\ StartingInv'
  <2>1. UnstartedInv'
    BY <1>24, KeyParts, EvalType, ThreadsAssumption, NoKeyAssumption DEF Record, rows,
       memory, capacity, drainer, ghosts, Go, Base, TypeOK, RowsOK, MemoryOK,
       CapacityOK, ThreadsOK, DrainerOK, GhostsOK, Threads, PlaceInv, ThreadInv,
       DrainInv, Starting, Draining, KnownInv, UnstartedInv, StartingInv, Sending,
       PumpAt, ExitAt, JobsOf, Eval
  <2>2. StartingInv'
    BY <1>24, KeyParts, EvalType DEF Record, memory, Go, Base, TypeOK, RowsOK, MemoryOK,
       ThreadsOK, StartingInv, Eval
  <2>3. QED
    BY <2>1, <2>2
<1>25. ASSUME NEW r \in Runs, Decide(r)
      PROVE  UnstartedInv' /\ StartingInv'
  <2>1. UnstartedInv'
    BY <1>25, KeyParts, EvalType, ThreadsAssumption, NoKeyAssumption DEF Decide, rows,
       memory, Go, Pump, Ends, Base, TypeOK, RowsOK, MemoryOK, CapacityOK, ThreadsOK,
       Threads, UnstartedInv, JobsOf, Eval
  <2>2. StartingInv'
    BY <1>25, KeyParts, EvalType, ThreadsAssumption, NoKeyAssumption DEF Decide, rows,
       memory, Go, Pump, Ends, Base, TypeOK, RowsOK, MemoryOK, CapacityOK, ThreadsOK,
       Threads, PlaceInv, ThreadInv, DrainInv, Starting, Draining, KnownInv,
       UnstartedInv, StartingInv, Sending, PumpAt, ExitAt, JobsOf, Eval
  <2>3. QED
    BY <2>1, <2>2
<1>26. ASSUME NEW r \in Runs, RetryJob(r)
      PROVE  UnstartedInv' /\ StartingInv'
  <2>1. UnstartedInv'
    BY <1>26, KeyParts, EvalType, ThreadsAssumption, NoKeyAssumption DEF RetryJob,
       memory, Go, Pump, Ends, Base, TypeOK, RowsOK, MemoryOK, CapacityOK, ThreadsOK,
       Threads, PlaceInv, ThreadInv, DrainInv, Starting, Draining, KnownInv,
       UnstartedInv, StartingInv, Sending, PumpAt, ExitAt, JobsOf, Eval
  <2>2. StartingInv'
    BY <1>26, KeyParts, EvalType, ThreadsAssumption, NoKeyAssumption DEF RetryJob,
       memory, Go, Pump, Ends, Base, TypeOK, RowsOK, MemoryOK, CapacityOK, ThreadsOK,
       Threads, PlaceInv, ThreadInv, DrainInv, Starting, Draining, KnownInv,
       UnstartedInv, StartingInv, Sending, PumpAt, ExitAt, JobsOf, Eval
  <2>3. QED
    BY <2>1, <2>2
<1>27. ASSUME NEW j \in Jobs, BackoffEnds(j)
      PROVE  UnstartedInv' /\ StartingInv'
  <2>1. UnstartedInv'
    BY <1>27, KeyParts, EvalType DEF BackoffEnds, memory, threads, Base, TypeOK, RowsOK,
       MemoryOK, ThreadsOK, Threads, UnstartedInv, JobsOf
  <2>2. StartingInv'
    BY <1>27 DEF BackoffEnds, memory, threads, StartingInv
  <2>3. QED
    BY <2>1, <2>2
<1>28. ASSUME DrainTimer
      PROVE  UnstartedInv' /\ StartingInv'
  <2>1. UnstartedInv'
    BY <1>28 DEF DrainTimer, rows, memory, threads, UnstartedInv
  <2>2. StartingInv'
    BY <1>28 DEF DrainTimer, rows, memory, threads, StartingInv
  <2>3. QED
    BY <2>1, <2>2
<1>29. ASSUME NEW k \in Keys, DrainAdmits(k)
      PROVE  UnstartedInv' /\ StartingInv'
  <2>1. UnstartedInv'
    BY <1>29 DEF DrainAdmits, rows, memory, threads, UnstartedInv
  <2>2. StartingInv'
    BY <1>29 DEF DrainAdmits, rows, memory, threads, StartingInv
  <2>3. QED
    BY <2>1, <2>2
<1>30. ASSUME DrainReturns
      PROVE  UnstartedInv' /\ StartingInv'
  <2>1. UnstartedInv'
    BY <1>30 DEF DrainReturns, rows, memory, threads, UnstartedInv
  <2>2. StartingInv'
    BY <1>30 DEF DrainReturns, rows, memory, threads, StartingInv
  <2>3. QED
    BY <2>1, <2>2
<1>31. ASSUME DrainChecks
      PROVE  UnstartedInv' /\ StartingInv'
  <2>1. UnstartedInv'
    BY <1>31 DEF DrainChecks, rows, memory, threads, UnstartedInv
  <2>2. StartingInv'
    BY <1>31 DEF DrainChecks, rows, memory, threads, StartingInv
  <2>3. QED
    BY <2>1, <2>2
<1>32. ASSUME DrainDrops
      PROVE  UnstartedInv' /\ StartingInv'
  <2>1. UnstartedInv'
    BY <1>32 DEF DrainDrops, rows, memory, threads, UnstartedInv
  <2>2. StartingInv'
    BY <1>32 DEF DrainDrops, rows, memory, threads, StartingInv
  <2>3. QED
    BY <2>1, <2>2
<1>33. ASSUME NEW r \in Runs, AcquireSlot(r)
      PROVE  UnstartedInv' /\ StartingInv'
  <2>1. UnstartedInv'
    BY <1>33 DEF AcquireSlot, rows, memory, threads, UnstartedInv
  <2>2. StartingInv'
    BY <1>33 DEF AcquireSlot, rows, memory, threads, StartingInv
  <2>3. QED
    BY <2>1, <2>2
<1>34. ASSUME NoSlot
      PROVE  UnstartedInv' /\ StartingInv'
  <2>1. UnstartedInv'
    BY <1>34 DEF NoSlot, rows, memory, threads, UnstartedInv
  <2>2. StartingInv'
    BY <1>34 DEF NoSlot, rows, memory, threads, StartingInv
  <2>3. QED
    BY <2>1, <2>2
<1>35. ASSUME RequeueAcks
      PROVE  UnstartedInv' /\ StartingInv'
  <2>1. UnstartedInv'
    BY <1>35 DEF RequeueAcks, rows, memory, threads, UnstartedInv
  <2>2. StartingInv'
    BY <1>35 DEF RequeueAcks, rows, memory, threads, StartingInv
  <2>3. QED
    BY <2>1, <2>2
<1>36. ASSUME RequeueVerbatim
      PROVE  UnstartedInv' /\ StartingInv'
  <2>1. UnstartedInv'
    BY <1>36 DEF RequeueVerbatim, rows, memory, threads, UnstartedInv
  <2>2. StartingInv'
    BY <1>36 DEF RequeueVerbatim, rows, memory, threads, StartingInv
  <2>3. QED
    BY <2>1, <2>2
<1>37. ASSUME MarkJobRunning
      PROVE  UnstartedInv' /\ StartingInv'
  <2>1. UnstartedInv'
    BY <1>37, KeyParts, EvalType DEF MarkJobRunning, rows, memory, threads, Base,
       TypeOK, RowsOK, MemoryOK, ThreadsOK, DrainerOK, Threads, PlaceInv, ThreadInv,
       DrainInv, Starting, Draining, KnownInv, UnstartedInv, StartingInv, Sending,
       PumpAt, ExitAt, JobsOf
  <2>2. StartingInv'
    BY <1>37 DEF MarkJobRunning, memory, threads, StartingInv
  <2>3. QED
    BY <2>1, <2>2
<1>38. ASSUME StartRun
      PROVE  UnstartedInv' /\ StartingInv'
  <2>1. UnstartedInv'
    BY <1>38 DEF StartRun, rows, memory, threads, UnstartedInv
  <2>2. StartingInv'
    BY <1>38 DEF StartRun, rows, memory, threads, StartingInv
  <2>3. QED
    BY <2>1, <2>2
<1>39. ASSUME RefuseRun
      PROVE  UnstartedInv' /\ StartingInv'
  <2>1. UnstartedInv'
    BY <1>39, KeyParts, EvalType, ThreadsAssumption, NoKeyAssumption DEF RefuseRun,
       rows, memory, Go, Base, TypeOK, RowsOK, MemoryOK, ThreadsOK, DrainerOK, Threads,
       PlaceInv, ThreadInv, DrainInv, Starting, Draining, KnownInv, UnstartedInv,
       StartingInv, Sending, PumpAt, ExitAt, JobsOf
  <2>2. StartingInv'
    BY <1>39, KeyParts, EvalType, ThreadsAssumption, NoKeyAssumption DEF RefuseRun,
       rows, memory, Go, Base, TypeOK, RowsOK, MemoryOK, ThreadsOK, DrainerOK,
       StartingInv
  <2>3. QED
    BY <2>1, <2>2
<1>40. ASSUME SetupThrows
      PROVE  UnstartedInv' /\ StartingInv'
  <2>1. UnstartedInv'
    BY <1>40 DEF SetupThrows, rows, memory, threads, UnstartedInv
  <2>2. StartingInv'
    BY <1>40 DEF SetupThrows, rows, memory, threads, StartingInv
  <2>3. QED
    BY <2>1, <2>2
<1>41. CASE UNCHANGED vars
  <2>1. UnstartedInv'
    BY <1>41 DEF vars, rows, memory, threads, UnstartedInv
  <2>2. StartingInv'
    BY <1>41 DEF vars, rows, memory, threads, StartingInv
  <2>3. QED
    BY <2>1, <2>2
<1>42. QED
  BY <1>1, <1>2, <1>3, <1>4, <1>5, <1>6, <1>7, <1>8, <1>9, <1>10, <1>11, <1>12, <1>13,
     <1>14, <1>15, <1>16, <1>17, <1>18, <1>19, <1>20, <1>21, <1>22, <1>23, <1>24, <1>25,
     <1>26, <1>27, <1>28, <1>29, <1>30, <1>31, <1>32, <1>33, <1>34, <1>35, <1>36, <1>37,
     <1>38, <1>39, <1>40, <1>41 DEF Next, CancelStep, PumpStep, ExitStep, DrainStep

\* No step makes two evals of a workspace live.
LEMMA WorkspaceStep ==
  ASSUME Base, WorkspaceInv, [Next]_vars
  PROVE  WorkspaceInv'
<1>1. ASSUME NEW e \in Evals, Start(e)
      PROVE  WorkspaceInv'
  BY <1>1, WsAssumption DEF Start, Go, Base, TypeOK, MemoryOK, ThreadsOK, WorkspaceInv,
     OneEvalPerWorkspace, ActiveIn
<1>2. ASSUME NEW e \in Evals, StartFails(e)
      PROVE  WorkspaceInv'
  BY <1>2, WsAssumption DEF StartFails, Go, Base, TypeOK, MemoryOK, ThreadsOK, Threads,
     PlaceInv, ThreadInv, DrainInv, Starting, Draining, WorkspaceInv,
     OneEvalPerWorkspace, PumpAt, ExitAt
<1>3. ASSUME NEW e \in Evals, GoesLive(e)
      PROVE  WorkspaceInv'
  BY <1>3, WsAssumption DEF GoesLive, Go, Base, TypeOK, RowsOK, MemoryOK, ThreadsOK,
     Threads, PlaceInv, ThreadInv, DrainInv, Starting, Draining, WorkspaceInv,
     OneEvalPerWorkspace, PumpAt, ExitAt
<1>4. ASSUME NEW e \in Evals, TimerFires(e)
      PROVE  WorkspaceInv'
  BY <1>4, WsAssumption, ThreadsAssumption, NoKeyAssumption DEF TimerFires, Go, Pump,
     Ends, Base, TypeOK, MemoryOK, CapacityOK, ThreadsOK, Threads, PlaceInv, ThreadInv,
     DrainInv, Starting, Draining, WorkspaceInv, OneEvalPerWorkspace, PumpAt, ExitAt
<1>5. ASSUME NEW e \in Evals, Cancel(e)
      PROVE  WorkspaceInv'
  BY <1>5 DEF Cancel, threads, WorkspaceInv, OneEvalPerWorkspace
<1>6. ASSUME NEW e \in Evals, CancelRows(e)
      PROVE  WorkspaceInv'
  BY <1>6 DEF CancelRows, memory, threads, WorkspaceInv, OneEvalPerWorkspace
<1>7. ASSUME NEW e \in Evals, CancelPurges(e)
      PROVE  WorkspaceInv'
  BY <1>7 DEF CancelPurges, memory, threads, WorkspaceInv, OneEvalPerWorkspace
<1>8. ASSUME NEW t \in Threads, ReadBudget(t)
      PROVE  WorkspaceInv'
  BY <1>8, WsAssumption DEF ReadBudget, memory, Go, Base, TypeOK, MemoryOK, ThreadsOK,
     WorkspaceInv, OneEvalPerWorkspace
<1>9. ASSUME NEW t \in Threads, AbortRows(t)
      PROVE  WorkspaceInv'
  BY <1>9, WsAssumption DEF AbortRows, memory, Go, Base, TypeOK, RowsOK, MemoryOK,
     ThreadsOK, WorkspaceInv, OneEvalPerWorkspace
<1>10. ASSUME NEW t \in Threads, AbortFlag(t)
      PROVE  WorkspaceInv'
  BY <1>10, WsAssumption DEF AbortFlag, Go, Base, TypeOK, RowsOK, MemoryOK, ThreadsOK,
     WorkspaceInv, OneEvalPerWorkspace
<1>11. ASSUME NEW t \in Threads, AbortStatus(t)
      PROVE  WorkspaceInv'
  BY <1>11, WsAssumption DEF AbortStatus, memory, Go, Base, TypeOK, RowsOK, MemoryOK,
     ThreadsOK, WorkspaceInv, OneEvalPerWorkspace
<1>12. ASSUME NEW t \in Threads, Scan(t)
      PROVE  WorkspaceInv'
  BY <1>12, WsAssumption DEF Scan, memory, Go, Base, TypeOK, MemoryOK, ThreadsOK,
     WorkspaceInv, OneEvalPerWorkspace
<1>13. ASSUME NEW t \in Threads, NEW k \in Keys, Send(t, k)
      PROVE  WorkspaceInv'
  BY <1>13, WsAssumption DEF Send, Go, Base, TypeOK, MemoryOK, ThreadsOK, WorkspaceInv,
     OneEvalPerWorkspace
<1>14. ASSUME NEW t \in Threads, Sent(t)
      PROVE  WorkspaceInv'
  BY <1>14, WsAssumption DEF Sent, memory, Go, Base, TypeOK, RowsOK, MemoryOK,
     CapacityOK, ThreadsOK, WorkspaceInv, OneEvalPerWorkspace
<1>15. ASSUME NEW t \in Threads, AllSent(t)
      PROVE  WorkspaceInv'
  BY <1>15, WsAssumption, ThreadsAssumption, NoKeyAssumption DEF AllSent, memory, Go,
     Ends, Base, TypeOK, MemoryOK, CapacityOK, ThreadsOK, DrainerOK, Threads, PlaceInv,
     ThreadInv, DrainInv, Starting, Draining, WorkspaceInv, OneEvalPerWorkspace, PumpAt,
     ExitAt
<1>16. ASSUME NEW t \in Threads, Count(t)
      PROVE  WorkspaceInv'
  BY <1>16, WsAssumption DEF Count, memory, Go, Base, TypeOK, MemoryOK, ThreadsOK,
     WorkspaceInv, OneEvalPerWorkspace
<1>17. ASSUME NEW t \in Threads, Finish(t)
      PROVE  WorkspaceInv'
  BY <1>17, WsAssumption DEF Finish, Go, Base, TypeOK, MemoryOK, ThreadsOK,
     WorkspaceInv, OneEvalPerWorkspace
<1>18. ASSUME NEW t \in Threads, Verdict(t)
      PROVE  WorkspaceInv'
  BY <1>18, WsAssumption DEF Verdict, memory, Go, Base, TypeOK, MemoryOK, ThreadsOK,
     WorkspaceInv, OneEvalPerWorkspace
<1>19. ASSUME NEW t \in Threads, Report(t)
      PROVE  WorkspaceInv'
  BY <1>19, WsAssumption, ThreadsAssumption, NoKeyAssumption DEF Report, memory, Go,
     Ends, Base, TypeOK, RowsOK, MemoryOK, CapacityOK, ThreadsOK, GhostsOK,
     WorkspaceInv, OneEvalPerWorkspace
<1>20. ASSUME NEW t \in Threads, ScheduleRetryWake(t)
      PROVE  WorkspaceInv'
  BY <1>20, WsAssumption, ThreadsAssumption, NoKeyAssumption DEF ScheduleRetryWake, Go,
     Ends, Base, TypeOK, MemoryOK, CapacityOK, ThreadsOK, WorkspaceInv,
     OneEvalPerWorkspace
<1>21. ASSUME NEW r \in Runs, RunEnds(r)
      PROVE  WorkspaceInv'
  BY <1>21, WsAssumption DEF RunEnds, memory, Go, Base, TypeOK, MemoryOK, CapacityOK,
     ThreadsOK, WorkspaceInv, OneEvalPerWorkspace
<1>22. ASSUME NEW r \in Runs, ExitAcks(r)
      PROVE  WorkspaceInv'
  BY <1>22, WsAssumption DEF ExitAcks, memory, Go, Base, TypeOK, MemoryOK, CapacityOK,
     ThreadsOK, WorkspaceInv, OneEvalPerWorkspace
<1>23. ASSUME NEW r \in Runs, ExitReleases(r)
      PROVE  WorkspaceInv'
  BY <1>23, WsAssumption, ThreadsAssumption, NoKeyAssumption DEF ExitReleases, memory,
     Go, Ends, Base, TypeOK, MemoryOK, CapacityOK, ThreadsOK, Threads, PlaceInv,
     ThreadInv, DrainInv, Starting, Draining, WorkspaceInv, OneEvalPerWorkspace, PumpAt,
     ExitAt
<1>24. ASSUME NEW r \in Runs, Record(r)
      PROVE  WorkspaceInv'
  BY <1>24, WsAssumption DEF Record, memory, Go, Base, TypeOK, RowsOK, MemoryOK,
     ThreadsOK, WorkspaceInv, OneEvalPerWorkspace
<1>25. ASSUME NEW r \in Runs, Decide(r)
      PROVE  WorkspaceInv'
  BY <1>25, WsAssumption, ThreadsAssumption, NoKeyAssumption DEF Decide, memory, Go,
     Pump, Ends, Base, TypeOK, MemoryOK, CapacityOK, ThreadsOK, Threads, PlaceInv,
     ThreadInv, DrainInv, Starting, Draining, WorkspaceInv, OneEvalPerWorkspace, PumpAt,
     ExitAt
<1>26. ASSUME NEW r \in Runs, RetryJob(r)
      PROVE  WorkspaceInv'
  <2>1. \A e \in Evals : pc'[e] = pc[e]
    BY <1>26, PumpEffect, ThreadsAssumption DEF RetryJob, Base, TypeOK, ThreadsOK,
       Threads
  <2>2. UNCHANGED <<starting, live>>
    BY <1>26 DEF RetryJob, memory
  <2>3. QED
    BY <2>1, <2>2 DEF WorkspaceInv, OneEvalPerWorkspace
<1>27. ASSUME NEW j \in Jobs, BackoffEnds(j)
      PROVE  WorkspaceInv'
  BY <1>27 DEF BackoffEnds, memory, threads, WorkspaceInv, OneEvalPerWorkspace
<1>28. ASSUME DrainTimer
      PROVE  WorkspaceInv'
  BY <1>28 DEF DrainTimer, memory, threads, WorkspaceInv, OneEvalPerWorkspace
<1>29. ASSUME NEW k \in Keys, DrainAdmits(k)
      PROVE  WorkspaceInv'
  BY <1>29 DEF DrainAdmits, memory, threads, WorkspaceInv, OneEvalPerWorkspace
<1>30. ASSUME DrainReturns
      PROVE  WorkspaceInv'
  BY <1>30 DEF DrainReturns, memory, threads, WorkspaceInv, OneEvalPerWorkspace
<1>31. ASSUME DrainChecks
      PROVE  WorkspaceInv'
  BY <1>31 DEF DrainChecks, memory, threads, WorkspaceInv, OneEvalPerWorkspace
<1>32. ASSUME DrainDrops
      PROVE  WorkspaceInv'
  BY <1>32 DEF DrainDrops, memory, threads, WorkspaceInv, OneEvalPerWorkspace
<1>33. ASSUME NEW r \in Runs, AcquireSlot(r)
      PROVE  WorkspaceInv'
  BY <1>33 DEF AcquireSlot, memory, threads, WorkspaceInv, OneEvalPerWorkspace
<1>34. ASSUME NoSlot
      PROVE  WorkspaceInv'
  BY <1>34 DEF NoSlot, memory, threads, WorkspaceInv, OneEvalPerWorkspace
<1>35. ASSUME RequeueAcks
      PROVE  WorkspaceInv'
  BY <1>35 DEF RequeueAcks, memory, threads, WorkspaceInv, OneEvalPerWorkspace
<1>36. ASSUME RequeueVerbatim
      PROVE  WorkspaceInv'
  BY <1>36 DEF RequeueVerbatim, memory, threads, WorkspaceInv, OneEvalPerWorkspace
<1>37. ASSUME MarkJobRunning
      PROVE  WorkspaceInv'
  BY <1>37 DEF MarkJobRunning, memory, threads, WorkspaceInv, OneEvalPerWorkspace
<1>38. ASSUME StartRun
      PROVE  WorkspaceInv'
  BY <1>38 DEF StartRun, memory, threads, WorkspaceInv, OneEvalPerWorkspace
<1>39. ASSUME RefuseRun
      PROVE  WorkspaceInv'
  BY <1>39, WsAssumption, ThreadsAssumption, NoKeyAssumption DEF RefuseRun, memory, Go,
     Base, TypeOK, MemoryOK, ThreadsOK, DrainerOK, WorkspaceInv, OneEvalPerWorkspace
<1>40. ASSUME SetupThrows
      PROVE  WorkspaceInv'
  BY <1>40 DEF SetupThrows, memory, threads, WorkspaceInv, OneEvalPerWorkspace
<1>41. CASE UNCHANGED vars
  BY <1>41 DEF vars, memory, threads, WorkspaceInv, OneEvalPerWorkspace
<1>42. QED
  BY <1>1, <1>2, <1>3, <1>4, <1>5, <1>6, <1>7, <1>8, <1>9, <1>10, <1>11, <1>12, <1>13,
     <1>14, <1>15, <1>16, <1>17, <1>18, <1>19, <1>20, <1>21, <1>22, <1>23, <1>24, <1>25,
     <1>26, <1>27, <1>28, <1>29, <1>30, <1>31, <1>32, <1>33, <1>34, <1>35, <1>36, <1>37,
     <1>38, <1>39, <1>40, <1>41 DEF Next, CancelStep, PumpStep, ExitStep, DrainStep

\* start() claims its workspace before its first await: two of one workspace
\* are never live together, however many messages overlap.
THEOREM OneEvalAtATime == Spec => []OneEvalPerWorkspace
<1>1. Init => WorkspaceInv
  BY ThreadsAssumption DEF Init, WorkspaceInv, OneEvalPerWorkspace, Threads
<1>2. Base /\ WorkspaceInv /\ [Next]_vars => WorkspaceInv'
  BY WorkspaceStep
<1>3. WorkspaceInv => OneEvalPerWorkspace
  BY DEF WorkspaceInv
<1>4. QED
  BY <1>1, <1>2, <1>3, BaseInvariant, PTL DEF Spec

-----------------------------------------------------------------------------
(* The pool *)

\* Only the drain fills the pool, so the room it saw is still there when it
\* gets to the start.
PoolInv ==
  /\ IsFiniteSet(pool) /\ Cardinality(pool) <= PoolSize
  /\ drainAt \in {"check", "slot", "row", "start"} => Cardinality(pool) < PoolSize

\* A start takes a slot that is free, an end gives one back.
LEMMA PoolStep ==
  ASSUME Base, PoolInv, [Next]_vars
  PROVE  PoolInv'
<1>1. ASSUME NEW e \in Evals, Start(e)
      PROVE  PoolInv'
  BY <1>1 DEF Start, rows, capacity, drainer, PoolInv
<1>2. ASSUME NEW e \in Evals, StartFails(e)
      PROVE  PoolInv'
  BY <1>2 DEF StartFails, rows, capacity, drainer, PoolInv
<1>3. ASSUME NEW e \in Evals, GoesLive(e)
      PROVE  PoolInv'
  BY <1>3 DEF GoesLive, capacity, drainer, Go, PoolInv
<1>4. ASSUME NEW e \in Evals, TimerFires(e)
      PROVE  PoolInv'
  BY <1>4 DEF TimerFires, rows, drainer, PoolInv
<1>5. ASSUME NEW e \in Evals, Cancel(e)
      PROVE  PoolInv'
  BY <1>5 DEF Cancel, rows, capacity, drainer, PoolInv
<1>6. ASSUME NEW e \in Evals, CancelRows(e)
      PROVE  PoolInv'
  BY <1>6 DEF CancelRows, rows, capacity, drainer, PoolInv
<1>7. ASSUME NEW e \in Evals, CancelPurges(e)
      PROVE  PoolInv'
  BY <1>7 DEF CancelPurges, rows, drainer, PoolInv
<1>8. ASSUME NEW t \in Threads, ReadBudget(t)
      PROVE  PoolInv'
  BY <1>8 DEF ReadBudget, rows, capacity, drainer, PoolInv
<1>9. ASSUME NEW t \in Threads, AbortRows(t)
      PROVE  PoolInv'
  BY <1>9 DEF AbortRows, capacity, drainer, Go, PoolInv
<1>10. ASSUME NEW t \in Threads, AbortFlag(t)
      PROVE  PoolInv'
  BY <1>10 DEF AbortFlag, rows, capacity, drainer, PoolInv
<1>11. ASSUME NEW t \in Threads, AbortStatus(t)
      PROVE  PoolInv'
  BY <1>11 DEF AbortStatus, capacity, drainer, PoolInv
<1>12. ASSUME NEW t \in Threads, Scan(t)
      PROVE  PoolInv'
  BY <1>12 DEF Scan, rows, capacity, drainer, PoolInv
<1>13. ASSUME NEW t \in Threads, NEW k \in Keys, Send(t, k)
      PROVE  PoolInv'
  BY <1>13 DEF Send, rows, capacity, drainer, PoolInv
<1>14. ASSUME NEW t \in Threads, Sent(t)
      PROVE  PoolInv'
  BY <1>14 DEF Sent, drainer, Go, PoolInv
<1>15. ASSUME NEW t \in Threads, AllSent(t)
      PROVE  PoolInv'
  BY <1>15 DEF AllSent, rows, Go, Ends, PoolInv
<1>16. ASSUME NEW t \in Threads, Count(t)
      PROVE  PoolInv'
  BY <1>16 DEF Count, rows, capacity, drainer, PoolInv
<1>17. ASSUME NEW t \in Threads, Finish(t)
      PROVE  PoolInv'
  BY <1>17 DEF Finish, rows, capacity, drainer, PoolInv
<1>18. ASSUME NEW t \in Threads, Verdict(t)
      PROVE  PoolInv'
  BY <1>18 DEF Verdict, rows, capacity, drainer, PoolInv
<1>19. ASSUME NEW t \in Threads, Report(t)
      PROVE  PoolInv'
  BY <1>19 DEF Report, drainer, PoolInv
<1>20. ASSUME NEW t \in Threads, ScheduleRetryWake(t)
      PROVE  PoolInv'
  BY <1>20 DEF ScheduleRetryWake, rows, drainer, PoolInv
<1>21. ASSUME NEW r \in Runs, RunEnds(r)
      PROVE  PoolInv'
  <2>1. IsFiniteSet(pool') /\ Cardinality(pool') = Cardinality(pool) - 1
    BY <1>21, FS_RemoveElement DEF RunEnds, PoolInv
  <2>2. Cardinality(pool) \in Nat /\ PoolSize \in Nat
    BY FS_CardinalityType, LimitsAssumption DEF PoolInv
  <2>3. QED
    BY <1>21, <2>1, <2>2 DEF RunEnds, drainer, PoolInv
<1>22. ASSUME NEW r \in Runs, ExitAcks(r)
      PROVE  PoolInv'
  BY <1>22 DEF ExitAcks, rows, drainer, PoolInv
<1>23. ASSUME NEW r \in Runs, ExitReleases(r)
      PROVE  PoolInv'
  BY <1>23 DEF ExitReleases, rows, drainer, PoolInv
<1>24. ASSUME NEW r \in Runs, Record(r)
      PROVE  PoolInv'
  BY <1>24 DEF Record, capacity, drainer, Go, PoolInv
<1>25. ASSUME NEW r \in Runs, Decide(r)
      PROVE  PoolInv'
  BY <1>25 DEF Decide, rows, drainer, PoolInv
<1>26. ASSUME NEW r \in Runs, RetryJob(r)
      PROVE  PoolInv'
  BY <1>26 DEF RetryJob, drainer, Go, Pump, Ends, PoolInv
<1>27. ASSUME NEW j \in Jobs, BackoffEnds(j)
      PROVE  PoolInv'
  BY <1>27 DEF BackoffEnds, capacity, drainer, PoolInv
<1>28. ASSUME DrainTimer
      PROVE  PoolInv'
  BY <1>28 DEF DrainTimer, rows, capacity, PoolInv
<1>29. ASSUME NEW k \in Keys, DrainAdmits(k)
      PROVE  PoolInv'
  BY <1>29 DEF DrainAdmits, rows, PoolInv, HasRoom
<1>30. ASSUME DrainReturns
      PROVE  PoolInv'
  BY <1>30 DEF DrainReturns, rows, capacity, PoolInv, HasRoom
<1>31. ASSUME DrainChecks
      PROVE  PoolInv'
  BY <1>31 DEF DrainChecks, rows, capacity, PoolInv
<1>32. ASSUME DrainDrops
      PROVE  PoolInv'
  BY <1>32 DEF DrainDrops, rows, PoolInv
<1>33. ASSUME NEW r \in Runs, AcquireSlot(r)
      PROVE  PoolInv'
  BY <1>33 DEF AcquireSlot, rows, PoolInv
<1>34. ASSUME NoSlot
      PROVE  PoolInv'
  BY <1>34 DEF NoSlot, rows, capacity, PoolInv
<1>35. ASSUME RequeueAcks
      PROVE  PoolInv'
  BY <1>35 DEF RequeueAcks, rows, PoolInv
<1>36. ASSUME RequeueVerbatim
      PROVE  PoolInv'
  BY <1>36 DEF RequeueVerbatim, rows, PoolInv
<1>37. ASSUME MarkJobRunning
      PROVE  PoolInv'
  BY <1>37 DEF MarkJobRunning, capacity, PoolInv
<1>38. ASSUME StartRun
      PROVE  PoolInv'
  <2>1. drainRun \notin pool /\ Cardinality(pool) < PoolSize
    BY <1>38 DEF StartRun, Base, PlaceInv, DrainInv, Starting, PoolInv
  <2>2. IsFiniteSet(pool') /\ Cardinality(pool') = Cardinality(pool) + 1
    BY <1>38, <2>1, FS_AddElement DEF StartRun, PoolInv
  <2>3. Cardinality(pool) \in Nat /\ PoolSize \in Nat
    BY FS_CardinalityType, LimitsAssumption DEF PoolInv
  <2>4. QED
    BY <1>38, <2>1, <2>2, <2>3 DEF StartRun, PoolInv
<1>39. ASSUME RefuseRun
      PROVE  PoolInv'
  BY <1>39 DEF RefuseRun, rows, capacity, Go, PoolInv
<1>40. ASSUME SetupThrows
      PROVE  PoolInv'
  BY <1>40 DEF SetupThrows, rows, PoolInv
<1>41. CASE UNCHANGED vars
  BY <1>41 DEF vars, rows, capacity, drainer, PoolInv
<1>42. QED
  BY <1>1, <1>2, <1>3, <1>4, <1>5, <1>6, <1>7, <1>8, <1>9, <1>10, <1>11, <1>12, <1>13,
     <1>14, <1>15, <1>16, <1>17, <1>18, <1>19, <1>20, <1>21, <1>22, <1>23, <1>24, <1>25,
     <1>26, <1>27, <1>28, <1>29, <1>30, <1>31, <1>32, <1>33, <1>34, <1>35, <1>36, <1>37,
     <1>38, <1>39, <1>40, <1>41 DEF Next, CancelStep, PumpStep, ExitStep, DrainStep

\* pool.tryStart never refuses a run that the drain has prepared.
THEOREM PoolHasRoom == Spec => []PoolNeverFull
<1>1. Init => PoolInv
  BY FS_EmptySet, LimitsAssumption DEF Init, PoolInv
<1>2. Base /\ PoolInv /\ [Next]_vars => PoolInv'
  BY PoolStep
<1>3. PoolInv => PoolNeverFull
  BY DEF PoolInv, PoolNeverFull
<1>4. QED
  BY <1>1, <1>2, <1>3, BaseInvariant, PTL DEF Spec

-----------------------------------------------------------------------------
(* Every attempt has one place *)

\* Of a job, the attempts up to this one have been sent, and no later one.
LastSent(k)    == \A b \in 0..MaxAttempts : <<k[1], b>> \in enqueued <=> b <= k[2]
LeastUnsent(k) == \A b \in 0..MaxAttempts : <<k[1], b>> \in enqueued <=> b < k[2]

\* An attempt of the job is being sent, waiting, in the drain's hands, or with
\* a run that is up or whose exit is not through.
Alive(j) ==
  \/ \E t \in Sending : cur[t][1] = j
  \/ \E k \in queue : k[1] = j
  \/ Draining /\ drainKey[1] = j
  \/ \E r \in Working : key[r][1] = j

\* No job has two places, ...
OnePlace ==
  /\ \A t, u \in Sending : cur[t][1] = cur[u][1] => t = u
  /\ \A k, m \in queue : k[1] = m[1] => k = m
  /\ \A r, s \in Working : key[r][1] = key[s][1] => r = s
  /\ \A t \in Sending : \A k \in queue : cur[t][1] # k[1]
  /\ \A t \in Sending : \A r \in Working : cur[t][1] # key[r][1]
  /\ \A k \in queue : \A r \in Working : k[1] # key[r][1]
  /\ Draining =>
       /\ \A t \in Sending : cur[t][1] # drainKey[1]
       /\ \A k \in queue : k[1] # drainKey[1]
       /\ \A r \in Working : key[r][1] # drainKey[1]

\* ... what has one is the last attempt that was sent, ...
SentInv ==
  /\ \A t \in Sending : LastSent(cur[t])
  /\ \A k \in queue : LastSent(k)
  /\ Draining => LastSent(drainKey)
  /\ \A r \in Working : LastSent(key[r])

\* ... and what a pump still has to send, or will find, is the attempt after
\* it, of a job that has no place.
UnsentInv ==
  /\ \A t \in Threads : \A k \in todo[t] :
       k \notin enqueued => LeastUnsent(k) /\ ~ Alive(k[1])
  /\ \A j \in Jobs : row[j].status = "queued" /\ KeyOf(j) \notin enqueued =>
       LeastUnsent(KeyOf(j)) /\ ~ Alive(j)

\* No attempt is numbered past the last.
AttemptInv ==
  /\ \A k \in enqueued : k[2] < MaxAttempts
  /\ \A t \in Threads : \A k \in todo[t] : k[2] < MaxAttempts
  /\ \A j \in Jobs : row[j].attempt < MaxAttempts

\* When nothing gets a place, what is said of places stays so.
Shrinks ==
  /\ Sending' \subseteq Sending /\ \A t \in Sending' : cur'[t] = cur[t]
  /\ queue' \subseteq queue
  /\ Working' \subseteq Working /\ \A r \in Working' : key'[r] = key[r]
  /\ Draining' => Draining /\ drainKey' = drainKey
  /\ enqueued' = enqueued

LEMMA FewerPlaces ==
  ASSUME OnePlace, SentInv, Shrinks
  PROVE  OnePlace' /\ SentInv' /\ \A j \in Jobs : Alive(j)' => Alive(j)
<1>1. OnePlace'
  BY DEF OnePlace, Shrinks
<1>2. SentInv'
  BY DEF SentInv, Shrinks, LastSent
<1>3. ASSUME NEW j \in Jobs, Alive(j)'
      PROVE  Alive(j)
  BY <1>3 DEF Alive, Shrinks
<1>4. QED
  BY <1>1, <1>2, <1>3

LEMMA AttemptStep ==
  ASSUME Base, KnownInv, AttemptInv, [Next]_vars
  PROVE  AttemptInv'
<1>1. ASSUME NEW e \in Evals, Start(e)
      PROVE  AttemptInv'
  BY <1>1 DEF Start, rows, AttemptInv
<1>2. ASSUME NEW e \in Evals, StartFails(e)
      PROVE  AttemptInv'
  BY <1>2 DEF StartFails, rows, AttemptInv
<1>3. ASSUME NEW e \in Evals, GoesLive(e)
      PROVE  AttemptInv'
  BY <1>3, KeyParts, LimitsAssumption DEF GoesLive, Go, Base, TypeOK, RowsOK, MemoryOK,
     ThreadsOK, Threads, AttemptInv, NewRow
<1>4. ASSUME NEW e \in Evals, TimerFires(e)
      PROVE  AttemptInv'
  BY <1>4 DEF TimerFires, rows, AttemptInv
<1>5. ASSUME NEW e \in Evals, Cancel(e)
      PROVE  AttemptInv'
  BY <1>5 DEF Cancel, rows, threads, AttemptInv
<1>6. ASSUME NEW e \in Evals, CancelRows(e)
      PROVE  AttemptInv'
  BY <1>6, KeyParts, LimitsAssumption DEF CancelRows, rows, memory, threads, Base,
     TypeOK, RowsOK, MemoryOK, ThreadsOK, DrainerOK, Threads, AttemptInv, JobsOf,
     QueuedCancelled
<1>7. ASSUME NEW e \in Evals, CancelPurges(e)
      PROVE  AttemptInv'
  BY <1>7 DEF CancelPurges, rows, memory, threads, AttemptInv
<1>8. ASSUME NEW t \in Threads, ReadBudget(t)
      PROVE  AttemptInv'
  BY <1>8 DEF ReadBudget, rows, memory, AttemptInv
<1>9. ASSUME NEW t \in Threads, AbortRows(t)
      PROVE  AttemptInv'
  BY <1>9, KeyParts, LimitsAssumption DEF AbortRows, memory, Go, Base, TypeOK, RowsOK,
     MemoryOK, ThreadsOK, Threads, AttemptInv, JobsOf, QueuedCancelled
<1>10. ASSUME NEW t \in Threads, AbortFlag(t)
      PROVE  AttemptInv'
  BY <1>10 DEF AbortFlag, rows, AttemptInv
<1>11. ASSUME NEW t \in Threads, AbortStatus(t)
      PROVE  AttemptInv'
  BY <1>11 DEF AbortStatus, memory, AttemptInv
<1>12. ASSUME NEW t \in Threads, Scan(t)
      PROVE  AttemptInv'
  BY <1>12, KeyParts, LimitsAssumption DEF Scan, rows, memory, Go, Base, TypeOK, RowsOK,
     MemoryOK, ThreadsOK, Threads, AttemptInv, Eligible, KeyOf, JobsOf
<1>13. ASSUME NEW t \in Threads, NEW k \in Keys, Send(t, k)
      PROVE  AttemptInv'
  BY <1>13, KeyParts, LimitsAssumption DEF Send, rows, Go, Base, TypeOK, RowsOK,
     MemoryOK, ThreadsOK, Threads, AttemptInv
<1>14. ASSUME NEW t \in Threads, Sent(t)
      PROVE  AttemptInv'
  <2>1. \A j \in Jobs : row'[j].attempt = row[j].attempt
    BY <1>14, KeyParts DEF Sent, Base, TypeOK, RowsOK, JobRows, PlaceInv, ThreadInv
  <2>2. UNCHANGED <<enqueued, todo>>
    BY <1>14 DEF Sent, memory
  <2>3. QED
    BY <2>1, <2>2 DEF AttemptInv
<1>15. ASSUME NEW t \in Threads, AllSent(t)
      PROVE  AttemptInv'
  BY <1>15, KeyParts, LimitsAssumption, ThreadsAssumption, NoKeyAssumption DEF AllSent,
     rows, memory, Go, Ends, Base, TypeOK, RowsOK, MemoryOK, CapacityOK, ThreadsOK,
     DrainerOK, Threads, AttemptInv
<1>16. ASSUME NEW t \in Threads, Count(t)
      PROVE  AttemptInv'
  BY <1>16 DEF Count, rows, memory, AttemptInv
<1>17. ASSUME NEW t \in Threads, Finish(t)
      PROVE  AttemptInv'
  BY <1>17 DEF Finish, rows, AttemptInv
<1>18. ASSUME NEW t \in Threads, Verdict(t)
      PROVE  AttemptInv'
  BY <1>18 DEF Verdict, rows, memory, AttemptInv
<1>19. ASSUME NEW t \in Threads, Report(t)
      PROVE  AttemptInv'
  BY <1>19 DEF Report, memory, AttemptInv
<1>20. ASSUME NEW t \in Threads, ScheduleRetryWake(t)
      PROVE  AttemptInv'
  BY <1>20 DEF ScheduleRetryWake, rows, AttemptInv
<1>21. ASSUME NEW r \in Runs, RunEnds(r)
      PROVE  AttemptInv'
  BY <1>21 DEF RunEnds, rows, memory, AttemptInv
<1>22. ASSUME NEW r \in Runs, ExitAcks(r)
      PROVE  AttemptInv'
  BY <1>22 DEF ExitAcks, rows, memory, AttemptInv
<1>23. ASSUME NEW r \in Runs, ExitReleases(r)
      PROVE  AttemptInv'
  BY <1>23 DEF ExitReleases, rows, memory, AttemptInv
<1>24. ASSUME NEW r \in Runs, Record(r)
      PROVE  AttemptInv'
  BY <1>24, KeyParts, LimitsAssumption DEF Record, memory, Go, Base, TypeOK, RowsOK,
     MemoryOK, ThreadsOK, Threads, AttemptInv
<1>25. ASSUME NEW r \in Runs, Decide(r)
      PROVE  AttemptInv'
  BY <1>25 DEF Decide, rows, memory, AttemptInv
<1>26. ASSUME NEW r \in Runs, RetryJob(r)
      PROVE  AttemptInv'
  BY <1>26, KeyParts, LimitsAssumption, ThreadsAssumption, NoKeyAssumption DEF RetryJob,
     memory, Go, Pump, Ends, Base, TypeOK, RowsOK, MemoryOK, CapacityOK, ThreadsOK,
     Threads, PlaceInv, ThreadInv, DrainInv, Starting, Draining, KnownInv, AttemptInv,
     Sending, Keys, JobRows, ExitAt, PumpAt
<1>27. ASSUME NEW j \in Jobs, BackoffEnds(j)
      PROVE  AttemptInv'
  BY <1>27, KeyParts, LimitsAssumption DEF BackoffEnds, memory, threads, Base, TypeOK,
     RowsOK, MemoryOK, ThreadsOK, Threads, AttemptInv
<1>28. ASSUME DrainTimer
      PROVE  AttemptInv'
  BY <1>28 DEF DrainTimer, rows, memory, threads, AttemptInv
<1>29. ASSUME NEW k \in Keys, DrainAdmits(k)
      PROVE  AttemptInv'
  BY <1>29 DEF DrainAdmits, rows, memory, threads, AttemptInv
<1>30. ASSUME DrainReturns
      PROVE  AttemptInv'
  BY <1>30 DEF DrainReturns, rows, memory, threads, AttemptInv
<1>31. ASSUME DrainChecks
      PROVE  AttemptInv'
  BY <1>31 DEF DrainChecks, rows, memory, threads, AttemptInv
<1>32. ASSUME DrainDrops
      PROVE  AttemptInv'
  BY <1>32 DEF DrainDrops, rows, memory, threads, AttemptInv
<1>33. ASSUME NEW r \in Runs, AcquireSlot(r)
      PROVE  AttemptInv'
  BY <1>33 DEF AcquireSlot, rows, memory, threads, AttemptInv
<1>34. ASSUME NoSlot
      PROVE  AttemptInv'
  BY <1>34 DEF NoSlot, rows, memory, threads, AttemptInv
<1>35. ASSUME RequeueAcks
      PROVE  AttemptInv'
  BY <1>35 DEF RequeueAcks, rows, memory, threads, AttemptInv
<1>36. ASSUME RequeueVerbatim
      PROVE  AttemptInv'
  BY <1>36 DEF RequeueVerbatim, rows, memory, threads, AttemptInv
<1>37. ASSUME MarkJobRunning
      PROVE  AttemptInv'
  BY <1>37, KeyParts, LimitsAssumption DEF MarkJobRunning, rows, memory, threads, Base,
     TypeOK, RowsOK, MemoryOK, ThreadsOK, DrainerOK, Threads, PlaceInv, ThreadInv,
     DrainInv, Starting, Draining, KnownInv, AttemptInv, Sending, Keys, JobRows, ExitAt,
     PumpAt
<1>38. ASSUME StartRun
      PROVE  AttemptInv'
  BY <1>38 DEF StartRun, rows, memory, threads, AttemptInv
<1>39. ASSUME RefuseRun
      PROVE  AttemptInv'
  BY <1>39 DEF RefuseRun, rows, memory, AttemptInv
<1>40. ASSUME SetupThrows
      PROVE  AttemptInv'
  BY <1>40 DEF SetupThrows, rows, memory, threads, AttemptInv
<1>41. CASE UNCHANGED vars
  BY <1>41 DEF vars, rows, memory, threads, AttemptInv
<1>42. QED
  BY <1>1, <1>2, <1>3, <1>4, <1>5, <1>6, <1>7, <1>8, <1>9, <1>10, <1>11, <1>12, <1>13,
     <1>14, <1>15, <1>16, <1>17, <1>18, <1>19, <1>20, <1>21, <1>22, <1>23, <1>24, <1>25,
     <1>26, <1>27, <1>28, <1>29, <1>30, <1>31, <1>32, <1>33, <1>34, <1>35, <1>36, <1>37,
     <1>38, <1>39, <1>40, <1>41 DEF Next, CancelStep, PumpStep, ExitStep, DrainStep

LEMMA PlacesStep ==
  ASSUME Base, KnownInv, UnstartedInv, StartingInv, OnePlace, SentInv, UnsentInv, [Next]_vars
  PROVE  OnePlace' /\ SentInv' /\ UnsentInv'
<1>1. ASSUME NEW e \in Evals, Start(e)
      PROVE  OnePlace' /\ SentInv' /\ UnsentInv'
  <2>1. OnePlace'
    BY <1>1, KeyParts DEF Start, capacity, drainer, Go, Base, TypeOK, MemoryOK,
       CapacityOK, ThreadsOK, DrainerOK, Threads, Draining, OnePlace, Sending, Working,
       ExitAt
  <2>2. SentInv'
    BY <1>1, KeyParts DEF Start, capacity, drainer, Go, Base, TypeOK, MemoryOK,
       CapacityOK, ThreadsOK, DrainerOK, Threads, Draining, SentInv, LastSent, Sending,
       Working, ExitAt
  <2>3. UnsentInv'
    BY <1>1, KeyParts, LimitsAssumption DEF Start, rows, capacity, drainer, Go, Base,
       TypeOK, RowsOK, MemoryOK, CapacityOK, ThreadsOK, DrainerOK, Threads, Draining,
       UnsentInv, LeastUnsent, Alive, Sending, Working, ExitAt, KeyOf
  <2>4. QED
    BY <2>1, <2>2, <2>3
<1>2. ASSUME NEW e \in Evals, StartFails(e)
      PROVE  OnePlace' /\ SentInv' /\ UnsentInv'
  <2>1. OnePlace'
    BY <1>2, KeyParts DEF StartFails, capacity, drainer, Go, Base, TypeOK, MemoryOK,
       CapacityOK, ThreadsOK, DrainerOK, Threads, Draining, OnePlace, Sending, Working,
       ExitAt
  <2>2. SentInv'
    BY <1>2, KeyParts DEF StartFails, capacity, drainer, Go, Base, TypeOK, MemoryOK,
       CapacityOK, ThreadsOK, DrainerOK, Threads, Draining, SentInv, LastSent, Sending,
       Working, ExitAt
  <2>3. UnsentInv'
    BY <1>2, KeyParts, LimitsAssumption DEF StartFails, rows, capacity, drainer, Go,
       Base, TypeOK, RowsOK, MemoryOK, CapacityOK, ThreadsOK, DrainerOK, Threads,
       Draining, UnsentInv, LeastUnsent, Alive, Sending, Working, ExitAt, KeyOf
  <2>4. QED
    BY <2>1, <2>2, <2>3
<1>3. ASSUME NEW e \in Evals, GoesLive(e)
      PROVE  OnePlace' /\ SentInv' /\ UnsentInv'
  <2>1. OnePlace'
    BY <1>3, KeyParts DEF GoesLive, capacity, drainer, Go, Base, TypeOK, RowsOK,
       MemoryOK, CapacityOK, ThreadsOK, DrainerOK, Threads, Draining, OnePlace, Sending,
       Working, ExitAt
  <2>2. SentInv'
    BY <1>3, KeyParts DEF GoesLive, capacity, drainer, Go, Base, TypeOK, RowsOK,
       MemoryOK, CapacityOK, ThreadsOK, DrainerOK, Threads, Draining, SentInv, LastSent,
       Sending, Working, ExitAt
  <2>3. UnsentInv'
    BY <1>3, KeyParts, LimitsAssumption DEF GoesLive, rows, capacity, drainer, Go, Base,
       TypeOK, RowsOK, MemoryOK, CapacityOK, ThreadsOK, DrainerOK, Threads, PlaceInv,
       ThreadInv, DrainInv, Starting, Draining, OnePlace, SentInv, UnsentInv, KnownInv,
       LastSent, LeastUnsent, Alive, Sending, Working, PumpAt, ExitAt, UnstartedInv,
       StartingInv, KeyOf, JobsOf, Keys, NewRow, JobRows
  <2>4. QED
    BY <2>1, <2>2, <2>3
<1>4. ASSUME NEW e \in Evals, TimerFires(e)
      PROVE  OnePlace' /\ SentInv' /\ UnsentInv'
  <2>1. OnePlace'
    <3>1. Shrinks
      BY <1>4, PumpEffect, ThreadsAssumption DEF TimerFires, Base, TypeOK, ThreadsOK,
         CapacityOK, PlaceInv, ThreadInv, Threads, Shrinks, Sending, Working, Draining,
         PumpAt, ExitAt, drainer
    <3>2. QED
      BY <3>1, FewerPlaces
  <2>2. SentInv'
    <3>1. Shrinks
      BY <1>4, PumpEffect, ThreadsAssumption DEF TimerFires, Base, TypeOK, ThreadsOK,
         CapacityOK, PlaceInv, ThreadInv, Threads, Shrinks, Sending, Working, Draining,
         PumpAt, ExitAt, drainer
    <3>2. QED
      BY <3>1, FewerPlaces
  <2>3. UnsentInv'
    <3>1. Shrinks
      BY <1>4, PumpEffect, ThreadsAssumption DEF TimerFires, Base, TypeOK, ThreadsOK,
         CapacityOK, PlaceInv, ThreadInv, Threads, Shrinks, Sending, Working, Draining,
         PumpAt, ExitAt, drainer
    <3>2. UNCHANGED <<row, todo, enqueued>>
      BY <1>4 DEF TimerFires, rows
    <3>3. QED
      BY <3>1, <3>2, FewerPlaces, KeyParts DEF UnsentInv, KeyOf, LeastUnsent, Base,
         TypeOK, ThreadsOK
  <2>4. QED
    BY <2>1, <2>2, <2>3
<1>5. ASSUME NEW e \in Evals, Cancel(e)
      PROVE  OnePlace' /\ SentInv' /\ UnsentInv'
  <2>1. OnePlace'
    BY <1>5 DEF Cancel, capacity, threads, drainer, OnePlace, Sending, Working, Draining
  <2>2. SentInv'
    BY <1>5 DEF Cancel, capacity, threads, drainer, SentInv, Sending, LastSent,
       Draining, Working
  <2>3. UnsentInv'
    BY <1>5 DEF Cancel, rows, capacity, threads, drainer, UnsentInv, LeastUnsent, Alive,
       KeyOf, Sending, Draining, Working
  <2>4. QED
    BY <2>1, <2>2, <2>3
<1>6. ASSUME NEW e \in Evals, CancelRows(e)
      PROVE  OnePlace' /\ SentInv' /\ UnsentInv'
  <2>1. OnePlace'
    BY <1>6 DEF CancelRows, capacity, threads, drainer, OnePlace, Sending, Working,
       Draining
  <2>2. SentInv'
    BY <1>6 DEF CancelRows, memory, capacity, threads, drainer, SentInv, Sending,
       LastSent, Draining, Working
  <2>3. UnsentInv'
    BY <1>6, KeyParts, LimitsAssumption DEF CancelRows, rows, memory, capacity, threads,
       drainer, Base, TypeOK, RowsOK, MemoryOK, CapacityOK, ThreadsOK, DrainerOK,
       Threads, Draining, UnsentInv, LeastUnsent, Alive, Sending, Working, ExitAt,
       KeyOf, JobsOf, QueuedCancelled
  <2>4. QED
    BY <2>1, <2>2, <2>3
<1>7. ASSUME NEW e \in Evals, CancelPurges(e)
      PROVE  OnePlace' /\ SentInv' /\ UnsentInv'
  <2>1. OnePlace'
    BY <1>7, KeyParts DEF CancelPurges, threads, drainer, Base, TypeOK, CapacityOK,
       ThreadsOK, DrainerOK, Threads, Draining, OnePlace, Sending, Working, ExitAt
  <2>2. SentInv'
    BY <1>7, KeyParts DEF CancelPurges, memory, threads, drainer, Base, TypeOK,
       MemoryOK, CapacityOK, ThreadsOK, DrainerOK, Threads, Draining, SentInv, LastSent,
       Sending, Working, ExitAt
  <2>3. UnsentInv'
    BY <1>7, KeyParts, LimitsAssumption DEF CancelPurges, rows, memory, threads,
       drainer, Base, TypeOK, RowsOK, MemoryOK, CapacityOK, ThreadsOK, DrainerOK,
       Threads, Draining, UnsentInv, LeastUnsent, Alive, Sending, Working, ExitAt, KeyOf
  <2>4. QED
    BY <2>1, <2>2, <2>3
<1>8. ASSUME NEW t \in Threads, ReadBudget(t)
      PROVE  OnePlace' /\ SentInv' /\ UnsentInv'
  <2>1. OnePlace'
    BY <1>8, KeyParts DEF ReadBudget, capacity, drainer, Go, Base, TypeOK, CapacityOK,
       ThreadsOK, DrainerOK, Threads, Draining, OnePlace, Sending, Working, ExitAt
  <2>2. SentInv'
    BY <1>8, KeyParts DEF ReadBudget, memory, capacity, drainer, Go, Base, TypeOK,
       MemoryOK, CapacityOK, ThreadsOK, DrainerOK, Threads, Draining, SentInv, LastSent,
       Sending, Working, ExitAt
  <2>3. UnsentInv'
    BY <1>8, KeyParts, LimitsAssumption DEF ReadBudget, rows, memory, capacity, drainer,
       Go, Base, TypeOK, RowsOK, MemoryOK, CapacityOK, ThreadsOK, DrainerOK, Threads,
       Draining, UnsentInv, LeastUnsent, Alive, Sending, Working, ExitAt, KeyOf, Eval
  <2>4. QED
    BY <2>1, <2>2, <2>3
<1>9. ASSUME NEW t \in Threads, AbortRows(t)
      PROVE  OnePlace' /\ SentInv' /\ UnsentInv'
  <2>1. OnePlace'
    BY <1>9, KeyParts DEF AbortRows, capacity, drainer, Go, Base, TypeOK, RowsOK,
       CapacityOK, ThreadsOK, DrainerOK, Threads, Draining, OnePlace, Sending, Working,
       ExitAt
  <2>2. SentInv'
    BY <1>9, KeyParts DEF AbortRows, memory, capacity, drainer, Go, Base, TypeOK,
       RowsOK, MemoryOK, CapacityOK, ThreadsOK, DrainerOK, Threads, Draining, SentInv,
       LastSent, Sending, Working, ExitAt
  <2>3. UnsentInv'
    BY <1>9, KeyParts, LimitsAssumption DEF AbortRows, rows, memory, capacity, drainer,
       Go, Base, TypeOK, RowsOK, MemoryOK, CapacityOK, ThreadsOK, DrainerOK, Threads,
       Draining, UnsentInv, LeastUnsent, Alive, Sending, Working, ExitAt, KeyOf, JobsOf,
       QueuedCancelled, Eval
  <2>4. QED
    BY <2>1, <2>2, <2>3
<1>10. ASSUME NEW t \in Threads, AbortFlag(t)
      PROVE  OnePlace' /\ SentInv' /\ UnsentInv'
  <2>1. OnePlace'
    BY <1>10, KeyParts DEF AbortFlag, capacity, drainer, Go, Base, TypeOK, RowsOK,
       MemoryOK, CapacityOK, ThreadsOK, DrainerOK, Threads, Draining, OnePlace, Sending,
       Working, ExitAt
  <2>2. SentInv'
    BY <1>10, KeyParts DEF AbortFlag, capacity, drainer, Go, Base, TypeOK, RowsOK,
       MemoryOK, CapacityOK, ThreadsOK, DrainerOK, Threads, Draining, SentInv, LastSent,
       Sending, Working, ExitAt
  <2>3. UnsentInv'
    BY <1>10, KeyParts, LimitsAssumption DEF AbortFlag, rows, capacity, drainer, Go,
       Base, TypeOK, RowsOK, MemoryOK, CapacityOK, ThreadsOK, DrainerOK, Threads,
       Draining, UnsentInv, LeastUnsent, Alive, Sending, Working, ExitAt, KeyOf, Eval
  <2>4. QED
    BY <2>1, <2>2, <2>3
<1>11. ASSUME NEW t \in Threads, AbortStatus(t)
      PROVE  OnePlace' /\ SentInv' /\ UnsentInv'
  <2>1. OnePlace'
    BY <1>11, KeyParts DEF AbortStatus, capacity, drainer, Go, Base, TypeOK, RowsOK,
       CapacityOK, ThreadsOK, DrainerOK, Threads, Draining, OnePlace, Sending, Working,
       ExitAt
  <2>2. SentInv'
    BY <1>11, KeyParts DEF AbortStatus, memory, capacity, drainer, Go, Base, TypeOK,
       RowsOK, MemoryOK, CapacityOK, ThreadsOK, DrainerOK, Threads, Draining, SentInv,
       LastSent, Sending, Working, ExitAt
  <2>3. UnsentInv'
    BY <1>11, KeyParts, LimitsAssumption DEF AbortStatus, rows, memory, capacity,
       drainer, Go, Base, TypeOK, RowsOK, MemoryOK, CapacityOK, ThreadsOK, DrainerOK,
       Threads, Draining, UnsentInv, LeastUnsent, Alive, Sending, Working, ExitAt,
       KeyOf, Eval
  <2>4. QED
    BY <2>1, <2>2, <2>3
<1>12. ASSUME NEW t \in Threads, Scan(t)
      PROVE  OnePlace' /\ SentInv' /\ UnsentInv'
  <2>1. OnePlace'
    BY <1>12, KeyParts DEF Scan, capacity, drainer, Go, Base, TypeOK, CapacityOK,
       ThreadsOK, DrainerOK, Threads, Draining, OnePlace, Sending, Working, ExitAt
  <2>2. SentInv'
    BY <1>12, KeyParts DEF Scan, memory, capacity, drainer, Go, Base, TypeOK, MemoryOK,
       CapacityOK, ThreadsOK, DrainerOK, Threads, Draining, SentInv, LastSent, Sending,
       Working, ExitAt
  <2>3. UnsentInv'
    BY <1>12, KeyParts, LimitsAssumption DEF Scan, rows, memory, capacity, drainer, Go,
       Base, TypeOK, RowsOK, MemoryOK, CapacityOK, ThreadsOK, DrainerOK, Threads,
       Draining, UnsentInv, LeastUnsent, Alive, Sending, Working, ExitAt, Eligible,
       KeyOf, JobsOf, Eval
  <2>4. QED
    BY <2>1, <2>2, <2>3
<1>13. ASSUME NEW t \in Threads, NEW k \in Keys, Send(t, k)
      PROVE  OnePlace' /\ SentInv' /\ UnsentInv'
  <2>1. OnePlace'
    BY <1>13, KeyParts DEF Send, capacity, drainer, Go, Base, TypeOK, MemoryOK,
       CapacityOK, ThreadsOK, DrainerOK, Threads, PlaceInv, ThreadInv, DrainInv,
       Starting, Draining, OnePlace, SentInv, UnsentInv, KnownInv, LastSent,
       LeastUnsent, Alive, Sending, Working, PumpAt, ExitAt
  <2>2. SentInv'
    <3>1. LeastUnsent(k) /\ ~ Alive(k[1]) /\ k[1] \in Jobs /\ k[2] \in 0..MaxAttempts
      BY <1>13, KeyParts DEF Send, UnsentInv
    <3>2. enqueued' = enqueued \cup {k} /\ k \notin enqueued
      BY <1>13 DEF Send
    <3>3. ASSUME NEW m \in Keys, m[1] # k[1]
          PROVE  (LastSent(m)' <=> LastSent(m)) /\ (LeastUnsent(m)' <=> LeastUnsent(m))
      BY <3>2, <3>3 DEF LastSent, LeastUnsent
    <3>4. LastSent(k)'
      BY <3>1, <3>2 DEF LastSent, LeastUnsent, Keys
    <3>5. Sending' = Sending \cup {t} /\ cur'[t] = k /\ \A u \in Sending : cur'[u] = cur[u]
      BY <1>13 DEF Send, Go, Sending, Base, TypeOK, ThreadsOK
    <3>6. UNCHANGED <<queue, drainAt, drainKey, key>> /\ Working' = Working
      BY <1>13 DEF Send, Go, Working, capacity, drainer, Base, TypeOK, ThreadsOK,
         ExitAt, Threads
    <3>7. /\ \A u \in Sending : cur[u] \in Keys
          /\ queue \subseteq Keys /\ (Draining => drainKey \in Keys)
          /\ \A r \in Working : key[r] \in Keys
      BY DEF Base, TypeOK, CapacityOK, PlaceInv, ThreadInv, DrainInv, Sending, Working,
         ExitAt
    <3>8. QED
      BY <3>1, <3>3, <3>4, <3>5, <3>6, <3>7 DEF SentInv, Alive, Draining
  <2>3. UnsentInv'
    <3>1. LeastUnsent(k) /\ ~ Alive(k[1]) /\ k[1] \in Jobs /\ k[2] \in 0..MaxAttempts
      BY <1>13, KeyParts DEF Send, UnsentInv
    <3>2. enqueued' = enqueued \cup {k} /\ k \notin enqueued
      BY <1>13 DEF Send
    <3>3. ASSUME NEW m \in Keys, m[1] # k[1]
          PROVE  (LastSent(m)' <=> LastSent(m)) /\ (LeastUnsent(m)' <=> LeastUnsent(m))
      BY <3>2, <3>3 DEF LastSent, LeastUnsent
    <3>4. UNCHANGED row /\ \A u \in Threads : todo'[u] \subseteq todo[u] /\ todo[u] \subseteq Keys
      BY <1>13 DEF Send, rows, Base, TypeOK, ThreadsOK
    <3>5. ASSUME NEW m \in Keys, m \notin enqueued', LeastUnsent(m)
          PROVE  m[1] # k[1]
      BY <3>1, <3>2, <3>5, KeyParts DEF LeastUnsent, Keys
    <3>6. ASSUME NEW j \in Jobs, j # k[1], Alive(j)'
          PROVE  Alive(j)
      BY <1>13, <3>6 DEF Send, Go, Alive, Sending, Working, Draining, capacity, drainer,
         Base, TypeOK, ThreadsOK, ExitAt
    <3>7. ASSUME NEW m \in Keys, m \notin enqueued', LeastUnsent(m), ~ Alive(m[1])
          PROVE  LeastUnsent(m)' /\ ~ Alive(m[1])'
      BY <3>3, <3>5, <3>6, <3>7, KeyParts
    <3>8. \A j \in Jobs : KeyOf(j) \in Keys /\ KeyOf(j)[1] = j /\ KeyOf(j)' = KeyOf(j)
      BY <3>4 DEF KeyOf, Keys, Base, TypeOK, RowsOK, JobRows
    <3>9. QED
      BY <3>2, <3>4, <3>7, <3>8 DEF UnsentInv
  <2>4. QED
    BY <2>1, <2>2, <2>3
<1>14. ASSUME NEW t \in Threads, Sent(t)
      PROVE  OnePlace' /\ SentInv' /\ UnsentInv'
  <2>1. OnePlace'
    BY <1>14, KeyParts DEF Sent, drainer, Go, Base, TypeOK, RowsOK, CapacityOK,
       ThreadsOK, DrainerOK, Threads, Draining, OnePlace, Sending, Working, ExitAt
  <2>2. SentInv'
    BY <1>14, KeyParts DEF Sent, memory, drainer, Go, Base, TypeOK, RowsOK, MemoryOK,
       CapacityOK, ThreadsOK, DrainerOK, Threads, Draining, SentInv, LastSent, Sending,
       Working, ExitAt
  <2>3. UnsentInv'
    <3>1. t \in Sending /\ cur[t] \in Keys /\ UNCHANGED <<todo, enqueued>>
      BY <1>14 DEF Sent, Sending, memory, Base, PlaceInv, ThreadInv
    <3>2. ASSUME NEW j \in Jobs, Alive(j)'
          PROVE  Alive(j)
      BY <1>14, <3>1, <3>2 DEF Sent, Go, Base, TypeOK, ThreadsOK, drainer, Alive,
         Sending, Working, Draining, ExitAt
    <3>3. ASSUME NEW j \in Jobs, row'[j].status = "queued"
          PROVE  row'[j] = row[j]
      BY <1>14, <3>1, <3>3, KeyParts DEF Sent, Base, TypeOK, RowsOK, JobRows
    <3>4. QED
      BY <3>1, <3>2, <3>3, KeyParts DEF UnsentInv, LeastUnsent, KeyOf, Base, TypeOK,
         ThreadsOK
  <2>4. QED
    BY <2>1, <2>2, <2>3
<1>15. ASSUME NEW t \in Threads, AllSent(t)
      PROVE  OnePlace' /\ SentInv' /\ UnsentInv'
  <2>1. OnePlace'
    <3>1. Shrinks
      BY <1>15, ThreadsAssumption DEF AllSent, Go, Ends, Base, TypeOK, ThreadsOK,
         CapacityOK, PlaceInv, ThreadInv, Threads, Shrinks, Sending, Working, Draining,
         PumpAt, ExitAt, memory
    <3>2. QED
      BY <3>1, FewerPlaces
  <2>2. SentInv'
    <3>1. Shrinks
      BY <1>15, ThreadsAssumption DEF AllSent, Go, Ends, Base, TypeOK, ThreadsOK,
         CapacityOK, PlaceInv, ThreadInv, Threads, Shrinks, Sending, Working, Draining,
         PumpAt, ExitAt, memory
    <3>2. QED
      BY <3>1, FewerPlaces
  <2>3. UnsentInv'
    <3>1. Shrinks
      BY <1>15, ThreadsAssumption DEF AllSent, Go, Ends, Base, TypeOK, ThreadsOK,
         CapacityOK, PlaceInv, ThreadInv, Threads, Shrinks, Sending, Working, Draining,
         PumpAt, ExitAt, memory
    <3>2. UNCHANGED <<row, enqueued>> /\ \A u \in Threads : todo'[u] \subseteq todo[u]
      BY <1>15 DEF AllSent, rows, memory, Base, TypeOK, ThreadsOK
    <3>3. QED
      BY <3>1, <3>2, FewerPlaces, KeyParts DEF UnsentInv, KeyOf, LeastUnsent, Base,
         TypeOK, ThreadsOK
  <2>4. QED
    BY <2>1, <2>2, <2>3
<1>16. ASSUME NEW t \in Threads, Count(t)
      PROVE  OnePlace' /\ SentInv' /\ UnsentInv'
  <2>1. OnePlace'
    BY <1>16, KeyParts DEF Count, capacity, drainer, Go, Base, TypeOK, CapacityOK,
       ThreadsOK, DrainerOK, Threads, Draining, OnePlace, Sending, Working, ExitAt
  <2>2. SentInv'
    BY <1>16, KeyParts DEF Count, memory, capacity, drainer, Go, Base, TypeOK, MemoryOK,
       CapacityOK, ThreadsOK, DrainerOK, Threads, Draining, SentInv, LastSent, Sending,
       Working, ExitAt
  <2>3. UnsentInv'
    BY <1>16, KeyParts, LimitsAssumption DEF Count, rows, memory, capacity, drainer, Go,
       Base, TypeOK, RowsOK, MemoryOK, CapacityOK, ThreadsOK, DrainerOK, Threads,
       Draining, UnsentInv, LeastUnsent, Alive, Sending, Working, ExitAt, KeyOf, Eval
  <2>4. QED
    BY <2>1, <2>2, <2>3
<1>17. ASSUME NEW t \in Threads, Finish(t)
      PROVE  OnePlace' /\ SentInv' /\ UnsentInv'
  <2>1. OnePlace'
    BY <1>17, KeyParts DEF Finish, capacity, drainer, Go, Base, TypeOK, MemoryOK,
       CapacityOK, ThreadsOK, DrainerOK, Threads, Draining, OnePlace, Sending, Working,
       ExitAt
  <2>2. SentInv'
    BY <1>17, KeyParts DEF Finish, capacity, drainer, Go, Base, TypeOK, MemoryOK,
       CapacityOK, ThreadsOK, DrainerOK, Threads, Draining, SentInv, LastSent, Sending,
       Working, ExitAt
  <2>3. UnsentInv'
    BY <1>17, KeyParts, LimitsAssumption DEF Finish, rows, capacity, drainer, Go, Base,
       TypeOK, RowsOK, MemoryOK, CapacityOK, ThreadsOK, DrainerOK, Threads, Draining,
       UnsentInv, LeastUnsent, Alive, Sending, Working, ExitAt, KeyOf, Eval
  <2>4. QED
    BY <2>1, <2>2, <2>3
<1>18. ASSUME NEW t \in Threads, Verdict(t)
      PROVE  OnePlace' /\ SentInv' /\ UnsentInv'
  <2>1. OnePlace'
    BY <1>18, KeyParts DEF Verdict, capacity, drainer, Go, Base, TypeOK, CapacityOK,
       ThreadsOK, DrainerOK, Threads, Draining, OnePlace, Sending, Working, ExitAt
  <2>2. SentInv'
    BY <1>18, KeyParts DEF Verdict, memory, capacity, drainer, Go, Base, TypeOK,
       MemoryOK, CapacityOK, ThreadsOK, DrainerOK, Threads, Draining, SentInv, LastSent,
       Sending, Working, ExitAt
  <2>3. UnsentInv'
    BY <1>18, KeyParts, LimitsAssumption DEF Verdict, rows, memory, capacity, drainer,
       Go, Base, TypeOK, RowsOK, MemoryOK, CapacityOK, ThreadsOK, DrainerOK, Threads,
       Draining, UnsentInv, LeastUnsent, Alive, Sending, Working, ExitAt, KeyOf, Eval
  <2>4. QED
    BY <2>1, <2>2, <2>3
<1>19. ASSUME NEW t \in Threads, Report(t)
      PROVE  OnePlace' /\ SentInv' /\ UnsentInv'
  <2>1. OnePlace'
    BY <1>19, KeyParts, ThreadsAssumption, NoKeyAssumption DEF Report, drainer, Go,
       Ends, Base, TypeOK, RowsOK, CapacityOK, ThreadsOK, DrainerOK, GhostsOK, Threads,
       PlaceInv, ThreadInv, DrainInv, Starting, Draining, OnePlace, SentInv, UnsentInv,
       KnownInv, LastSent, LeastUnsent, Alive, Sending, Working, PumpAt, ExitAt
  <2>2. SentInv'
    BY <1>19, KeyParts, ThreadsAssumption, NoKeyAssumption DEF Report, memory, drainer,
       Go, Ends, Base, TypeOK, RowsOK, MemoryOK, CapacityOK, ThreadsOK, DrainerOK,
       GhostsOK, Threads, PlaceInv, ThreadInv, DrainInv, Starting, Draining, OnePlace,
       SentInv, UnsentInv, KnownInv, LastSent, LeastUnsent, Alive, Sending, Working,
       PumpAt, ExitAt
  <2>3. UnsentInv'
    BY <1>19, KeyParts, LimitsAssumption, ThreadsAssumption, NoKeyAssumption DEF Report,
       rows, memory, drainer, Go, Ends, Base, TypeOK, RowsOK, MemoryOK, CapacityOK,
       ThreadsOK, DrainerOK, GhostsOK, Threads, PlaceInv, ThreadInv, DrainInv, Starting,
       Draining, OnePlace, SentInv, UnsentInv, KnownInv, LastSent, LeastUnsent, Alive,
       Sending, Working, PumpAt, ExitAt, UnstartedInv, StartingInv, KeyOf, JobsOf, Keys,
       JobRows, Eval
  <2>4. QED
    BY <2>1, <2>2, <2>3
<1>20. ASSUME NEW t \in Threads, ScheduleRetryWake(t)
      PROVE  OnePlace' /\ SentInv' /\ UnsentInv'
  <2>1. OnePlace'
    BY <1>20, KeyParts, ThreadsAssumption, NoKeyAssumption DEF ScheduleRetryWake,
       drainer, Go, Ends, Base, TypeOK, MemoryOK, CapacityOK, ThreadsOK, DrainerOK,
       Threads, PlaceInv, ThreadInv, DrainInv, Starting, Draining, OnePlace, SentInv,
       UnsentInv, KnownInv, LastSent, LeastUnsent, Alive, Sending, Working, PumpAt,
       ExitAt
  <2>2. SentInv'
    BY <1>20, KeyParts, ThreadsAssumption, NoKeyAssumption DEF ScheduleRetryWake,
       drainer, Go, Ends, Base, TypeOK, MemoryOK, CapacityOK, ThreadsOK, DrainerOK,
       Threads, PlaceInv, ThreadInv, DrainInv, Starting, Draining, OnePlace, SentInv,
       UnsentInv, KnownInv, LastSent, LeastUnsent, Alive, Sending, Working, PumpAt,
       ExitAt
  <2>3. UnsentInv'
    BY <1>20, KeyParts, LimitsAssumption, ThreadsAssumption, NoKeyAssumption DEF
       ScheduleRetryWake, rows, drainer, Go, Ends, Base, TypeOK, RowsOK, MemoryOK,
       CapacityOK, ThreadsOK, DrainerOK, Threads, PlaceInv, ThreadInv, DrainInv,
       Starting, Draining, OnePlace, SentInv, UnsentInv, KnownInv, LastSent,
       LeastUnsent, Alive, Sending, Working, PumpAt, ExitAt, UnstartedInv, StartingInv,
       KeyOf, JobsOf, Keys, JobRows, Eval
  <2>4. QED
    BY <2>1, <2>2, <2>3
<1>21. ASSUME NEW r \in Runs, RunEnds(r)
      PROVE  OnePlace' /\ SentInv' /\ UnsentInv'
  <2>1. OnePlace'
    BY <1>21, KeyParts DEF RunEnds, drainer, Go, Base, TypeOK, CapacityOK, ThreadsOK,
       DrainerOK, Threads, Draining, OnePlace, Sending, Working, ExitAt
  <2>2. SentInv'
    BY <1>21, KeyParts DEF RunEnds, memory, drainer, Go, Base, TypeOK, MemoryOK,
       CapacityOK, ThreadsOK, DrainerOK, Threads, Draining, SentInv, LastSent, Sending,
       Working, ExitAt
  <2>3. UnsentInv'
    BY <1>21, KeyParts, LimitsAssumption DEF RunEnds, rows, memory, drainer, Go, Base,
       TypeOK, RowsOK, MemoryOK, CapacityOK, ThreadsOK, DrainerOK, Threads, Draining,
       UnsentInv, LeastUnsent, Alive, Sending, Working, ExitAt, KeyOf
  <2>4. QED
    BY <2>1, <2>2, <2>3
<1>22. ASSUME NEW r \in Runs, ExitAcks(r)
      PROVE  OnePlace' /\ SentInv' /\ UnsentInv'
  <2>1. OnePlace'
    BY <1>22, KeyParts DEF ExitAcks, drainer, Go, Base, TypeOK, CapacityOK, ThreadsOK,
       DrainerOK, Threads, Draining, OnePlace, Sending, Working, ExitAt
  <2>2. SentInv'
    BY <1>22, KeyParts DEF ExitAcks, memory, drainer, Go, Base, TypeOK, MemoryOK,
       CapacityOK, ThreadsOK, DrainerOK, Threads, Draining, SentInv, LastSent, Sending,
       Working, ExitAt
  <2>3. UnsentInv'
    BY <1>22, KeyParts, LimitsAssumption DEF ExitAcks, rows, memory, drainer, Go, Base,
       TypeOK, RowsOK, MemoryOK, CapacityOK, ThreadsOK, DrainerOK, Threads, Draining,
       UnsentInv, LeastUnsent, Alive, Sending, Working, ExitAt, KeyOf
  <2>4. QED
    BY <2>1, <2>2, <2>3
<1>23. ASSUME NEW r \in Runs, ExitReleases(r)
      PROVE  OnePlace' /\ SentInv' /\ UnsentInv'
  <2>1. OnePlace'
    <3>1. Shrinks
      BY <1>23, PumpEffect, ThreadsAssumption DEF ExitReleases, Go, Ends, Base, TypeOK,
         ThreadsOK, CapacityOK, PlaceInv, ThreadInv, Threads, Shrinks, Sending, Working,
         Draining, PumpAt, ExitAt, memory, drainer
    <3>2. QED
      BY <3>1, FewerPlaces
  <2>2. SentInv'
    <3>1. Shrinks
      BY <1>23, PumpEffect, ThreadsAssumption DEF ExitReleases, Go, Ends, Base, TypeOK,
         ThreadsOK, CapacityOK, PlaceInv, ThreadInv, Threads, Shrinks, Sending, Working,
         Draining, PumpAt, ExitAt, memory, drainer
    <3>2. QED
      BY <3>1, FewerPlaces
  <2>3. UnsentInv'
    BY <1>23, KeyParts, LimitsAssumption, ThreadsAssumption, NoKeyAssumption DEF
       ExitReleases, rows, memory, drainer, Go, Ends, Base, TypeOK, RowsOK, MemoryOK,
       CapacityOK, ThreadsOK, DrainerOK, Threads, PlaceInv, ThreadInv, DrainInv,
       Starting, Draining, OnePlace, SentInv, UnsentInv, KnownInv, LastSent,
       LeastUnsent, Alive, Sending, Working, PumpAt, ExitAt, UnstartedInv, StartingInv,
       KeyOf, JobsOf, Keys, JobRows, Eval
  <2>4. QED
    BY <2>1, <2>2, <2>3
<1>24. ASSUME NEW r \in Runs, Record(r)
      PROVE  OnePlace' /\ SentInv' /\ UnsentInv'
  <2>1. OnePlace'
    BY <1>24, KeyParts DEF Record, capacity, drainer, Go, Base, TypeOK, RowsOK,
       CapacityOK, ThreadsOK, DrainerOK, Threads, Draining, OnePlace, Sending, Working,
       ExitAt
  <2>2. SentInv'
    BY <1>24, KeyParts DEF Record, memory, capacity, drainer, Go, Base, TypeOK, RowsOK,
       MemoryOK, CapacityOK, ThreadsOK, DrainerOK, Threads, Draining, SentInv, LastSent,
       Sending, Working, ExitAt
  <2>3. UnsentInv'
    BY <1>24, KeyParts, LimitsAssumption DEF Record, rows, memory, capacity, drainer,
       Go, Base, TypeOK, RowsOK, MemoryOK, CapacityOK, ThreadsOK, DrainerOK, Threads,
       Draining, UnsentInv, LeastUnsent, Alive, Sending, Working, ExitAt, KeyOf, Eval
  <2>4. QED
    BY <2>1, <2>2, <2>3
<1>25. ASSUME NEW r \in Runs, Decide(r)
      PROVE  OnePlace' /\ SentInv' /\ UnsentInv'
  <2>1. OnePlace'
    <3>1. Shrinks
      BY <1>25, PumpEffect, ThreadsAssumption DEF Decide, Go, Base, TypeOK, ThreadsOK,
         CapacityOK, PlaceInv, ThreadInv, Threads, Shrinks, Sending, Working, Draining,
         PumpAt, ExitAt, memory, drainer
    <3>2. QED
      BY <3>1, FewerPlaces
  <2>2. SentInv'
    <3>1. Shrinks
      BY <1>25, PumpEffect, ThreadsAssumption DEF Decide, Go, Base, TypeOK, ThreadsOK,
         CapacityOK, PlaceInv, ThreadInv, Threads, Shrinks, Sending, Working, Draining,
         PumpAt, ExitAt, memory, drainer
    <3>2. QED
      BY <3>1, FewerPlaces
  <2>3. UnsentInv'
    BY <1>25, KeyParts, LimitsAssumption, ThreadsAssumption, NoKeyAssumption DEF Decide,
       rows, memory, drainer, Go, Pump, Ends, Base, TypeOK, RowsOK, MemoryOK,
       CapacityOK, ThreadsOK, DrainerOK, Threads, PlaceInv, ThreadInv, DrainInv,
       Starting, Draining, OnePlace, SentInv, UnsentInv, KnownInv, LastSent,
       LeastUnsent, Alive, Sending, Working, PumpAt, ExitAt, UnstartedInv, StartingInv,
       KeyOf, JobsOf, Keys, JobRows, Eval
  <2>4. QED
    BY <2>1, <2>2, <2>3
<1>26. ASSUME NEW r \in Runs, RetryJob(r)
      PROVE  OnePlace' /\ SentInv' /\ UnsentInv'
  <2>1. OnePlace'
    <3>1. Shrinks
      BY <1>26, PumpEffect, ThreadsAssumption DEF RetryJob, Base, TypeOK, ThreadsOK,
         CapacityOK, PlaceInv, ThreadInv, Threads, Shrinks, Sending, Working, Draining,
         PumpAt, ExitAt, memory, drainer
    <3>2. QED
      BY <3>1, FewerPlaces
  <2>2. SentInv'
    <3>1. Shrinks
      BY <1>26, PumpEffect, ThreadsAssumption DEF RetryJob, Base, TypeOK, ThreadsOK,
         CapacityOK, PlaceInv, ThreadInv, Threads, Shrinks, Sending, Working, Draining,
         PumpAt, ExitAt, memory, drainer
    <3>2. QED
      BY <3>1, FewerPlaces
  <2>3. UnsentInv'
    <3>1. Shrinks
      BY <1>26, PumpEffect, ThreadsAssumption DEF RetryJob, Base, TypeOK, ThreadsOK,
         CapacityOK, PlaceInv, ThreadInv, Threads, Shrinks, Sending, Working, Draining,
         PumpAt, ExitAt, memory, drainer
    <3>2. UNCHANGED <<todo, enqueued>> /\ r \in Working /\ key[r] \in Keys
      BY <1>26 DEF RetryJob, memory, Working, ExitAt, Base, PlaceInv, ThreadInv
    <3>0. PICK j \in Jobs : j = key[r][1]
      BY <3>2, KeyParts
    <3>3. row'[j] = [status |-> "queued", attempt |-> key[r][2] + 1, backoff |-> TRUE]
          /\ \A i \in Jobs : i # j => row'[i] = row[i]
      BY <1>26, <3>0, <3>2 DEF RetryJob, Base, TypeOK, RowsOK
    <3>4. r \notin Working'
      BY <1>26, PumpEffect DEF RetryJob, Working, Base, PlaceInv, ThreadInv, ExitAt,
         TypeOK, ThreadsOK, Threads
    <3>5. ~ Alive(j)'
      BY <3>0, <3>1, <3>2, <3>4 DEF OnePlace, Alive, Shrinks
    <3>6. LeastUnsent(KeyOf(j))'
      <4>1. KeyOf(j)' = <<j, key[r][2] + 1>>
        BY <3>3 DEF KeyOf
      <4>2. key[r][2] \in Nat /\ LastSent(key[r])
        BY <3>2, KeyParts DEF SentInv
      <4>3. QED
        BY <3>0, <3>2, <4>1, <4>2 DEF LastSent, LeastUnsent
    <3>7. ASSUME NEW u \in Threads, NEW k \in todo'[u], k \notin enqueued'
          PROVE  LeastUnsent(k)' /\ ~ Alive(k[1])'
      BY <3>1, <3>2, <3>7, FewerPlaces, KeyParts DEF UnsentInv, LeastUnsent, Base,
         TypeOK, ThreadsOK
    <3>8. ASSUME NEW i \in Jobs, i # j, row'[i].status = "queued", KeyOf(i)' \notin enqueued'
          PROVE  LeastUnsent(KeyOf(i))' /\ ~ Alive(i)'
      BY <3>1, <3>2, <3>3, <3>8, FewerPlaces DEF UnsentInv, LeastUnsent, KeyOf
    <3>9. QED
      BY <3>5, <3>6, <3>7, <3>8 DEF UnsentInv
  <2>4. QED
    BY <2>1, <2>2, <2>3
<1>27. ASSUME NEW j \in Jobs, BackoffEnds(j)
      PROVE  OnePlace' /\ SentInv' /\ UnsentInv'
  <2>1. OnePlace'
    BY <1>27 DEF BackoffEnds, capacity, threads, drainer, OnePlace, Sending, Working,
       Draining
  <2>2. SentInv'
    BY <1>27 DEF BackoffEnds, memory, capacity, threads, drainer, SentInv, Sending,
       LastSent, Draining, Working
  <2>3. UnsentInv'
    BY <1>27, KeyParts, LimitsAssumption DEF BackoffEnds, rows, memory, capacity,
       threads, drainer, Base, TypeOK, RowsOK, MemoryOK, CapacityOK, ThreadsOK,
       DrainerOK, Threads, Draining, UnsentInv, LeastUnsent, Alive, Sending, Working,
       ExitAt, KeyOf
  <2>4. QED
    BY <2>1, <2>2, <2>3
<1>28. ASSUME DrainTimer
      PROVE  OnePlace' /\ SentInv' /\ UnsentInv'
  <2>1. OnePlace'
    BY <1>28, KeyParts DEF DrainTimer, capacity, threads, Base, TypeOK, CapacityOK,
       ThreadsOK, DrainerOK, Threads, Draining, OnePlace, Sending, Working, ExitAt
  <2>2. SentInv'
    BY <1>28, KeyParts DEF DrainTimer, memory, capacity, threads, Base, TypeOK,
       MemoryOK, CapacityOK, ThreadsOK, DrainerOK, Threads, Draining, SentInv, LastSent,
       Sending, Working, ExitAt
  <2>3. UnsentInv'
    BY <1>28, KeyParts, LimitsAssumption DEF DrainTimer, rows, memory, capacity,
       threads, Base, TypeOK, RowsOK, MemoryOK, CapacityOK, ThreadsOK, DrainerOK,
       Threads, Draining, UnsentInv, LeastUnsent, Alive, Sending, Working, ExitAt, KeyOf
  <2>4. QED
    BY <2>1, <2>2, <2>3
<1>29. ASSUME NEW k \in Keys, DrainAdmits(k)
      PROVE  OnePlace' /\ SentInv' /\ UnsentInv'
  <2>1. OnePlace'
    BY <1>29, KeyParts DEF DrainAdmits, threads, Base, TypeOK, CapacityOK, ThreadsOK,
       DrainerOK, Threads, Draining, OnePlace, Sending, Working, ExitAt
  <2>2. SentInv'
    BY <1>29, KeyParts DEF DrainAdmits, memory, threads, Base, TypeOK, MemoryOK,
       CapacityOK, ThreadsOK, DrainerOK, Threads, Draining, SentInv, LastSent, Sending,
       Working, ExitAt
  <2>3. UnsentInv'
    BY <1>29, KeyParts, LimitsAssumption DEF DrainAdmits, rows, memory, threads, Base,
       TypeOK, RowsOK, MemoryOK, CapacityOK, ThreadsOK, DrainerOK, Threads, Draining,
       UnsentInv, LeastUnsent, Alive, Sending, Working, ExitAt, KeyOf
  <2>4. QED
    BY <2>1, <2>2, <2>3
<1>30. ASSUME DrainReturns
      PROVE  OnePlace' /\ SentInv' /\ UnsentInv'
  <2>1. OnePlace'
    BY <1>30, KeyParts DEF DrainReturns, capacity, threads, Base, TypeOK, CapacityOK,
       ThreadsOK, DrainerOK, Threads, Draining, OnePlace, Sending, Working, ExitAt
  <2>2. SentInv'
    BY <1>30, KeyParts DEF DrainReturns, memory, capacity, threads, Base, TypeOK,
       MemoryOK, CapacityOK, ThreadsOK, DrainerOK, Threads, Draining, SentInv, LastSent,
       Sending, Working, ExitAt
  <2>3. UnsentInv'
    BY <1>30, KeyParts, LimitsAssumption DEF DrainReturns, rows, memory, capacity,
       threads, Base, TypeOK, RowsOK, MemoryOK, CapacityOK, ThreadsOK, DrainerOK,
       Threads, Draining, UnsentInv, LeastUnsent, Alive, Sending, Working, ExitAt, KeyOf
  <2>4. QED
    BY <2>1, <2>2, <2>3
<1>31. ASSUME DrainChecks
      PROVE  OnePlace' /\ SentInv' /\ UnsentInv'
  <2>1. OnePlace'
    BY <1>31, KeyParts DEF DrainChecks, capacity, threads, Base, TypeOK, CapacityOK,
       ThreadsOK, DrainerOK, Threads, Draining, OnePlace, Sending, Working, ExitAt
  <2>2. SentInv'
    BY <1>31, KeyParts DEF DrainChecks, memory, capacity, threads, Base, TypeOK,
       MemoryOK, CapacityOK, ThreadsOK, DrainerOK, Threads, Draining, SentInv, LastSent,
       Sending, Working, ExitAt
  <2>3. UnsentInv'
    BY <1>31, KeyParts, LimitsAssumption DEF DrainChecks, rows, memory, capacity,
       threads, Base, TypeOK, RowsOK, MemoryOK, CapacityOK, ThreadsOK, DrainerOK,
       Threads, Draining, UnsentInv, LeastUnsent, Alive, Sending, Working, ExitAt, KeyOf
  <2>4. QED
    BY <2>1, <2>2, <2>3
<1>32. ASSUME DrainDrops
      PROVE  OnePlace' /\ SentInv' /\ UnsentInv'
  <2>1. OnePlace'
    BY <1>32, KeyParts DEF DrainDrops, threads, Base, TypeOK, CapacityOK, ThreadsOK,
       DrainerOK, Threads, Draining, OnePlace, Sending, Working, ExitAt
  <2>2. SentInv'
    BY <1>32, KeyParts DEF DrainDrops, memory, threads, Base, TypeOK, MemoryOK,
       CapacityOK, ThreadsOK, DrainerOK, Threads, Draining, SentInv, LastSent, Sending,
       Working, ExitAt
  <2>3. UnsentInv'
    BY <1>32, KeyParts, LimitsAssumption DEF DrainDrops, rows, memory, threads, Base,
       TypeOK, RowsOK, MemoryOK, CapacityOK, ThreadsOK, DrainerOK, Threads, Draining,
       UnsentInv, LeastUnsent, Alive, Sending, Working, ExitAt, KeyOf
  <2>4. QED
    BY <2>1, <2>2, <2>3
<1>33. ASSUME NEW r \in Runs, AcquireSlot(r)
      PROVE  OnePlace' /\ SentInv' /\ UnsentInv'
  <2>1. OnePlace'
    BY <1>33, KeyParts, ThreadsAssumption, NoKeyAssumption DEF AcquireSlot, threads,
       Base, TypeOK, CapacityOK, ThreadsOK, DrainerOK, Threads, PlaceInv, ThreadInv,
       DrainInv, Starting, Draining, OnePlace, SentInv, UnsentInv, KnownInv, LastSent,
       LeastUnsent, Alive, Sending, Working, PumpAt, ExitAt, Fresh
  <2>2. SentInv'
    BY <1>33, KeyParts, ThreadsAssumption, NoKeyAssumption DEF AcquireSlot, memory,
       threads, Base, TypeOK, MemoryOK, CapacityOK, ThreadsOK, DrainerOK, Threads,
       Draining, SentInv, LastSent, Sending, Working, ExitAt, Fresh
  <2>3. UnsentInv'
    BY <1>33, KeyParts, LimitsAssumption, ThreadsAssumption, NoKeyAssumption DEF
       AcquireSlot, rows, memory, threads, Base, TypeOK, RowsOK, MemoryOK, CapacityOK,
       ThreadsOK, DrainerOK, Threads, Draining, UnsentInv, LeastUnsent, Alive, Sending,
       Working, ExitAt, Fresh, KeyOf
  <2>4. QED
    BY <2>1, <2>2, <2>3
<1>34. ASSUME NoSlot
      PROVE  OnePlace' /\ SentInv' /\ UnsentInv'
  <2>1. OnePlace'
    BY <1>34, KeyParts DEF NoSlot, capacity, threads, Base, TypeOK, CapacityOK,
       ThreadsOK, DrainerOK, Threads, Draining, OnePlace, Sending, Working, ExitAt
  <2>2. SentInv'
    BY <1>34, KeyParts DEF NoSlot, memory, capacity, threads, Base, TypeOK, MemoryOK,
       CapacityOK, ThreadsOK, DrainerOK, Threads, Draining, SentInv, LastSent, Sending,
       Working, ExitAt
  <2>3. UnsentInv'
    BY <1>34, KeyParts, LimitsAssumption DEF NoSlot, rows, memory, capacity, threads,
       Base, TypeOK, RowsOK, MemoryOK, CapacityOK, ThreadsOK, DrainerOK, Threads,
       Draining, UnsentInv, LeastUnsent, Alive, Sending, Working, ExitAt, KeyOf
  <2>4. QED
    BY <2>1, <2>2, <2>3
<1>35. ASSUME RequeueAcks
      PROVE  OnePlace' /\ SentInv' /\ UnsentInv'
  <2>1. OnePlace'
    BY <1>35, KeyParts DEF RequeueAcks, threads, Base, TypeOK, CapacityOK, ThreadsOK,
       DrainerOK, Threads, Draining, OnePlace, Sending, Working, ExitAt
  <2>2. SentInv'
    BY <1>35, KeyParts DEF RequeueAcks, memory, threads, Base, TypeOK, MemoryOK,
       CapacityOK, ThreadsOK, DrainerOK, Threads, Draining, SentInv, LastSent, Sending,
       Working, ExitAt
  <2>3. UnsentInv'
    BY <1>35, KeyParts, LimitsAssumption DEF RequeueAcks, rows, memory, threads, Base,
       TypeOK, RowsOK, MemoryOK, CapacityOK, ThreadsOK, DrainerOK, Threads, Draining,
       UnsentInv, LeastUnsent, Alive, Sending, Working, ExitAt, KeyOf
  <2>4. QED
    BY <2>1, <2>2, <2>3
<1>36. ASSUME RequeueVerbatim
      PROVE  OnePlace' /\ SentInv' /\ UnsentInv'
  <2>1. OnePlace'
    BY <1>36, KeyParts DEF RequeueVerbatim, threads, Base, TypeOK, CapacityOK,
       ThreadsOK, DrainerOK, Threads, Draining, OnePlace, Sending, Working, ExitAt
  <2>2. SentInv'
    BY <1>36, KeyParts DEF RequeueVerbatim, memory, threads, Base, TypeOK, MemoryOK,
       CapacityOK, ThreadsOK, DrainerOK, Threads, Draining, SentInv, LastSent, Sending,
       Working, ExitAt
  <2>3. UnsentInv'
    BY <1>36, KeyParts, LimitsAssumption DEF RequeueVerbatim, rows, memory, threads,
       Base, TypeOK, RowsOK, MemoryOK, CapacityOK, ThreadsOK, DrainerOK, Threads,
       Draining, UnsentInv, LeastUnsent, Alive, Sending, Working, ExitAt, KeyOf
  <2>4. QED
    BY <2>1, <2>2, <2>3
<1>37. ASSUME MarkJobRunning
      PROVE  OnePlace' /\ SentInv' /\ UnsentInv'
  <2>1. OnePlace'
    BY <1>37, KeyParts DEF MarkJobRunning, capacity, threads, Base, TypeOK, RowsOK,
       CapacityOK, ThreadsOK, DrainerOK, Threads, Draining, OnePlace, Sending, Working,
       ExitAt
  <2>2. SentInv'
    BY <1>37, KeyParts DEF MarkJobRunning, memory, capacity, threads, Base, TypeOK,
       RowsOK, MemoryOK, CapacityOK, ThreadsOK, DrainerOK, Threads, Draining, SentInv,
       LastSent, Sending, Working, ExitAt
  <2>3. UnsentInv'
    BY <1>37, KeyParts, LimitsAssumption DEF MarkJobRunning, rows, memory, capacity,
       threads, Base, TypeOK, RowsOK, MemoryOK, CapacityOK, ThreadsOK, DrainerOK,
       Threads, Draining, UnsentInv, LeastUnsent, Alive, Sending, Working, ExitAt, KeyOf
  <2>4. QED
    BY <2>1, <2>2, <2>3
<1>38. ASSUME StartRun
      PROVE  OnePlace' /\ SentInv' /\ UnsentInv'
  <2>1. OnePlace'
    BY <1>38, KeyParts, ThreadsAssumption, NoKeyAssumption DEF StartRun, threads, Base,
       TypeOK, CapacityOK, ThreadsOK, DrainerOK, GhostsOK, Threads, PlaceInv, ThreadInv,
       DrainInv, Starting, Draining, OnePlace, SentInv, UnsentInv, KnownInv, LastSent,
       LeastUnsent, Alive, Sending, Working, PumpAt, ExitAt
  <2>2. SentInv'
    BY <1>38, KeyParts, ThreadsAssumption, NoKeyAssumption DEF StartRun, memory,
       threads, Base, TypeOK, MemoryOK, CapacityOK, ThreadsOK, DrainerOK, GhostsOK,
       Threads, PlaceInv, ThreadInv, DrainInv, Starting, Draining, OnePlace, SentInv,
       UnsentInv, KnownInv, LastSent, LeastUnsent, Alive, Sending, Working, PumpAt,
       ExitAt
  <2>3. UnsentInv'
    BY <1>38, KeyParts, LimitsAssumption, ThreadsAssumption, NoKeyAssumption DEF
       StartRun, rows, memory, threads, Base, TypeOK, RowsOK, MemoryOK, CapacityOK,
       ThreadsOK, DrainerOK, GhostsOK, Threads, PlaceInv, ThreadInv, DrainInv, Starting,
       Draining, OnePlace, SentInv, UnsentInv, KnownInv, LastSent, LeastUnsent, Alive,
       Sending, Working, PumpAt, ExitAt, UnstartedInv, StartingInv, KeyOf, JobsOf, Keys,
       JobRows
  <2>4. QED
    BY <2>1, <2>2, <2>3
<1>39. ASSUME RefuseRun
      PROVE  OnePlace' /\ SentInv' /\ UnsentInv'
  <2>1. OnePlace'
    BY <1>39, KeyParts, ThreadsAssumption, NoKeyAssumption DEF RefuseRun, capacity, Go,
       Base, TypeOK, CapacityOK, ThreadsOK, DrainerOK, Threads, PlaceInv, ThreadInv,
       DrainInv, Starting, Draining, OnePlace, SentInv, UnsentInv, KnownInv, LastSent,
       LeastUnsent, Alive, Sending, Working, PumpAt, ExitAt
  <2>2. SentInv'
    BY <1>39, KeyParts, ThreadsAssumption, NoKeyAssumption DEF RefuseRun, memory,
       capacity, Go, Base, TypeOK, MemoryOK, CapacityOK, ThreadsOK, DrainerOK, Threads,
       PlaceInv, ThreadInv, DrainInv, Starting, Draining, OnePlace, SentInv, UnsentInv,
       KnownInv, LastSent, LeastUnsent, Alive, Sending, Working, PumpAt, ExitAt
  <2>3. UnsentInv'
    BY <1>39, KeyParts, LimitsAssumption, ThreadsAssumption, NoKeyAssumption DEF
       RefuseRun, rows, memory, capacity, Go, Base, TypeOK, RowsOK, MemoryOK,
       CapacityOK, ThreadsOK, DrainerOK, Threads, PlaceInv, ThreadInv, DrainInv,
       Starting, Draining, OnePlace, SentInv, UnsentInv, KnownInv, LastSent,
       LeastUnsent, Alive, Sending, Working, PumpAt, ExitAt, UnstartedInv, StartingInv,
       KeyOf, JobsOf, Keys, JobRows
  <2>4. QED
    BY <2>1, <2>2, <2>3
<1>40. ASSUME SetupThrows
      PROVE  OnePlace' /\ SentInv' /\ UnsentInv'
  <2>1. OnePlace'
    BY <1>40, KeyParts, ThreadsAssumption, NoKeyAssumption DEF SetupThrows, threads,
       Base, TypeOK, CapacityOK, ThreadsOK, DrainerOK, GhostsOK, Threads, PlaceInv,
       ThreadInv, DrainInv, Starting, Draining, OnePlace, SentInv, UnsentInv, KnownInv,
       LastSent, LeastUnsent, Alive, Sending, Working, PumpAt, ExitAt
  <2>2. SentInv'
    BY <1>40, KeyParts, ThreadsAssumption, NoKeyAssumption DEF SetupThrows, memory,
       threads, Base, TypeOK, MemoryOK, CapacityOK, ThreadsOK, DrainerOK, GhostsOK,
       Threads, PlaceInv, ThreadInv, DrainInv, Starting, Draining, OnePlace, SentInv,
       UnsentInv, KnownInv, LastSent, LeastUnsent, Alive, Sending, Working, PumpAt,
       ExitAt
  <2>3. UnsentInv'
    BY <1>40, KeyParts, LimitsAssumption, ThreadsAssumption, NoKeyAssumption DEF
       SetupThrows, rows, memory, threads, Base, TypeOK, RowsOK, MemoryOK, CapacityOK,
       ThreadsOK, DrainerOK, GhostsOK, Threads, PlaceInv, ThreadInv, DrainInv, Starting,
       Draining, OnePlace, SentInv, UnsentInv, KnownInv, LastSent, LeastUnsent, Alive,
       Sending, Working, PumpAt, ExitAt, UnstartedInv, StartingInv, KeyOf, JobsOf, Keys,
       JobRows
  <2>4. QED
    BY <2>1, <2>2, <2>3
<1>41. CASE UNCHANGED vars
  <2>1. OnePlace'
    BY <1>41 DEF vars, capacity, threads, drainer, OnePlace, Sending, Working, Draining
  <2>2. SentInv'
    BY <1>41 DEF vars, memory, capacity, threads, drainer, SentInv, Sending, LastSent,
       Draining, Working
  <2>3. UnsentInv'
    BY <1>41 DEF vars, rows, memory, capacity, threads, drainer, UnsentInv, LeastUnsent,
       Alive, KeyOf, Sending, Draining, Working
  <2>4. QED
    BY <2>1, <2>2, <2>3
<1>42. QED
  BY <1>1, <1>2, <1>3, <1>4, <1>5, <1>6, <1>7, <1>8, <1>9, <1>10, <1>11, <1>12, <1>13,
     <1>14, <1>15, <1>16, <1>17, <1>18, <1>19, <1>20, <1>21, <1>22, <1>23, <1>24, <1>25,
     <1>26, <1>27, <1>28, <1>29, <1>30, <1>31, <1>32, <1>33, <1>34, <1>35, <1>36, <1>37,
     <1>38, <1>39, <1>40, <1>41 DEF Next, CancelStep, PumpStep, ExitStep, DrainStep

KeptInv == Base /\ KnownInv /\ UnstartedInv /\ StartingInv
PlacesInv == KeptInv /\ OnePlace /\ SentInv /\ UnsentInv /\ AttemptInv

LEMMA PlacesInvariant == Spec => []PlacesInv
<1>1. Init => KnownInv /\ UnstartedInv /\ StartingInv /\ OnePlace /\ SentInv /\ UnsentInv
  BY ThreadsAssumption DEF Init, KnownInv, UnstartedInv, StartingInv, OnePlace, SentInv,
     UnsentInv, Sending, Working, Draining, Threads, ExitAt, NoRow, JobsOf
<1>2. Init => AttemptInv
  BY LimitsAssumption DEF Init, AttemptInv, NoRow
<1>3. Base /\ KnownInv /\ UnstartedInv /\ StartingInv /\ OnePlace /\ SentInv /\ UnsentInv
        /\ AttemptInv /\ [Next]_vars
      => (KnownInv /\ UnstartedInv /\ StartingInv /\ OnePlace /\ SentInv /\ UnsentInv
            /\ AttemptInv)'
  BY KnownStep, UnstartedStep, PlacesStep, AttemptStep
<1>4. QED
  BY <1>1, <1>2, <1>3, BaseInvariant, PTL DEF Spec, PlacesInv, KeptInv

\* However many pumps scan the same rows, whatever is retried, put back or
\* cancelled, a job never has two runs.
THEOREM NeverTwoRuns == Spec => []OneRunPerJob
<1>1. PlacesInv => OneRunPerJob
  <2> SUFFICES ASSUME PlacesInv
               PROVE  OneRunPerJob
    OBVIOUS
  <2>1. pool \subseteq Working /\ (Starting => Draining)
    BY DEF PlacesInv, KeptInv, Base, TypeOK, CapacityOK, Working, Starting, Draining
  <2>2. Starting => key[drainRun] = drainKey
    BY DEF PlacesInv, KeptInv, Base, PlaceInv, DrainInv
  <2>3. QED
    BY <2>1, <2>2 DEF PlacesInv, OnePlace, OneRunPerJob
<1>2. QED
  BY <1>1, PlacesInvariant, PTL

-----------------------------------------------------------------------------
(* Capacity *)

\* What is taken is given back once: another call never gives back the same.
LEMMA CapacityStep ==
  ASSUME PlacesInv, ReservationsAccounted, [Next]_vars
  PROVE  ReservationsAccounted'
<1>1. ASSUME NEW e \in Evals, Start(e)
      PROVE  ReservationsAccounted'
  BY <1>1 DEF Start, rows, capacity, drainer, Go, Base, TypeOK, RowsOK, MemoryOK,
     CapacityOK, ThreadsOK, DrainerOK, Starting, PlacesInv, KeptInv,
     ReservationsAccounted, KeysUp
<1>2. ASSUME NEW e \in Evals, StartFails(e)
      PROVE  ReservationsAccounted'
  BY <1>2 DEF StartFails, rows, capacity, drainer, Go, Base, TypeOK, RowsOK, MemoryOK,
     CapacityOK, ThreadsOK, DrainerOK, Starting, PlacesInv, KeptInv,
     ReservationsAccounted, KeysUp
<1>3. ASSUME NEW e \in Evals, GoesLive(e)
      PROVE  ReservationsAccounted'
  BY <1>3 DEF GoesLive, rows, capacity, drainer, Go, Base, TypeOK, RowsOK, MemoryOK,
     CapacityOK, ThreadsOK, DrainerOK, Starting, PlacesInv, KeptInv,
     ReservationsAccounted, KeysUp
<1>4. ASSUME NEW e \in Evals, TimerFires(e)
      PROVE  ReservationsAccounted'
  BY <1>4, ThreadsAssumption, NoKeyAssumption DEF TimerFires, rows, drainer, Go, Pump,
     Ends, Base, TypeOK, RowsOK, MemoryOK, CapacityOK, ThreadsOK, DrainerOK, Threads,
     PlaceInv, ThreadInv, DrainInv, Starting, Draining, PlacesInv, KeptInv, OnePlace,
     KnownInv, ReservationsAccounted, KeysUp, Working, PumpAt, ExitAt
<1>5. ASSUME NEW e \in Evals, Cancel(e)
      PROVE  ReservationsAccounted'
  BY <1>5 DEF Cancel, rows, capacity, threads, drainer, ReservationsAccounted, KeysUp,
     Starting
<1>6. ASSUME NEW e \in Evals, CancelRows(e)
      PROVE  ReservationsAccounted'
  BY <1>6 DEF CancelRows, rows, capacity, threads, drainer, Base, TypeOK, RowsOK,
     CapacityOK, ThreadsOK, DrainerOK, Starting, PlacesInv, KeptInv,
     ReservationsAccounted, KeysUp
<1>7. ASSUME NEW e \in Evals, CancelPurges(e)
      PROVE  ReservationsAccounted'
  BY <1>7 DEF CancelPurges, rows, threads, drainer, ReservationsAccounted, KeysUp,
     Starting
<1>8. ASSUME NEW t \in Threads, ReadBudget(t)
      PROVE  ReservationsAccounted'
  BY <1>8 DEF ReadBudget, rows, capacity, drainer, Go, Base, TypeOK, RowsOK, CapacityOK,
     ThreadsOK, DrainerOK, Starting, PlacesInv, KeptInv, ReservationsAccounted, KeysUp
<1>9. ASSUME NEW t \in Threads, AbortRows(t)
      PROVE  ReservationsAccounted'
  BY <1>9 DEF AbortRows, rows, capacity, drainer, Go, Base, TypeOK, RowsOK, CapacityOK,
     ThreadsOK, DrainerOK, Starting, PlacesInv, KeptInv, ReservationsAccounted, KeysUp
<1>10. ASSUME NEW t \in Threads, AbortFlag(t)
      PROVE  ReservationsAccounted'
  BY <1>10 DEF AbortFlag, rows, capacity, drainer, Go, Base, TypeOK, RowsOK, MemoryOK,
     CapacityOK, ThreadsOK, DrainerOK, Starting, PlacesInv, KeptInv,
     ReservationsAccounted, KeysUp
<1>11. ASSUME NEW t \in Threads, AbortStatus(t)
      PROVE  ReservationsAccounted'
  BY <1>11 DEF AbortStatus, rows, capacity, drainer, Go, Base, TypeOK, RowsOK,
     CapacityOK, ThreadsOK, DrainerOK, Starting, PlacesInv, KeptInv,
     ReservationsAccounted, KeysUp
<1>12. ASSUME NEW t \in Threads, Scan(t)
      PROVE  ReservationsAccounted'
  BY <1>12 DEF Scan, rows, capacity, drainer, Go, Base, TypeOK, RowsOK, CapacityOK,
     ThreadsOK, DrainerOK, Starting, PlacesInv, KeptInv, ReservationsAccounted, KeysUp
<1>13. ASSUME NEW t \in Threads, NEW k \in Keys, Send(t, k)
      PROVE  ReservationsAccounted'
  BY <1>13 DEF Send, rows, capacity, drainer, Go, Base, TypeOK, RowsOK, MemoryOK,
     CapacityOK, ThreadsOK, DrainerOK, Starting, PlacesInv, KeptInv,
     ReservationsAccounted, KeysUp
<1>14. ASSUME NEW t \in Threads, Sent(t)
      PROVE  ReservationsAccounted'
  BY <1>14 DEF Sent, rows, drainer, Go, Base, TypeOK, RowsOK, CapacityOK, ThreadsOK,
     DrainerOK, Starting, PlacesInv, KeptInv, ReservationsAccounted, KeysUp
<1>15. ASSUME NEW t \in Threads, AllSent(t)
      PROVE  ReservationsAccounted'
  BY <1>15, ThreadsAssumption, NoKeyAssumption DEF AllSent, rows, drainer, Go, Ends,
     Base, TypeOK, RowsOK, CapacityOK, ThreadsOK, DrainerOK, Threads, PlaceInv,
     ThreadInv, DrainInv, Starting, Draining, PlacesInv, KeptInv, OnePlace, KnownInv,
     ReservationsAccounted, KeysUp, Working, PumpAt, ExitAt
<1>16. ASSUME NEW t \in Threads, Count(t)
      PROVE  ReservationsAccounted'
  BY <1>16 DEF Count, rows, capacity, drainer, Go, Base, TypeOK, RowsOK, CapacityOK,
     ThreadsOK, DrainerOK, Starting, PlacesInv, KeptInv, ReservationsAccounted, KeysUp
<1>17. ASSUME NEW t \in Threads, Finish(t)
      PROVE  ReservationsAccounted'
  BY <1>17 DEF Finish, rows, capacity, drainer, Go, Base, TypeOK, RowsOK, MemoryOK,
     CapacityOK, ThreadsOK, DrainerOK, Starting, PlacesInv, KeptInv,
     ReservationsAccounted, KeysUp
<1>18. ASSUME NEW t \in Threads, Verdict(t)
      PROVE  ReservationsAccounted'
  BY <1>18 DEF Verdict, rows, capacity, drainer, Go, Base, TypeOK, RowsOK, CapacityOK,
     ThreadsOK, DrainerOK, Starting, PlacesInv, KeptInv, ReservationsAccounted, KeysUp
<1>19. ASSUME NEW t \in Threads, Report(t)
      PROVE  ReservationsAccounted'
  <2>1. pc' = [pc EXCEPT ![t] = "idle"] /\ pc[t] \in PumpAt
        /\ \A r \in Runs : r # t => key'[r] = key[r]
    BY <1>19 DEF Report, Ends, Go, Base, PlacesInv, KeptInv, TypeOK, CapacityOK, PumpAt
  <2>2. UNCHANGED <<held, slots, pool, drainer>>
    BY <1>19 DEF Report, drainer
  <2>3. UNCHANGED <<KeysUp, Starting>>
    BY <2>1, <2>2 DEF KeysUp, Starting, drainer, PlacesInv, KeptInv, Base, TypeOK,
       ThreadsOK, CapacityOK, PlaceInv, ThreadInv, Threads, PumpAt
  <2>4. {r \in Runs : pc'[r] \in {"ack", "release"}} = {r \in Runs : pc[r] \in {"ack", "release"}}
    BY <2>1 DEF PlacesInv, KeptInv, Base, TypeOK, ThreadsOK, Threads, PumpAt
  <2>5. QED
    BY <2>2, <2>3, <2>4 DEF ReservationsAccounted, drainer
<1>20. ASSUME NEW t \in Threads, ScheduleRetryWake(t)
      PROVE  ReservationsAccounted'
  <2>1. pc' = [pc EXCEPT ![t] = "idle"] /\ pc[t] \in PumpAt
        /\ \A r \in Runs : r # t => key'[r] = key[r]
    BY <1>20 DEF ScheduleRetryWake, Ends, Go, Base, PlacesInv, KeptInv, TypeOK,
       CapacityOK, PumpAt
  <2>2. UNCHANGED <<held, slots, pool, drainer>>
    BY <1>20 DEF ScheduleRetryWake, drainer
  <2>3. UNCHANGED <<KeysUp, Starting>>
    BY <2>1, <2>2 DEF KeysUp, Starting, drainer, PlacesInv, KeptInv, Base, TypeOK,
       ThreadsOK, CapacityOK, PlaceInv, ThreadInv, Threads, PumpAt
  <2>4. {r \in Runs : pc'[r] \in {"ack", "release"}} = {r \in Runs : pc[r] \in {"ack", "release"}}
    BY <2>1 DEF PlacesInv, KeptInv, Base, TypeOK, ThreadsOK, Threads, PumpAt
  <2>5. QED
    BY <2>2, <2>3, <2>4 DEF ReservationsAccounted, drainer
<1>21. ASSUME NEW r \in Runs, RunEnds(r)
      PROVE  ReservationsAccounted'
  BY <1>21 DEF RunEnds, rows, drainer, Go, Base, TypeOK, RowsOK, CapacityOK, ThreadsOK,
     DrainerOK, Threads, PlaceInv, ThreadInv, DrainInv, Starting, Draining, PlacesInv,
     KeptInv, OnePlace, KnownInv, ReservationsAccounted, KeysUp, Working, PumpAt, ExitAt
<1>22. ASSUME NEW r \in Runs, ExitAcks(r)
      PROVE  ReservationsAccounted'
  BY <1>22 DEF ExitAcks, rows, drainer, Go, Base, TypeOK, RowsOK, CapacityOK, ThreadsOK,
     DrainerOK, Threads, PlaceInv, ThreadInv, DrainInv, Starting, Draining, PlacesInv,
     KeptInv, OnePlace, KnownInv, ReservationsAccounted, KeysUp, Working, PumpAt, ExitAt
<1>23. ASSUME NEW r \in Runs, ExitReleases(r)
      PROVE  ReservationsAccounted'
  BY <1>23, ThreadsAssumption, NoKeyAssumption DEF ExitReleases, rows, drainer, Go,
     Ends, Base, TypeOK, RowsOK, CapacityOK, ThreadsOK, DrainerOK, Threads, PlaceInv,
     ThreadInv, DrainInv, Starting, Draining, PlacesInv, KeptInv, OnePlace, KnownInv,
     ReservationsAccounted, KeysUp, Working, PumpAt, ExitAt
<1>24. ASSUME NEW r \in Runs, Record(r)
      PROVE  ReservationsAccounted'
  BY <1>24 DEF Record, rows, capacity, drainer, Go, Base, TypeOK, RowsOK, CapacityOK,
     ThreadsOK, DrainerOK, Starting, PlacesInv, KeptInv, ReservationsAccounted, KeysUp
<1>25. ASSUME NEW r \in Runs, Decide(r)
      PROVE  ReservationsAccounted'
  BY <1>25, ThreadsAssumption, NoKeyAssumption DEF Decide, rows, drainer, Go, Pump,
     Ends, Base, TypeOK, RowsOK, CapacityOK, ThreadsOK, DrainerOK, Threads, PlaceInv,
     ThreadInv, DrainInv, Starting, Draining, PlacesInv, KeptInv, OnePlace, KnownInv,
     ReservationsAccounted, KeysUp, Working, PumpAt, ExitAt
<1>26. ASSUME NEW r \in Runs, RetryJob(r)
      PROVE  ReservationsAccounted'
  BY <1>26, ThreadsAssumption, NoKeyAssumption DEF RetryJob, rows, drainer, Go, Pump,
     Ends, Base, TypeOK, RowsOK, CapacityOK, ThreadsOK, DrainerOK, Threads, PlaceInv,
     ThreadInv, DrainInv, Starting, Draining, PlacesInv, KeptInv, OnePlace, KnownInv,
     ReservationsAccounted, KeysUp, Working, PumpAt, ExitAt
<1>27. ASSUME NEW j \in Jobs, BackoffEnds(j)
      PROVE  ReservationsAccounted'
  BY <1>27 DEF BackoffEnds, rows, capacity, threads, drainer, Base, TypeOK, RowsOK,
     CapacityOK, ThreadsOK, DrainerOK, Starting, PlacesInv, KeptInv,
     ReservationsAccounted, KeysUp
<1>28. ASSUME DrainTimer
      PROVE  ReservationsAccounted'
  BY <1>28 DEF DrainTimer, rows, capacity, threads, drainer, Base, TypeOK, RowsOK,
     CapacityOK, ThreadsOK, DrainerOK, Starting, PlacesInv, KeptInv,
     ReservationsAccounted, KeysUp
<1>29. ASSUME NEW k \in Keys, DrainAdmits(k)
      PROVE  ReservationsAccounted'
  BY <1>29 DEF DrainAdmits, rows, threads, drainer, Base, TypeOK, RowsOK, CapacityOK,
     ThreadsOK, DrainerOK, Starting, PlacesInv, KeptInv, ReservationsAccounted, KeysUp
<1>30. ASSUME DrainReturns
      PROVE  ReservationsAccounted'
  BY <1>30 DEF DrainReturns, rows, capacity, threads, drainer, Base, TypeOK, RowsOK,
     CapacityOK, ThreadsOK, DrainerOK, Starting, PlacesInv, KeptInv,
     ReservationsAccounted, KeysUp
<1>31. ASSUME DrainChecks
      PROVE  ReservationsAccounted'
  BY <1>31 DEF DrainChecks, rows, capacity, threads, drainer, Base, TypeOK, RowsOK,
     CapacityOK, ThreadsOK, DrainerOK, Starting, PlacesInv, KeptInv,
     ReservationsAccounted, KeysUp
<1>32. ASSUME DrainDrops
      PROVE  ReservationsAccounted'
  BY <1>32 DEF DrainDrops, rows, threads, drainer, Base, TypeOK, RowsOK, CapacityOK,
     ThreadsOK, DrainerOK, Threads, PlaceInv, ThreadInv, DrainInv, Starting, Draining,
     PlacesInv, KeptInv, OnePlace, KnownInv, ReservationsAccounted, KeysUp, Working,
     PumpAt, ExitAt
<1>33. ASSUME NEW r \in Runs, AcquireSlot(r)
      PROVE  ReservationsAccounted'
  BY <1>33, ThreadsAssumption, NoKeyAssumption DEF AcquireSlot, rows, threads, drainer,
     Base, TypeOK, RowsOK, CapacityOK, ThreadsOK, DrainerOK, Starting, PlacesInv,
     KeptInv, ReservationsAccounted, KeysUp, Fresh
<1>34. ASSUME NoSlot
      PROVE  ReservationsAccounted'
  BY <1>34 DEF NoSlot, rows, capacity, threads, drainer, Base, TypeOK, RowsOK,
     CapacityOK, ThreadsOK, DrainerOK, Starting, PlacesInv, KeptInv,
     ReservationsAccounted, KeysUp
<1>35. ASSUME RequeueAcks
      PROVE  ReservationsAccounted'
  BY <1>35 DEF RequeueAcks, rows, threads, drainer, Base, TypeOK, RowsOK, CapacityOK,
     ThreadsOK, DrainerOK, Threads, PlaceInv, ThreadInv, DrainInv, Starting, Draining,
     PlacesInv, KeptInv, OnePlace, KnownInv, ReservationsAccounted, KeysUp, Working,
     PumpAt, ExitAt
<1>36. ASSUME RequeueVerbatim
      PROVE  ReservationsAccounted'
  BY <1>36 DEF RequeueVerbatim, rows, threads, drainer, Base, TypeOK, RowsOK,
     CapacityOK, ThreadsOK, DrainerOK, Starting, PlacesInv, KeptInv,
     ReservationsAccounted, KeysUp
<1>37. ASSUME MarkJobRunning
      PROVE  ReservationsAccounted'
  BY <1>37 DEF MarkJobRunning, rows, capacity, threads, drainer, Base, TypeOK, RowsOK,
     CapacityOK, ThreadsOK, DrainerOK, Starting, PlacesInv, KeptInv,
     ReservationsAccounted, KeysUp
<1>38. ASSUME StartRun
      PROVE  ReservationsAccounted'
  BY <1>38, ThreadsAssumption, NoKeyAssumption DEF StartRun, rows, threads, drainer,
     Base, TypeOK, RowsOK, CapacityOK, ThreadsOK, DrainerOK, GhostsOK, Threads,
     PlaceInv, ThreadInv, DrainInv, Starting, Draining, PlacesInv, KeptInv, OnePlace,
     KnownInv, ReservationsAccounted, KeysUp, Working, PumpAt, ExitAt
<1>39. ASSUME RefuseRun
      PROVE  ReservationsAccounted'
  BY <1>39, ThreadsAssumption, NoKeyAssumption DEF RefuseRun, rows, capacity, drainer,
     Go, Base, TypeOK, RowsOK, CapacityOK, ThreadsOK, DrainerOK, Threads, PlaceInv,
     ThreadInv, DrainInv, Starting, Draining, PlacesInv, KeptInv, OnePlace, KnownInv,
     ReservationsAccounted, KeysUp, Working, PumpAt, ExitAt
<1>40. ASSUME SetupThrows
      PROVE  ReservationsAccounted'
  BY <1>40, ThreadsAssumption, NoKeyAssumption DEF SetupThrows, rows, threads, drainer,
     Base, TypeOK, RowsOK, CapacityOK, ThreadsOK, DrainerOK, GhostsOK, Threads,
     PlaceInv, ThreadInv, DrainInv, Starting, Draining, PlacesInv, KeptInv, OnePlace,
     KnownInv, ReservationsAccounted, KeysUp, Working, PumpAt, ExitAt
<1>41. CASE UNCHANGED vars
  BY <1>41 DEF vars, rows, capacity, threads, drainer, ReservationsAccounted, KeysUp,
     Starting
<1>42. QED
  BY <1>1, <1>2, <1>3, <1>4, <1>5, <1>6, <1>7, <1>8, <1>9, <1>10, <1>11, <1>12, <1>13,
     <1>14, <1>15, <1>16, <1>17, <1>18, <1>19, <1>20, <1>21, <1>22, <1>23, <1>24, <1>25,
     <1>26, <1>27, <1>28, <1>29, <1>30, <1>31, <1>32, <1>33, <1>34, <1>35, <1>36, <1>37,
     <1>38, <1>39, <1>40, <1>41 DEF Next, CancelStep, PumpStep, ExitStep, DrainStep

\* However set-up, exit, cancel and throws interleave, leases and provider slots
\* are held exactly as long as something accounts for them.
THEOREM CapacityIsAccounted == Spec => []ReservationsAccounted
<1>1. Init => ReservationsAccounted
  BY DEF Init, ReservationsAccounted, KeysUp, Starting, Threads
<1>2. PlacesInv /\ ReservationsAccounted /\ [Next]_vars => ReservationsAccounted'
  BY CapacityStep
<1>3. QED
  BY <1>1, <1>2, PlacesInvariant, PTL DEF Spec

-----------------------------------------------------------------------------
(* The number of runs *)

\* A job has had no more runs than attempts before the one it is at.
StartsInv ==
  /\ \A j \in Jobs : \A b \in 0..MaxAttempts : <<j, b>> \notin enqueued => starts[j] <= b
  /\ \A t \in Sending : starts[cur[t][1]] <= cur[t][2]
  /\ \A k \in queue : starts[k[1]] <= k[2]
  /\ Draining => starts[drainKey[1]] <= drainKey[2]

\* A start is the first of its attempt.
LEMMA StartsStep ==
  ASSUME PlacesInv, StartsInv, [Next]_vars
  PROVE  StartsInv'
<1>1. ASSUME NEW e \in Evals, Start(e)
      PROVE  StartsInv'
  BY <1>1, KeyParts DEF Start, capacity, drainer, ghosts, Go, Base, TypeOK, MemoryOK,
     CapacityOK, ThreadsOK, DrainerOK, GhostsOK, Threads, Draining, PlacesInv, KeptInv,
     StartsInv, Sending
<1>2. ASSUME NEW e \in Evals, StartFails(e)
      PROVE  StartsInv'
  BY <1>2, KeyParts DEF StartFails, capacity, drainer, ghosts, Go, Base, TypeOK,
     MemoryOK, CapacityOK, ThreadsOK, DrainerOK, GhostsOK, Threads, Draining, PlacesInv,
     KeptInv, StartsInv, Sending
<1>3. ASSUME NEW e \in Evals, GoesLive(e)
      PROVE  StartsInv'
  BY <1>3, KeyParts DEF GoesLive, capacity, drainer, ghosts, Go, Base, TypeOK, RowsOK,
     MemoryOK, CapacityOK, ThreadsOK, DrainerOK, GhostsOK, Threads, Draining, PlacesInv,
     KeptInv, StartsInv, Sending
<1>4. ASSUME NEW e \in Evals, TimerFires(e)
      PROVE  StartsInv'
  BY <1>4, KeyParts, ThreadsAssumption, NoKeyAssumption DEF TimerFires, drainer, ghosts,
     Go, Pump, Ends, Base, TypeOK, MemoryOK, CapacityOK, ThreadsOK, DrainerOK, GhostsOK,
     Threads, Draining, PlacesInv, KeptInv, StartsInv, Sending
<1>5. ASSUME NEW e \in Evals, Cancel(e)
      PROVE  StartsInv'
  BY <1>5 DEF Cancel, capacity, threads, drainer, ghosts, StartsInv, Sending, Draining
<1>6. ASSUME NEW e \in Evals, CancelRows(e)
      PROVE  StartsInv'
  BY <1>6 DEF CancelRows, memory, capacity, threads, drainer, ghosts, StartsInv,
     Sending, Draining
<1>7. ASSUME NEW e \in Evals, CancelPurges(e)
      PROVE  StartsInv'
  BY <1>7, KeyParts DEF CancelPurges, memory, threads, drainer, ghosts, Base, TypeOK,
     MemoryOK, CapacityOK, ThreadsOK, DrainerOK, GhostsOK, Threads, Draining, PlacesInv,
     KeptInv, StartsInv, Sending
<1>8. ASSUME NEW t \in Threads, ReadBudget(t)
      PROVE  StartsInv'
  BY <1>8, KeyParts DEF ReadBudget, memory, capacity, drainer, ghosts, Go, Base, TypeOK,
     MemoryOK, CapacityOK, ThreadsOK, DrainerOK, GhostsOK, Threads, Draining, PlacesInv,
     KeptInv, StartsInv, Sending
<1>9. ASSUME NEW t \in Threads, AbortRows(t)
      PROVE  StartsInv'
  BY <1>9, KeyParts DEF AbortRows, memory, capacity, drainer, ghosts, Go, Base, TypeOK,
     RowsOK, MemoryOK, CapacityOK, ThreadsOK, DrainerOK, GhostsOK, Threads, Draining,
     PlacesInv, KeptInv, StartsInv, Sending
<1>10. ASSUME NEW t \in Threads, AbortFlag(t)
      PROVE  StartsInv'
  BY <1>10, KeyParts DEF AbortFlag, capacity, drainer, ghosts, Go, Base, TypeOK, RowsOK,
     MemoryOK, CapacityOK, ThreadsOK, DrainerOK, GhostsOK, Threads, Draining, PlacesInv,
     KeptInv, StartsInv, Sending
<1>11. ASSUME NEW t \in Threads, AbortStatus(t)
      PROVE  StartsInv'
  BY <1>11, KeyParts DEF AbortStatus, memory, capacity, drainer, ghosts, Go, Base,
     TypeOK, RowsOK, MemoryOK, CapacityOK, ThreadsOK, DrainerOK, GhostsOK, Threads,
     Draining, PlacesInv, KeptInv, StartsInv, Sending
<1>12. ASSUME NEW t \in Threads, Scan(t)
      PROVE  StartsInv'
  BY <1>12, KeyParts DEF Scan, memory, capacity, drainer, ghosts, Go, Base, TypeOK,
     MemoryOK, CapacityOK, ThreadsOK, DrainerOK, GhostsOK, Threads, Draining, PlacesInv,
     KeptInv, StartsInv, Sending
<1>13. ASSUME NEW t \in Threads, NEW k \in Keys, Send(t, k)
      PROVE  StartsInv'
  <2>1. starts[k[1]] <= k[2] /\ k \notin enqueued
    BY <1>13 DEF Send, StartsInv, Keys
  <2>2. Sending' \subseteq Sending \cup {t} /\ cur'[t] = k /\ \A u \in Sending : u # t => cur'[u] = cur[u]
    BY <1>13 DEF Send, Go, Sending, PlacesInv, KeptInv, Base, TypeOK, ThreadsOK
  <2>3. UNCHANGED <<queue, drainAt, drainKey, starts>> /\ enqueued \subseteq enqueued'
    BY <1>13 DEF Send, capacity, drainer, ghosts
  <2>4. QED
    BY <2>1, <2>2, <2>3 DEF StartsInv, Draining
<1>14. ASSUME NEW t \in Threads, Sent(t)
      PROVE  StartsInv'
  BY <1>14, KeyParts DEF Sent, memory, drainer, ghosts, Go, Base, TypeOK, RowsOK,
     MemoryOK, CapacityOK, ThreadsOK, DrainerOK, GhostsOK, Threads, Draining, PlacesInv,
     KeptInv, StartsInv, Sending
<1>15. ASSUME NEW t \in Threads, AllSent(t)
      PROVE  StartsInv'
  BY <1>15, KeyParts, ThreadsAssumption, NoKeyAssumption DEF AllSent, memory, ghosts,
     Go, Ends, Base, TypeOK, MemoryOK, CapacityOK, ThreadsOK, DrainerOK, GhostsOK,
     Threads, Draining, PlacesInv, KeptInv, StartsInv, Sending
<1>16. ASSUME NEW t \in Threads, Count(t)
      PROVE  StartsInv'
  BY <1>16, KeyParts DEF Count, memory, capacity, drainer, ghosts, Go, Base, TypeOK,
     MemoryOK, CapacityOK, ThreadsOK, DrainerOK, GhostsOK, Threads, Draining, PlacesInv,
     KeptInv, StartsInv, Sending
<1>17. ASSUME NEW t \in Threads, Finish(t)
      PROVE  StartsInv'
  BY <1>17, KeyParts DEF Finish, capacity, drainer, ghosts, Go, Base, TypeOK, MemoryOK,
     CapacityOK, ThreadsOK, DrainerOK, GhostsOK, Threads, Draining, PlacesInv, KeptInv,
     StartsInv, Sending
<1>18. ASSUME NEW t \in Threads, Verdict(t)
      PROVE  StartsInv'
  BY <1>18, KeyParts DEF Verdict, memory, capacity, drainer, ghosts, Go, Base, TypeOK,
     MemoryOK, CapacityOK, ThreadsOK, DrainerOK, GhostsOK, Threads, Draining, PlacesInv,
     KeptInv, StartsInv, Sending
<1>19. ASSUME NEW t \in Threads, Report(t)
      PROVE  StartsInv'
  BY <1>19, KeyParts, ThreadsAssumption, NoKeyAssumption DEF Report, memory, drainer,
     Go, Ends, Base, TypeOK, RowsOK, MemoryOK, CapacityOK, ThreadsOK, DrainerOK,
     GhostsOK, Threads, Draining, PlacesInv, KeptInv, StartsInv, Sending
<1>20. ASSUME NEW t \in Threads, ScheduleRetryWake(t)
      PROVE  StartsInv'
  BY <1>20, KeyParts, ThreadsAssumption, NoKeyAssumption DEF ScheduleRetryWake, drainer,
     ghosts, Go, Ends, Base, TypeOK, MemoryOK, CapacityOK, ThreadsOK, DrainerOK,
     GhostsOK, Threads, Draining, PlacesInv, KeptInv, StartsInv, Sending
<1>21. ASSUME NEW r \in Runs, RunEnds(r)
      PROVE  StartsInv'
  BY <1>21, KeyParts DEF RunEnds, memory, drainer, ghosts, Go, Base, TypeOK, MemoryOK,
     CapacityOK, ThreadsOK, DrainerOK, GhostsOK, Threads, Draining, PlacesInv, KeptInv,
     StartsInv, Sending
<1>22. ASSUME NEW r \in Runs, ExitAcks(r)
      PROVE  StartsInv'
  BY <1>22, KeyParts DEF ExitAcks, memory, drainer, ghosts, Go, Base, TypeOK, MemoryOK,
     CapacityOK, ThreadsOK, DrainerOK, GhostsOK, Threads, Draining, PlacesInv, KeptInv,
     StartsInv, Sending
<1>23. ASSUME NEW r \in Runs, ExitReleases(r)
      PROVE  StartsInv'
  BY <1>23, KeyParts, ThreadsAssumption, NoKeyAssumption DEF ExitReleases, memory,
     drainer, ghosts, Go, Ends, Base, TypeOK, MemoryOK, CapacityOK, ThreadsOK,
     DrainerOK, GhostsOK, Threads, Draining, PlacesInv, KeptInv, StartsInv, Sending
<1>24. ASSUME NEW r \in Runs, Record(r)
      PROVE  StartsInv'
  BY <1>24, KeyParts DEF Record, memory, capacity, drainer, ghosts, Go, Base, TypeOK,
     RowsOK, MemoryOK, CapacityOK, ThreadsOK, DrainerOK, GhostsOK, Threads, Draining,
     PlacesInv, KeptInv, StartsInv, Sending
<1>25. ASSUME NEW r \in Runs, Decide(r)
      PROVE  StartsInv'
  BY <1>25, KeyParts, ThreadsAssumption, NoKeyAssumption DEF Decide, memory, drainer,
     ghosts, Go, Pump, Ends, Base, TypeOK, MemoryOK, CapacityOK, ThreadsOK, DrainerOK,
     GhostsOK, Threads, Draining, PlacesInv, KeptInv, StartsInv, Sending
<1>26. ASSUME NEW r \in Runs, RetryJob(r)
      PROVE  StartsInv'
  BY <1>26, KeyParts, ThreadsAssumption, NoKeyAssumption DEF RetryJob, memory, drainer,
     ghosts, Go, Pump, Ends, Base, TypeOK, RowsOK, MemoryOK, CapacityOK, ThreadsOK,
     DrainerOK, GhostsOK, Threads, Draining, PlacesInv, KeptInv, StartsInv, Sending
<1>27. ASSUME NEW j \in Jobs, BackoffEnds(j)
      PROVE  StartsInv'
  BY <1>27 DEF BackoffEnds, memory, capacity, threads, drainer, ghosts, StartsInv,
     Sending, Draining
<1>28. ASSUME DrainTimer
      PROVE  StartsInv'
  BY <1>28, KeyParts DEF DrainTimer, memory, capacity, threads, ghosts, Base, TypeOK,
     MemoryOK, CapacityOK, ThreadsOK, DrainerOK, GhostsOK, Threads, Draining, PlacesInv,
     KeptInv, StartsInv, Sending
<1>29. ASSUME NEW k \in Keys, DrainAdmits(k)
      PROVE  StartsInv'
  BY <1>29, KeyParts DEF DrainAdmits, memory, threads, ghosts, Base, TypeOK, MemoryOK,
     CapacityOK, ThreadsOK, DrainerOK, GhostsOK, Threads, Draining, PlacesInv, KeptInv,
     StartsInv, Sending
<1>30. ASSUME DrainReturns
      PROVE  StartsInv'
  BY <1>30, KeyParts DEF DrainReturns, memory, capacity, threads, ghosts, Base, TypeOK,
     MemoryOK, CapacityOK, ThreadsOK, DrainerOK, GhostsOK, Threads, Draining, PlacesInv,
     KeptInv, StartsInv, Sending
<1>31. ASSUME DrainChecks
      PROVE  StartsInv'
  BY <1>31, KeyParts DEF DrainChecks, memory, capacity, threads, ghosts, Base, TypeOK,
     MemoryOK, CapacityOK, ThreadsOK, DrainerOK, GhostsOK, Threads, Draining, PlacesInv,
     KeptInv, StartsInv, Sending
<1>32. ASSUME DrainDrops
      PROVE  StartsInv'
  BY <1>32, KeyParts DEF DrainDrops, memory, threads, ghosts, Base, TypeOK, MemoryOK,
     CapacityOK, ThreadsOK, DrainerOK, GhostsOK, Threads, Draining, PlacesInv, KeptInv,
     StartsInv, Sending
<1>33. ASSUME NEW r \in Runs, AcquireSlot(r)
      PROVE  StartsInv'
  BY <1>33, KeyParts, ThreadsAssumption, NoKeyAssumption DEF AcquireSlot, memory,
     threads, ghosts, Base, TypeOK, MemoryOK, CapacityOK, ThreadsOK, DrainerOK,
     GhostsOK, Threads, Draining, PlacesInv, KeptInv, StartsInv, Sending, Fresh
<1>34. ASSUME NoSlot
      PROVE  StartsInv'
  BY <1>34, KeyParts DEF NoSlot, memory, capacity, threads, ghosts, Base, TypeOK,
     MemoryOK, CapacityOK, ThreadsOK, DrainerOK, GhostsOK, Threads, Draining, PlacesInv,
     KeptInv, StartsInv, Sending
<1>35. ASSUME RequeueAcks
      PROVE  StartsInv'
  BY <1>35, KeyParts DEF RequeueAcks, memory, threads, ghosts, Base, TypeOK, MemoryOK,
     CapacityOK, ThreadsOK, DrainerOK, GhostsOK, Threads, Draining, PlacesInv, KeptInv,
     StartsInv, Sending
<1>36. ASSUME RequeueVerbatim
      PROVE  StartsInv'
  BY <1>36, KeyParts DEF RequeueVerbatim, memory, threads, ghosts, Base, TypeOK,
     MemoryOK, CapacityOK, ThreadsOK, DrainerOK, GhostsOK, Threads, Draining, PlacesInv,
     KeptInv, StartsInv, Sending
<1>37. ASSUME MarkJobRunning
      PROVE  StartsInv'
  BY <1>37, KeyParts DEF MarkJobRunning, memory, capacity, threads, ghosts, Base,
     TypeOK, RowsOK, MemoryOK, CapacityOK, ThreadsOK, DrainerOK, GhostsOK, Threads,
     Draining, PlacesInv, KeptInv, StartsInv, Sending
<1>38. ASSUME StartRun
      PROVE  StartsInv'
  BY <1>38, KeyParts, ThreadsAssumption, NoKeyAssumption DEF StartRun, memory, threads,
     Base, TypeOK, MemoryOK, CapacityOK, ThreadsOK, DrainerOK, GhostsOK, Threads,
     PlaceInv, ThreadInv, DrainInv, Starting, Draining, PlacesInv, KeptInv, OnePlace,
     SentInv, LastSent, KnownInv, StartsInv, Sending, Working, PumpAt, ExitAt
<1>39. ASSUME RefuseRun
      PROVE  StartsInv'
  BY <1>39, KeyParts, ThreadsAssumption, NoKeyAssumption DEF RefuseRun, memory,
     capacity, ghosts, Go, Base, TypeOK, MemoryOK, CapacityOK, ThreadsOK, DrainerOK,
     GhostsOK, Threads, Draining, PlacesInv, KeptInv, StartsInv, Sending
<1>40. ASSUME SetupThrows
      PROVE  StartsInv'
  BY <1>40, KeyParts, ThreadsAssumption, NoKeyAssumption DEF SetupThrows, memory,
     threads, Base, TypeOK, MemoryOK, CapacityOK, ThreadsOK, DrainerOK, GhostsOK,
     Threads, Draining, PlacesInv, KeptInv, StartsInv, Sending
<1>41. CASE UNCHANGED vars
  BY <1>41 DEF vars, memory, capacity, threads, drainer, ghosts, StartsInv, Sending,
     Draining
<1>42. QED
  BY <1>1, <1>2, <1>3, <1>4, <1>5, <1>6, <1>7, <1>8, <1>9, <1>10, <1>11, <1>12, <1>13,
     <1>14, <1>15, <1>16, <1>17, <1>18, <1>19, <1>20, <1>21, <1>22, <1>23, <1>24, <1>25,
     <1>26, <1>27, <1>28, <1>29, <1>30, <1>31, <1>32, <1>33, <1>34, <1>35, <1>36, <1>37,
     <1>38, <1>39, <1>40, <1>41 DEF Next, CancelStep, PumpStep, ExitStep, DrainStep

\* Throws, refusals and requeues buy a job no run beyond MaxAttempts.
THEOREM AttemptsAreBounded == Spec => []AttemptsBounded
<1>1. Init => StartsInv
  BY ThreadsAssumption DEF Init, StartsInv, Sending, Draining, Threads
<1>2. PlacesInv /\ StartsInv /\ [Next]_vars => StartsInv'
  BY StartsStep
<1>3. PlacesInv /\ StartsInv => AttemptsBounded
  <2> SUFFICES ASSUME PlacesInv, StartsInv, NEW j \in Jobs
               PROVE  starts[j] <= MaxAttempts
    BY DEF AttemptsBounded
  <2>1. MaxAttempts \in 0..MaxAttempts
    BY LimitsAssumption
  <2>2. <<j, MaxAttempts>> \notin enqueued
    BY <2>1 DEF PlacesInv, AttemptInv
  <2>3. QED
    BY <2>1, <2>2 DEF StartsInv
<1>4. QED
  BY <1>1, <1>2, <1>3, PlacesInvariant, PTL DEF Spec

-----------------------------------------------------------------------------
(* Successes *)

\* A job that succeeded has nothing on its way but the exit that said so.
SuccessInv ==
  \A j \in Jobs : row[j].status = "succeeded" =>
    /\ \A t \in Sending : cur[t][1] # j
    /\ \A k \in queue : k[1] # j
    /\ Draining => drainKey[1] # j
    /\ \A r \in Working : key[r][1] = j => pc[r] = "decide" /\ outcome[r] = "succeeded"
    /\ \A t \in Threads : \A k \in todo[t] : k[1] = j => k \in enqueued

\* Whatever writes a row late writes another one.
LEMMA SuccessStays ==
  ASSUME PlacesInv, SuccessInv, [Next]_vars
  PROVE  SuccessInv' /\ SuccessStep
<1>1. ASSUME NEW e \in Evals, Start(e)
      PROVE  SuccessInv' /\ SuccessStep
  <2>1. SuccessInv'
    BY <1>1, KeyParts, TransientsAssumption DEF Start, rows, capacity, drainer, Go,
       Base, TypeOK, RowsOK, MemoryOK, CapacityOK, ThreadsOK, DrainerOK, Threads,
       Draining, PlacesInv, KeptInv, SuccessInv, Sending, Working, ExitAt
  <2>2. SuccessStep
    BY <1>1 DEF Start, rows, SuccessStep
  <2>3. QED
    BY <2>1, <2>2
<1>2. ASSUME NEW e \in Evals, StartFails(e)
      PROVE  SuccessInv' /\ SuccessStep
  <2>1. SuccessInv'
    BY <1>2, KeyParts, TransientsAssumption DEF StartFails, rows, capacity, drainer, Go,
       Base, TypeOK, RowsOK, MemoryOK, CapacityOK, ThreadsOK, DrainerOK, Threads,
       Draining, PlacesInv, KeptInv, SuccessInv, Sending, Working, ExitAt
  <2>2. SuccessStep
    BY <1>2 DEF StartFails, rows, SuccessStep
  <2>3. QED
    BY <2>1, <2>2
<1>3. ASSUME NEW e \in Evals, GoesLive(e)
      PROVE  SuccessInv' /\ SuccessStep
  <2>1. SuccessInv'
    BY <1>3, KeyParts, TransientsAssumption DEF GoesLive, rows, capacity, drainer, Go,
       Base, TypeOK, RowsOK, MemoryOK, CapacityOK, ThreadsOK, DrainerOK, Threads,
       Draining, PlacesInv, KeptInv, SuccessInv, Sending, Working, ExitAt, NewRow
  <2>2. SuccessStep
    BY <1>3, KeyParts, TransientsAssumption DEF GoesLive, Go, Base, TypeOK, RowsOK,
       MemoryOK, ThreadsOK, Threads, PlaceInv, ThreadInv, DrainInv, Starting, Draining,
       PlacesInv, KeptInv, OnePlace, UnsentInv, UnstartedInv, Alive, KnownInv,
       SuccessInv, SuccessStep, Sending, Working, PumpAt, ExitAt, KeyOf, JobsOf, Keys,
       NewRow, JobRows, Statuses, StartingInv
  <2>3. QED
    BY <2>1, <2>2
<1>4. ASSUME NEW e \in Evals, TimerFires(e)
      PROVE  SuccessInv' /\ SuccessStep
  <2>1. SuccessInv'
    BY <1>4, KeyParts, TransientsAssumption, ThreadsAssumption, NoKeyAssumption DEF
       TimerFires, rows, drainer, Go, Pump, Ends, Base, TypeOK, RowsOK, MemoryOK,
       CapacityOK, ThreadsOK, DrainerOK, Threads, Draining, PlacesInv, KeptInv,
       SuccessInv, Sending, Working, ExitAt
  <2>2. SuccessStep
    BY <1>4 DEF TimerFires, rows, SuccessStep
  <2>3. QED
    BY <2>1, <2>2
<1>5. ASSUME NEW e \in Evals, Cancel(e)
      PROVE  SuccessInv' /\ SuccessStep
  <2>1. SuccessInv'
    BY <1>5 DEF Cancel, rows, capacity, threads, drainer, SuccessInv, Sending, Draining,
       Working
  <2>2. SuccessStep
    BY <1>5 DEF Cancel, rows, SuccessStep
  <2>3. QED
    BY <2>1, <2>2
<1>6. ASSUME NEW e \in Evals, CancelRows(e)
      PROVE  SuccessInv' /\ SuccessStep
  <2>1. SuccessInv'
    BY <1>6, KeyParts, TransientsAssumption DEF CancelRows, rows, memory, capacity,
       threads, drainer, Base, TypeOK, RowsOK, MemoryOK, CapacityOK, ThreadsOK,
       DrainerOK, Threads, Draining, PlacesInv, KeptInv, SuccessInv, Sending, Working,
       ExitAt, JobsOf, QueuedCancelled
  <2>2. SuccessStep
    BY <1>6, KeyParts, TransientsAssumption DEF CancelRows, rows, Base, TypeOK, RowsOK,
       DrainerOK, PlacesInv, KeptInv, SuccessStep, JobsOf, QueuedCancelled
  <2>3. QED
    BY <2>1, <2>2
<1>7. ASSUME NEW e \in Evals, CancelPurges(e)
      PROVE  SuccessInv' /\ SuccessStep
  <2>1. SuccessInv'
    BY <1>7, KeyParts, TransientsAssumption DEF CancelPurges, rows, memory, threads,
       drainer, Base, TypeOK, RowsOK, MemoryOK, CapacityOK, ThreadsOK, DrainerOK,
       Threads, Draining, PlacesInv, KeptInv, SuccessInv, Sending, Working, ExitAt
  <2>2. SuccessStep
    BY <1>7 DEF CancelPurges, rows, SuccessStep
  <2>3. QED
    BY <2>1, <2>2
<1>8. ASSUME NEW t \in Threads, ReadBudget(t)
      PROVE  SuccessInv' /\ SuccessStep
  <2>1. SuccessInv'
    BY <1>8, KeyParts, TransientsAssumption DEF ReadBudget, rows, memory, capacity,
       drainer, Go, Base, TypeOK, RowsOK, MemoryOK, CapacityOK, ThreadsOK, DrainerOK,
       Threads, Draining, PlacesInv, KeptInv, SuccessInv, Sending, Working, ExitAt
  <2>2. SuccessStep
    BY <1>8 DEF ReadBudget, rows, SuccessStep
  <2>3. QED
    BY <2>1, <2>2
<1>9. ASSUME NEW t \in Threads, AbortRows(t)
      PROVE  SuccessInv' /\ SuccessStep
  <2>1. SuccessInv'
    BY <1>9, KeyParts, TransientsAssumption DEF AbortRows, rows, memory, capacity,
       drainer, Go, Base, TypeOK, RowsOK, MemoryOK, CapacityOK, ThreadsOK, DrainerOK,
       Threads, Draining, PlacesInv, KeptInv, SuccessInv, Sending, Working, ExitAt,
       JobsOf, QueuedCancelled
  <2>2. SuccessStep
    BY <1>9, KeyParts, TransientsAssumption DEF AbortRows, Go, Base, TypeOK, RowsOK,
       ThreadsOK, PlacesInv, KeptInv, SuccessStep, JobsOf, QueuedCancelled
  <2>3. QED
    BY <2>1, <2>2
<1>10. ASSUME NEW t \in Threads, AbortFlag(t)
      PROVE  SuccessInv' /\ SuccessStep
  <2>1. SuccessInv'
    BY <1>10, KeyParts, TransientsAssumption DEF AbortFlag, rows, capacity, drainer, Go,
       Base, TypeOK, RowsOK, MemoryOK, CapacityOK, ThreadsOK, DrainerOK, Threads,
       Draining, PlacesInv, KeptInv, SuccessInv, Sending, Working, ExitAt
  <2>2. SuccessStep
    BY <1>10 DEF AbortFlag, rows, SuccessStep
  <2>3. QED
    BY <2>1, <2>2
<1>11. ASSUME NEW t \in Threads, AbortStatus(t)
      PROVE  SuccessInv' /\ SuccessStep
  <2>1. SuccessInv'
    BY <1>11, KeyParts, TransientsAssumption DEF AbortStatus, rows, memory, capacity,
       drainer, Go, Base, TypeOK, RowsOK, MemoryOK, CapacityOK, ThreadsOK, DrainerOK,
       Threads, Draining, PlacesInv, KeptInv, SuccessInv, Sending, Working, ExitAt
  <2>2. SuccessStep
    BY <1>11, KeyParts, TransientsAssumption DEF AbortStatus, Go, Base, TypeOK, RowsOK,
       ThreadsOK, PlacesInv, KeptInv, SuccessStep
  <2>3. QED
    BY <2>1, <2>2
<1>12. ASSUME NEW t \in Threads, Scan(t)
      PROVE  SuccessInv' /\ SuccessStep
  <2>1. SuccessInv'
    BY <1>12, KeyParts, TransientsAssumption DEF Scan, rows, memory, capacity, drainer,
       Go, Base, TypeOK, RowsOK, MemoryOK, CapacityOK, ThreadsOK, DrainerOK, Threads,
       Draining, PlacesInv, KeptInv, SuccessInv, Sending, Working, ExitAt, Eligible,
       KeyOf, JobsOf
  <2>2. SuccessStep
    BY <1>12 DEF Scan, rows, SuccessStep
  <2>3. QED
    BY <2>1, <2>2
<1>13. ASSUME NEW t \in Threads, NEW k \in Keys, Send(t, k)
      PROVE  SuccessInv' /\ SuccessStep
  <2>1. SuccessInv'
    BY <1>13, KeyParts, TransientsAssumption DEF Send, rows, capacity, drainer, Go,
       Base, TypeOK, RowsOK, MemoryOK, CapacityOK, ThreadsOK, DrainerOK, Threads,
       Draining, PlacesInv, KeptInv, SuccessInv, Sending, Working, ExitAt
  <2>2. SuccessStep
    BY <1>13 DEF Send, rows, SuccessStep
  <2>3. QED
    BY <2>1, <2>2
<1>14. ASSUME NEW t \in Threads, Sent(t)
      PROVE  SuccessInv' /\ SuccessStep
  <2>1. SuccessInv'
    BY <1>14, KeyParts, TransientsAssumption DEF Sent, rows, memory, drainer, Go, Base,
       TypeOK, RowsOK, MemoryOK, CapacityOK, ThreadsOK, DrainerOK, Threads, PlaceInv,
       ThreadInv, DrainInv, Starting, Draining, PlacesInv, KeptInv, OnePlace, UnsentInv,
       UnstartedInv, Alive, KnownInv, SuccessInv, Sending, Working, PumpAt, ExitAt,
       KeyOf, JobsOf, Keys, JobRows, Statuses
  <2>2. SuccessStep
    BY <1>14, KeyParts, TransientsAssumption DEF Sent, Go, Base, TypeOK, RowsOK,
       CapacityOK, ThreadsOK, Threads, PlaceInv, ThreadInv, DrainInv, Starting,
       Draining, PlacesInv, KeptInv, OnePlace, UnsentInv, UnstartedInv, Alive, KnownInv,
       SuccessInv, SuccessStep, Sending, Working, PumpAt, ExitAt, KeyOf, JobsOf, Keys,
       JobRows, Statuses, StartingInv
  <2>3. QED
    BY <2>1, <2>2
<1>15. ASSUME NEW t \in Threads, AllSent(t)
      PROVE  SuccessInv' /\ SuccessStep
  <2>1. SuccessInv'
    BY <1>15, KeyParts, TransientsAssumption, ThreadsAssumption, NoKeyAssumption DEF
       AllSent, rows, memory, Go, Ends, Base, TypeOK, RowsOK, MemoryOK, CapacityOK,
       ThreadsOK, DrainerOK, Threads, PlaceInv, ThreadInv, DrainInv, Starting, Draining,
       PlacesInv, KeptInv, OnePlace, UnsentInv, UnstartedInv, Alive, KnownInv,
       SuccessInv, Sending, Working, PumpAt, ExitAt, KeyOf, JobsOf, Keys, JobRows,
       Statuses
  <2>2. SuccessStep
    BY <1>15 DEF AllSent, rows, SuccessStep
  <2>3. QED
    BY <2>1, <2>2
<1>16. ASSUME NEW t \in Threads, Count(t)
      PROVE  SuccessInv' /\ SuccessStep
  <2>1. SuccessInv'
    BY <1>16, KeyParts, TransientsAssumption DEF Count, rows, memory, capacity, drainer,
       Go, Base, TypeOK, RowsOK, MemoryOK, CapacityOK, ThreadsOK, DrainerOK, Threads,
       Draining, PlacesInv, KeptInv, SuccessInv, Sending, Working, ExitAt
  <2>2. SuccessStep
    BY <1>16 DEF Count, rows, SuccessStep
  <2>3. QED
    BY <2>1, <2>2
<1>17. ASSUME NEW t \in Threads, Finish(t)
      PROVE  SuccessInv' /\ SuccessStep
  <2>1. SuccessInv'
    BY <1>17, KeyParts, TransientsAssumption DEF Finish, rows, capacity, drainer, Go,
       Base, TypeOK, RowsOK, MemoryOK, CapacityOK, ThreadsOK, DrainerOK, Threads,
       Draining, PlacesInv, KeptInv, SuccessInv, Sending, Working, ExitAt
  <2>2. SuccessStep
    BY <1>17 DEF Finish, rows, SuccessStep
  <2>3. QED
    BY <2>1, <2>2
<1>18. ASSUME NEW t \in Threads, Verdict(t)
      PROVE  SuccessInv' /\ SuccessStep
  <2>1. SuccessInv'
    BY <1>18, KeyParts, TransientsAssumption DEF Verdict, rows, memory, capacity,
       drainer, Go, Base, TypeOK, RowsOK, MemoryOK, CapacityOK, ThreadsOK, DrainerOK,
       Threads, Draining, PlacesInv, KeptInv, SuccessInv, Sending, Working, ExitAt
  <2>2. SuccessStep
    BY <1>18 DEF Verdict, rows, SuccessStep
  <2>3. QED
    BY <2>1, <2>2
<1>19. ASSUME NEW t \in Threads, Report(t)
      PROVE  SuccessInv' /\ SuccessStep
  <2>1. SuccessInv'
    BY <1>19, KeyParts, TransientsAssumption, ThreadsAssumption, NoKeyAssumption DEF
       Report, rows, memory, drainer, Go, Ends, Base, TypeOK, RowsOK, MemoryOK,
       CapacityOK, ThreadsOK, DrainerOK, GhostsOK, Threads, PlaceInv, ThreadInv,
       DrainInv, Starting, Draining, PlacesInv, KeptInv, OnePlace, UnsentInv,
       UnstartedInv, Alive, KnownInv, SuccessInv, Sending, Working, PumpAt, ExitAt,
       KeyOf, JobsOf, Keys, JobRows, Statuses
  <2>2. SuccessStep
    BY <1>19, KeyParts, TransientsAssumption, ThreadsAssumption, NoKeyAssumption DEF
       Report, Go, Ends, Base, TypeOK, RowsOK, CapacityOK, ThreadsOK, GhostsOK,
       PlacesInv, KeptInv, SuccessStep
  <2>3. QED
    BY <2>1, <2>2
<1>20. ASSUME NEW t \in Threads, ScheduleRetryWake(t)
      PROVE  SuccessInv' /\ SuccessStep
  <2>1. SuccessInv'
    BY <1>20, KeyParts, TransientsAssumption, ThreadsAssumption, NoKeyAssumption DEF
       ScheduleRetryWake, rows, drainer, Go, Ends, Base, TypeOK, RowsOK, MemoryOK,
       CapacityOK, ThreadsOK, DrainerOK, Threads, PlaceInv, ThreadInv, DrainInv,
       Starting, Draining, PlacesInv, KeptInv, OnePlace, UnsentInv, UnstartedInv, Alive,
       KnownInv, SuccessInv, Sending, Working, PumpAt, ExitAt, KeyOf, JobsOf, Keys,
       JobRows, Statuses
  <2>2. SuccessStep
    BY <1>20 DEF ScheduleRetryWake, rows, SuccessStep
  <2>3. QED
    BY <2>1, <2>2
<1>21. ASSUME NEW r \in Runs, RunEnds(r)
      PROVE  SuccessInv' /\ SuccessStep
  <2>1. SuccessInv'
    BY <1>21, KeyParts, TransientsAssumption DEF RunEnds, rows, memory, drainer, Go,
       Base, TypeOK, RowsOK, MemoryOK, CapacityOK, ThreadsOK, DrainerOK, Threads,
       PlaceInv, ThreadInv, DrainInv, Starting, Draining, PlacesInv, KeptInv, OnePlace,
       UnsentInv, UnstartedInv, Alive, KnownInv, SuccessInv, Sending, Working, PumpAt,
       ExitAt, KeyOf, JobsOf, Keys, JobRows, Statuses
  <2>2. SuccessStep
    BY <1>21 DEF RunEnds, rows, SuccessStep
  <2>3. QED
    BY <2>1, <2>2
<1>22. ASSUME NEW r \in Runs, ExitAcks(r)
      PROVE  SuccessInv' /\ SuccessStep
  <2>1. SuccessInv'
    BY <1>22, KeyParts, TransientsAssumption DEF ExitAcks, rows, memory, drainer, Go,
       Base, TypeOK, RowsOK, MemoryOK, CapacityOK, ThreadsOK, DrainerOK, Threads,
       Draining, PlacesInv, KeptInv, SuccessInv, Sending, Working, ExitAt
  <2>2. SuccessStep
    BY <1>22 DEF ExitAcks, rows, SuccessStep
  <2>3. QED
    BY <2>1, <2>2
<1>23. ASSUME NEW r \in Runs, ExitReleases(r)
      PROVE  SuccessInv' /\ SuccessStep
  <2>1. SuccessInv'
    BY <1>23, KeyParts, TransientsAssumption, ThreadsAssumption, NoKeyAssumption DEF
       ExitReleases, rows, memory, drainer, Go, Ends, Base, TypeOK, RowsOK, MemoryOK,
       CapacityOK, ThreadsOK, DrainerOK, Threads, PlaceInv, ThreadInv, DrainInv,
       Starting, Draining, PlacesInv, KeptInv, OnePlace, UnsentInv, UnstartedInv, Alive,
       KnownInv, SuccessInv, Sending, Working, PumpAt, ExitAt, KeyOf, JobsOf, Keys,
       JobRows, Statuses
  <2>2. SuccessStep
    BY <1>23 DEF ExitReleases, rows, SuccessStep
  <2>3. QED
    BY <2>1, <2>2
<1>24. ASSUME NEW r \in Runs, Record(r)
      PROVE  SuccessInv' /\ SuccessStep
  <2>1. SuccessInv'
    BY <1>24, KeyParts, TransientsAssumption DEF Record, rows, memory, capacity,
       drainer, Go, Base, TypeOK, RowsOK, MemoryOK, CapacityOK, ThreadsOK, DrainerOK,
       Threads, PlaceInv, ThreadInv, DrainInv, Starting, Draining, PlacesInv, KeptInv,
       OnePlace, UnsentInv, UnstartedInv, Alive, KnownInv, SuccessInv, Sending, Working,
       PumpAt, ExitAt, KeyOf, JobsOf, Keys, JobRows, Statuses
  <2>2. SuccessStep
    BY <1>24, KeyParts, TransientsAssumption DEF Record, Go, Base, TypeOK, RowsOK,
       ThreadsOK, Threads, PlaceInv, ThreadInv, DrainInv, Starting, Draining, PlacesInv,
       KeptInv, OnePlace, UnsentInv, UnstartedInv, Alive, KnownInv, SuccessInv,
       SuccessStep, Sending, Working, PumpAt, ExitAt, KeyOf, JobsOf, Keys, JobRows,
       Statuses, StartingInv
  <2>3. QED
    BY <2>1, <2>2
<1>25. ASSUME NEW r \in Runs, Decide(r)
      PROVE  SuccessInv' /\ SuccessStep
  <2>1. SuccessInv'
    BY <1>25, KeyParts, TransientsAssumption, ThreadsAssumption, NoKeyAssumption DEF
       Decide, rows, memory, drainer, Go, Pump, Ends, Base, TypeOK, RowsOK, MemoryOK,
       CapacityOK, ThreadsOK, DrainerOK, Threads, PlaceInv, ThreadInv, DrainInv,
       Starting, Draining, PlacesInv, KeptInv, OnePlace, UnsentInv, UnstartedInv, Alive,
       KnownInv, SuccessInv, Sending, Working, PumpAt, ExitAt, KeyOf, JobsOf, Keys,
       JobRows, Retryable, Statuses
  <2>2. SuccessStep
    BY <1>25 DEF Decide, rows, SuccessStep
  <2>3. QED
    BY <2>1, <2>2
<1>26. ASSUME NEW r \in Runs, RetryJob(r)
      PROVE  SuccessInv' /\ SuccessStep
  <2>1. SuccessInv'
    BY <1>26, KeyParts, TransientsAssumption, ThreadsAssumption, NoKeyAssumption DEF
       RetryJob, rows, memory, drainer, Go, Pump, Ends, Base, TypeOK, RowsOK, MemoryOK,
       CapacityOK, ThreadsOK, DrainerOK, Threads, PlaceInv, ThreadInv, DrainInv,
       Starting, Draining, PlacesInv, KeptInv, OnePlace, UnsentInv, UnstartedInv, Alive,
       KnownInv, SuccessInv, Sending, Working, PumpAt, ExitAt, KeyOf, JobsOf, Keys,
       JobRows, Statuses
  <2>2. SuccessStep
    BY <1>26, KeyParts, TransientsAssumption, ThreadsAssumption, NoKeyAssumption DEF
       RetryJob, Go, Pump, Ends, Base, TypeOK, RowsOK, CapacityOK, ThreadsOK, Threads,
       PlaceInv, ThreadInv, DrainInv, Starting, Draining, PlacesInv, KeptInv, OnePlace,
       UnsentInv, UnstartedInv, Alive, KnownInv, SuccessInv, SuccessStep, Sending,
       Working, PumpAt, ExitAt, KeyOf, JobsOf, Keys, JobRows, Statuses, StartingInv
  <2>3. QED
    BY <2>1, <2>2
<1>27. ASSUME NEW j \in Jobs, BackoffEnds(j)
      PROVE  SuccessInv' /\ SuccessStep
  <2>1. SuccessInv'
    BY <1>27, KeyParts, TransientsAssumption DEF BackoffEnds, rows, memory, capacity,
       threads, drainer, Base, TypeOK, RowsOK, MemoryOK, CapacityOK, ThreadsOK,
       DrainerOK, Threads, Draining, PlacesInv, KeptInv, SuccessInv, Sending, Working,
       ExitAt
  <2>2. SuccessStep
    BY <1>27, KeyParts, TransientsAssumption DEF BackoffEnds, Base, TypeOK, RowsOK,
       PlacesInv, KeptInv, SuccessStep
  <2>3. QED
    BY <2>1, <2>2
<1>28. ASSUME DrainTimer
      PROVE  SuccessInv' /\ SuccessStep
  <2>1. SuccessInv'
    BY <1>28, KeyParts, TransientsAssumption DEF DrainTimer, rows, memory, capacity,
       threads, Base, TypeOK, RowsOK, MemoryOK, CapacityOK, ThreadsOK, DrainerOK,
       Threads, Draining, PlacesInv, KeptInv, SuccessInv, Sending, Working, ExitAt
  <2>2. SuccessStep
    BY <1>28 DEF DrainTimer, rows, SuccessStep
  <2>3. QED
    BY <2>1, <2>2
<1>29. ASSUME NEW k \in Keys, DrainAdmits(k)
      PROVE  SuccessInv' /\ SuccessStep
  <2>1. SuccessInv'
    BY <1>29, KeyParts, TransientsAssumption DEF DrainAdmits, rows, memory, threads,
       Base, TypeOK, RowsOK, MemoryOK, CapacityOK, ThreadsOK, DrainerOK, Threads,
       Draining, PlacesInv, KeptInv, SuccessInv, Sending, Working, ExitAt
  <2>2. SuccessStep
    BY <1>29 DEF DrainAdmits, rows, SuccessStep
  <2>3. QED
    BY <2>1, <2>2
<1>30. ASSUME DrainReturns
      PROVE  SuccessInv' /\ SuccessStep
  <2>1. SuccessInv'
    BY <1>30, KeyParts, TransientsAssumption DEF DrainReturns, rows, memory, capacity,
       threads, Base, TypeOK, RowsOK, MemoryOK, CapacityOK, ThreadsOK, DrainerOK,
       Threads, Draining, PlacesInv, KeptInv, SuccessInv, Sending, Working, ExitAt
  <2>2. SuccessStep
    BY <1>30 DEF DrainReturns, rows, SuccessStep
  <2>3. QED
    BY <2>1, <2>2
<1>31. ASSUME DrainChecks
      PROVE  SuccessInv' /\ SuccessStep
  <2>1. SuccessInv'
    BY <1>31, KeyParts, TransientsAssumption DEF DrainChecks, rows, memory, capacity,
       threads, Base, TypeOK, RowsOK, MemoryOK, CapacityOK, ThreadsOK, DrainerOK,
       Threads, Draining, PlacesInv, KeptInv, SuccessInv, Sending, Working, ExitAt
  <2>2. SuccessStep
    BY <1>31 DEF DrainChecks, rows, SuccessStep
  <2>3. QED
    BY <2>1, <2>2
<1>32. ASSUME DrainDrops
      PROVE  SuccessInv' /\ SuccessStep
  <2>1. SuccessInv'
    BY <1>32, KeyParts, TransientsAssumption DEF DrainDrops, rows, memory, threads,
       Base, TypeOK, RowsOK, MemoryOK, CapacityOK, ThreadsOK, DrainerOK, Threads,
       Draining, PlacesInv, KeptInv, SuccessInv, Sending, Working, ExitAt
  <2>2. SuccessStep
    BY <1>32 DEF DrainDrops, rows, SuccessStep
  <2>3. QED
    BY <2>1, <2>2
<1>33. ASSUME NEW r \in Runs, AcquireSlot(r)
      PROVE  SuccessInv' /\ SuccessStep
  <2>1. SuccessInv'
    BY <1>33, KeyParts, TransientsAssumption, ThreadsAssumption, NoKeyAssumption DEF
       AcquireSlot, rows, memory, threads, Base, TypeOK, RowsOK, MemoryOK, CapacityOK,
       ThreadsOK, DrainerOK, Threads, Draining, PlacesInv, KeptInv, SuccessInv, Sending,
       Working, ExitAt, Fresh
  <2>2. SuccessStep
    BY <1>33 DEF AcquireSlot, rows, SuccessStep
  <2>3. QED
    BY <2>1, <2>2
<1>34. ASSUME NoSlot
      PROVE  SuccessInv' /\ SuccessStep
  <2>1. SuccessInv'
    BY <1>34, KeyParts, TransientsAssumption DEF NoSlot, rows, memory, capacity,
       threads, Base, TypeOK, RowsOK, MemoryOK, CapacityOK, ThreadsOK, DrainerOK,
       Threads, Draining, PlacesInv, KeptInv, SuccessInv, Sending, Working, ExitAt
  <2>2. SuccessStep
    BY <1>34 DEF NoSlot, rows, SuccessStep
  <2>3. QED
    BY <2>1, <2>2
<1>35. ASSUME RequeueAcks
      PROVE  SuccessInv' /\ SuccessStep
  <2>1. SuccessInv'
    BY <1>35, KeyParts, TransientsAssumption DEF RequeueAcks, rows, memory, threads,
       Base, TypeOK, RowsOK, MemoryOK, CapacityOK, ThreadsOK, DrainerOK, Threads,
       Draining, PlacesInv, KeptInv, SuccessInv, Sending, Working, ExitAt
  <2>2. SuccessStep
    BY <1>35 DEF RequeueAcks, rows, SuccessStep
  <2>3. QED
    BY <2>1, <2>2
<1>36. ASSUME RequeueVerbatim
      PROVE  SuccessInv' /\ SuccessStep
  <2>1. SuccessInv'
    BY <1>36, KeyParts, TransientsAssumption DEF RequeueVerbatim, rows, memory, threads,
       Base, TypeOK, RowsOK, MemoryOK, CapacityOK, ThreadsOK, DrainerOK, Threads,
       Draining, PlacesInv, KeptInv, SuccessInv, Sending, Working, ExitAt
  <2>2. SuccessStep
    BY <1>36 DEF RequeueVerbatim, rows, SuccessStep
  <2>3. QED
    BY <2>1, <2>2
<1>37. ASSUME MarkJobRunning
      PROVE  SuccessInv' /\ SuccessStep
  <2>1. SuccessInv'
    BY <1>37, KeyParts, TransientsAssumption DEF MarkJobRunning, rows, memory, capacity,
       threads, Base, TypeOK, RowsOK, MemoryOK, CapacityOK, ThreadsOK, DrainerOK,
       Threads, Draining, PlacesInv, KeptInv, SuccessInv, Sending, Working, ExitAt
  <2>2. SuccessStep
    BY <1>37, KeyParts, TransientsAssumption DEF MarkJobRunning, rows, Base, TypeOK,
       RowsOK, DrainerOK, Threads, PlaceInv, ThreadInv, DrainInv, Starting, Draining,
       PlacesInv, KeptInv, OnePlace, UnsentInv, UnstartedInv, Alive, KnownInv,
       SuccessInv, SuccessStep, Sending, Working, ExitAt, KeyOf, JobsOf, Keys, JobRows,
       Statuses, StartingInv
  <2>3. QED
    BY <2>1, <2>2
<1>38. ASSUME StartRun
      PROVE  SuccessInv' /\ SuccessStep
  <2>1. SuccessInv'
    BY <1>38, KeyParts, TransientsAssumption, ThreadsAssumption, NoKeyAssumption DEF
       StartRun, rows, memory, threads, Base, TypeOK, RowsOK, MemoryOK, CapacityOK,
       ThreadsOK, DrainerOK, GhostsOK, Threads, PlaceInv, ThreadInv, DrainInv, Starting,
       Draining, PlacesInv, KeptInv, OnePlace, UnsentInv, UnstartedInv, Alive, KnownInv,
       SuccessInv, Sending, Working, PumpAt, ExitAt, KeyOf, JobsOf, Keys, JobRows,
       Statuses
  <2>2. SuccessStep
    BY <1>38 DEF StartRun, rows, SuccessStep
  <2>3. QED
    BY <2>1, <2>2
<1>39. ASSUME RefuseRun
      PROVE  SuccessInv' /\ SuccessStep
  <2>1. SuccessInv'
    BY <1>39, KeyParts, TransientsAssumption, ThreadsAssumption, NoKeyAssumption DEF
       RefuseRun, rows, memory, capacity, Go, Base, TypeOK, RowsOK, MemoryOK,
       CapacityOK, ThreadsOK, DrainerOK, Threads, PlaceInv, ThreadInv, DrainInv,
       Starting, Draining, PlacesInv, KeptInv, OnePlace, UnsentInv, UnstartedInv, Alive,
       KnownInv, SuccessInv, Sending, Working, PumpAt, ExitAt, KeyOf, JobsOf, Keys,
       JobRows, Statuses
  <2>2. SuccessStep
    BY <1>39 DEF RefuseRun, rows, SuccessStep
  <2>3. QED
    BY <2>1, <2>2
<1>40. ASSUME SetupThrows
      PROVE  SuccessInv' /\ SuccessStep
  <2>1. SuccessInv'
    BY <1>40, KeyParts, TransientsAssumption, ThreadsAssumption, NoKeyAssumption DEF
       SetupThrows, rows, memory, threads, Base, TypeOK, RowsOK, MemoryOK, CapacityOK,
       ThreadsOK, DrainerOK, GhostsOK, Threads, PlaceInv, ThreadInv, DrainInv, Starting,
       Draining, PlacesInv, KeptInv, OnePlace, UnsentInv, UnstartedInv, Alive, KnownInv,
       SuccessInv, Sending, Working, PumpAt, ExitAt, KeyOf, JobsOf, Keys, JobRows,
       Statuses
  <2>2. SuccessStep
    BY <1>40 DEF SetupThrows, rows, SuccessStep
  <2>3. QED
    BY <2>1, <2>2
<1>41. CASE UNCHANGED vars
  <2>1. SuccessInv'
    BY <1>41 DEF vars, rows, memory, capacity, threads, drainer, SuccessInv, Sending,
       Draining, Working
  <2>2. SuccessStep
    BY <1>41 DEF vars, rows, SuccessStep
  <2>3. QED
    BY <2>1, <2>2
<1>42. QED
  BY <1>1, <1>2, <1>3, <1>4, <1>5, <1>6, <1>7, <1>8, <1>9, <1>10, <1>11, <1>12, <1>13,
     <1>14, <1>15, <1>16, <1>17, <1>18, <1>19, <1>20, <1>21, <1>22, <1>23, <1>24, <1>25,
     <1>26, <1>27, <1>28, <1>29, <1>30, <1>31, <1>32, <1>33, <1>34, <1>35, <1>36, <1>37,
     <1>38, <1>39, <1>40, <1>41 DEF Next, CancelStep, PumpStep, ExitStep, DrainStep

\* Whichever of its writers comes late, a row that says succeeded keeps saying so.
THEOREM SuccessesStand == Spec => SuccessIsFinal
<1>1. Init => SuccessInv
  BY DEF Init, SuccessInv, NoRow
<1>2. PlacesInv /\ SuccessInv /\ [Next]_vars => SuccessInv' /\ SuccessStep
  BY SuccessStays
<1>3. PlacesInv /\ SuccessInv /\ [Next]_vars => [SuccessStep]_vars
  BY <1>2
<1>4. QED
  BY <1>1, <1>2, <1>3, PlacesInvariant, PTL DEF Spec, SuccessIsFinal

-----------------------------------------------------------------------------
(* The end of an eval that nothing cuts short *)

\* Nobody cancels, no budget aborts, no job is retried.
Uninterrupted == Cancellable = {} /\ Budget = NoBudget /\ MaxAttempts = 1

CalmInv ==
  /\ cancelled = {} /\ \A e \in Evals : cancelAt[e] = "no"
  /\ \A t \in Threads : pc[t] \notin {"abort", "flag", "mark", "retry"}

\* As long as an attempt is not recorded, the row of its job is not settled.
OwedInv ==
  /\ \A t \in Sending : row[cur[t][1]].status \in Unsettled
  /\ \A k \in queue : row[k[1]].status \in Unsettled
  /\ Draining => row[drainKey[1]].status \in Unsettled
  /\ \A r \in Working : pc[r] # "decide" => row[key[r][1]].status \in Unsettled
  /\ \A t \in Threads : \A k \in todo[t] : k \notin enqueued => row[k[1]].status = "queued"

\* A pump that found every job settled is still right when it has finished.
DoneInv ==
  /\ \A t \in Threads : pc[t] \in {"finish", "status", "report"} => AllTerminal(Eval(t))
  /\ \A e \in Evals : finished[e] > 0 => AllTerminal(e) /\ status[e] # "none"

LEMMA CalmStep ==
  ASSUME Uninterrupted, PlacesInv, CalmInv, [Next]_vars
  PROVE  CalmInv'
<1>1. ASSUME NEW e \in Evals, Start(e)
      PROVE  CalmInv'
  BY <1>1, KeyParts DEF Start, Go, Base, TypeOK, RowsOK, MemoryOK, ThreadsOK, DrainerOK,
     Threads, PlacesInv, KeptInv, CalmInv
<1>2. ASSUME NEW e \in Evals, StartFails(e)
      PROVE  CalmInv'
  BY <1>2, KeyParts DEF StartFails, Go, Base, TypeOK, RowsOK, MemoryOK, ThreadsOK,
     DrainerOK, Threads, PlacesInv, KeptInv, CalmInv
<1>3. ASSUME NEW e \in Evals, GoesLive(e)
      PROVE  CalmInv'
  BY <1>3, KeyParts DEF GoesLive, Go, Base, TypeOK, RowsOK, MemoryOK, ThreadsOK,
     DrainerOK, Threads, PlacesInv, KeptInv, CalmInv, NewRow
<1>4. ASSUME NEW e \in Evals, TimerFires(e)
      PROVE  CalmInv'
  BY <1>4, KeyParts, ThreadsAssumption, NoKeyAssumption DEF TimerFires, Go, Pump, Ends,
     Base, TypeOK, RowsOK, MemoryOK, CapacityOK, ThreadsOK, DrainerOK, Threads,
     PlacesInv, KeptInv, CalmInv, Eval
<1>5. ASSUME NEW e \in Evals, Cancel(e)
      PROVE  CalmInv'
  BY <1>5, KeyParts DEF Cancel, threads, Base, TypeOK, RowsOK, MemoryOK, ThreadsOK,
     DrainerOK, Threads, PlaceInv, ThreadInv, DrainInv, Starting, Draining, PlacesInv,
     KeptInv, OnePlace, UnsentInv, UnstartedInv, StartingInv, Alive, KnownInv, CalmInv,
     Uninterrupted, Sending, Working, PumpAt, ExitAt, KeyOf, JobsOf, Keys, JobRows,
     Statuses
<1>6. ASSUME NEW e \in Evals, CancelRows(e)
      PROVE  CalmInv'
  BY <1>6, KeyParts DEF CancelRows, memory, threads, Base, TypeOK, RowsOK, MemoryOK,
     ThreadsOK, DrainerOK, Threads, PlacesInv, KeptInv, CalmInv, JobsOf, QueuedCancelled
<1>7. ASSUME NEW e \in Evals, CancelPurges(e)
      PROVE  CalmInv'
  BY <1>7, KeyParts DEF CancelPurges, memory, threads, Base, TypeOK, RowsOK, MemoryOK,
     CapacityOK, ThreadsOK, DrainerOK, Threads, PlacesInv, KeptInv, CalmInv
<1>8. ASSUME NEW t \in Threads, ReadBudget(t)
      PROVE  CalmInv'
  BY <1>8, KeyParts DEF ReadBudget, memory, Go, Base, TypeOK, RowsOK, MemoryOK,
     ThreadsOK, DrainerOK, Threads, PlaceInv, ThreadInv, DrainInv, Starting, Draining,
     PlacesInv, KeptInv, OnePlace, UnsentInv, UnstartedInv, StartingInv, Alive,
     KnownInv, CalmInv, Uninterrupted, Sending, Working, PumpAt, ExitAt, KeyOf, JobsOf,
     Keys, JobRows, Over, Statuses, Eval
<1>9. ASSUME NEW t \in Threads, AbortRows(t)
      PROVE  CalmInv'
  BY <1>9, KeyParts DEF AbortRows, memory, Go, Base, TypeOK, RowsOK, MemoryOK,
     ThreadsOK, DrainerOK, Threads, PlacesInv, KeptInv, CalmInv, JobsOf,
     QueuedCancelled, Eval
<1>10. ASSUME NEW t \in Threads, AbortFlag(t)
      PROVE  CalmInv'
  BY <1>10, KeyParts DEF AbortFlag, Go, Base, TypeOK, RowsOK, MemoryOK, ThreadsOK,
     DrainerOK, Threads, PlacesInv, KeptInv, CalmInv, Eval
<1>11. ASSUME NEW t \in Threads, AbortStatus(t)
      PROVE  CalmInv'
  BY <1>11, KeyParts DEF AbortStatus, memory, Go, Base, TypeOK, RowsOK, MemoryOK,
     ThreadsOK, DrainerOK, Threads, PlacesInv, KeptInv, CalmInv, Eval
<1>12. ASSUME NEW t \in Threads, Scan(t)
      PROVE  CalmInv'
  BY <1>12, KeyParts DEF Scan, memory, Go, Base, TypeOK, RowsOK, MemoryOK, ThreadsOK,
     DrainerOK, Threads, PlacesInv, KeptInv, CalmInv, Eligible, KeyOf, JobsOf, Eval
<1>13. ASSUME NEW t \in Threads, NEW k \in Keys, Send(t, k)
      PROVE  CalmInv'
  BY <1>13, KeyParts DEF Send, Go, Base, TypeOK, RowsOK, MemoryOK, ThreadsOK, DrainerOK,
     Threads, PlacesInv, KeptInv, CalmInv
<1>14. ASSUME NEW t \in Threads, Sent(t)
      PROVE  CalmInv'
  BY <1>14, KeyParts DEF Sent, memory, Go, Base, TypeOK, RowsOK, MemoryOK, CapacityOK,
     ThreadsOK, DrainerOK, Threads, PlacesInv, KeptInv, CalmInv
<1>15. ASSUME NEW t \in Threads, AllSent(t)
      PROVE  CalmInv'
  BY <1>15, KeyParts, ThreadsAssumption, NoKeyAssumption DEF AllSent, memory, Go, Ends,
     Base, TypeOK, RowsOK, MemoryOK, CapacityOK, ThreadsOK, DrainerOK, Threads,
     PlacesInv, KeptInv, CalmInv, Eval
<1>16. ASSUME NEW t \in Threads, Count(t)
      PROVE  CalmInv'
  BY <1>16, KeyParts DEF Count, memory, Go, Base, TypeOK, RowsOK, MemoryOK, ThreadsOK,
     DrainerOK, Threads, PlacesInv, KeptInv, CalmInv, JobsOf, Unsettled, AllTerminal,
     Eval
<1>17. ASSUME NEW t \in Threads, Finish(t)
      PROVE  CalmInv'
  BY <1>17, KeyParts DEF Finish, Go, Base, TypeOK, RowsOK, MemoryOK, ThreadsOK,
     DrainerOK, Threads, PlacesInv, KeptInv, CalmInv, Eval
<1>18. ASSUME NEW t \in Threads, Verdict(t)
      PROVE  CalmInv'
  BY <1>18, KeyParts DEF Verdict, memory, Go, Base, TypeOK, RowsOK, MemoryOK, ThreadsOK,
     DrainerOK, Threads, PlacesInv, KeptInv, CalmInv, Eval
<1>19. ASSUME NEW t \in Threads, Report(t)
      PROVE  CalmInv'
  BY <1>19, KeyParts, ThreadsAssumption, NoKeyAssumption DEF Report, memory, Go, Ends,
     Base, TypeOK, RowsOK, MemoryOK, CapacityOK, ThreadsOK, DrainerOK, GhostsOK,
     Threads, PlacesInv, KeptInv, CalmInv, Eval
<1>20. ASSUME NEW t \in Threads, ScheduleRetryWake(t)
      PROVE  CalmInv'
  BY <1>20, KeyParts, ThreadsAssumption, NoKeyAssumption DEF ScheduleRetryWake, Go,
     Ends, Base, TypeOK, RowsOK, MemoryOK, CapacityOK, ThreadsOK, DrainerOK, Threads,
     PlacesInv, KeptInv, CalmInv, Eval
<1>21. ASSUME NEW r \in Runs, RunEnds(r)
      PROVE  CalmInv'
  BY <1>21, KeyParts DEF RunEnds, memory, Go, Base, TypeOK, RowsOK, MemoryOK,
     CapacityOK, ThreadsOK, DrainerOK, Threads, PlacesInv, KeptInv, CalmInv
<1>22. ASSUME NEW r \in Runs, ExitAcks(r)
      PROVE  CalmInv'
  BY <1>22, KeyParts DEF ExitAcks, memory, Go, Base, TypeOK, RowsOK, MemoryOK,
     CapacityOK, ThreadsOK, DrainerOK, Threads, PlacesInv, KeptInv, CalmInv
<1>23. ASSUME NEW r \in Runs, ExitReleases(r)
      PROVE  CalmInv'
  BY <1>23, KeyParts, ThreadsAssumption, NoKeyAssumption DEF ExitReleases, memory, Go,
     Ends, Base, TypeOK, RowsOK, MemoryOK, CapacityOK, ThreadsOK, DrainerOK, Threads,
     PlacesInv, KeptInv, CalmInv, Eval
<1>24. ASSUME NEW r \in Runs, Record(r)
      PROVE  CalmInv'
  BY <1>24, KeyParts DEF Record, memory, Go, Base, TypeOK, RowsOK, MemoryOK, ThreadsOK,
     DrainerOK, Threads, PlacesInv, KeptInv, CalmInv, Eval
<1>25. ASSUME NEW r \in Runs, Decide(r)
      PROVE  CalmInv'
  BY <1>25, KeyParts, ThreadsAssumption, NoKeyAssumption DEF Decide, memory, Go, Pump,
     Ends, Base, TypeOK, RowsOK, MemoryOK, CapacityOK, ThreadsOK, DrainerOK, Threads,
     PlaceInv, ThreadInv, DrainInv, Starting, Draining, PlacesInv, KeptInv, OnePlace,
     UnsentInv, UnstartedInv, StartingInv, Alive, KnownInv, CalmInv, Uninterrupted,
     Sending, Working, PumpAt, ExitAt, KeyOf, JobsOf, Keys, JobRows, Retryable,
     AttemptsLeft, Over, Statuses, Eval
<1>26. ASSUME NEW r \in Runs, RetryJob(r)
      PROVE  CalmInv'
  BY <1>26, KeyParts, ThreadsAssumption, NoKeyAssumption DEF RetryJob, memory, Go, Pump,
     Ends, Base, TypeOK, RowsOK, MemoryOK, CapacityOK, ThreadsOK, DrainerOK, Threads,
     PlacesInv, KeptInv, CalmInv, Eval
<1>27. ASSUME NEW j \in Jobs, BackoffEnds(j)
      PROVE  CalmInv'
  BY <1>27 DEF BackoffEnds, memory, threads, CalmInv
<1>28. ASSUME DrainTimer
      PROVE  CalmInv'
  BY <1>28 DEF DrainTimer, memory, threads, CalmInv
<1>29. ASSUME NEW k \in Keys, DrainAdmits(k)
      PROVE  CalmInv'
  BY <1>29 DEF DrainAdmits, memory, threads, CalmInv
<1>30. ASSUME DrainReturns
      PROVE  CalmInv'
  BY <1>30 DEF DrainReturns, memory, threads, CalmInv
<1>31. ASSUME DrainChecks
      PROVE  CalmInv'
  BY <1>31 DEF DrainChecks, memory, threads, CalmInv
<1>32. ASSUME DrainDrops
      PROVE  CalmInv'
  BY <1>32 DEF DrainDrops, memory, threads, CalmInv
<1>33. ASSUME NEW r \in Runs, AcquireSlot(r)
      PROVE  CalmInv'
  BY <1>33 DEF AcquireSlot, memory, threads, CalmInv
<1>34. ASSUME NoSlot
      PROVE  CalmInv'
  BY <1>34 DEF NoSlot, memory, threads, CalmInv
<1>35. ASSUME RequeueAcks
      PROVE  CalmInv'
  BY <1>35 DEF RequeueAcks, memory, threads, CalmInv
<1>36. ASSUME RequeueVerbatim
      PROVE  CalmInv'
  BY <1>36 DEF RequeueVerbatim, memory, threads, CalmInv
<1>37. ASSUME MarkJobRunning
      PROVE  CalmInv'
  BY <1>37 DEF MarkJobRunning, memory, threads, CalmInv
<1>38. ASSUME StartRun
      PROVE  CalmInv'
  BY <1>38 DEF StartRun, memory, threads, CalmInv
<1>39. ASSUME RefuseRun
      PROVE  CalmInv'
  BY <1>39, KeyParts, ThreadsAssumption, NoKeyAssumption DEF RefuseRun, memory, Go,
     Base, TypeOK, RowsOK, MemoryOK, ThreadsOK, DrainerOK, Threads, PlacesInv, KeptInv,
     CalmInv
<1>40. ASSUME SetupThrows
      PROVE  CalmInv'
  BY <1>40 DEF SetupThrows, memory, threads, CalmInv
<1>41. CASE UNCHANGED vars
  BY <1>41 DEF vars, memory, threads, CalmInv
<1>42. QED
  BY <1>1, <1>2, <1>3, <1>4, <1>5, <1>6, <1>7, <1>8, <1>9, <1>10, <1>11, <1>12, <1>13,
     <1>14, <1>15, <1>16, <1>17, <1>18, <1>19, <1>20, <1>21, <1>22, <1>23, <1>24, <1>25,
     <1>26, <1>27, <1>28, <1>29, <1>30, <1>31, <1>32, <1>33, <1>34, <1>35, <1>36, <1>37,
     <1>38, <1>39, <1>40, <1>41 DEF Next, CancelStep, PumpStep, ExitStep, DrainStep

LEMMA OwedStep ==
  ASSUME Uninterrupted, PlacesInv, CalmInv, OwedInv, [Next]_vars
  PROVE  OwedInv'
<1>1. ASSUME NEW e \in Evals, Start(e)
      PROVE  OwedInv'
  BY <1>1, KeyParts DEF Start, rows, capacity, drainer, Go, Base, TypeOK, RowsOK,
     MemoryOK, CapacityOK, ThreadsOK, DrainerOK, Threads, Draining, PlacesInv, KeptInv,
     OwedInv, Sending, Working, ExitAt, Unsettled
<1>2. ASSUME NEW e \in Evals, StartFails(e)
      PROVE  OwedInv'
  BY <1>2, KeyParts DEF StartFails, rows, capacity, drainer, Go, Base, TypeOK, RowsOK,
     MemoryOK, CapacityOK, ThreadsOK, DrainerOK, Threads, Draining, PlacesInv, KeptInv,
     OwedInv, Sending, Working, ExitAt, Unsettled
<1>3. ASSUME NEW e \in Evals, GoesLive(e)
      PROVE  OwedInv'
  BY <1>3, KeyParts DEF GoesLive, rows, capacity, drainer, Go, Base, TypeOK, RowsOK,
     MemoryOK, CapacityOK, ThreadsOK, DrainerOK, Threads, PlaceInv, ThreadInv, DrainInv,
     Starting, Draining, PlacesInv, KeptInv, OnePlace, UnsentInv, UnstartedInv,
     StartingInv, Alive, KnownInv, CalmInv, OwedInv, Uninterrupted, Sending, Working,
     PumpAt, ExitAt, KeyOf, JobsOf, Keys, NewRow, JobRows, Unsettled, Statuses
<1>4. ASSUME NEW e \in Evals, TimerFires(e)
      PROVE  OwedInv'
  BY <1>4, KeyParts, ThreadsAssumption, NoKeyAssumption DEF TimerFires, rows, drainer,
     Go, Pump, Ends, Base, TypeOK, RowsOK, MemoryOK, CapacityOK, ThreadsOK, DrainerOK,
     Threads, Draining, PlacesInv, KeptInv, OwedInv, Sending, Working, ExitAt,
     Unsettled, Eval
<1>5. ASSUME NEW e \in Evals, Cancel(e)
      PROVE  OwedInv'
  BY <1>5 DEF Cancel, rows, capacity, threads, drainer, OwedInv, Sending, Draining,
     Working
<1>6. ASSUME NEW e \in Evals, CancelRows(e)
      PROVE  OwedInv'
  BY <1>6, KeyParts DEF CancelRows, rows, memory, capacity, threads, drainer, Base,
     TypeOK, RowsOK, MemoryOK, CapacityOK, ThreadsOK, DrainerOK, Threads, PlaceInv,
     ThreadInv, DrainInv, Starting, Draining, PlacesInv, KeptInv, OnePlace, UnsentInv,
     UnstartedInv, StartingInv, Alive, KnownInv, CalmInv, OwedInv, Uninterrupted,
     Sending, Working, PumpAt, ExitAt, KeyOf, JobsOf, Keys, QueuedCancelled, JobRows,
     Unsettled, Statuses
<1>7. ASSUME NEW e \in Evals, CancelPurges(e)
      PROVE  OwedInv'
  BY <1>7, KeyParts DEF CancelPurges, rows, memory, threads, drainer, Base, TypeOK,
     RowsOK, MemoryOK, CapacityOK, ThreadsOK, DrainerOK, Threads, Draining, PlacesInv,
     KeptInv, OwedInv, Sending, Working, ExitAt, Unsettled
<1>8. ASSUME NEW t \in Threads, ReadBudget(t)
      PROVE  OwedInv'
  BY <1>8, KeyParts DEF ReadBudget, rows, memory, capacity, drainer, Go, Base, TypeOK,
     RowsOK, MemoryOK, CapacityOK, ThreadsOK, DrainerOK, Threads, Draining, PlacesInv,
     KeptInv, OwedInv, Sending, Working, ExitAt, Over, Unsettled, Eval
<1>9. ASSUME NEW t \in Threads, AbortRows(t)
      PROVE  OwedInv'
  BY <1>9, KeyParts DEF AbortRows, rows, memory, capacity, drainer, Go, Base, TypeOK,
     RowsOK, MemoryOK, CapacityOK, ThreadsOK, DrainerOK, Threads, PlaceInv, ThreadInv,
     DrainInv, Starting, Draining, PlacesInv, KeptInv, OnePlace, UnsentInv,
     UnstartedInv, StartingInv, Alive, KnownInv, CalmInv, OwedInv, Uninterrupted,
     Sending, Working, PumpAt, ExitAt, KeyOf, JobsOf, Keys, QueuedCancelled, JobRows,
     Unsettled, Statuses, Eval
<1>10. ASSUME NEW t \in Threads, AbortFlag(t)
      PROVE  OwedInv'
  BY <1>10, KeyParts DEF AbortFlag, rows, capacity, drainer, Go, Base, TypeOK, RowsOK,
     MemoryOK, CapacityOK, ThreadsOK, DrainerOK, Threads, Draining, PlacesInv, KeptInv,
     OwedInv, Sending, Working, ExitAt, Unsettled, Eval
<1>11. ASSUME NEW t \in Threads, AbortStatus(t)
      PROVE  OwedInv'
  BY <1>11, KeyParts DEF AbortStatus, rows, memory, capacity, drainer, Go, Base, TypeOK,
     RowsOK, MemoryOK, CapacityOK, ThreadsOK, DrainerOK, Threads, Draining, PlacesInv,
     KeptInv, OwedInv, Sending, Working, ExitAt, Unsettled, Eval
<1>12. ASSUME NEW t \in Threads, Scan(t)
      PROVE  OwedInv'
  BY <1>12, KeyParts DEF Scan, rows, memory, capacity, drainer, Go, Base, TypeOK,
     RowsOK, MemoryOK, CapacityOK, ThreadsOK, DrainerOK, Threads, Draining, PlacesInv,
     KeptInv, OwedInv, Sending, Working, ExitAt, Eligible, KeyOf, JobsOf, Unsettled,
     Eval
<1>13. ASSUME NEW t \in Threads, NEW k \in Keys, Send(t, k)
      PROVE  OwedInv'
  BY <1>13, KeyParts DEF Send, rows, capacity, drainer, Go, Base, TypeOK, RowsOK,
     MemoryOK, CapacityOK, ThreadsOK, DrainerOK, Threads, Draining, PlacesInv, KeptInv,
     OwedInv, Sending, Working, ExitAt, Unsettled
<1>14. ASSUME NEW t \in Threads, Sent(t)
      PROVE  OwedInv'
  BY <1>14, KeyParts DEF Sent, rows, memory, drainer, Go, Base, TypeOK, RowsOK,
     MemoryOK, CapacityOK, ThreadsOK, DrainerOK, Threads, PlaceInv, ThreadInv, DrainInv,
     Starting, Draining, PlacesInv, KeptInv, OnePlace, UnsentInv, UnstartedInv,
     StartingInv, Alive, KnownInv, CalmInv, OwedInv, Uninterrupted, Sending, Working,
     PumpAt, ExitAt, KeyOf, JobsOf, Keys, JobRows, Unsettled, Statuses
<1>15. ASSUME NEW t \in Threads, AllSent(t)
      PROVE  OwedInv'
  BY <1>15, KeyParts, ThreadsAssumption, NoKeyAssumption DEF AllSent, rows, memory, Go,
     Ends, Base, TypeOK, RowsOK, MemoryOK, CapacityOK, ThreadsOK, DrainerOK, Threads,
     PlaceInv, ThreadInv, DrainInv, Starting, Draining, PlacesInv, KeptInv, OnePlace,
     UnsentInv, UnstartedInv, StartingInv, Alive, KnownInv, CalmInv, OwedInv,
     Uninterrupted, Sending, Working, PumpAt, ExitAt, KeyOf, JobsOf, Keys, JobRows,
     Unsettled, Statuses, Eval
<1>16. ASSUME NEW t \in Threads, Count(t)
      PROVE  OwedInv'
  BY <1>16, KeyParts DEF Count, rows, memory, capacity, drainer, Go, Base, TypeOK,
     RowsOK, MemoryOK, CapacityOK, ThreadsOK, DrainerOK, Threads, Draining, PlacesInv,
     KeptInv, OwedInv, Sending, Working, ExitAt, JobsOf, Unsettled, AllTerminal, Eval
<1>17. ASSUME NEW t \in Threads, Finish(t)
      PROVE  OwedInv'
  BY <1>17, KeyParts DEF Finish, rows, capacity, drainer, Go, Base, TypeOK, RowsOK,
     MemoryOK, CapacityOK, ThreadsOK, DrainerOK, Threads, Draining, PlacesInv, KeptInv,
     OwedInv, Sending, Working, ExitAt, Unsettled, Eval
<1>18. ASSUME NEW t \in Threads, Verdict(t)
      PROVE  OwedInv'
  BY <1>18, KeyParts DEF Verdict, rows, memory, capacity, drainer, Go, Base, TypeOK,
     RowsOK, MemoryOK, CapacityOK, ThreadsOK, DrainerOK, Threads, Draining, PlacesInv,
     KeptInv, OwedInv, Sending, Working, ExitAt, Unsettled, Eval
<1>19. ASSUME NEW t \in Threads, Report(t)
      PROVE  OwedInv'
  BY <1>19, KeyParts, ThreadsAssumption, NoKeyAssumption DEF Report, rows, memory,
     drainer, Go, Ends, Base, TypeOK, RowsOK, MemoryOK, CapacityOK, ThreadsOK,
     DrainerOK, GhostsOK, Threads, PlaceInv, ThreadInv, DrainInv, Starting, Draining,
     PlacesInv, KeptInv, OnePlace, UnsentInv, UnstartedInv, StartingInv, Alive,
     KnownInv, CalmInv, OwedInv, Uninterrupted, Sending, Working, PumpAt, ExitAt, KeyOf,
     JobsOf, Keys, JobRows, Unsettled, Statuses, Eval
<1>20. ASSUME NEW t \in Threads, ScheduleRetryWake(t)
      PROVE  OwedInv'
  BY <1>20, KeyParts, ThreadsAssumption, NoKeyAssumption DEF ScheduleRetryWake, rows,
     drainer, Go, Ends, Base, TypeOK, RowsOK, MemoryOK, CapacityOK, ThreadsOK,
     DrainerOK, Threads, PlaceInv, ThreadInv, DrainInv, Starting, Draining, PlacesInv,
     KeptInv, OnePlace, UnsentInv, UnstartedInv, StartingInv, Alive, KnownInv, CalmInv,
     OwedInv, Uninterrupted, Sending, Working, PumpAt, ExitAt, KeyOf, JobsOf, Keys,
     JobRows, Unsettled, Statuses, Eval
<1>21. ASSUME NEW r \in Runs, RunEnds(r)
      PROVE  OwedInv'
  BY <1>21, KeyParts DEF RunEnds, rows, memory, drainer, Go, Base, TypeOK, RowsOK,
     MemoryOK, CapacityOK, ThreadsOK, DrainerOK, Threads, PlaceInv, ThreadInv, DrainInv,
     Starting, Draining, PlacesInv, KeptInv, OnePlace, UnsentInv, UnstartedInv,
     StartingInv, Alive, KnownInv, CalmInv, OwedInv, Uninterrupted, Sending, Working,
     PumpAt, ExitAt, KeyOf, JobsOf, Keys, JobRows, Unsettled, Statuses
<1>22. ASSUME NEW r \in Runs, ExitAcks(r)
      PROVE  OwedInv'
  BY <1>22, KeyParts DEF ExitAcks, rows, memory, drainer, Go, Base, TypeOK, RowsOK,
     MemoryOK, CapacityOK, ThreadsOK, DrainerOK, Threads, Draining, PlacesInv, KeptInv,
     OwedInv, Sending, Working, ExitAt, Unsettled
<1>23. ASSUME NEW r \in Runs, ExitReleases(r)
      PROVE  OwedInv'
  BY <1>23, KeyParts, ThreadsAssumption, NoKeyAssumption DEF ExitReleases, rows, memory,
     drainer, Go, Ends, Base, TypeOK, RowsOK, MemoryOK, CapacityOK, ThreadsOK,
     DrainerOK, Threads, PlaceInv, ThreadInv, DrainInv, Starting, Draining, PlacesInv,
     KeptInv, OnePlace, UnsentInv, UnstartedInv, StartingInv, Alive, KnownInv, CalmInv,
     OwedInv, Uninterrupted, Sending, Working, PumpAt, ExitAt, KeyOf, JobsOf, Keys,
     JobRows, Unsettled, Statuses, Eval
<1>24. ASSUME NEW r \in Runs, Record(r)
      PROVE  OwedInv'
  BY <1>24, KeyParts DEF Record, rows, memory, capacity, drainer, Go, Base, TypeOK,
     RowsOK, MemoryOK, CapacityOK, ThreadsOK, DrainerOK, Threads, PlaceInv, ThreadInv,
     DrainInv, Starting, Draining, PlacesInv, KeptInv, OnePlace, UnsentInv,
     UnstartedInv, StartingInv, Alive, KnownInv, CalmInv, OwedInv, Uninterrupted,
     Sending, Working, PumpAt, ExitAt, KeyOf, JobsOf, Keys, JobRows, Unsettled,
     Statuses, Eval
<1>25. ASSUME NEW r \in Runs, Decide(r)
      PROVE  OwedInv'
  BY <1>25, KeyParts, ThreadsAssumption, NoKeyAssumption DEF Decide, rows, memory,
     drainer, Go, Pump, Ends, Base, TypeOK, RowsOK, MemoryOK, CapacityOK, ThreadsOK,
     DrainerOK, Threads, PlaceInv, ThreadInv, DrainInv, Starting, Draining, PlacesInv,
     KeptInv, OnePlace, UnsentInv, UnstartedInv, StartingInv, Alive, KnownInv, CalmInv,
     OwedInv, Uninterrupted, Sending, Working, PumpAt, ExitAt, KeyOf, JobsOf, Keys,
     JobRows, Retryable, AttemptsLeft, Over, Unsettled, Statuses, Eval
<1>26. ASSUME NEW r \in Runs, RetryJob(r)
      PROVE  OwedInv'
  BY <1>26, KeyParts, ThreadsAssumption, NoKeyAssumption DEF RetryJob, rows, memory,
     drainer, Go, Pump, Ends, Base, TypeOK, RowsOK, MemoryOK, CapacityOK, ThreadsOK,
     DrainerOK, Threads, PlaceInv, ThreadInv, DrainInv, Starting, Draining, PlacesInv,
     KeptInv, OnePlace, UnsentInv, UnstartedInv, StartingInv, Alive, KnownInv, CalmInv,
     OwedInv, Uninterrupted, Sending, Working, PumpAt, ExitAt, KeyOf, JobsOf, Keys,
     JobRows, Unsettled, Statuses, Eval
<1>27. ASSUME NEW j \in Jobs, BackoffEnds(j)
      PROVE  OwedInv'
  BY <1>27, KeyParts DEF BackoffEnds, rows, memory, capacity, threads, drainer, Base,
     TypeOK, RowsOK, MemoryOK, CapacityOK, ThreadsOK, DrainerOK, Threads, Draining,
     PlacesInv, KeptInv, OwedInv, Sending, Working, ExitAt, Unsettled
<1>28. ASSUME DrainTimer
      PROVE  OwedInv'
  BY <1>28, KeyParts DEF DrainTimer, rows, memory, capacity, threads, Base, TypeOK,
     RowsOK, MemoryOK, CapacityOK, ThreadsOK, DrainerOK, Threads, Draining, PlacesInv,
     KeptInv, OwedInv, Sending, Working, ExitAt, Unsettled
<1>29. ASSUME NEW k \in Keys, DrainAdmits(k)
      PROVE  OwedInv'
  BY <1>29, KeyParts DEF DrainAdmits, rows, memory, threads, Base, TypeOK, RowsOK,
     MemoryOK, CapacityOK, ThreadsOK, DrainerOK, Threads, Draining, PlacesInv, KeptInv,
     OwedInv, Sending, Working, ExitAt, Unsettled
<1>30. ASSUME DrainReturns
      PROVE  OwedInv'
  BY <1>30, KeyParts DEF DrainReturns, rows, memory, capacity, threads, Base, TypeOK,
     RowsOK, MemoryOK, CapacityOK, ThreadsOK, DrainerOK, Threads, Draining, PlacesInv,
     KeptInv, OwedInv, Sending, Working, ExitAt, Unsettled
<1>31. ASSUME DrainChecks
      PROVE  OwedInv'
  BY <1>31, KeyParts DEF DrainChecks, rows, memory, capacity, threads, Base, TypeOK,
     RowsOK, MemoryOK, CapacityOK, ThreadsOK, DrainerOK, Threads, Draining, PlacesInv,
     KeptInv, OwedInv, Sending, Working, ExitAt, Unsettled
<1>32. ASSUME DrainDrops
      PROVE  OwedInv'
  BY <1>32, KeyParts DEF DrainDrops, rows, memory, threads, Base, TypeOK, RowsOK,
     MemoryOK, CapacityOK, ThreadsOK, DrainerOK, Threads, Draining, PlacesInv, KeptInv,
     OwedInv, Sending, Working, ExitAt, Unsettled
<1>33. ASSUME NEW r \in Runs, AcquireSlot(r)
      PROVE  OwedInv'
  BY <1>33, KeyParts, ThreadsAssumption, NoKeyAssumption DEF AcquireSlot, rows, memory,
     threads, Base, TypeOK, RowsOK, MemoryOK, CapacityOK, ThreadsOK, DrainerOK, Threads,
     Draining, PlacesInv, KeptInv, OwedInv, Sending, Working, ExitAt, Fresh, Unsettled
<1>34. ASSUME NoSlot
      PROVE  OwedInv'
  BY <1>34, KeyParts DEF NoSlot, rows, memory, capacity, threads, Base, TypeOK, RowsOK,
     MemoryOK, CapacityOK, ThreadsOK, DrainerOK, Threads, Draining, PlacesInv, KeptInv,
     OwedInv, Sending, Working, ExitAt, Unsettled
<1>35. ASSUME RequeueAcks
      PROVE  OwedInv'
  BY <1>35, KeyParts DEF RequeueAcks, rows, memory, threads, Base, TypeOK, RowsOK,
     MemoryOK, CapacityOK, ThreadsOK, DrainerOK, Threads, Draining, PlacesInv, KeptInv,
     OwedInv, Sending, Working, ExitAt, Unsettled
<1>36. ASSUME RequeueVerbatim
      PROVE  OwedInv'
  BY <1>36, KeyParts DEF RequeueVerbatim, rows, memory, threads, Base, TypeOK, RowsOK,
     MemoryOK, CapacityOK, ThreadsOK, DrainerOK, Threads, Draining, PlacesInv, KeptInv,
     OwedInv, Sending, Working, ExitAt, Unsettled
<1>37. ASSUME MarkJobRunning
      PROVE  OwedInv'
  BY <1>37, KeyParts DEF MarkJobRunning, rows, memory, capacity, threads, Base, TypeOK,
     RowsOK, MemoryOK, CapacityOK, ThreadsOK, DrainerOK, Threads, PlaceInv, ThreadInv,
     DrainInv, Starting, Draining, PlacesInv, KeptInv, OnePlace, UnsentInv,
     UnstartedInv, StartingInv, Alive, KnownInv, CalmInv, OwedInv, Uninterrupted,
     Sending, Working, PumpAt, ExitAt, KeyOf, JobsOf, Keys, JobRows, Unsettled, Statuses
<1>38. ASSUME StartRun
      PROVE  OwedInv'
  BY <1>38, KeyParts, ThreadsAssumption, NoKeyAssumption DEF StartRun, rows, memory,
     threads, Base, TypeOK, RowsOK, MemoryOK, CapacityOK, ThreadsOK, DrainerOK,
     GhostsOK, Threads, PlaceInv, ThreadInv, DrainInv, Starting, Draining, PlacesInv,
     KeptInv, OnePlace, UnsentInv, UnstartedInv, StartingInv, Alive, KnownInv, CalmInv,
     OwedInv, Uninterrupted, Sending, Working, PumpAt, ExitAt, KeyOf, JobsOf, Keys,
     JobRows, Unsettled, Statuses
<1>39. ASSUME RefuseRun
      PROVE  OwedInv'
  BY <1>39, KeyParts, ThreadsAssumption, NoKeyAssumption DEF RefuseRun, rows, memory,
     capacity, Go, Base, TypeOK, RowsOK, MemoryOK, CapacityOK, ThreadsOK, DrainerOK,
     Threads, PlaceInv, ThreadInv, DrainInv, Starting, Draining, PlacesInv, KeptInv,
     OnePlace, UnsentInv, UnstartedInv, StartingInv, Alive, KnownInv, CalmInv, OwedInv,
     Uninterrupted, Sending, Working, PumpAt, ExitAt, KeyOf, JobsOf, Keys, JobRows,
     Unsettled, Statuses
<1>40. ASSUME SetupThrows
      PROVE  OwedInv'
  BY <1>40, KeyParts, ThreadsAssumption, NoKeyAssumption DEF SetupThrows, rows, memory,
     threads, Base, TypeOK, RowsOK, MemoryOK, CapacityOK, ThreadsOK, DrainerOK,
     GhostsOK, Threads, PlaceInv, ThreadInv, DrainInv, Starting, Draining, PlacesInv,
     KeptInv, OnePlace, UnsentInv, UnstartedInv, StartingInv, Alive, KnownInv, CalmInv,
     OwedInv, Uninterrupted, Sending, Working, PumpAt, ExitAt, KeyOf, JobsOf, Keys,
     JobRows, Unsettled, Statuses
<1>41. CASE UNCHANGED vars
  BY <1>41 DEF vars, rows, memory, capacity, threads, drainer, OwedInv, Sending,
     Draining, Working
<1>42. QED
  BY <1>1, <1>2, <1>3, <1>4, <1>5, <1>6, <1>7, <1>8, <1>9, <1>10, <1>11, <1>12, <1>13,
     <1>14, <1>15, <1>16, <1>17, <1>18, <1>19, <1>20, <1>21, <1>22, <1>23, <1>24, <1>25,
     <1>26, <1>27, <1>28, <1>29, <1>30, <1>31, <1>32, <1>33, <1>34, <1>35, <1>36, <1>37,
     <1>38, <1>39, <1>40, <1>41 DEF Next, CancelStep, PumpStep, ExitStep, DrainStep

LEMMA DoneStep ==
  ASSUME Uninterrupted, PlacesInv, CalmInv, OwedInv, DoneInv, [Next]_vars
  PROVE  DoneInv'
<1>1. ASSUME NEW e \in Evals, Start(e)
      PROVE  DoneInv'
  BY <1>1, KeyParts, EvalType DEF Start, rows, capacity, ghosts, Go, Base, TypeOK,
     RowsOK, MemoryOK, CapacityOK, ThreadsOK, GhostsOK, Threads, PlacesInv, KeptInv,
     DoneInv, JobsOf, Unsettled, AllTerminal, Eval
<1>2. ASSUME NEW e \in Evals, StartFails(e)
      PROVE  DoneInv'
  BY <1>2, KeyParts, EvalType DEF StartFails, rows, capacity, ghosts, Go, Base, TypeOK,
     RowsOK, MemoryOK, CapacityOK, ThreadsOK, GhostsOK, Threads, PlacesInv, KeptInv,
     DoneInv, JobsOf, Unsettled, AllTerminal, Eval
<1>3. ASSUME NEW e \in Evals, GoesLive(e)
      PROVE  DoneInv'
  BY <1>3, KeyParts, EvalType, ThreadsAssumption, NoKeyAssumption DEF GoesLive, rows,
     capacity, drainer, ghosts, Go, Base, TypeOK, RowsOK, MemoryOK, CapacityOK,
     ThreadsOK, DrainerOK, GhostsOK, Threads, PlaceInv, ThreadInv, DrainInv, Starting,
     Draining, PlacesInv, KeptInv, OnePlace, UnsentInv, UnstartedInv, StartingInv,
     Alive, KnownInv, CalmInv, OwedInv, DoneInv, Uninterrupted, Sending, Working,
     PumpAt, ExitAt, KeyOf, JobsOf, Keys, NewRow, JobRows, Unsettled, Statuses,
     AllTerminal, Eval
<1>4. ASSUME NEW e \in Evals, TimerFires(e)
      PROVE  DoneInv'
  <2>1. UNCHANGED <<row, status, finished>>
    BY <1>4 DEF TimerFires, rows, ghosts
  <2>2. ASSUME NEW u \in Threads, pc'[u] \in {"finish", "status", "report"}
        PROVE  pc[u] = pc'[u] /\ (u \in Runs => key'[u] = key[u])
    BY <1>4, <2>2, PumpEffect, ThreadsAssumption DEF TimerFires, PlacesInv, KeptInv,
       Base, TypeOK, ThreadsOK, CapacityOK, Threads
  <2>3. \A u \in Threads : pc'[u] \in {"finish", "status", "report"} => Eval(u)' = Eval(u)
    BY <2>2 DEF Eval, Threads
  <2>4. QED
    BY <2>1, <2>2, <2>3 DEF DoneInv, AllTerminal
<1>5. ASSUME NEW e \in Evals, Cancel(e)
      PROVE  DoneInv'
  BY <1>5 DEF Cancel, rows, capacity, threads, ghosts, DoneInv, AllTerminal, Eval
<1>6. ASSUME NEW e \in Evals, CancelRows(e)
      PROVE  DoneInv'
  BY <1>6, KeyParts, EvalType DEF CancelRows, rows, capacity, threads, ghosts, Base,
     TypeOK, RowsOK, CapacityOK, ThreadsOK, DrainerOK, GhostsOK, Threads, PlacesInv,
     KeptInv, DoneInv, JobsOf, QueuedCancelled, Unsettled, AllTerminal, Eval
<1>7. ASSUME NEW e \in Evals, CancelPurges(e)
      PROVE  DoneInv'
  BY <1>7 DEF CancelPurges, rows, threads, ghosts, DoneInv, AllTerminal, Eval
<1>8. ASSUME NEW t \in Threads, ReadBudget(t)
      PROVE  DoneInv'
  BY <1>8, KeyParts, EvalType DEF ReadBudget, rows, capacity, ghosts, Go, Base, TypeOK,
     RowsOK, CapacityOK, ThreadsOK, GhostsOK, Threads, PlacesInv, KeptInv, DoneInv,
     JobsOf, Over, Unsettled, AllTerminal, Eval
<1>9. ASSUME NEW t \in Threads, AbortRows(t)
      PROVE  DoneInv'
  BY <1>9, KeyParts, EvalType DEF AbortRows, capacity, ghosts, Go, Base, TypeOK, RowsOK,
     CapacityOK, ThreadsOK, GhostsOK, Threads, PlacesInv, KeptInv, DoneInv, JobsOf,
     QueuedCancelled, Unsettled, AllTerminal, Eval
<1>10. ASSUME NEW t \in Threads, AbortFlag(t)
      PROVE  DoneInv'
  BY <1>10, KeyParts, EvalType DEF AbortFlag, rows, capacity, ghosts, Go, Base, TypeOK,
     RowsOK, MemoryOK, CapacityOK, ThreadsOK, GhostsOK, Threads, PlacesInv, KeptInv,
     DoneInv, JobsOf, Unsettled, AllTerminal, Eval
<1>11. ASSUME NEW t \in Threads, AbortStatus(t)
      PROVE  DoneInv'
  BY <1>11, KeyParts, EvalType DEF AbortStatus, capacity, ghosts, Go, Base, TypeOK,
     RowsOK, CapacityOK, ThreadsOK, GhostsOK, Threads, PlacesInv, KeptInv, DoneInv,
     JobsOf, Unsettled, AllTerminal, Eval
<1>12. ASSUME NEW t \in Threads, Scan(t)
      PROVE  DoneInv'
  BY <1>12, KeyParts, EvalType DEF Scan, rows, capacity, ghosts, Go, Base, TypeOK,
     RowsOK, CapacityOK, ThreadsOK, GhostsOK, Threads, PlacesInv, KeptInv, DoneInv,
     Eligible, KeyOf, JobsOf, Unsettled, AllTerminal, Eval
<1>13. ASSUME NEW t \in Threads, NEW k \in Keys, Send(t, k)
      PROVE  DoneInv'
  BY <1>13, KeyParts, EvalType DEF Send, rows, capacity, ghosts, Go, Base, TypeOK,
     RowsOK, MemoryOK, CapacityOK, ThreadsOK, GhostsOK, Threads, PlacesInv, KeptInv,
     DoneInv, JobsOf, Unsettled, AllTerminal, Eval
<1>14. ASSUME NEW t \in Threads, Sent(t)
      PROVE  DoneInv'
  <2>1. UNCHANGED <<status, finished, key>>
    BY <1>14 DEF Sent, ghosts
  <2>2. cur[t] \in Keys /\ cur[t][1] \in Jobs
    BY <1>14, KeyParts DEF Sent, PlacesInv, KeptInv, Base, PlaceInv, ThreadInv
  <2>3. \A j \in Jobs : row'[j].status \in {row[j].status, "failed"}
    BY <1>14, <2>2 DEF Sent, PlacesInv, KeptInv, Base, TypeOK, RowsOK, JobRows
  <2>4. \A u \in Threads : pc'[u] \in {"finish", "status", "report"} => pc'[u] = pc[u]
    BY <1>14 DEF Sent, Go, PlacesInv, KeptInv, Base, TypeOK, ThreadsOK
  <2>5. ASSUME NEW e \in Evals, AllTerminal(e)
        PROVE  AllTerminal(e)'
    BY <2>3, <2>5 DEF AllTerminal, JobsOf, Unsettled
  <2>6. \A u \in Threads : Eval(u)' = Eval(u)
    BY <2>1 DEF Eval
  <2>7. ASSUME NEW u \in Threads, pc'[u] \in {"finish", "status", "report"}
        PROVE  AllTerminal(Eval(u))'
    <3>1. AllTerminal(Eval(u)) /\ Eval(u) \in Evals
      BY <2>4, <2>7, EvalType DEF DoneInv, PlacesInv, KeptInv
    <3>2. PICK e \in Evals : e = Eval(u)
      BY <3>1
    <3>3. AllTerminal(e)'
      BY <2>5, <3>1, <3>2
    <3>4. QED
      BY <2>6, <3>2, <3>3 DEF AllTerminal, JobsOf
  <2>8. QED
    BY <2>1, <2>5, <2>7 DEF DoneInv
<1>15. ASSUME NEW t \in Threads, AllSent(t)
      PROVE  DoneInv'
  <2>1. UNCHANGED <<row, status, finished>>
    BY <1>15 DEF AllSent, rows, ghosts
  <2>2. ASSUME NEW u \in Threads, pc'[u] \in {"finish", "status", "report"}
        PROVE  pc[u] = pc'[u] /\ (u \in Runs => key'[u] = key[u])
    BY <1>15, <2>2, ThreadsAssumption DEF AllSent, Go, Ends, PlacesInv, KeptInv, Base,
       TypeOK, ThreadsOK, CapacityOK, Threads
  <2>3. \A u \in Threads : pc'[u] \in {"finish", "status", "report"} => Eval(u)' = Eval(u)
    BY <2>2 DEF Eval, Threads
  <2>4. QED
    BY <2>1, <2>2, <2>3 DEF DoneInv, AllTerminal
<1>16. ASSUME NEW t \in Threads, Count(t)
      PROVE  DoneInv'
  BY <1>16, KeyParts, EvalType DEF Count, rows, capacity, ghosts, Go, Base, TypeOK,
     RowsOK, CapacityOK, ThreadsOK, GhostsOK, Threads, PlacesInv, KeptInv, DoneInv,
     JobsOf, Unsettled, AllTerminal, Eval
<1>17. ASSUME NEW t \in Threads, Finish(t)
      PROVE  DoneInv'
  BY <1>17, KeyParts, EvalType DEF Finish, rows, capacity, ghosts, Go, Base, TypeOK,
     RowsOK, MemoryOK, CapacityOK, ThreadsOK, GhostsOK, Threads, PlacesInv, KeptInv,
     DoneInv, JobsOf, Unsettled, AllTerminal, Eval
<1>18. ASSUME NEW t \in Threads, Verdict(t)
      PROVE  DoneInv'
  BY <1>18, KeyParts, EvalType DEF Verdict, rows, capacity, ghosts, Go, Base, TypeOK,
     RowsOK, CapacityOK, ThreadsOK, GhostsOK, Threads, PlacesInv, KeptInv, DoneInv,
     JobsOf, Unsettled, AllTerminal, Eval
<1>19. ASSUME NEW t \in Threads, Report(t)
      PROVE  DoneInv'
  BY <1>19, KeyParts, EvalType, ThreadsAssumption, NoKeyAssumption DEF Report, Go, Ends,
     Base, TypeOK, RowsOK, CapacityOK, ThreadsOK, GhostsOK, Threads, PlaceInv,
     ThreadInv, DrainInv, Starting, Draining, PlacesInv, KeptInv, OnePlace, UnsentInv,
     UnstartedInv, StartingInv, Alive, KnownInv, CalmInv, OwedInv, DoneInv,
     Uninterrupted, Sending, Working, PumpAt, ExitAt, KeyOf, JobsOf, Keys, JobRows,
     Unsettled, Statuses, AllTerminal, Eval
<1>20. ASSUME NEW t \in Threads, ScheduleRetryWake(t)
      PROVE  DoneInv'
  BY <1>20, KeyParts, EvalType, ThreadsAssumption, NoKeyAssumption DEF
     ScheduleRetryWake, rows, ghosts, Go, Ends, Base, TypeOK, RowsOK, MemoryOK,
     CapacityOK, ThreadsOK, GhostsOK, Threads, PlacesInv, KeptInv, DoneInv, JobsOf,
     Unsettled, AllTerminal, Eval
<1>21. ASSUME NEW r \in Runs, RunEnds(r)
      PROVE  DoneInv'
  BY <1>21, KeyParts, EvalType DEF RunEnds, rows, ghosts, Go, Base, TypeOK, RowsOK,
     CapacityOK, ThreadsOK, GhostsOK, Threads, PlacesInv, KeptInv, DoneInv, JobsOf,
     Unsettled, AllTerminal, Eval
<1>22. ASSUME NEW r \in Runs, ExitAcks(r)
      PROVE  DoneInv'
  BY <1>22, KeyParts, EvalType DEF ExitAcks, rows, ghosts, Go, Base, TypeOK, RowsOK,
     CapacityOK, ThreadsOK, GhostsOK, Threads, PlacesInv, KeptInv, DoneInv, JobsOf,
     Unsettled, AllTerminal, Eval
<1>23. ASSUME NEW r \in Runs, ExitReleases(r)
      PROVE  DoneInv'
  BY <1>23, KeyParts, EvalType, ThreadsAssumption, NoKeyAssumption DEF ExitReleases,
     rows, ghosts, Go, Ends, Base, TypeOK, RowsOK, CapacityOK, ThreadsOK, GhostsOK,
     Threads, PlacesInv, KeptInv, DoneInv, JobsOf, Unsettled, AllTerminal, Eval
<1>24. ASSUME NEW r \in Runs, Record(r)
      PROVE  DoneInv'
  BY <1>24, KeyParts, EvalType DEF Record, capacity, ghosts, Go, Base, TypeOK, RowsOK,
     CapacityOK, ThreadsOK, GhostsOK, Threads, PlacesInv, KeptInv, DoneInv, JobsOf,
     Unsettled, AllTerminal, Eval
<1>25. ASSUME NEW r \in Runs, Decide(r)
      PROVE  DoneInv'
  <2>1. UNCHANGED <<row, status, finished>>
    BY <1>25 DEF Decide, rows, ghosts
  <2>2. ASSUME NEW u \in Threads, pc'[u] \in {"finish", "status", "report"}
        PROVE  pc[u] = pc'[u] /\ (u \in Runs => key'[u] = key[u])
    BY <1>25, <2>2, PumpEffect, ThreadsAssumption DEF Decide, Go, PlacesInv, KeptInv,
       Base, TypeOK, ThreadsOK, CapacityOK, Threads
  <2>3. \A u \in Threads : pc'[u] \in {"finish", "status", "report"} => Eval(u)' = Eval(u)
    BY <2>2 DEF Eval, Threads
  <2>4. QED
    BY <2>1, <2>2, <2>3 DEF DoneInv, AllTerminal
<1>26. ASSUME NEW r \in Runs, RetryJob(r)
      PROVE  DoneInv'
  BY <1>26, KeyParts, EvalType, ThreadsAssumption, NoKeyAssumption DEF RetryJob, ghosts,
     Go, Pump, Ends, Base, TypeOK, RowsOK, CapacityOK, ThreadsOK, GhostsOK, Threads,
     PlaceInv, ThreadInv, DrainInv, Starting, Draining, PlacesInv, KeptInv, OnePlace,
     UnsentInv, UnstartedInv, StartingInv, Alive, KnownInv, CalmInv, OwedInv, DoneInv,
     Uninterrupted, Sending, Working, PumpAt, ExitAt, KeyOf, JobsOf, Keys, JobRows,
     Unsettled, Statuses, AllTerminal, Eval
<1>27. ASSUME NEW j \in Jobs, BackoffEnds(j)
      PROVE  DoneInv'
  BY <1>27, KeyParts, EvalType DEF BackoffEnds, capacity, threads, ghosts, Base, TypeOK,
     RowsOK, CapacityOK, ThreadsOK, GhostsOK, Threads, PlacesInv, KeptInv, DoneInv,
     JobsOf, Unsettled, AllTerminal, Eval
<1>28. ASSUME DrainTimer
      PROVE  DoneInv'
  BY <1>28 DEF DrainTimer, rows, capacity, threads, ghosts, DoneInv, AllTerminal, Eval
<1>29. ASSUME NEW k \in Keys, DrainAdmits(k)
      PROVE  DoneInv'
  BY <1>29 DEF DrainAdmits, rows, threads, ghosts, DoneInv, AllTerminal, Eval
<1>30. ASSUME DrainReturns
      PROVE  DoneInv'
  BY <1>30 DEF DrainReturns, rows, capacity, threads, ghosts, DoneInv, AllTerminal, Eval
<1>31. ASSUME DrainChecks
      PROVE  DoneInv'
  BY <1>31 DEF DrainChecks, rows, capacity, threads, ghosts, DoneInv, AllTerminal, Eval
<1>32. ASSUME DrainDrops
      PROVE  DoneInv'
  BY <1>32 DEF DrainDrops, rows, threads, ghosts, DoneInv, AllTerminal, Eval
<1>33. ASSUME NEW r \in Runs, AcquireSlot(r)
      PROVE  DoneInv'
  BY <1>33, KeyParts, EvalType, ThreadsAssumption, NoKeyAssumption DEF AcquireSlot,
     rows, threads, ghosts, Base, TypeOK, RowsOK, CapacityOK, ThreadsOK, DrainerOK,
     GhostsOK, Threads, PlacesInv, KeptInv, DoneInv, Fresh, JobsOf, Unsettled,
     AllTerminal, Eval
<1>34. ASSUME NoSlot
      PROVE  DoneInv'
  BY <1>34 DEF NoSlot, rows, capacity, threads, ghosts, DoneInv, AllTerminal, Eval
<1>35. ASSUME RequeueAcks
      PROVE  DoneInv'
  BY <1>35 DEF RequeueAcks, rows, threads, ghosts, DoneInv, AllTerminal, Eval
<1>36. ASSUME RequeueVerbatim
      PROVE  DoneInv'
  BY <1>36 DEF RequeueVerbatim, rows, threads, ghosts, DoneInv, AllTerminal, Eval
<1>37. ASSUME MarkJobRunning
      PROVE  DoneInv'
  BY <1>37, KeyParts, EvalType DEF MarkJobRunning, rows, capacity, threads, ghosts,
     Base, TypeOK, RowsOK, CapacityOK, ThreadsOK, DrainerOK, GhostsOK, Threads,
     PlaceInv, ThreadInv, DrainInv, Starting, Draining, PlacesInv, KeptInv, OnePlace,
     UnsentInv, UnstartedInv, StartingInv, Alive, KnownInv, CalmInv, OwedInv, DoneInv,
     Uninterrupted, Sending, Working, PumpAt, ExitAt, KeyOf, JobsOf, Keys, JobRows,
     Unsettled, Statuses, AllTerminal, Eval
<1>38. ASSUME StartRun
      PROVE  DoneInv'
  BY <1>38 DEF StartRun, rows, threads, DoneInv, AllTerminal, Eval
<1>39. ASSUME RefuseRun
      PROVE  DoneInv'
  BY <1>39, KeyParts, EvalType, ThreadsAssumption, NoKeyAssumption DEF RefuseRun, rows,
     capacity, ghosts, Go, Base, TypeOK, RowsOK, CapacityOK, ThreadsOK, DrainerOK,
     GhostsOK, Threads, PlacesInv, KeptInv, DoneInv, JobsOf, Unsettled, AllTerminal,
     Eval
<1>40. ASSUME SetupThrows
      PROVE  DoneInv'
  BY <1>40, KeyParts, EvalType, ThreadsAssumption, NoKeyAssumption DEF SetupThrows,
     rows, threads, Base, TypeOK, RowsOK, CapacityOK, ThreadsOK, DrainerOK, GhostsOK,
     Threads, PlaceInv, ThreadInv, DrainInv, Starting, Draining, PlacesInv, KeptInv,
     OnePlace, UnsentInv, UnstartedInv, StartingInv, Alive, KnownInv, CalmInv, OwedInv,
     DoneInv, Uninterrupted, Sending, Working, PumpAt, ExitAt, KeyOf, JobsOf, Keys,
     JobRows, Unsettled, Statuses, AllTerminal, Eval
<1>41. CASE UNCHANGED vars
  BY <1>41 DEF vars, rows, capacity, threads, ghosts, DoneInv, AllTerminal, Eval
<1>42. QED
  BY <1>1, <1>2, <1>3, <1>4, <1>5, <1>6, <1>7, <1>8, <1>9, <1>10, <1>11, <1>12, <1>13,
     <1>14, <1>15, <1>16, <1>17, <1>18, <1>19, <1>20, <1>21, <1>22, <1>23, <1>24, <1>25,
     <1>26, <1>27, <1>28, <1>29, <1>30, <1>31, <1>32, <1>33, <1>34, <1>35, <1>36, <1>37,
     <1>38, <1>39, <1>40, <1>41 DEF Next, CancelStep, PumpStep, ExitStep, DrainStep

LEMMA DoneInvariant ==
  ASSUME Uninterrupted
  PROVE  Spec => [](PlacesInv /\ OwedInv /\ DoneInv)
<1>1. Init => CalmInv /\ OwedInv /\ DoneInv
  BY ThreadsAssumption DEF Init, CalmInv, OwedInv, DoneInv, Sending, Working, Draining,
     Threads, ExitAt
<1>2. PlacesInv /\ CalmInv /\ OwedInv /\ DoneInv /\ [Next]_vars => (CalmInv /\ OwedInv /\ DoneInv)'
  BY CalmStep, OwedStep, DoneStep
<1>3. QED
  BY <1>1, <1>2, PlacesInvariant, PTL DEF Spec

\* When onFinished settles the hold of an eval that nothing cut short, no run
\* of it is up to spend more, ...
THEOREM SettledEvalsAreIdle ==
  ASSUME Uninterrupted
  PROVE  Spec => []SettledMeansIdle
<1>1. PlacesInv /\ OwedInv /\ DoneInv => SettledMeansIdle
  <2> SUFFICES ASSUME PlacesInv, OwedInv, DoneInv, NEW e \in Evals, finished[e] > 0,
                      NEW r \in UpRuns(e)
               PROVE  FALSE
    BY DEF SettledMeansIdle
  <2>1. r \in pool /\ r \in Runs /\ EvalOf[key[r][1]] = e
    BY DEF UpRuns, PlacesInv, KeptInv, Base, TypeOK, CapacityOK
  <2>2. pc[r] = "idle" /\ key[r] \in Keys /\ key[r][1] \in Jobs
    BY <2>1, KeyParts DEF PlacesInv, KeptInv, Base, PlaceInv, ThreadInv
  <2>3. row[key[r][1]].status \in Unsettled
    BY <2>1, <2>2 DEF OwedInv, Working
  <2>4. QED
    BY <2>1, <2>2, <2>3 DEF DoneInv, AllTerminal, JobsOf
<1>2. QED
  BY <1>1, DoneInvariant, PTL

\* ... and none will be: the jobs are all settled, as the comment at onFinished
\* says.  (The run eval_cut_short shows what a retry makes of it.)
THEOREM SettledEvalsAreDone ==
  ASSUME Uninterrupted
  PROVE  Spec => []NoMoreJobs
<1>1. DoneInv => NoMoreJobs
  BY DEF DoneInv, NoMoreJobs
<1>2. QED
  BY <1>1, DoneInvariant, PTL

=============================================================================
