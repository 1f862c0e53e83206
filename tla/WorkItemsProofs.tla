-------------------------- MODULE WorkItemsProofs ---------------------------
(***************************************************************************)
(* Theorems about WorkItems, for every set of jobs, every number of        *)
(* attempts and restarts and whatever happens around the server.           *)
(***************************************************************************)
EXTENDS WorkItems, SequenceTheorems, TLAPS

-----------------------------------------------------------------------------
(* Types *)

\* What TypeOK needs to be inductive: a retry has an attempt left, and the
\* ingest chain finishes nothing but a run_end at its head.
Retriable == \A i \in Items : disp[i] = "retry" => try[i] < MaxAttempts
HeadIsEnd == byRun => chain # <<>> /\ IsEnd(What)
TypeInv   == TypeOK /\ Retriable /\ HeadIsEnd

LEMMA RunFacts ==
  /\ \A r \in Runs : r = <<r[1], r[2]>> /\ r[1] \in Items /\ r[2] \in 1..MaxAttempts
  /\ \A i \in Items, n \in 1..MaxAttempts : <<i, n>> \in Runs
  /\ \A r \in Runs : r # NoRun
  BY DEF Runs, NoRun

LEMMA SendingIsRun ==
  ASSUME TypeOK, NEW i \in Items
  PROVE  Sending(i) \in Runs /\ RunOf(i) \in Runs
  BY RunFacts DEF TypeOK, CallsOK, ItemsOK, Sending, RunOf

\* The head of the chain is a run and what is said of it.
LEMMA HeadType ==
  ASSUME IngestOK, chain # <<>>
  PROVE  /\ Head1 \in Runs /\ What \in Said
         /\ Tail(chain) \in Seq(Runs \X Said)
<1>1. Head(chain) \in Runs \X Said
  BY HeadTailProperties DEF IngestOK
<1>2. QED
  BY <1>1, HeadTailProperties DEF IngestOK, Head1, What

\* A push leaves the chain, and the head it had, what they should be.
LEMMA TraceType ==
  ASSUME IngestOK, BusOK, NEW r \in open, NEW what \in Said,
         Trace(r, what)
  PROVE  /\ chain' \in Seq(Runs \X Said)
         /\ silent' \subseteq open /\ unheard' \subseteq open
         /\ chain # <<>> => chain' # <<>> /\ Head(chain') = Head(chain)
<1>1. <<r, what>> \in Runs \X Said
  BY DEF BusOK
<1>2. CASE chain' = Append(chain, <<r, what>>) /\ silent' = silent \ {r} /\ unheard' = unheard
  <2>1. chain' \in Seq(Runs \X Said) /\ chain' # <<>>
    BY <1>1, <1>2, AppendProperties DEF IngestOK
  <2>2. chain # <<>> => Head(chain') = Head(chain)
    BY <1>1, <1>2, AppendProperties DEF IngestOK
  <2>3. QED
    BY <1>2, <2>1, <2>2 DEF BusOK
<1>3. CASE UNCHANGED <<chain, silent>> /\ unheard' = unheard \cup {r}
  BY <1>3 DEF IngestOK, BusOK
<1>4. QED
  BY <1>2, <1>3 DEF Trace

\* So does a line that goes straight to the chain.
LEMMA LineType ==
  ASSUME IngestOK, NEW r \in Runs, NEW what \in Said, chain' = Append(chain, <<r, what>>)
  PROVE  /\ chain' \in Seq(Runs \X Said)
         /\ chain # <<>> => chain' # <<>> /\ Head(chain') = Head(chain)
<1>1. <<r, what>> \in Runs \X Said
  OBVIOUS
<1>2. chain' \in Seq(Runs \X Said) /\ chain' # <<>>
  BY <1>1, AppendProperties DEF IngestOK, Said
<1>3. chain # <<>> => Head(chain') = Head(chain)
  BY <1>1, AppendProperties DEF IngestOK, Said
<1>4. QED
  BY <1>2, <1>3

LEMMA CloseType ==
  ASSUME BusOK, NEW r, Close(r)
  PROVE  BusOK'
  BY DEF BusOK, Close, Settled

LEMMA FinishType ==
  ASSUME ItemsOK, NEW i \in Items, NEW status \in {"succeeded", "failed", "cancelled"},
         NEW why \in {"none", "dispatch", "agent", "silent"}, Finish(i, status, why), row' = row
  PROVE  ItemsOK'
  BY DEF ItemsOK, Finish

LEMMA MovedType ==
  ASSUME ItemsOK, NEW i \in Items, NEW from, NEW to \in {"running", "waiting"},
         Moved(i, from, to), row' = row
  PROVE  ItemsOK'
  BY DEF ItemsOK, Moved

\* The invariant is inductive: one step per action.
LEMMA TypeInvariant == Spec => []TypeInv
<1>1. Init => TypeInv
  <2> SUFFICES ASSUME Init
               PROVE  TypeInv
    OBVIOUS
  <2> USE BoundsAssumption DEF Init
  <2>1. ItemsOK /\ CallsOK
    BY DEF ItemsOK, CallsOK
  <2>2. BusOK /\ RemoteOK
    BY DEF BusOK, RemoteOK
  <2>3. IngestOK
    BY EmptySeq DEF IngestOK
  <2>4. QED
    BY <2>1, <2>2, <2>3 DEF TypeInv, TypeOK, Retriable, HeadIsEnd
<1>2. TypeInv /\ [Next]_vars => TypeInv'
  <2> SUFFICES ASSUME TypeInv, [Next]_vars
               PROVE  TypeInv'
    OBVIOUS
  <2> USE BoundsAssumption DEF TypeInv, TypeOK, IsEnd
  <2>1. ASSUME NEW i \in Items, Dispatch(i)
        PROVE  TypeInv'
    <3>1. ItemsOK'
      BY <2>1 DEF Dispatch, ItemsOK
    <3>2. QED
      BY <2>1, <3>1 DEF Dispatch, Goto, CallsOK, BusOK, IngestOK, RemoteOK, Retriable, HeadIsEnd,
                        bus, ingest, remote, late, What
  <2>2. ASSUME NEW i \in Items, NotSent(i)
        PROVE  TypeInv'
    <3>1. UNCHANGED <<rows, bus, ingest, remote, sweeper, late>>
      BY <2>2 DEF NotSent
    <3>2. CallsOK' /\ Retriable'
      BY <2>2 DEF NotSent, Goto, CallsOK, Retriable
    <3>3. QED
      BY <3>1, <3>2 DEF ItemsOK, BusOK, IngestOK, RemoteOK, HeadIsEnd, rows, bus, ingest,
                        remote, late, What
  <2>3. ASSUME NEW i \in Items, Post(i)
        PROVE  TypeInv'
    <3>1. UNCHANGED <<rows, ingest, sweeper, late>>
      BY <2>3 DEF Post
    <3>2. CallsOK' /\ Retriable'
      BY <2>3 DEF Post, Goto, CallsOK, Retriable
    <3>3. BusOK' /\ RemoteOK'
      BY <2>3, SendingIsRun DEF Post, BusOK, RemoteOK
    <3>4. QED
      BY <3>1, <3>2, <3>3 DEF ItemsOK, IngestOK, HeadIsEnd, rows, ingest, late, What
  <2>4. ASSUME NEW i \in Items, ReadsAccepted(i)
        PROVE  TypeInv'
    <3>1. UNCHANGED <<rows, bus, ingest, remote, sweeper, late>>
      BY <2>4 DEF ReadsAccepted
    <3>2. CallsOK' /\ Retriable'
      BY <2>4 DEF ReadsAccepted, Goto, CallsOK, Retriable
    <3>3. QED
      BY <3>1, <3>2 DEF ItemsOK, BusOK, IngestOK, RemoteOK, HeadIsEnd, rows, bus, ingest,
                        remote, late, What
  <2>5. ASSUME NEW i \in Items, ReadsRefused(i)
        PROVE  TypeInv'
    <3>1. BusOK'
      BY <2>5, CloseType DEF ReadsRefused
    <3>2. CallsOK' /\ Retriable'
      BY <2>5 DEF ReadsRefused, RetryOrFail, Goto, CallsOK, Retriable
    <3>3. QED
      BY <2>5, <3>1, <3>2 DEF ReadsRefused, ItemsOK, IngestOK, RemoteOK, HeadIsEnd,
                              rows, ingest, remote, late, What
  <2>6. ASSUME NEW i \in Items, GivesUp(i)
        PROVE  TypeInv'
    <3>1. BusOK'
      BY <2>6, CloseType DEF GivesUp
    <3>2. CallsOK' /\ Retriable'
      BY <2>6, SendingIsRun DEF GivesUp, RetryOrFail, Goto, CallsOK, Retriable
    <3>3. QED
      BY <2>6, <3>1, <3>2 DEF GivesUp, ItemsOK, IngestOK, RemoteOK, HeadIsEnd,
                              rows, ingest, remote, late, What
  <2>7. ASSUME NEW i \in Items, Retry(i)
        PROVE  TypeInv'
    <3>1. CallsOK' /\ Retriable' /\ try'[i] \in 1..MaxAttempts
      BY <2>7 DEF Retry, Goto, CallsOK, Retriable
    <3>2. ItemsOK'
      BY <2>7, <3>1 DEF Retry, ItemsOK
    <3>3. QED
      BY <2>7, <3>1, <3>2 DEF Retry, BusOK, IngestOK, RemoteOK, HeadIsEnd,
                              bus, ingest, remote, late, What
  <2>8. ASSUME NEW i \in Items, Fail(i)
        PROVE  TypeInv'
    <3>1. ItemsOK'
      BY <2>8, FinishType DEF Fail
    <3>2. QED
      BY <2>8, <3>1 DEF Fail, Goto, CallsOK, BusOK, IngestOK, RemoteOK, Retriable, HeadIsEnd,
                        bus, ingest, remote, late, What
  <2>9. ASSUME NEW i \in Items, MarkRunning(i)
        PROVE  TypeInv'
    <3>1. ItemsOK'
      BY <2>9, MovedType DEF MarkRunning
    <3>2. QED
      BY <2>9, <3>1 DEF MarkRunning, Goto, CallsOK, BusOK, IngestOK, RemoteOK, Retriable,
                        HeadIsEnd, bus, ingest, remote, late, What
  <2>10. ASSUME NEW i \in Items, StopReads(i)
         PROVE  TypeInv'
    <3>1. UNCHANGED <<rows, bus, ingest, remote, sweeper, late>>
      BY <2>10 DEF StopReads
    <3>2. CallsOK' /\ Retriable'
      BY <2>10 DEF StopReads, StopNext, CallsOK, Retriable
    <3>3. QED
      BY <3>1, <3>2 DEF ItemsOK, BusOK, IngestOK, RemoteOK, HeadIsEnd, rows, bus, ingest,
                        remote, late, What
  <2>11. ASSUME NEW i \in Items, StopCloses(i)
         PROVE  TypeInv'
    <3>1. ItemsOK'
      BY <2>11, FinishType DEF StopCloses
    <3>2. QED
      BY <2>11, <3>1 DEF StopCloses, StopNext, CallsOK, BusOK, IngestOK, RemoteOK, Retriable,
                         HeadIsEnd, bus, ingest, remote, late, What
  <2>12. ASSUME NEW i \in Items, StopAsks(i)
         PROVE  TypeInv'
    <3>1. CallsOK' /\ RemoteOK'
      BY <2>12, SendingIsRun DEF StopAsks, StopNext, CallsOK, RemoteOK
    <3>2. QED
      BY <2>12, <3>1 DEF StopAsks, ItemsOK, BusOK, IngestOK, Retriable, HeadIsEnd,
                         rows, bus, ingest, late, What
  <2>13. ASSUME NEW i \in Items, StopNotes(i)
         PROVE  TypeInv'
    <3>1. UNCHANGED <<rows, disp, try, gaveUp, ingest, remote, sweeper, late>>
      BY <2>13 DEF StopNotes
    <3>2. CallsOK' /\ Retriable'
      BY <2>13 DEF StopNotes, StopNext, CallsOK, Retriable
    <3>3. BusOK'
      BY <2>13 DEF StopNotes, Settled, BusOK
    <3>4. QED
      BY <3>1, <3>2, <3>3 DEF ItemsOK, IngestOK, RemoteOK, HeadIsEnd, rows, ingest, remote,
                              late, What
  <2>14. ASSUME NEW r \in Runs, Accepts(r) \/ Refuses(r)
         PROVE  TypeInv'
    <3>1. UNCHANGED <<rows, calls, bus, ingest, sweeper, late>>
      BY <2>14 DEF Accepts, Refuses
    <3>2. RemoteOK'
      <4>1. CASE Accepts(r)
        BY <4>1 DEF Accepts, Becomes, RemoteOK
      <4>2. CASE Refuses(r)
        BY <4>2 DEF Refuses, RemoteOK
      <4>3. QED
        BY <2>14, <4>1, <4>2
    <3>3. QED
      BY <3>1, <3>2 DEF ItemsOK, CallsOK, BusOK, IngestOK, Retriable, HeadIsEnd,
                        rows, calls, bus, ingest, late, What
  <2>15. ASSUME NEW r \in Runs, Begins(r) \/ PushesEnd(r) \/ Dies(r)
         PROVE  TypeInv'
    <3>1. r \in open /\ UNCHANGED <<rows, calls, open, pending, marks, byRun, sweeper, late>>
      BY <2>15 DEF Begins, PushesEnd, Dies
    <3>2. PICK what \in {"start", "completed", "error"} : Trace(r, what)
      BY <2>15 DEF Begins, PushesEnd, Dies
    <3>3. /\ chain' \in Seq(Runs \X Said)
          /\ silent' \subseteq open /\ unheard' \subseteq open
          /\ chain # <<>> => chain' # <<>> /\ Head(chain') = Head(chain)
      BY <3>1, <3>2, TraceType DEF Said
    <3>4. noted' \subseteq Runs
      BY <2>15 DEF Begins, PushesEnd, Dies, Notes, IngestOK
    <3>5. RemoteOK'
      BY <2>15 DEF Begins, PushesEnd, Dies, Becomes, RemoteOK
    <3>6. QED
      BY <3>1, <3>3, <3>4, <3>5 DEF ItemsOK, CallsOK, BusOK, IngestOK, Retriable, HeadIsEnd,
                                    rows, calls, late, What
  <2>16. ASSUME NEW r \in Runs, Asks(r)
         PROVE  TypeInv'
    <3>1. UNCHANGED <<rows, calls, open, silent, unheard, ingest, post, completed, stops,
                      sweeper, late>>
      BY <2>16 DEF Asks
    <3>2. BusOK' /\ RemoteOK'
      BY <2>16 DEF Asks, Becomes, BusOK, RemoteOK
    <3>3. QED
      BY <3>1, <3>2 DEF ItemsOK, CallsOK, IngestOK, Retriable, HeadIsEnd, rows, calls,
                        ingest, late, What
  <2>17. ASSUME NEW r \in Runs, AskOver(r) \/ Vanishes(r) \/ EndsUnheard(r)
         PROVE  TypeInv'
    <3>1. UNCHANGED <<rows, calls, bus, ingest, post, completed, stops, sweeper, late>>
      BY <2>17 DEF AskOver, Vanishes, EndsUnheard
    <3>2. RemoteOK'
      BY <2>17 DEF AskOver, Vanishes, EndsUnheard, Becomes, RemoteOK
    <3>3. QED
      BY <3>1, <3>2 DEF ItemsOK, CallsOK, BusOK, IngestOK, Retriable, HeadIsEnd, rows,
                        calls, bus, ingest, late, What
  <2>18. ASSUME NEW r \in Runs, Finishes(r)
         PROVE  TypeInv'
    <3>1. UNCHANGED <<rows, calls, bus, chain, byRun, post, stops, sweeper, late>>
      BY <2>18 DEF Finishes
    <3>2. noted' \subseteq Runs
      BY <2>18 DEF Finishes, Notes, IngestOK
    <3>3. RemoteOK'
      BY <2>18 DEF Finishes, Becomes, RemoteOK
    <3>4. ItemsOK' /\ CallsOK' /\ BusOK' /\ Retriable'
      BY <3>1 DEF ItemsOK, CallsOK, BusOK, Retriable, rows, calls, bus
    <3>5. QED
      BY <3>1, <3>2, <3>3, <3>4 DEF IngestOK, HeadIsEnd, late, What
  <2>19. ASSUME NEW r \in Runs, SaysClosed(r)
         PROVE  TypeInv'
    <3>1. BusOK'
      BY <2>19, CloseType DEF SaysClosed, BusOK, bus
    <3>2. QED
      BY <2>19, <3>1 DEF SaysClosed, Becomes, ItemsOK, CallsOK, IngestOK, RemoteOK, Retriable,
                         HeadIsEnd, rows, calls, ingest, late, What
  <2>20. ASSUME Upsert
         PROVE  TypeInv'
    <3>1. /\ Head1 \in Runs
          /\ Tail(chain) \in Seq(Runs \X Said)
      BY <2>20, HeadType DEF Upsert
    <3>2. ItemsOK'
      BY <2>20, <3>1 DEF Upsert, RowOf, ItemsOK
    <3>3. IngestOK' /\ HeadIsEnd'
      BY <2>20, <3>1 DEF Upsert, IngestOK, HeadIsEnd, What
    <3>4. QED
      BY <2>20, <3>2, <3>3 DEF Upsert, CallsOK, BusOK, RemoteOK, Retriable,
                               calls, bus, remote, late
  <2>21. ASSUME OnRunEnd
         PROVE  TypeInv'
    <3>1. /\ Head1 \in Runs /\ Head1[1] \in Items
          /\ Tail(chain) \in Seq(Runs \X Said)
      BY <2>21, HeadType, RunFacts DEF OnRunEnd, HeadIsEnd
    <3>2. \E status \in {"succeeded", "failed", "cancelled"},
             why \in {"none", "dispatch", "agent", "silent"} : Finish(Head1[1], status, why)
      BY <2>21 DEF OnRunEnd, Ended
    <3>3. ItemsOK'
      BY <2>21, <3>1, <3>2, FinishType DEF OnRunEnd
    <3>4. IngestOK' /\ HeadIsEnd'
      BY <2>21, <3>1 DEF OnRunEnd, IngestOK, HeadIsEnd
    <3>5. QED
      BY <2>21, <3>3, <3>4 DEF OnRunEnd, CallsOK, BusOK, RemoteOK, Retriable,
                               calls, bus, remote, late
  <2>22. ASSUME NEW r \in Runs, Answer(r) \/ FallsSilent(r)
         PROVE  TypeInv'
    <3>1. UNCHANGED <<rows, calls, ingest, remote, sweeper, late>>
      BY <2>22 DEF Answer, FallsSilent
    <3>2. BusOK'
      BY <2>22 DEF Answer, FallsSilent, Settled, BusOK
    <3>3. QED
      BY <3>1, <3>2 DEF ItemsOK, CallsOK, IngestOK, RemoteOK, Retriable, HeadIsEnd, rows,
                        calls, ingest, remote, late, What
  <2>23. ASSUME NEW r \in Runs, SweepReads(r)
         PROVE  TypeInv'
    BY <2>23 DEF SweepReads, ItemsOK, CallsOK, BusOK, IngestOK, RemoteOK,
                 Retriable, HeadIsEnd, rows, calls, bus, ingest, remote, late, What
  <2>24. ASSUME NEW m \in marks, Mark(m)
         PROVE  TypeInv'
    <3>1. m[1] \in Runs /\ m[1][1] \in Items
      BY RunFacts DEF BusOK
    <3>2. ItemsOK'
      BY <2>24, <3>1, MovedType DEF Mark, ItemsOK
    <3>3. QED
      BY <2>24, <3>2 DEF Mark, CallsOK, BusOK, IngestOK, RemoteOK, Retriable, HeadIsEnd,
                         calls, ingest, remote, late, What
  <2>25. ASSUME SweepCloses
         PROVE  TypeInv'
    <3>1. sweeper[1] \in Runs
      BY <2>25, RunFacts DEF SweepCloses
    <3>2. BusOK'
      BY <2>25, CloseType DEF SweepCloses, Abandons, BusOK, bus
    <3>3. /\ chain' \in Seq(Runs \X Said)
          /\ chain # <<>> => chain' # <<>> /\ Head(chain') = Head(chain)
      <4>1. CASE chain' = Append(chain, <<sweeper[1], "silent">>)
        BY <3>1, <4>1, LineType DEF Said
      <4>2. CASE chain' = chain
        BY <4>2 DEF IngestOK, Said
      <4>3. QED
        BY <2>25, <4>1, <4>2 DEF SweepCloses, Abandons
    <3>4. QED
      BY <2>25, <3>2, <3>3 DEF SweepCloses, ItemsOK, CallsOK, IngestOK, RemoteOK, Retriable,
                               HeadIsEnd, rows, calls, remote, late, What
  <2>26. ASSUME Restart
         PROVE  TypeInv'
    <3>1. ItemsOK'
      BY <2>26 DEF Restart, ItemsOK
    <3>2. CallsOK' /\ Retriable'
      BY <2>26 DEF Restart, CallsOK, Retriable
    <3>3. IngestOK' /\ HeadIsEnd'
      BY <2>26, EmptySeq DEF Restart, IngestOK, HeadIsEnd
    <3>4. BusOK' /\ RemoteOK'
      BY <2>26 DEF Restart, BusOK, RemoteOK, remote
    <3>5. sweeper' = NoRun /\ restarts' \in 0..MaxRestarts /\ world' = world
      <4>1. /\ restarts < MaxRestarts /\ restarts' = restarts + 1
            /\ sweeper' = NoRun /\ world' = world
        BY <2>26, Zenon DEF Restart
      <4>2. QED
        BY <4>1
    <3>6. asked' = {} /\ local' = {} /\ cancelled' = cancelled
      BY <2>26, Zenon DEF Restart
    <3>7. QED
      BY <3>1, <3>2, <3>3, <3>4, <3>5, <3>6
  <2>27. ASSUME NEW r \in Runs, Pauses(r)
         PROVE  TypeInv'
    <3>1. /\ r \in open
          /\ \/ chain' = Append(chain, <<r, "paused">>) /\ silent' = silent \ {r}
             \/ UNCHANGED <<chain, silent>>
      BY <2>27 DEF Pauses
    <3>2. /\ chain' \in Seq(Runs \X Said)
          /\ chain # <<>> => chain' # <<>> /\ Head(chain') = Head(chain)
      BY <3>1, LineType DEF IngestOK, Said
    <3>3. IngestOK' /\ HeadIsEnd'
      BY <2>27, <3>2 DEF Pauses, IngestOK, HeadIsEnd, What, Said
    <3>4. BusOK' /\ RemoteOK'
      BY <2>27, <3>1 DEF Pauses, Becomes, BusOK, RemoteOK
    <3>5. QED
      BY <2>27, <3>3, <3>4 DEF Pauses, ItemsOK, CallsOK, Retriable, rows, calls, late
  <2>28. ASSUME NEW r \in Runs, AsksPause(r) \/ ResumesHere(r) \/ CancelsRun(r)
         PROVE  TypeInv'
    <3>1. ItemsOK'
      BY <2>28 DEF AsksPause, ResumesHere, CancelsRun, ItemsOK, rows
    <3>2. asked' \subseteq Runs /\ local' \subseteq Runs /\ cancelled' \subseteq Runs
      BY <2>28 DEF AsksPause, ResumesHere, CancelsRun
    <3>3. UNCHANGED <<calls, bus, ingest, remote, sweeper, restarts, world>>
      BY <2>28 DEF AsksPause, ResumesHere, CancelsRun
    <3>4. QED
      BY <3>1, <3>2, <3>3 DEF CallsOK, BusOK, IngestOK, RemoteOK, Retriable, HeadIsEnd,
                              calls, bus, ingest, remote, What
  <2>29. ASSUME NEW r \in Runs, EndsHere(r)
         PROVE  TypeInv'
    <3>1. /\ chain' \in Seq(Runs \X Said)
          /\ chain # <<>> => chain' # <<>> /\ Head(chain') = Head(chain)
      BY <2>29, LineType DEF EndsHere, Said
    <3>2. IngestOK' /\ HeadIsEnd'
      BY <2>29, <3>1 DEF EndsHere, IngestOK, HeadIsEnd, What, Said
    <3>3. QED
      BY <2>29, <3>2 DEF EndsHere, ItemsOK, CallsOK, BusOK, RemoteOK, Retriable, rows, calls,
                         bus, remote
  <2>30. CASE UNCHANGED vars
    <3>1. UNCHANGED <<item, row, disp, try, gaveUp, stopper, open, silent, unheard, pending, marks>>
      BY <2>30 DEF vars, rows, calls, bus
    <3>2. UNCHANGED <<chain, byRun, noted, post, box, completed, stops, sweeper, asked,
                     local, cancelled, restarts, world>>
      BY <2>30 DEF vars, ingest, remote, late
    <3>3. ItemsOK' /\ CallsOK' /\ BusOK' /\ Retriable'
      BY <3>1 DEF ItemsOK, CallsOK, BusOK, Retriable
    <3>4. QED
      BY <3>2, <3>3 DEF IngestOK, RemoteOK, HeadIsEnd, What
  <2>31. QED
    BY <2>1, <2>2, <2>3, <2>4, <2>5, <2>6, <2>7, <2>8, <2>9, <2>10, <2>11, <2>12, <2>13,
       <2>14, <2>15, <2>16, <2>17, <2>18, <2>19, <2>20, <2>21, <2>22, <2>23, <2>24, <2>25,
       <2>26, <2>27, <2>28, <2>29, <2>30
       DEF Next, DispatchStep, StopStep, BoxStep, ControlStep
<1>3. QED
  BY <1>1, <1>2, PTL DEF Spec

\* Every variable keeps its type, whoever races whom, and no retry goes past the
\* last attempt (work/dispatcher.ts:367).
THEOREM TypeCorrect == Spec => []TypeOK
<1>1. TypeInv => TypeOK
  BY DEF TypeInv
<1>2. QED
  BY <1>1, TypeInvariant, PTL

-----------------------------------------------------------------------------
(* The first ending stands *)

\* No UPDATE of a row is for a job that is over.
LEMMA FinishKeeps ==
  ASSUME NEW i \in Items, NEW status, NEW why, Finish(i, status, why), ItemsOK
  PROVE  \A j \in Items : Over(j) => item'[j] = item[j]
  BY DEF ItemsOK, Finish, InFlight, Over

LEMMA MovedKeeps ==
  ASSUME NEW i \in Items, NEW from \in {"queued", "running", "waiting"}, NEW to,
         Moved(i, from, to), ItemsOK
  PROVE  \A j \in Items : Over(j) => item'[j] = item[j]
<1>1. CASE item[i].status = from
  BY <1>1 DEF ItemsOK, Moved, Over
<1>2. CASE item[i].status # from
  <2>1. \A j \in Items : item'[j] = item[j]
    BY <1>2 DEF ItemsOK, Moved
  <2>2. QED
    BY <2>1
<1>3. QED
  BY <1>1, <1>2

LEMMA StepKeepsOver ==
  ASSUME TypeInv, [Next]_vars
  PROVE  \A i \in Items : Over(i) => item'[i] = item[i]
<1> USE DEF TypeInv, TypeOK
<1>1. CASE item' = item
  BY <1>1
<1>2. ASSUME NEW i \in Items, Dispatch(i)
      PROVE  \A j \in Items : Over(j) => item'[j] = item[j]
  BY <1>2 DEF Dispatch, ItemsOK, Over
<1>3. ASSUME NEW i \in Items, Retry(i)
      PROVE  \A j \in Items : Over(j) => item'[j] = item[j]
  <2>1. CASE item[i].status = "queued"
    BY <1>3, <2>1 DEF Retry, ItemsOK, Over
  <2>2. CASE item[i].status # "queued"
    <3>1. \A j \in Items : item'[j] = item[j]
      BY <1>3, <2>2 DEF Retry, ItemsOK
    <3>2. QED
      BY <3>1
  <2>3. QED
    BY <2>1, <2>2
<1>4. ASSUME NEW i \in Items, Fail(i) \/ StopCloses(i)
      PROVE  \A j \in Items : Over(j) => item'[j] = item[j]
  BY <1>4, FinishKeeps DEF Fail, StopCloses
<1>5. ASSUME NEW i \in Items, MarkRunning(i)
      PROVE  \A j \in Items : Over(j) => item'[j] = item[j]
  BY <1>5, MovedKeeps DEF MarkRunning
<1>6. ASSUME OnRunEnd
      PROVE  \A j \in Items : Over(j) => item'[j] = item[j]
  <2>1. Head1[1] \in Items
    BY <1>6, HeadType, RunFacts DEF OnRunEnd, HeadIsEnd
  <2>2. PICK status, why : Finish(Head1[1], status, why)
    BY <1>6 DEF OnRunEnd, Ended
  <2>3. QED
    BY <2>1, <2>2, FinishKeeps
<1>7. ASSUME NEW m \in marks, Mark(m)
      PROVE  \A j \in Items : Over(j) => item'[j] = item[j]
  <2>1. m[1][1] \in Items
    BY RunFacts DEF BusOK
  <2>2. QED
    BY <1>7, <2>1, MovedKeeps DEF Mark
<1>8. ASSUME Restart
      PROVE  \A j \in Items : Over(j) => item'[j] = item[j]
  BY <1>8 DEF Restart, InFlight, Over
<1>9. ASSUME NEW i \in Items,
             \/ NotSent(i) \/ Post(i) \/ ReadsAccepted(i) \/ ReadsRefused(i) \/ GivesUp(i)
             \/ StopReads(i) \/ StopAsks(i) \/ StopNotes(i)
      PROVE  item' = item
  BY <1>9 DEF NotSent, Post, ReadsAccepted, ReadsRefused, GivesUp, StopReads, StopAsks,
              StopNotes, rows
<1>10. ASSUME NEW r \in Runs,
              \/ BoxStep(r) \/ Dies(r) \/ Vanishes(r)
              \/ Answer(r) \/ FallsSilent(r) \/ SweepReads(r) \/ ControlStep(r)
       PROVE  item' = item
  BY <1>10 DEF BoxStep, Accepts, Refuses, Begins, Asks, AskOver, Finishes, PushesEnd, Pauses,
               SaysClosed, EndsUnheard, Dies, Vanishes, Answer, FallsSilent, SweepReads,
               ControlStep, AsksPause, ResumesHere, EndsHere, CancelsRun, rows
<1>11. ASSUME Upsert \/ SweepCloses \/ UNCHANGED vars
       PROVE  item' = item
  BY <1>11 DEF Upsert, SweepCloses, vars, rows
<1>12. QED
  BY <1>1, <1>2, <1>3, <1>4, <1>5, <1>6, <1>7, <1>8, <1>9, <1>10, <1>11
     DEF Next, DispatchStep, StopStep

\* Over stays over, and as what: dispatch, trace, confirmations, Stop, the sweep
\* and the boot all write a job's row through a guarded UPDATE
\* (work/workStore.ts:599-671).
THEOREM FirstEndingStands == Spec => FinalIsFinal
<1>1. TypeInv /\ [Next]_vars => [\A i \in Items : Over(i) => item'[i] = item[i]]_vars
  BY StepKeepsOver
<1>2. QED
  BY <1>1, TypeInvariant, PTL DEF Spec, FinalIsFinal

-----------------------------------------------------------------------------
(* No token without a run *)

\* Nobody dispatches a job that has no row yet.
Undispatched == \A i \in Items : item[i].status = "none" => disp[i] = "no"

\* What a step may do to a status that is "none", and to a dispatch not begun.
LEMMA NoneStays ==
  ASSUME TypeInv, Undispatched, [Next]_vars
  PROVE  Undispatched'
<1> USE DEF TypeInv, TypeOK
<1>1. CASE UNCHANGED <<item, disp>>
  BY <1>1 DEF Undispatched
<1>2. ASSUME NEW i \in Items, Dispatch(i)
      PROVE  Undispatched'
  BY <1>2 DEF Dispatch, Goto, Undispatched, ItemsOK, CallsOK
<1>3. ASSUME NEW i \in Items, NotSent(i) \/ Post(i) \/ ReadsAccepted(i)
                              \/ ReadsRefused(i) \/ GivesUp(i)
      PROVE  Undispatched'
  <2>1. disp[i] # "no" /\ item' = item /\ \E pc : disp' = [disp EXCEPT ![i] = pc]
    BY <1>3 DEF NotSent, Post, ReadsAccepted, ReadsRefused, GivesUp, RetryOrFail, Goto, rows
  <2>2. QED
    BY <2>1 DEF Undispatched, CallsOK
<1>4. ASSUME NEW i \in Items, Retry(i)
      PROVE  Undispatched'
  <2>1. /\ disp[i] # "no" /\ disp' = [disp EXCEPT ![i] = "send"]
        /\ \E n : item' = [item EXCEPT ![i].try = n]
    BY <1>4 DEF Retry, Goto
  <2>2. QED
    BY <2>1 DEF Undispatched, CallsOK, ItemsOK
<1>5. ASSUME NEW i \in Items, Fail(i) \/ StopCloses(i) \/ MarkRunning(i)
      PROVE  Undispatched'
  <2>1. /\ \/ Fail(i) /\ disp[i] # "no" /\ disp' = [disp EXCEPT ![i] = "done"]
           \/ StopCloses(i) /\ disp' = disp
           \/ MarkRunning(i) /\ disp[i] # "no" /\ disp' = [disp EXCEPT ![i] = "done"]
    BY <1>5 DEF Fail, MarkRunning, StopCloses, Goto
  <2>2. \A j \in Items : item'[j].status = "none" => item[j].status = "none"
    BY <1>5 DEF Fail, StopCloses, MarkRunning, Finish, Moved, ItemsOK
  <2>3. QED
    BY <2>1, <2>2 DEF Undispatched, CallsOK
<1>6. ASSUME OnRunEnd
      PROVE  Undispatched'
  <2>1. Head1[1] \in Items
    BY <1>6, HeadType, RunFacts DEF OnRunEnd, HeadIsEnd
  <2>2. disp' = disp /\ \E status \in {"succeeded", "failed", "cancelled"} :
                            \E why : Finish(Head1[1], status, why)
    BY <1>6 DEF OnRunEnd, Ended, calls
  <2>3. QED
    BY <2>1, <2>2 DEF Finish, Undispatched, ItemsOK
<1>7. ASSUME NEW m \in marks, Mark(m)
      PROVE  Undispatched'
  <2>1. m[1][1] \in Items /\ disp' = disp
    BY <1>7, RunFacts DEF BusOK, Mark, calls
  <2>2. QED
    BY <1>7, <2>1 DEF Mark, Moved, Undispatched, ItemsOK
<1>8. ASSUME Restart
      PROVE  Undispatched'
  <2>1. \A j \in Items : disp[j] = "no" => disp'[j] = "no"
    BY <1>8 DEF Restart
  <2>2. \A j \in Items : item'[j].status = "none" => item[j].status = "none"
    <3>1. TAKE j \in Items
    <3>2. \/ item'[j] = item[j]
          \/ item'[j] = [item[j] EXCEPT !.status = "failed", !.why = "silent"]
      BY <1>8 DEF Restart
    <3>3. QED
      BY <3>2 DEF ItemsOK
  <2>3. QED
    BY <2>1, <2>2 DEF Undispatched
<1>9. ASSUME NEW i \in Items, StopReads(i) \/ StopAsks(i) \/ StopNotes(i)
      PROVE  UNCHANGED <<item, disp>>
  BY <1>9 DEF StopReads, StopAsks, StopNotes, rows
<1>10. ASSUME NEW r \in Runs,
              \/ BoxStep(r) \/ Dies(r) \/ Vanishes(r)
              \/ Answer(r) \/ FallsSilent(r) \/ SweepReads(r) \/ ControlStep(r)
       PROVE  UNCHANGED <<item, disp>>
  BY <1>10 DEF BoxStep, Accepts, Refuses, Begins, Asks, AskOver, Finishes, PushesEnd, Pauses,
               SaysClosed, EndsUnheard, Dies, Vanishes, Answer, FallsSilent, SweepReads,
               ControlStep, AsksPause, ResumesHere, EndsHere, CancelsRun, rows, calls
<1>11. ASSUME Upsert \/ SweepCloses \/ UNCHANGED vars
       PROVE  UNCHANGED <<item, disp>>
  BY <1>11 DEF Upsert, SweepCloses, vars, rows, calls
<1>12. QED
  BY <1>1, <1>2, <1>3, <1>4, <1>5, <1>6, <1>7, <1>8, <1>9, <1>10, <1>11
     DEF Next, DispatchStep, StopStep

LEMMA OpenStaysWatched ==
  ASSUME TypeInv, Undispatched, OpenIsWatched, [Next]_vars
  PROVE  OpenIsWatched'
<1> USE DEF TypeInv, TypeOK
<1>1. CASE UNCHANGED <<disp, try, post>> /\ open' \subseteq open
  BY <1>1 DEF OpenIsWatched, Sending
<1>2. ASSUME NEW i \in Items, Post(i)
      PROVE  OpenIsWatched'
  <2>1. Sending(i) = <<i, try[i]>> /\ Sending(i) \in Runs
    BY SendingIsRun DEF Sending
  <2>2. /\ disp' = [disp EXCEPT ![i] = "posted"] /\ try' = try
        /\ post' = [post EXCEPT ![Sending(i)] = "sent"] /\ open' = open \cup {Sending(i)}
        /\ disp[i] = "send"
    BY <1>2 DEF Post, Goto
  <2>3. ASSUME NEW r \in open', r # Sending(i)
        PROVE  (disp'[r[1]] = "posted" /\ <<r[1], try'[r[1]]>> = r) \/ post'[r] = "accepted"
    BY <2>1, <2>2, <2>3, RunFacts DEF OpenIsWatched, Sending, CallsOK, RemoteOK, BusOK
  <2>4. disp'[i] = "posted" /\ try'[i] = try[i]
    BY <2>2 DEF CallsOK
  <2>5. QED
    BY <2>1, <2>3, <2>4 DEF OpenIsWatched, Sending
<1>3. ASSUME NEW i \in Items, ReadsAccepted(i)
      PROVE  OpenIsWatched'
  <2>1. /\ disp' = [disp EXCEPT ![i] = "mark"] /\ UNCHANGED <<try, open, post>>
        /\ post[Sending(i)] = "accepted"
    BY <1>3 DEF ReadsAccepted, Goto, bus, remote
  <2>2. QED
    BY <2>1, RunFacts DEF OpenIsWatched, Sending, CallsOK, BusOK
<1>4. ASSUME NEW i \in Items, ReadsRefused(i) \/ GivesUp(i)
      PROVE  OpenIsWatched'
  <2>1. /\ \E pc \in {"retry", "fail"} : disp' = [disp EXCEPT ![i] = pc]
        /\ UNCHANGED <<try, post>> /\ open' = open \ {Sending(i)}
    BY <1>4 DEF ReadsRefused, GivesUp, RetryOrFail, Goto, Close, remote
  <2>2. QED
    BY <2>1, RunFacts DEF OpenIsWatched, Sending, CallsOK, BusOK
<1>5. ASSUME NEW i \in Items, NotSent(i) \/ Retry(i) \/ Fail(i) \/ MarkRunning(i) \/ Dispatch(i)
      PROVE  OpenIsWatched'
  <2>1. /\ disp[i] # "posted"
        /\ \A j \in Items \ {i} : disp'[j] = disp[j] /\ try'[j] = try[j]
        /\ UNCHANGED <<open, post>>
    BY <1>5 DEF NotSent, Retry, Fail, MarkRunning, Dispatch, Goto, CallsOK, Undispatched,
                bus, remote
  <2>2. QED
    BY <2>1, RunFacts DEF OpenIsWatched, Sending, BusOK
<1>6. ASSUME NEW r \in Runs, Accepts(r) \/ Refuses(r)
      PROVE  OpenIsWatched'
  <2>1. /\ \E s : post' = [post EXCEPT ![r] = s]
        /\ post[r] = "sent" /\ UNCHANGED <<disp, try, open>>
    BY <1>6 DEF Accepts, Refuses, calls, bus
  <2>2. QED
    BY <2>1 DEF OpenIsWatched, Sending, RemoteOK, BusOK
<1>7. ASSUME Restart
      PROVE  OpenIsWatched'
  BY <1>7 DEF Restart, OpenIsWatched
<1>8. ASSUME NEW i \in Items, StopReads(i) \/ StopStep(i)
      PROVE  UNCHANGED <<disp, try, post>> /\ open' \subseteq open
  BY <1>8 DEF StopReads, StopStep, StopCloses, StopAsks, StopNotes, bus, remote
<1>9. ASSUME NEW r \in Runs,
             \/ Begins(r) \/ Asks(r) \/ AskOver(r) \/ Finishes(r) \/ PushesEnd(r) \/ Pauses(r)
             \/ SaysClosed(r) \/ EndsUnheard(r) \/ Dies(r) \/ Vanishes(r)
      PROVE  UNCHANGED <<disp, try, post>> /\ open' \subseteq open
  BY <1>9 DEF Begins, Asks, AskOver, Finishes, PushesEnd, Pauses, SaysClosed, EndsUnheard, Dies,
              Vanishes, Close, calls, bus, remote
<1>10. ASSUME NEW r \in Runs, Answer(r) \/ FallsSilent(r) \/ SweepReads(r) \/ ControlStep(r)
       PROVE  UNCHANGED <<disp, try, post>> /\ open' \subseteq open
  BY <1>10 DEF Answer, FallsSilent, SweepReads, ControlStep, AsksPause, ResumesHere, EndsHere,
               CancelsRun, calls, bus, remote
<1>11. ASSUME Upsert \/ OnRunEnd \/ SweepCloses \/ (\E m \in marks : Mark(m)) \/ UNCHANGED vars
       PROVE  UNCHANGED <<disp, try, post>> /\ open' \subseteq open
  BY <1>11 DEF Upsert, OnRunEnd, SweepCloses, Abandons, Mark, Close, vars, calls, bus, remote
<1>12. QED
  BY <1>1, <1>2, <1>3, <1>4, <1>5, <1>6, <1>7, <1>8, <1>9, <1>10, <1>11
     DEF Next, DispatchStep, BoxStep

\* A run whose token is good is one whose POST is awaited or one the container
\* accepted: whichever way a dispatch ends, it closes what it opened
\* (deployDispatch.ts:189-237).
THEOREM NoTokenWithoutRun == Spec => []OpenIsWatched
<1>1. Init => OpenIsWatched /\ Undispatched
  BY DEF Init, OpenIsWatched, Undispatched
<1>2. /\ TypeInv /\ Undispatched /\ OpenIsWatched /\ [Next]_vars
      => OpenIsWatched' /\ Undispatched'
  BY OpenStaysWatched, NoneStays
<1>3. QED
  BY <1>1, <1>2, TypeInvariant, PTL DEF Spec

-----------------------------------------------------------------------------
(* One copy at a time *)

\* Why a later attempt does not meet an earlier one: it is not sent before the
\* dispatch gets to it, which is not before it has read that the earlier one was
\* not taken, or stopped waiting to be told.
NotSentAhead ==
  \A i \in Items, n \in 1..MaxAttempts :
    post[<<i, n>>] # "no" => n < try[i] \/ (n = try[i] /\ disp[i] \notin {"no", "send"})
LeftBehind ==
  \A i \in Items, m \in 1..MaxAttempts :
    m < try[i] \/ (m = try[i] /\ disp[i] \in {"retry", "fail"})
      => post[<<i, m>>] \in {"no", "busy", "refused"} \/ <<i, m>> \in gaveUp
ExecutedIsAccepted == \A r \in Up : post[r] = "accepted"
OneCopyInv == Undispatched /\ NotSentAhead /\ LeftBehind /\ ExecutedIsAccepted

LEMMA OneCopyInvImplies ==
  ASSUME TypeOK, OneCopyInv
  PROVE  OneCopyAtATime
<1> SUFFICES ASSUME NEW i \in Items, NEW m \in 1..MaxAttempts, NEW n \in 1..MaxAttempts,
                    m < n, <<i, m>> \in Up, post[<<i, n>>] # "no"
             PROVE  <<i, m>> \in gaveUp
  BY DEF OneCopyAtATime
<1>1. m < try[i]
  BY DEF OneCopyInv, NotSentAhead, TypeOK, CallsOK
<1>2. post[<<i, m>>] = "accepted"
  BY DEF OneCopyInv, ExecutedIsAccepted
<1>3. QED
  BY <1>1, <1>2 DEF OneCopyInv, LeftBehind

LEMMA OneCopyStep ==
  ASSUME TypeInv, OneCopyInv, [Next]_vars
  PROVE  OneCopyInv'
<1> USE DEF TypeInv, TypeOK, OneCopyInv
<1>0. Undispatched'
  BY NoneStays
<1>1. CASE UNCHANGED <<disp, try, gaveUp, post>> /\ Up' \subseteq Up
  BY <1>0, <1>1 DEF NotSentAhead, LeftBehind, ExecutedIsAccepted
<1>2. ASSUME NEW i \in Items, Post(i)
      PROVE  OneCopyInv'
  <2>1. Sending(i) = <<i, try[i]>> /\ Sending(i) \in Runs /\ post[Sending(i)] = "no"
    BY <1>2, SendingIsRun DEF Post, Sending, NotSentAhead, CallsOK
  <2>2. /\ disp' = [disp EXCEPT ![i] = "posted"] /\ UNCHANGED <<try, gaveUp, box>>
        /\ post' = [post EXCEPT ![Sending(i)] = "sent"]
    BY <1>2 DEF Post, Goto
  <2>3. NotSentAhead'
    BY <2>1, <2>2, RunFacts DEF NotSentAhead, CallsOK, RemoteOK
  <2>4. LeftBehind'
    BY <2>1, <2>2, RunFacts DEF LeftBehind, CallsOK, RemoteOK
  <2>5. ExecutedIsAccepted'
    BY <2>1, <2>2 DEF ExecutedIsAccepted, Up, RemoteOK
  <2>6. QED
    BY <1>0, <2>3, <2>4, <2>5
<1>3. ASSUME NEW i \in Items, ReadsRefused(i) \/ GivesUp(i)
      PROVE  OneCopyInv'
  <2>1. /\ disp[i] = "posted" /\ \E pc \in {"retry", "fail"} : disp' = [disp EXCEPT ![i] = pc]
        /\ UNCHANGED <<try, post, box>> /\ gaveUp \subseteq gaveUp'
        /\ post[Sending(i)] \in {"busy", "refused"} \/ Sending(i) \in gaveUp'
    BY <1>3 DEF ReadsRefused, GivesUp, RetryOrFail, Goto, remote
  <2>2. NotSentAhead'
    BY <2>1 DEF NotSentAhead, CallsOK
  <2>3. LeftBehind'
    BY <2>1 DEF LeftBehind, CallsOK, Sending
  <2>4. ExecutedIsAccepted'
    BY <2>1 DEF ExecutedIsAccepted, Up
  <2>5. QED
    BY <1>0, <2>2, <2>3, <2>4
<1>4. ASSUME NEW i \in Items, Retry(i)
      PROVE  OneCopyInv'
  <2>1. /\ disp[i] = "retry" /\ disp' = [disp EXCEPT ![i] = "send"]
        /\ try' = [try EXCEPT ![i] = @ + 1] /\ UNCHANGED <<gaveUp, post, box>>
    BY <1>4 DEF Retry, Goto, remote
  <2>2. NotSentAhead'
    BY <2>1 DEF NotSentAhead, CallsOK
  <2>3. LeftBehind'
    BY <2>1 DEF LeftBehind, CallsOK
  <2>4. ExecutedIsAccepted'
    BY <2>1 DEF ExecutedIsAccepted, Up
  <2>5. QED
    BY <1>0, <2>2, <2>3, <2>4
<1>5. ASSUME NEW i \in Items,
             Dispatch(i) \/ NotSent(i) \/ ReadsAccepted(i) \/ Fail(i) \/ MarkRunning(i)
      PROVE  OneCopyInv'
  <2>1. /\ UNCHANGED <<try, gaveUp, post, box>>
        /\ \/ disp[i] = "no" /\ disp' = [disp EXCEPT ![i] = "send"]
           \/ disp[i] = "send" /\ disp' = [disp EXCEPT ![i] = "fail"]
           \/ disp[i] \in {"posted", "fail", "mark"}
              /\ \E pc \in {"mark", "done"} : disp' = [disp EXCEPT ![i] = pc]
    BY <1>5 DEF Dispatch, NotSent, ReadsAccepted, Fail, MarkRunning, Goto, Undispatched, remote
  <2>2. NotSentAhead'
    BY <2>1 DEF NotSentAhead, CallsOK
  <2>3. LeftBehind'
    BY <2>1 DEF LeftBehind, NotSentAhead, CallsOK
  <2>4. ExecutedIsAccepted'
    BY <2>1 DEF ExecutedIsAccepted, Up
  <2>5. QED
    BY <1>0, <2>2, <2>3, <2>4
<1>6. ASSUME NEW r \in Runs, Accepts(r) \/ Refuses(r)
      PROVE  OneCopyInv'
  <2>1. /\ UNCHANGED <<disp, try, gaveUp>> /\ post[r] = "sent"
        /\ \/ post' = [post EXCEPT ![r] = "accepted"] /\ box' = [box EXCEPT ![r] = "booting"]
           \/ box' = box /\ \E s \in {"busy", "refused"} : post' = [post EXCEPT ![r] = s]
    BY <1>6 DEF Accepts, Refuses, Becomes, calls
  <2>2. \A q \in Runs : post'[q] = post[q] \/ post[q] = "sent"
    BY <2>1 DEF RemoteOK
  <2>3. NotSentAhead'
    BY <2>2, <2>1, RunFacts DEF NotSentAhead
  <2>4. LeftBehind'
    BY <2>2, <2>1, RunFacts DEF LeftBehind
  <2>5. ExecutedIsAccepted'
    BY <2>1 DEF ExecutedIsAccepted, Up, RemoteOK
  <2>6. QED
    BY <1>0, <2>3, <2>4, <2>5
<1>7. ASSUME Restart
      PROVE  OneCopyInv'
  <2>1. /\ UNCHANGED <<try, gaveUp, post, box>>
        /\ disp' = [j \in Items |-> IF disp[j] = "no" THEN "no" ELSE "done"]
    BY <1>7, Zenon DEF Restart, remote
  <2>2. NotSentAhead'
    BY <2>1 DEF NotSentAhead, CallsOK
  <2>3. LeftBehind'
    BY <2>1 DEF LeftBehind, CallsOK
  <2>4. ExecutedIsAccepted'
    BY <2>1 DEF ExecutedIsAccepted, Up
  <2>5. QED
    BY <1>0, <2>2, <2>3, <2>4
<1>8. ASSUME NEW i \in Items, StopReads(i) \/ StopStep(i)
      PROVE  UNCHANGED <<disp, try, gaveUp, post>> /\ Up' \subseteq Up
  BY <1>8 DEF StopReads, StopStep, StopCloses, StopAsks, StopNotes, remote, Up
<1>9. ASSUME NEW r \in Runs,
             \/ Begins(r) \/ Asks(r) \/ AskOver(r) \/ Finishes(r) \/ PushesEnd(r) \/ Pauses(r)
             \/ SaysClosed(r) \/ EndsUnheard(r) \/ Dies(r) \/ Vanishes(r)
      PROVE  UNCHANGED <<disp, try, gaveUp, post>> /\ Up' \subseteq Up
  <2>1. UNCHANGED <<disp, try, gaveUp, post>>
    BY <1>9 DEF Begins, Asks, AskOver, Finishes, PushesEnd, Pauses, SaysClosed,
                EndsUnheard, Dies, Vanishes, calls
  <2>2. r \in Up /\ \E s : box' = [box EXCEPT ![r] = s]
    BY <1>9 DEF Begins, Asks, AskOver, Finishes, PushesEnd, Pauses, SaysClosed,
                EndsUnheard, Dies, Vanishes, Becomes, Up
  <2>3. QED
    BY <2>1, <2>2 DEF Up, RemoteOK
<1>10. ASSUME NEW r \in Runs, Answer(r) \/ FallsSilent(r) \/ SweepReads(r) \/ ControlStep(r)
       PROVE  UNCHANGED <<disp, try, gaveUp, post>> /\ Up' \subseteq Up
  BY <1>10 DEF Answer, FallsSilent, SweepReads, ControlStep, AsksPause, ResumesHere, EndsHere,
               CancelsRun, calls, remote, Up
<1>11. ASSUME Upsert \/ OnRunEnd \/ SweepCloses \/ (\E m \in marks : Mark(m)) \/ UNCHANGED vars
       PROVE  UNCHANGED <<disp, try, gaveUp, post>> /\ Up' \subseteq Up
  BY <1>11 DEF Upsert, OnRunEnd, SweepCloses, Mark, vars, calls, remote, Up
<1>12. QED
  BY <1>1, <1>2, <1>3, <1>4, <1>5, <1>6, <1>7, <1>8, <1>9, <1>10, <1>11
     DEF Next, DispatchStep, BoxStep

\* No two attempts of a job are executed at once unless the POST of the earlier
\* was given up: every other way to another attempt is by an answer that says the
\* container did not take it (work/dispatcher.ts:346-393).
THEOREM NoSecondCopy == Spec => []OneCopyAtATime
<1>1. Init => OneCopyInv
  BY DEF Init, OneCopyInv, Undispatched, NotSentAhead, LeftBehind, ExecutedIsAccepted, Up, Runs
<1>2. TypeInv /\ OneCopyInv /\ [Next]_vars => OneCopyInv'
  BY OneCopyStep
<1>3. TypeInv /\ OneCopyInv => OneCopyAtATime
  BY OneCopyInvImplies DEF TypeInv
<1>4. QED
  BY <1>1, <1>2, <1>3, TypeInvariant, PTL DEF Spec

-----------------------------------------------------------------------------
(* Endings are true *)

\* A run_end that says "completed" is of a run that completed, from the process
\* through the chain to the row; a stop is noted only of a job somebody stopped.
ReportsAreTrue ==
  /\ \A r \in Runs : box[r] = "completed" => r \in completed
  /\ \A k \in 1..Len(chain) : chain[k][2] = "completed" => chain[k][1] \in completed
StopsAreAsked ==
  \A r \in Runs : r \in stops \cup noted => stopper[r[1]] # "no"
EndingInv == ReportsAreTrue /\ StopsAreAsked /\ EndingIsTrue

\* What is pushed on the chain is true if what is said is.
LEMMA PushIsTrue ==
  ASSUME TypeOK, ReportsAreTrue, NEW r \in Runs, NEW what \in Said,
         \/ chain' = Append(chain, <<r, what>>) \/ chain' = chain,
         what = "completed" => r \in completed, completed \subseteq completed'
  PROVE  \A k \in 1..Len(chain') : chain'[k][2] = "completed" => chain'[k][1] \in completed'
<1> USE DEF ReportsAreTrue
<1>1. CASE chain' = chain
  BY <1>1
<1>2. CASE chain' = Append(chain, <<r, what>>)
  <2>1. <<r, what>> \in Runs \X Said
    OBVIOUS
  <2>2. /\ Len(chain') = Len(chain) + 1 /\ Len(chain) \in Nat
        /\ \A k \in 1..Len(chain) : chain'[k] = chain[k]
        /\ chain'[Len(chain) + 1] = <<r, what>>
    BY <1>2, <2>1, AppendProperties, LenProperties DEF TypeOK, IngestOK
  <2>3. QED
    BY <2>2
<1>3. QED
  BY <1>1, <1>2

\* An ending that is true, and a step that leaves what makes it so.
LEMMA FinishIsTrue ==
  ASSUME TypeOK, EndingIsTrue, NEW i \in Items,
         NEW status \in {"succeeded", "failed", "cancelled"}, NEW why,
         Finish(i, status, why), UNCHANGED <<completed, stopper>>,
         status = "succeeded" => \E n \in 1..MaxAttempts : <<i, n>> \in completed,
         status = "cancelled" => stopper[i] # "no"
  PROVE  EndingIsTrue'
  BY DEF TypeOK, ItemsOK, EndingIsTrue, Finish

LEMMA ReportsStayTrue ==
  ASSUME TypeInv, ReportsAreTrue, [Next]_vars
  PROVE  ReportsAreTrue'
<1> USE DEF TypeInv, TypeOK
<1>1. CASE UNCHANGED <<chain, completed, box>>
  BY <1>1 DEF ReportsAreTrue
<1>2. ASSUME NEW r \in Runs,
             \/ Accepts(r) \/ Asks(r) \/ AskOver(r) \/ Finishes(r) \/ SaysClosed(r)
             \/ Vanishes(r) \/ EndsUnheard(r)
      PROVE  ReportsAreTrue'
  <2>1. /\ chain' = chain /\ completed \subseteq completed'
        /\ \E s : box' = [box EXCEPT ![r] = s] /\ (s = "completed" => r \in completed')
    BY <1>2 DEF Accepts, Asks, AskOver, Finishes, SaysClosed, Vanishes, EndsUnheard, Becomes, ingest
  <2>2. QED
    BY <2>1 DEF ReportsAreTrue, RemoteOK
<1>3. ASSUME NEW r \in Runs, Begins(r) \/ PushesEnd(r) \/ Dies(r)
      PROVE  ReportsAreTrue'
  <2>1. PICK what \in {"start", "completed", "error"} :
          Trace(r, what) /\ (what = "completed" => box[r] = "completed")
    BY <1>3 DEF Begins, PushesEnd, Dies
  <2>2. completed' = completed /\ \E s \in {"working", "closing", "gone"} : box' = [box EXCEPT ![r] = s]
    BY <1>3 DEF Begins, PushesEnd, Dies, Becomes
  <2>3. \A k \in 1..Len(chain') : chain'[k][2] = "completed" => chain'[k][1] \in completed'
    BY <2>1, <2>2, PushIsTrue DEF Trace, ReportsAreTrue
  <2>4. QED
    BY <2>2, <2>3 DEF ReportsAreTrue, RemoteOK
<1>4. ASSUME Upsert \/ OnRunEnd
      PROVE  ReportsAreTrue'
  <2>1. /\ UNCHANGED <<completed, box>> /\ chain # <<>>
        /\ chain' = chain \/ chain' = Tail(chain)
    BY <1>4 DEF Upsert, OnRunEnd, HeadIsEnd, remote
  <2>2. CASE chain' = Tail(chain)
    <3>1. /\ Len(chain') = Len(chain) - 1 /\ Len(chain) \in Nat
          /\ \A k \in 1..Len(chain') : chain'[k] = chain[k + 1]
      BY <2>1, <2>2, HeadTailProperties, LenProperties DEF IngestOK
    <3>2. QED
      BY <2>1, <3>1 DEF ReportsAreTrue
  <2>3. QED
    BY <2>1, <2>2 DEF ReportsAreTrue
<1>5. ASSUME NEW r \in Runs, Pauses(r) \/ EndsHere(r)
       PROVE  ReportsAreTrue'
  <2>1. /\ completed' = completed
        /\ \E what \in {"paused", "error"} :
             chain' = Append(chain, <<r, what>>) \/ chain' = chain
        /\ box' = box \/ box' = [box EXCEPT ![r] = "paused"]
    BY <1>5 DEF Pauses, EndsHere, Becomes, remote
  <2>2. \A k \in 1..Len(chain') : chain'[k][2] = "completed" => chain'[k][1] \in completed'
    BY <2>1, PushIsTrue DEF ReportsAreTrue, Said
  <2>3. QED
    BY <2>1, <2>2 DEF ReportsAreTrue, RemoteOK
<1>6. ASSUME SweepCloses
      PROVE  ReportsAreTrue'
  <2>1. /\ UNCHANGED <<completed, box>> /\ sweeper[1] \in Runs
        /\ chain' = Append(chain, <<sweeper[1], "silent">>) \/ chain' = chain
    BY <1>6, RunFacts DEF SweepCloses, Abandons, remote
  <2>2. QED
    BY <2>1, PushIsTrue DEF ReportsAreTrue
<1>7. ASSUME Restart
      PROVE  ReportsAreTrue'
  <2>1. chain' = <<>> /\ UNCHANGED <<completed, box>>
    BY <1>7, Zenon DEF Restart, remote
  <2>2. QED
    BY <2>1 DEF ReportsAreTrue
<1>8. ASSUME NEW i \in Items, Dispatch(i) \/ DispatchStep(i) \/ StopReads(i) \/ StopStep(i)
      PROVE  UNCHANGED <<chain, completed, box>>
  BY <1>8 DEF Dispatch, DispatchStep, NotSent, Post, ReadsAccepted, ReadsRefused, GivesUp, Retry,
              Fail, MarkRunning, StopReads, StopStep, StopCloses, StopAsks, StopNotes,
              ingest, remote
<1>9. ASSUME NEW r \in Runs, \/ Refuses(r) \/ Answer(r) \/ FallsSilent(r) \/ SweepReads(r)
                            \/ AsksPause(r) \/ ResumesHere(r) \/ CancelsRun(r)
      PROVE  UNCHANGED <<chain, completed, box>>
  BY <1>9 DEF Refuses, Answer, FallsSilent, SweepReads, AsksPause, ResumesHere, CancelsRun,
              ingest, remote
<1>10. ASSUME (\E m \in marks : Mark(m)) \/ UNCHANGED vars
      PROVE  UNCHANGED <<chain, completed, box>>
  BY <1>10 DEF Mark, vars, ingest, remote
<1>11. QED
  BY <1>1, <1>2, <1>3, <1>4, <1>5, <1>6, <1>7, <1>8, <1>9, <1>10 DEF Next, BoxStep, ControlStep

LEMMA StopsStayAsked ==
  ASSUME TypeInv, StopsAreAsked, [Next]_vars
  PROVE  StopsAreAsked'
<1> USE DEF TypeInv, TypeOK
<1>1. CASE stopper' = stopper /\ stops' = stops /\ noted' \subseteq noted \cup stops
  BY <1>1 DEF StopsAreAsked
<1>2. ASSUME NEW i \in Items, StopReads(i) \/ StopStep(i)
      PROVE  StopsAreAsked'
  <2>1. /\ noted' = noted /\ \E pc \in {"close", "ask", "note", "done"} :
                                stopper' = [stopper EXCEPT ![i] = pc]
        /\ stops' \subseteq stops \cup {RunOf(i)}
    BY <1>2 DEF StopReads, StopStep, StopCloses, StopAsks, StopNotes, StopNext, ingest, remote
  <2>2. RunOf(i)[1] = i
    BY DEF RunOf
  <2>3. \A r \in stops \cup noted : r[1] \in Items
    BY RunFacts DEF RemoteOK, IngestOK
  <2>4. QED
    BY <2>1, <2>2, <2>3, SendingIsRun DEF StopsAreAsked, CallsOK
<1>3. ASSUME NEW r \in Runs, BoxStep(r) \/ Dies(r) \/ Vanishes(r)
      PROVE  stopper' = stopper /\ stops' = stops /\ noted' \subseteq noted \cup stops
  BY <1>3 DEF BoxStep, Accepts, Refuses, Begins, Asks, AskOver, Finishes, PushesEnd, Pauses,
              SaysClosed, EndsUnheard, Dies, Vanishes, Notes, calls, ingest, remote
<1>4. ASSUME NEW i \in Items, Dispatch(i) \/ DispatchStep(i)
      PROVE  stopper' = stopper /\ stops' = stops /\ noted' \subseteq noted \cup stops
  BY <1>4 DEF Dispatch, DispatchStep, NotSent, Post, ReadsAccepted, ReadsRefused, GivesUp, Retry,
              Fail, MarkRunning, ingest, remote
<1>5. ASSUME NEW r \in Runs, Answer(r) \/ FallsSilent(r) \/ SweepReads(r) \/ ControlStep(r)
      PROVE  stopper' = stopper /\ stops' = stops /\ noted' \subseteq noted \cup stops
  BY <1>5 DEF Answer, FallsSilent, SweepReads, ControlStep, AsksPause, ResumesHere, EndsHere,
              CancelsRun, calls, ingest, remote
<1>6. ASSUME Upsert \/ OnRunEnd \/ SweepCloses \/ (\E m \in marks : Mark(m)) \/ UNCHANGED vars
      PROVE  stopper' = stopper /\ stops' = stops /\ noted' \subseteq noted \cup stops
  BY <1>6 DEF Upsert, OnRunEnd, SweepCloses, Mark, vars, calls, ingest, remote
<1>7. ASSUME Restart
      PROVE  StopsAreAsked'
  <2>1. /\ noted' = {} /\ stops' = stops
        /\ stopper' = [j \in Items |-> IF stopper[j] = "no" THEN "no" ELSE "done"]
    BY <1>7, Zenon DEF Restart, remote
  <2>2. QED
    BY <2>1, RunFacts DEF StopsAreAsked, RemoteOK
<1>8. QED
  BY <1>1, <1>2, <1>3, <1>4, <1>5, <1>6, <1>7 DEF Next

\* A step that gives no job a new ending takes nothing away from the old ones.
LEMMA NoNewEnding ==
  ASSUME TypeInv, EndingIsTrue, completed \subseteq completed',
         \A i \in Items : stopper[i] # "no" => stopper'[i] # "no",
         \A i \in Items : \/ item'[i].status = item[i].status
                         \/ item'[i].status \notin {"succeeded", "cancelled"}
  PROVE  EndingIsTrue'
  BY DEF EndingIsTrue

LEMMA EndingStaysTrue ==
  ASSUME TypeInv, EndingInv, [Next]_vars
  PROVE  EndingIsTrue'
<1> USE DEF TypeInv, TypeOK, EndingInv
<1>1. ASSUME NEW i \in Items, Dispatch(i) \/ Retry(i) \/ MarkRunning(i)
      PROVE  EndingIsTrue'
  <2>1. UNCHANGED <<completed, stopper>>
    BY <1>1 DEF Dispatch, Retry, MarkRunning, remote
  <2>2. \A j \in Items : \/ item'[j].status = item[j].status
                        \/ item'[j].status \notin {"succeeded", "cancelled"}
    <3>1. CASE Dispatch(i)
      BY <3>1 DEF Dispatch, ItemsOK
    <3>2. CASE Retry(i)
      <4>1. \E n : item' = [item EXCEPT ![i].try = n]
        BY <3>2 DEF Retry
      <4>2. QED
        BY <4>1 DEF ItemsOK
    <3>3. CASE MarkRunning(i)
      BY <3>3 DEF MarkRunning, Moved, ItemsOK
    <3>4. QED
      BY <1>1, <3>1, <3>2, <3>3
  <2>3. QED
    BY <2>1, <2>2, NoNewEnding
<1>2. ASSUME NEW i \in Items, Fail(i)
      PROVE  EndingIsTrue'
  BY <1>2, FinishIsTrue DEF Fail, remote
<1>3. ASSUME NEW i \in Items, StopCloses(i)
      PROVE  EndingIsTrue'
  <2>1. /\ Finish(i, "cancelled", "none") /\ completed' = completed
        /\ stopper' = [stopper EXCEPT ![i] = "done"] /\ stopper[i] = "close"
    BY <1>3 DEF StopCloses, StopNext, remote
  <2>2. QED
    BY <2>1 DEF ItemsOK, CallsOK, EndingIsTrue, Finish
<1>4. ASSUME OnRunEnd
      PROVE  EndingIsTrue'
  <2>1. /\ Head1 \in Runs /\ Head1[1] \in Items /\ Head1[2] \in 1..MaxAttempts
        /\ Head1 = <<Head1[1], Head1[2]>>
    BY <1>4, HeadType, RunFacts DEF OnRunEnd, HeadIsEnd
  <2>2. What = "completed" => Head1 \in completed
    <3>1. Len(chain) >= 1 /\ Head(chain) = chain[1]
      BY <1>4, HeadTailProperties, LenProperties DEF OnRunEnd, HeadIsEnd, IngestOK
    <3>2. QED
      BY <3>1 DEF ReportsAreTrue, What, Head1, IngestOK
  <2>3. Head1 \in noted => stopper[Head1[1]] # "no"
    BY <2>1 DEF StopsAreAsked
  <2>4. UNCHANGED <<completed, stopper>>
    BY <1>4 DEF OnRunEnd, calls, remote
  <2>5. PICK status \in {"succeeded", "failed", "cancelled"} : \E why :
          /\ Finish(Head1[1], status, why)
          /\ status = "succeeded" => What = "completed"
          /\ status = "cancelled" => Head1 \in noted
    BY <1>4 DEF OnRunEnd, Ended
  <2>6. PICK why : Finish(Head1[1], status, why)
    BY <2>5
  <2>7. status = "succeeded" => \E n \in 1..MaxAttempts : <<Head1[1], n>> \in completed
    BY <2>1, <2>2, <2>5
  <2>8. QED
    BY <2>1, <2>3, <2>4, <2>5, <2>6, <2>7, FinishIsTrue
<1>5. ASSUME NEW m \in marks, Mark(m)
      PROVE  EndingIsTrue'
  <2>1. m[1][1] \in Items /\ UNCHANGED <<completed, stopper>>
    BY <1>5, RunFacts DEF BusOK, Mark, calls, remote
  <2>2. \A j \in Items : \/ item'[j].status = item[j].status
                        \/ item'[j].status \notin {"succeeded", "cancelled"}
    BY <1>5, <2>1 DEF Mark, Moved, ItemsOK
  <2>3. QED
    BY <2>1, <2>2, NoNewEnding
<1>6. ASSUME Restart
      PROVE  EndingIsTrue'
  <2>1. /\ completed' = completed
        /\ stopper' = [j \in Items |-> IF stopper[j] = "no" THEN "no" ELSE "done"]
    BY <1>6, Zenon DEF Restart, remote
  <2>2. \A j \in Items : \/ item'[j].status = item[j].status
                        \/ item'[j].status \notin {"succeeded", "cancelled"}
    <3>1. TAKE j \in Items
    <3>2. \/ item'[j] = item[j]
          \/ item'[j] = [item[j] EXCEPT !.status = "failed", !.why = "silent"]
      BY <1>6 DEF Restart
    <3>3. QED
      BY <3>2 DEF ItemsOK
  <2>3. QED
    BY <2>1, <2>2, NoNewEnding
<1>7. ASSUME NEW i \in Items, \/ NotSent(i) \/ Post(i) \/ ReadsAccepted(i) \/ ReadsRefused(i)
                             \/ GivesUp(i) \/ StopReads(i) \/ StopAsks(i) \/ StopNotes(i)
      PROVE  EndingIsTrue'
  <2>1. /\ UNCHANGED <<item, completed>>
        /\ stopper' = stopper \/ \E pc \in {"close", "ask", "note", "done"} :
                                   stopper' = [stopper EXCEPT ![i] = pc]
    BY <1>7 DEF NotSent, Post, ReadsAccepted, ReadsRefused, GivesUp, StopReads, StopAsks,
                StopNotes, StopNext, rows, remote
  <2>2. QED
    BY <2>1, NoNewEnding DEF CallsOK
<1>8. ASSUME NEW r \in Runs,
             \/ BoxStep(r) \/ Dies(r) \/ Vanishes(r)
             \/ Answer(r) \/ FallsSilent(r) \/ SweepReads(r) \/ ControlStep(r)
      PROVE  EndingIsTrue'
  <2>1. UNCHANGED <<item, stopper>> /\ completed \subseteq completed'
    BY <1>8 DEF BoxStep, Accepts, Refuses, Begins, Asks, AskOver, Finishes, PushesEnd, Pauses,
                SaysClosed, EndsUnheard, Dies, Vanishes, Answer, FallsSilent, SweepReads,
                ControlStep, AsksPause, ResumesHere, EndsHere, CancelsRun, rows, calls, remote
  <2>2. QED
    BY <2>1, NoNewEnding
<1>9. ASSUME Upsert \/ SweepCloses \/ UNCHANGED vars
      PROVE  EndingIsTrue'
  <2>1. UNCHANGED <<item, stopper, completed>>
    BY <1>9 DEF Upsert, SweepCloses, vars, rows, calls, remote
  <2>2. QED
    BY <2>1, NoNewEnding
<1>10. QED
  BY <1>1, <1>2, <1>3, <1>4, <1>5, <1>6, <1>7, <1>8, <1>9 DEF Next, DispatchStep, StopStep

\* A job that reads succeeded had a run that completed, and one that reads
\* cancelled was stopped by somebody, however late, twice or never the trace of a
\* run arrives (work/lifecycle.ts:76-130).
THEOREM EndingsAreTrue == Spec => []EndingIsTrue
<1>1. Init => EndingInv
  BY DEF Init, EndingInv, ReportsAreTrue, StopsAreAsked, EndingIsTrue
<1>2. TypeInv /\ EndingInv /\ [Next]_vars => EndingInv'
  BY ReportsStayTrue, StopsStayAsked, EndingStaysTrue DEF EndingInv
<1>3. EndingInv => EndingIsTrue
  BY DEF EndingInv
<1>4. QED
  BY <1>1, <1>2, <1>3, TypeInvariant, PTL DEF Spec

=============================================================================
