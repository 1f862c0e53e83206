------------------------------ MODULE WorkItems ------------------------------
(***************************************************************************)
(* Jobs given to a deployed agent (work/dispatcher.ts, workStore.ts,       *)
(* lifecycle.ts, actions.ts), the runs they are tried as (deployDispatch,  *)
(* deployRuns, deployReconcile) and the container that executes them       *)
(* (serve.py and the runner in it).                                        *)
(*                                                                         *)
(* The server and the container share nothing but HTTP requests.  A job's  *)
(* row is written by its dispatch, by the ingest chain, by confirmations,  *)
(* by whoever presses Stop, and at boot; every write is a guarded UPDATE,  *)
(* and a step is what happens between two awaits.  The run of a job is a   *)
(* run like any other besides: people may pause, resume and cancel it.     *)
(***************************************************************************)
EXTENDS Naturals, Sequences, FiniteSets

CONSTANTS Items,
          MaxAttempts,   \* MAX_DISPATCH_ATTEMPTS
          Cap,           \* WORK_CONCURRENCY
          MaxRestarts,   \* how often the server may restart (bound)
          Worlds         \* what may happen around the server in one behaviour (bound)

Happenings == {"ask", "stop", "pause", "cancel", "answer", "control", "trace", "die",
               "vanish", "restart"}

ASSUME BoundsAssumption == MaxAttempts \in Nat \ {0} /\ Cap \in Nat /\ MaxRestarts \in Nat
ASSUME WorldsAssumption == Worlds \subseteq SUBSET Happenings

Runs == Items \X (1..MaxAttempts)    \* a fresh run id per attempt
NoRun == <<>>

VARIABLES
  item,     \* work_items: its status, the attempt run_id names, its failure_kind
  disp,     \* dispatch(): "no", "send", "posted", "retry", "fail", "mark" or "done"
  try,      \* the attempt dispatch() is at
  gaveUp,   \* attempts whose POST it stopped waiting for
  stopper,  \* WorkActions.cancel(): "no", "close", "ask", "note" or "done"
  open,     \* DeployRuns: runs on the bus, with a token that is good
  silent,   \* those not heard from for the silence ceiling
  post,     \* POST /run: "no", "sent", "accepted", "busy" or "refused"
  box,      \* the process in the container
  completed, \* runs that completed (history)
  stops,    \* runs it was asked to stop
  unheard,  \* open runs a push of whose trace was refused or lost
  row,      \* the runs table
  chain,    \* the ingest chain: trace events not handled yet
  byRun,    \* its head has found its job and is about to finish it
  noted,    \* cancelledAtBoundary
  pending,  \* pendingConfirms: runs that wait for an answer
  marks,    \* updates to "waiting" or "running" under way
  sweeper,  \* the run sweep() is closing and the row it saw, or NoRun
  asked,    \* runs a pause was requested of, on the bus
  local,    \* runs that were resumed here
  cancelled, \* ghost: runs that cancelRun marked
  restarts,
  world     \* what may happen: people are asked, stop jobs, pause and cancel runs,
            \* answers, control lines and traces get lost, processes die,
            \* containers vanish, we restart

rows   == <<item, row>>
calls  == <<disp, try, gaveUp, stopper>>
bus    == <<open, silent, unheard, pending, marks>>
ingest == <<chain, byRun, noted>>
remote == <<post, box, completed, stops>>
late   == <<asked, local, cancelled, restarts, world>>
vars   == <<rows, calls, bus, ingest, remote, sweeper, late>>

Init ==
  /\ item = [i \in Items |-> [status |-> "none", try |-> 1, why |-> "none"]]
  /\ row = [r \in Runs |-> "none"]
  /\ disp = [i \in Items |-> "no"] /\ try = [i \in Items |-> 1] /\ gaveUp = {}
  /\ stopper = [i \in Items |-> "no"]
  /\ open = {} /\ silent = {} /\ pending = {} /\ marks = {}
  /\ chain = <<>> /\ byRun = FALSE /\ noted = {}
  /\ post = [r \in Runs |-> "no"] /\ box = [r \in Runs |-> "none"]
  /\ completed = {} /\ stops = {} /\ unheard = {}
  /\ sweeper = NoRun /\ restarts = 0
  /\ asked = {} /\ local = {} /\ cancelled = {}
  /\ world \in Worlds

-----------------------------------------------------------------------------
(* The row and the bus *)

InFlight    == {i \in Items : item[i].status \in {"queued", "running", "waiting"}}
Sending(i)  == <<i, try[i]>>            \* dispatch()'s own runId
RunOf(i)    == <<i, item[i].try>>       \* the row's run_id
Goto(i, pc) == disp' = [disp EXCEPT ![i] = pc]

\* UPDATE ... SET status WHERE status = from.
Moved(i, from, to) ==
  item' = [item EXCEPT ![i].status = IF @ = from THEN to ELSE @]

\* finish(): the guard makes every call but the first a no-op.
Finish_Unguarded(i, status, why) ==
  item' = [item EXCEPT ![i].status = status, ![i].why = why]
Finish(i, status, why) ==
  item' = IF i \in InFlight
          THEN [item EXCEPT ![i].status = status, ![i].why = why]
          ELSE item

\* clearConfirms() and answerConfirm(): the job is running again.
Settled(S) ==
  /\ pending' = pending \ S
  /\ marks' = marks \cup {<<r, "running">> : r \in S \cap pending}

\* DeployRuns.close(): a no-op on a run that is not open.
Close(r) ==
  /\ open' = open \ {r}
  /\ silent' = silent \ {r}
  /\ unheard' = unheard \ {r}
  /\ Settled({r} \cap open)

\* A push of the container's, tried once: it goes through, is lost on the way,
\* or is refused for a backpressure limit that it or an earlier one broke.
Trace(r, what) ==
  \/ /\ chain' = Append(chain, <<r, what>>) /\ silent' = silent \ {r}
     /\ UNCHANGED unheard
  \/ /\ "trace" \in world /\ unheard' = unheard \cup {r}
     /\ UNCHANGED <<chain, silent>>

-----------------------------------------------------------------------------
(* dispatch(), send() and DeployDispatcher.send() *)

Dispatch(i) ==
  /\ item[i].status = "none"
  /\ Cardinality(InFlight) < Cap
  /\ item' = [item EXCEPT ![i].status = "queued"]
  /\ Goto(i, "send")
  /\ UNCHANGED <<row, try, gaveUp, stopper, bus, ingest, remote, sweeper, late>>

\* No serve token, or no endpoint any more: nothing is opened.
NotSent(i) ==
  /\ disp[i] = "send"
  /\ Goto(i, "fail")
  /\ UNCHANGED <<rows, try, gaveUp, stopper, bus, ingest, remote, sweeper, late>>

Post(i) ==
  /\ disp[i] = "send"
  /\ open' = open \cup {Sending(i)}
  /\ post' = [post EXCEPT ![Sending(i)] = "sent"]
  /\ Goto(i, "posted")
  /\ UNCHANGED <<rows, try, gaveUp, stopper, silent, unheard, pending, marks, ingest,
                 box, completed, stops, sweeper, late>>

RetryOrFail_OffByOne(i) == Goto(i, "fail") \/ (try[i] <= MaxAttempts /\ Goto(i, "retry"))
\* Another attempt, as long as there is one left; the wall-clock budget may
\* run out before that.
RetryOrFail(i) == Goto(i, "fail") \/ (try[i] < MaxAttempts /\ Goto(i, "retry"))

ReadsAccepted_AsFailure(i) ==
  /\ disp[i] = "posted" /\ post[Sending(i)] = "accepted"
  /\ Close(Sending(i))
  /\ RetryOrFail(i)
  /\ UNCHANGED <<rows, try, gaveUp, stopper, ingest, remote, sweeper, late>>
ReadsAccepted(i) ==
  /\ disp[i] = "posted" /\ post[Sending(i)] = "accepted"
  /\ Goto(i, "mark")
  /\ UNCHANGED <<rows, try, gaveUp, stopper, bus, ingest, remote, sweeper, late>>

ReadsRefused(i) ==
  /\ disp[i] = "posted"
  /\ \/ post[Sending(i)] = "busy" /\ RetryOrFail(i)
     \/ post[Sending(i)] = "refused" /\ Goto(i, "fail")
  /\ Close(Sending(i))
  /\ UNCHANGED <<rows, try, gaveUp, stopper, ingest, remote, sweeper, late>>

\* A timeout or a broken connection, whatever became of the request.
GivesUp_StaysOpen(i) ==
  /\ disp[i] = "posted" /\ "answer" \in world
  /\ gaveUp' = gaveUp \cup {Sending(i)}
  /\ RetryOrFail(i)
  /\ UNCHANGED <<rows, try, stopper, bus, ingest, remote, sweeper, late>>
GivesUp(i) ==
  /\ disp[i] = "posted" /\ "answer" \in world
  /\ gaveUp' = gaveUp \cup {Sending(i)}
  /\ Close(Sending(i))
  /\ RetryOrFail(i)
  /\ UNCHANGED <<rows, try, stopper, ingest, remote, sweeper, late>>

\* attachRun() repoints the row if it is still queued; the POST goes out anyway.
Retry_OldRow(i) ==
  /\ disp[i] = "retry"
  /\ try' = [try EXCEPT ![i] = @ + 1]
  /\ Goto(i, "send")
  /\ UNCHANGED <<rows, gaveUp, stopper, bus, ingest, remote, sweeper, late>>
Retry(i) ==
  /\ disp[i] = "retry"
  /\ try' = [try EXCEPT ![i] = @ + 1]
  /\ item' = [item EXCEPT ![i].try = IF item[i].status = "queued" THEN try'[i] ELSE @]
  /\ Goto(i, "send")
  /\ UNCHANGED <<row, gaveUp, stopper, bus, ingest, remote, sweeper, late>>

Fail(i) ==
  /\ disp[i] = "fail"
  /\ Finish(i, "failed", "dispatch")
  /\ Goto(i, "done")
  /\ UNCHANGED <<row, try, gaveUp, stopper, bus, ingest, remote, sweeper, late>>

MarkRunning(i) ==
  /\ disp[i] = "mark"
  /\ Moved(i, "queued", "running")
  /\ Goto(i, "done")
  /\ UNCHANGED <<row, try, gaveUp, stopper, bus, ingest, remote, sweeper, late>>

-----------------------------------------------------------------------------
(* The container *)

Up == {r \in Runs : box[r] \notin {"none", "gone"}}
Becomes(r, s) == box' = [box EXCEPT ![r] = s]

Accepts(r) ==
  /\ post[r] = "sent"
  /\ post' = [post EXCEPT ![r] = "accepted"]
  /\ Becomes(r, "booting")
  /\ UNCHANGED <<rows, calls, bus, ingest, completed, stops, sweeper, late>>

\* 429 when its slots are taken (by whoever else calls it), or 4xx and 500.
Refuses(r) ==
  /\ post[r] = "sent"
  /\ \E answer \in {"busy", "refused"} : post' = [post EXCEPT ![r] = answer]
  /\ UNCHANGED <<rows, calls, bus, ingest, box, completed, stops, sweeper, late>>

Begins(r) ==
  /\ box[r] = "booting" /\ r \in open
  /\ Becomes(r, "working")
  /\ Trace(r, "start")
  /\ UNCHANGED <<rows, calls, open, pending, marks, byRun, noted, post, completed, stops,
                 sweeper, late>>

\* A tool call that needs a person (one a run): the request blocks.
Asks(r) ==
  /\ box[r] = "working" /\ r \in open /\ "ask" \in world
  /\ Becomes(r, "asking")
  /\ pending' = pending \cup {r}
  /\ marks' = marks \cup {<<r, "waiting">>}
  /\ UNCHANGED <<rows, calls, open, silent, unheard, ingest, post, completed, stops,
                 sweeper, late>>

\* It was answered, or timed out.
AskOver(r) ==
  /\ box[r] = "asking" /\ r \in open \ pending
  /\ Becomes(r, "resumed")
  /\ UNCHANGED <<rows, calls, bus, ingest, post, completed, stops, sweeper, late>>

\* A control line that says it stopped because it was asked to.
Notes(r) ==
  \/ noted' = noted \cup {r}
  \/ "control" \in world /\ UNCHANGED noted

Finishes(r) ==
  /\ box[r] \in {"working", "resumed"} /\ r \in open
  /\ \/ Becomes(r, "completed") /\ completed' = completed \cup {r} /\ UNCHANGED noted
     \/ Becomes(r, "error") /\ UNCHANGED <<completed, noted>>
     \/ r \in stops /\ Becomes(r, "error") /\ Notes(r) /\ UNCHANGED completed
  /\ UNCHANGED <<rows, calls, bus, chain, byRun, post, stops, sweeper, late>>

PushesEnd(r) ==
  /\ box[r] \in {"completed", "error"} /\ r \in open
  /\ Becomes(r, "closing")
  /\ Trace(r, box[r])
  /\ UNCHANGED <<rows, calls, open, pending, marks, byRun, noted, post, completed, stops,
                 sweeper, late>>

\* At a boundary it finds that it was asked to pause, says so and ends; no run_end.
Pauses(r) ==
  /\ box[r] \in {"working", "resumed"} /\ r \in open \cap asked
  /\ Becomes(r, "paused")
  /\ \/ chain' = Append(chain, <<r, "paused">>) /\ silent' = silent \ {r}
     \/ "control" \in world /\ UNCHANGED <<chain, silent>>
  /\ UNCHANGED <<rows, calls, open, unheard, pending, marks, byRun, noted, post, completed,
                 stops, sweeper, late>>

\* run_closed, on which the server closes the run unless it says "paused".
SaysClosed(r) ==
  /\ box[r] \in {"closing", "paused"} /\ r \in open
  /\ Becomes(r, "gone")
  /\ \/ box[r] = "closing" /\ Close(r)
     \/ (box[r] = "paused" \/ "control" \in world) /\ UNCHANGED bus
  /\ UNCHANGED <<rows, calls, ingest, post, completed, stops, sweeper, late>>

\* The process dies, or is ended because it did not stop in time: serve.py
\* closes the run out.
Dies(r) ==
  /\ r \in Up \cap open
  /\ Becomes(r, "gone")
  /\ Trace(r, "error")
  /\ \/ "die" \in world /\ UNCHANGED noted
     \/ r \in stops /\ Notes(r)
  /\ UNCHANGED <<rows, calls, open, pending, marks, byRun, post, completed, stops,
                 sweeper, late>>

\* The whole container is gone, without a word.
Vanishes(r) ==
  /\ r \in Up \cap open /\ "vanish" \in world
  /\ Becomes(r, "gone")
  /\ UNCHANGED <<rows, calls, bus, ingest, post, completed, stops, sweeper, late>>

\* The server has closed the run: its token is refused with whatever it still
\* says, and its end is no event here.
EndsUnheard(r) ==
  /\ r \in Up \ open
  /\ Becomes(r, "gone")
  /\ UNCHANGED <<rows, calls, bus, ingest, post, completed, stops, sweeper, late>>

-----------------------------------------------------------------------------
(* The ingest chain, confirmations, the sweep *)

Head1 == Head(chain)[1]
What  == Head(chain)[2]
RowOf(what) == CASE what = "start" -> "running" [] what \in {"completed", "paused"} -> what
                 [] OTHER -> "error"
IsEnd(what) == what \notin {"start", "paused"}

\* upsertRunWhole(), and for a run_end WorkLifecycle's byRun().  What says "paused"
\* is setRunStatus(), of a row there is.
Upsert ==
  /\ chain # <<>> /\ ~byRun
  /\ row' = IF What = "paused" /\ row[Head1] = "none" THEN row
            ELSE [row EXCEPT ![Head1] = RowOf(What)]
  /\ IF IsEnd(What) /\ RunOf(Head1[1]) = Head1
     THEN byRun' = TRUE /\ UNCHANGED chain
     ELSE UNCHANGED byRun /\ chain' = Tail(chain)
  /\ UNCHANGED <<item, calls, bus, noted, remote, sweeper, late>>

\* onRunEnd().
Ended_AnyEnd(i) == Finish(i, "succeeded", "none")
Ended(i) ==
  \/ What = "completed" /\ Finish(i, "succeeded", "none")
  \/ What # "completed" /\ Head1 \in noted /\ Finish(i, "cancelled", "none")
  \/ /\ What # "completed" /\ Head1 \notin noted
     /\ Finish(i, "failed", IF What = "silent" THEN "silent" ELSE "agent")

OnRunEnd ==
  /\ byRun /\ byRun' = FALSE
  /\ Ended(Head1[1])
  /\ noted' = noted \ {Head1}
  /\ chain' = Tail(chain)
  /\ UNCHANGED <<row, calls, bus, remote, sweeper, late>>

\* A person answers, or the ask times out.
Answer(r) ==
  /\ r \in pending
  /\ Settled({r})
  /\ UNCHANGED <<rows, calls, open, silent, unheard, ingest, remote, sweeper, late>>

\* onConfirmRequested() and onConfirmResolved(): two floating updates.
Mark(m) ==
  /\ m \in marks
  /\ marks' = marks \ {m}
  /\ IF RunOf(m[1][1]) # m[1] THEN UNCHANGED item
     ELSE IF m[2] = "waiting" THEN Moved(m[1][1], "running", "waiting")
     ELSE Moved(m[1][1], "waiting", "running")
  /\ UNCHANGED <<row, calls, open, silent, unheard, pending, ingest, remote, sweeper, late>>

\* Fifteen minutes without a word; a POST is given up long before.
FallsSilent(r) ==
  /\ r \in open \ silent
  /\ disp[r[1]] # "posted" \/ Sending(r[1]) # r
  /\ silent' = silent \cup {r}
  /\ UNCHANGED <<rows, calls, open, unheard, pending, marks, ingest, remote, sweeper, late>>

SweepReads(r) ==
  /\ sweeper = NoRun /\ r \in silent
  /\ sweeper' = <<r, row[r]>>
  /\ UNCHANGED <<rows, calls, bus, ingest, remote, late>>

\* It acts on what it read, without looking at the run again; a paused run it
\* leaves alone.
Abandons(r, status) ==
  /\ chain' = IF r \in open /\ status = "running" THEN Append(chain, <<r, "silent">>)
              ELSE chain
  /\ Close(r)
SweepCloses_RowsOnly ==
  /\ sweeper # NoRun /\ sweeper' = NoRun
  /\ IF sweeper[2] \in {"none", "paused"} THEN UNCHANGED <<bus, chain>>
     ELSE Abandons(sweeper[1], sweeper[2])
  /\ UNCHANGED <<rows, calls, byRun, noted, remote, late>>
SweepCloses ==
  /\ sweeper # NoRun /\ sweeper' = NoRun
  /\ IF sweeper[2] = "paused" THEN UNCHANGED <<bus, chain>>
     ELSE Abandons(sweeper[1], sweeper[2])
  /\ UNCHANGED <<rows, calls, byRun, noted, remote, late>>

-----------------------------------------------------------------------------
(* The run's own controls: pauseRun, resumeRun and cancelRun (index.ts) *)

\* A run whose row is there is asked over the bus, whoever executes it.
AsksPause(r) ==
  /\ "pause" \in world /\ r \in open /\ row[r] # "none"
  /\ asked' = asked \cup {r}
  /\ UNCHANGED <<rows, calls, bus, ingest, remote, sweeper, local, cancelled, restarts,
                 world>>

\* It is resumed in a process of this server's: the checkpoint is in the container,
\* and so that process, if it gets to start, ends with an error.
ResumesHere(r) ==
  /\ "pause" \in world /\ row[r] = "paused"
  /\ row' = [row EXCEPT ![r] = "running"]
  /\ local' = local \cup {r}
  /\ UNCHANGED <<item, calls, bus, ingest, remote, sweeper, asked, cancelled, restarts,
                 world>>
EndsHere(r) ==
  /\ r \in local /\ local' = local \ {r}
  /\ chain' = Append(chain, <<r, "error">>)
  /\ UNCHANGED <<rows, calls, bus, byRun, noted, remote, sweeper, asked, cancelled, restarts,
                 world>>

\* markRunCancelled(): there is no run_end, and the container is not told.
CancelsRun(r) ==
  /\ "cancel" \in world /\ row[r] \in {"running", "paused"}
  /\ row' = [row EXCEPT ![r] = "error"]
  /\ cancelled' = cancelled \cup {r}
  /\ UNCHANGED <<item, calls, bus, ingest, remote, sweeper, asked, local, restarts, world>>

-----------------------------------------------------------------------------
(* WorkActions.cancel(): Stop is pressed once *)

StopNext(i, pc) == stopper' = [stopper EXCEPT ![i] = pc]

StopReads(i) ==
  /\ stopper[i] = "no" /\ i \in InFlight /\ "stop" \in world
  /\ StopNext(i, IF item[i].status = "queued" THEN "close" ELSE "ask")
  /\ UNCHANGED <<rows, disp, try, gaveUp, bus, ingest, remote, sweeper, late>>

\* The dispatch is not told.
StopCloses(i) ==
  /\ stopper[i] = "close"
  /\ Finish(i, "cancelled", "none")
  /\ StopNext(i, "done")
  /\ UNCHANGED <<row, disp, try, gaveUp, bus, ingest, remote, sweeper, late>>

StopAsks(i) ==
  /\ stopper[i] = "ask"
  /\ \/ StopNext(i, "note") /\ stops' = stops \cup ({RunOf(i)} \cap Up)
     \/ "answer" \in world /\ StopNext(i, "done")
        /\ (UNCHANGED stops \/ stops' = stops \cup ({RunOf(i)} \cap Up))
  /\ UNCHANGED <<rows, disp, try, gaveUp, bus, ingest, post, box, completed,
                 sweeper, late>>

\* The stop is recorded and what the job waits for is denied.
StopNotes(i) ==
  /\ stopper[i] = "note"
  /\ StopNext(i, "done")
  /\ Settled(IF item[i].status = "waiting" THEN {RunOf(i)} ELSE {})
  /\ UNCHANGED <<rows, disp, try, gaveUp, open, silent, unheard, ingest, remote, sweeper, late>>

-----------------------------------------------------------------------------
\* The server dies and boots: reconcileInterruptedRuns(), then stranded().
Restart ==
  /\ "restart" \in world /\ restarts < MaxRestarts /\ restarts' = restarts + 1
  /\ row' = [r \in Runs |-> IF row[r] = "running" THEN "error" ELSE row[r]]
  /\ item' = [i \in Items |-> IF i \in InFlight /\ row'[RunOf(i)] # "running"
                              THEN [item[i] EXCEPT !.status = "failed", !.why = "silent"]
                              ELSE item[i]]
  /\ disp' = [i \in Items |-> IF disp[i] = "no" THEN "no" ELSE "done"]
  /\ stopper' = [i \in Items |-> IF stopper[i] = "no" THEN "no" ELSE "done"]
  /\ open' = {} /\ silent' = {} /\ unheard' = {} /\ pending' = {} /\ marks' = {}
  /\ chain' = <<>> /\ byRun' = FALSE /\ noted' = {}
  /\ sweeper' = NoRun /\ asked' = {} /\ local' = {}
  /\ UNCHANGED <<try, gaveUp, remote, cancelled, world>>

DispatchStep(i) ==
  \/ NotSent(i) \/ Post(i) \/ ReadsAccepted(i) \/ ReadsRefused(i) \/ GivesUp(i)
  \/ Retry(i) \/ Fail(i) \/ MarkRunning(i)
BoxStep(r) ==
  \/ Accepts(r) \/ Refuses(r) \/ Begins(r) \/ Asks(r) \/ AskOver(r)
  \/ Finishes(r) \/ PushesEnd(r) \/ Pauses(r) \/ SaysClosed(r) \/ EndsUnheard(r)
ControlStep(r) == AsksPause(r) \/ ResumesHere(r) \/ EndsHere(r) \/ CancelsRun(r)
StopStep(i) == StopCloses(i) \/ StopAsks(i) \/ StopNotes(i)

Next ==
  \/ \E i \in Items : Dispatch(i) \/ DispatchStep(i) \/ StopReads(i) \/ StopStep(i)
  \/ \E r \in Runs : BoxStep(r) \/ Dies(r) \/ Vanishes(r) \/ ControlStep(r)
  \/ Upsert \/ OnRunEnd
  \/ \E r \in Runs : Answer(r) \/ FallsSilent(r) \/ SweepReads(r)
  \/ \E m \in marks : Mark(m)
  \/ SweepCloses
  \/ Restart

Spec == Init /\ [][Next]_vars

\* The server resumes its calls, handles what is pushed and sweeps; it gives a
\* POST up after thirty seconds, unless that is left out of this world, where the
\* answer comes.  Nothing else is asked of the container: one that says nothing
\* falls silent.
AnswersInTime(r) == "answer" \notin world /\ (Accepts(r) \/ Refuses(r))

Fairness ==
  /\ \A i \in Items : WF_vars(DispatchStep(i))
  /\ \A r \in Runs : WF_vars(AnswersInTime(r))
  /\ WF_vars(Upsert) /\ WF_vars(OnRunEnd)
  /\ \A r \in Runs : WF_vars(FallsSilent(r)) /\ SF_vars(SweepReads(r))
  /\ WF_vars(SweepCloses)

FairSpec == Spec /\ Fairness

-----------------------------------------------------------------------------
(* Properties *)

\* Every variable keeps its type; no attempt is past the last one.
ItemsOK ==
  /\ item \in [Items -> [status : {"none", "queued", "running", "waiting",
                                   "succeeded", "failed", "cancelled"},
                         try : 1..MaxAttempts, why : {"none", "dispatch", "agent", "silent"}]]
  /\ row \in [Runs -> {"none", "running", "paused", "completed", "error"}]
CallsOK ==
  /\ disp \in [Items -> {"no", "send", "posted", "retry", "fail", "mark", "done"}]
  /\ try \in [Items -> 1..MaxAttempts]
  /\ gaveUp \subseteq Runs
  /\ stopper \in [Items -> {"no", "close", "ask", "note", "done"}]
BusOK ==
  /\ open \subseteq Runs
  /\ silent \subseteq open /\ unheard \subseteq open /\ pending \subseteq open
  /\ marks \subseteq Runs \X {"waiting", "running"}
Said == {"start", "paused", "completed", "error", "silent"}
IngestOK ==
  /\ chain \in Seq(Runs \X Said)
  /\ byRun \in BOOLEAN
  /\ noted \subseteq Runs
RemoteOK ==
  /\ post \in [Runs -> {"no", "sent", "accepted", "busy", "refused"}]
  /\ box \in [Runs -> {"none", "booting", "working", "asking", "resumed",
                       "completed", "error", "paused", "closing", "gone"}]
  /\ completed \subseteq Runs /\ stops \subseteq Runs
TypeOK ==
  /\ ItemsOK /\ CallsOK /\ BusOK /\ IngestOK /\ RemoteOK
  /\ sweeper \in {NoRun} \cup (Runs \X {"none", "running", "paused", "completed", "error"})
  /\ asked \subseteq Runs /\ local \subseteq Runs /\ cancelled \subseteq Runs
  /\ restarts \in 0..MaxRestarts /\ world \in Worlds

Over(i) == item[i].status \in {"succeeded", "failed", "cancelled"}

\* However the dispatch, the trace, Stop and the sweep race, the first of them
\* that ends a job decides: its row is never rewritten or repointed afterwards.
FinalIsFinal == [][\A i \in Items : Over(i) => item'[i] = item[i]]_vars

\* A retry does not put a second copy of a job to work: while an attempt is
\* being executed no later one is sent, but for one whose POST was given up
\* and may have been executed all the same.
OneCopyAtATime ==
  \A i \in Items : \A m, n \in 1..MaxAttempts :
    m < n /\ <<i, m>> \in Up /\ post[<<i, n>>] # "no" => <<i, m>> \in gaveUp

\* Nothing is left holding a credential for a run that never began: a run that
\* is open is one whose POST is awaited, or one the container said yes to.
OpenIsWatched ==
  \A r \in open : \/ disp[r[1]] = "posted" /\ Sending(r[1]) = r
                  \/ post[r] = "accepted"

\* A job reads succeeded only if a run of it completed, and cancelled only if
\* somebody pressed Stop.
EndingIsTrue ==
  \A i \in Items :
    /\ item[i].status = "succeeded" => \E n \in 1..MaxAttempts : <<i, n>> \in completed
    /\ item[i].status = "cancelled" => stopper[i] # "no"

\* A job whose dispatch is over and whose last run has been heard from ends, even
\* if the container is gone: the sweep sees to it.  Not if a push of its trace did
\* not get through, nor if the sweep has read the runs table before that row; and
\* not while its run is paused, or once somebody has cancelled the run instead of
\* the job.
ReportedEnds ==
  \A i \in Items :
    LET r == Sending(i) IN
    /\ i \in InFlight /\ disp[i] = "done"
    /\ r \in open /\ row[r] # "none" /\ sweeper # <<r, "none">>
    ~> Over(i) \/ r \in unheard \/ row[r] = "paused" \/ r \in cancelled

\* Every token is revoked in the end, whatever the container does, says or fails to
\* say, but for one of a run that is paused.
TokensComeBack == \A r \in Runs : r \in open ~> r \notin open \/ row[r] = "paused"

\* The sweep settles a container nobody can reach any more (work/actions.ts): a
\* job whose dispatch is over and whose container is gone ends.
GoneIsSettled ==
  \A i \in Items :
    i \in InFlight /\ disp[i] = "done" /\ box[RunOf(i)] = "gone" ~> Over(i)

=============================================================================
