------------------------ MODULE InteractiveRunsProofs ------------------------
(***************************************************************************)
(* Theorems about InteractiveRuns, for every set of runs, branches and     *)
(* calls of resumeRun, and every number of pauses and crashes.             *)
(***************************************************************************)
EXTENDS InteractiveRuns, SequenceTheorems, TLAPS

-----------------------------------------------------------------------------
(* Types *)

\* The run a call in flight is about is a run.
LEMMA OfType ==
  ASSUME CallsOK, NEW c \in InFlight
  PROVE  Of(c) \in Runs
  BY DEF CallsOK, InFlight, Of, Calls

LEMMA SayType ==
  ASSUME RowsOK, NEW r \in Runs, NEW status \in Statuses, Say(r, status)
  PROVE  chain' \in Seq([run : Runs, status : Statuses])
<1>1. [run |-> r, status |-> status] \in [run : Runs, status : Statuses]
  OBVIOUS
<1>2. QED
  BY <1>1, AppendProperties DEF RowsOK, Say

\* The head of the chain is a write, and the rest of it a chain of writes.
LEMMA HeadType ==
  ASSUME RowsOK, chain # <<>>
  PROVE  /\ Head(chain) \in [run : Runs, status : Statuses]
         /\ Tail(chain) \in Seq([run : Runs, status : Statuses])
  BY HeadTailProperties DEF RowsOK

\* TypeOK is inductive as it stands: one step per action.
LEMMA TypeInvariant == Spec => []TypeOK
<1>1. Init => TypeOK
  <2> SUFFICES ASSUME Init
               PROVE  TypeOK
    OBVIOUS
  <2>1. RowsOK
    BY EmptySeq DEF Init, RowsOK, Statuses
  <2>2. MemoryOK /\ LeaseOK /\ CallsOK /\ GhostsOK
    BY BoundsAssumption DEF Init, MemoryOK, LeaseOK, CallsOK, GhostsOK, Calls, Places
  <2>3. QED
    BY <2>1, <2>2 DEF TypeOK
<1>2. TypeOK /\ [Next]_vars => TypeOK'
  <2> SUFFICES ASSUME TypeOK, [Next]_vars
               PROVE  TypeOK'
    OBVIOUS
  <2> USE CallsAssumption
  <2>1. ASSUME NEW r \in Runs, Asked(r)
        PROVE  TypeOK'
    BY <2>1 DEF Asked, Calls, Places, Statuses, TypeOK, RowsOK, MemoryOK, LeaseOK,
       CallsOK, GhostsOK, Goto, memory, ghosts, counts
  <2>2. ASSUME NEW r \in Runs, Copies(r)
        PROVE  TypeOK'
    BY <2>2 DEF Copies, Calls, Places, Statuses, TypeOK, RowsOK, MemoryOK, LeaseOK,
       CallsOK, GhostsOK, Goto, memory, ghosts, counts
  <2>3. ASSUME NEW c \in Resumes, NEW r \in Runs, ResumeAsked(c, r)
        PROVE  TypeOK'
    BY <2>3 DEF ResumeAsked, Calls, Places, Statuses, TypeOK, RowsOK, MemoryOK, LeaseOK,
       CallsOK, GhostsOK, Goto, counts
  <2>4. ASSUME NEW c \in Resumes, ResumeUnbinds(c)
        PROVE  TypeOK'
    <3>1. Of(c) \in Runs
      BY <2>4, OfType DEF ResumeUnbinds, TypeOK, InFlight, CallsOK, Calls
    <3>2. QED
      BY <2>4, <3>1 DEF ResumeUnbinds, Finishes, Calls, Places, Statuses, TypeOK,
         RowsOK, MemoryOK, LeaseOK, CallsOK, GhostsOK, Goto, ghosts, counts
  <2>5. ASSUME NEW c \in Resumes, ResumeMarks(c)
        PROVE  TypeOK'
    <3>1. Of(c) \in Runs
      BY <2>5, OfType DEF ResumeMarks, TypeOK, InFlight, CallsOK, Calls
    <3>2. QED
      BY <2>5, <3>1 DEF ResumeMarks, Calls, Places, Statuses, TypeOK, RowsOK, MemoryOK,
         LeaseOK, CallsOK, GhostsOK, Goto, memory, ghosts, counts
  <2>6. ASSUME NEW c \in Calls, TurnedDown(c)
        PROVE  TypeOK'
    <3>1. Of(c) \in Runs
      BY <2>6, OfType DEF TurnedDown, TypeOK, InFlight, CallsOK, Calls
    <3>2. QED
      BY <2>6, <3>1 DEF TurnedDown, Finishes, Calls, Places, Statuses, TypeOK, RowsOK,
         MemoryOK, LeaseOK, CallsOK, GhostsOK, Goto, memory, ghosts, counts
  <2>7. ASSUME NEW c \in Calls, Registers(c)
        PROVE  TypeOK'
    <3>1. Of(c) \in Runs
      BY <2>7, OfType DEF Registers, TypeOK, InFlight, CallsOK, Calls
    <3>2. QED
      BY <2>7, <3>1 DEF Registers, Calls, Places, Statuses, TypeOK, RowsOK, MemoryOK,
         LeaseOK, CallsOK, GhostsOK, Goto, ghosts, counts
  <2>8. ASSUME NEW c \in Calls, Reserves(c)
        PROVE  TypeOK'
    <3>1. Of(c) \in Runs
      BY <2>8, OfType DEF Reserves, TypeOK, InFlight, CallsOK, Calls
    <3>2. QED
      BY <2>8, <3>1 DEF Reserves, Calls, Places, Statuses, TypeOK, RowsOK, MemoryOK,
         LeaseOK, CallsOK, GhostsOK, Goto, memory, counts
  <2>9. ASSUME NEW c \in Calls, Starts(c)
        PROVE  TypeOK'
    <3>1. Of(c) \in Runs
      BY <2>9, OfType DEF Starts, TypeOK, InFlight, CallsOK, Calls
    <3>2. QED
      BY <2>9, <3>1 DEF Starts, Finishes, Calls, Places, Statuses, TypeOK, RowsOK,
         MemoryOK, LeaseOK, CallsOK, GhostsOK, Goto, ghosts, counts
  <2>10. ASSUME NEW c \in Calls, NoSlot(c)
        PROVE  TypeOK'
    <3>1. Of(c) \in Runs
      BY <2>10, OfType DEF NoSlot, TypeOK, InFlight, CallsOK, Calls
    <3>2. QED
      BY <2>10, <3>1 DEF NoSlot, Calls, Places, Statuses, TypeOK, RowsOK, MemoryOK,
         LeaseOK, CallsOK, GhostsOK, Goto, memory, ghosts, counts
  <2>11. ASSUME NEW c \in Calls, Refused(c)
        PROVE  TypeOK'
    <3>1. Of(c) \in Runs
      BY <2>11, OfType DEF Refused, TypeOK, InFlight, CallsOK, Calls
    <3>2. QED
      BY <2>11, <3>1 DEF Refused, Finishes, Calls, Places, Statuses, TypeOK, RowsOK,
         MemoryOK, LeaseOK, CallsOK, GhostsOK, Goto, ghosts, counts
  <2>12. ASSUME NEW r \in Runs, Begins(r)
        PROVE  TypeOK'
    <3>1. chain' \in Seq([run : Runs, status : Statuses])
      BY <2>12, SayType DEF Begins, TypeOK, Statuses, RowsOK
    <3>2. QED
      BY <2>12, <3>1, BoundsAssumption DEF Begins, TypeOK, RowsOK, MemoryOK, LeaseOK,
         CallsOK, GhostsOK, memory, calls, ghosts, counts
  <2>13. ASSUME NEW r \in Runs, Pauses(r)
        PROVE  TypeOK'
    <3>1. chain' \in Seq([run : Runs, status : Statuses])
      BY <2>13, SayType DEF Pauses, TypeOK, Statuses, RowsOK
    <3>2. QED
      BY <2>13, <3>1, BoundsAssumption DEF Pauses, TypeOK, RowsOK, MemoryOK, LeaseOK,
         CallsOK, GhostsOK, calls, ghosts
  <2>14. ASSUME NEW r \in Runs, Ends(r)
        PROVE  TypeOK'
    <3>1. chain' \in Seq([run : Runs, status : Statuses])
      BY <2>14, SayType DEF Ends, TypeOK, Statuses, RowsOK
    <3>2. QED
      BY <2>14, <3>1, BoundsAssumption DEF Ends, TypeOK, RowsOK, MemoryOK, LeaseOK,
         CallsOK, GhostsOK, memory, calls, ghosts, counts
  <2>15. ASSUME NEW r \in Runs, Exits(r)
        PROVE  TypeOK'
    BY <2>15 DEF Exits, ReleasesSlot, ForgetsEnded, TypeOK, RowsOK, MemoryOK, LeaseOK,
       CallsOK, GhostsOK, calls, ghosts, counts
  <2>16. ASSUME NEW r \in Runs, SpawnError(r)
        PROVE  TypeOK'
    BY <2>16 DEF SpawnError, ReleasesSlot, TypeOK, RowsOK, MemoryOK, LeaseOK, CallsOK,
       GhostsOK, calls, ghosts, counts
  <2>17. ASSUME NEW r \in Runs, Returns(r)
        PROVE  TypeOK'
    BY <2>17 DEF Returns, TypeOK, RowsOK, MemoryOK, LeaseOK, CallsOK, GhostsOK, memory,
       calls, ghosts, counts
  <2>18. ASSUME NEW r \in Runs, CancelReads(r)
        PROVE  TypeOK'
    BY <2>18 DEF CancelReads, TypeOK, RowsOK, MemoryOK, LeaseOK, CallsOK, GhostsOK,
       ghosts, counts
  <2>19. ASSUME NEW r \in Runs, CancelMarks(r)
        PROVE  TypeOK'
    BY <2>19 DEF CancelMarks, Statuses, TypeOK, RowsOK, MemoryOK, LeaseOK, CallsOK,
       GhostsOK, memory, ghosts, counts
  <2>20. CASE Lapses
    BY <2>20 DEF Lapses, TypeOK, RowsOK, MemoryOK, LeaseOK, CallsOK, GhostsOK, calls,
       ghosts, counts
  <2>21. CASE Ingests
    <3>1. RowsOK'
      BY <2>21, HeadType DEF Ingests, TypeOK, RowsOK, calls
    <3>2. QED
      BY <2>21, <3>1 DEF Ingests, TypeOK, MemoryOK, LeaseOK, CallsOK, GhostsOK, memory,
         calls, ghosts, counts
  <2>22. ASSUME GatewayDies, crashes' \in 0..MaxCrashes
        PROVE  TypeOK'
    <3>1. RowsOK'
      BY <2>22, EmptySeq DEF GatewayDies, TypeOK, RowsOK, Statuses
    <3>2. QED
      BY <2>22, <3>1, BoundsAssumption DEF GatewayDies, TypeOK, MemoryOK, LeaseOK, CallsOK,
         GhostsOK, Calls, Places
  <2>23. CASE Crash
    BY <2>22, <2>23, BoundsAssumption DEF Crash, TypeOK, GhostsOK
  <2>24. ASSUME NEW c \in Calls, Unhandled(c)
        PROVE  TypeOK'
    BY <2>22, <2>24 DEF Unhandled, TypeOK, GhostsOK
  <2>25. ASSUME NEW c \in Calls, Throws(c)
        PROVE  TypeOK'
    <3>1. Of(c) \in Runs
      BY <2>25, OfType DEF Throws, TypeOK, InFlight, CallsOK, Calls
    <3>2. QED
      BY <2>25, <3>1 DEF Throws, Calls, Places, Statuses, TypeOK, RowsOK, MemoryOK,
         LeaseOK, CallsOK, GhostsOK, Goto, memory, ghosts, counts
  <2>26. ASSUME NEW c \in Calls, Caught(c)
        PROVE  TypeOK'
    <3>1. Of(c) \in Runs
      BY <2>26, OfType DEF Caught, memory, TypeOK, InFlight, CallsOK, Calls
    <3>2. QED
      BY <2>26, <3>1 DEF Caught, memory, Finishes, Calls, Places, Statuses, TypeOK, RowsOK,
         MemoryOK, LeaseOK, CallsOK, GhostsOK, Goto, ghosts, counts
  <2>27. CASE UNCHANGED vars
    BY <2>27 DEF vars, memory, calls, ghosts, counts, TypeOK, RowsOK, MemoryOK, LeaseOK,
       CallsOK, GhostsOK
  <2>28. QED
    BY <2>1, <2>2, <2>3, <2>4, <2>5, <2>6, <2>7, <2>8, <2>9, <2>10, <2>11, <2>12, <2>13,
       <2>14, <2>15, <2>16, <2>17, <2>18, <2>19, <2>20, <2>21, <2>22, <2>23, <2>24, <2>25,
       <2>26, <2>27 DEF Next,
       Command, Call, Process
<1>3. QED
  BY <1>1, <1>2, PTL DEF Spec

-----------------------------------------------------------------------------
(* No two calls are about one run *)

\* The runs that a queued write is about.
Written == {chain[i].run : i \in DOMAIN chain}

\* Before the call that makes it, nothing is known of a run.
Untouched ==
  \A r \in Runs : at[r] = "idle" =>
    /\ row[r] = "none" /\ proc[r] = "none" /\ r \notin Written
    /\ \A c \in Resumes : target[c] # r

\* Two calls in flight are about two runs, but for a race.
Alone == \A c, d \in InFlight : c # d /\ Of(c) = Of(d) => Of(c) \in raced

CallsInv == Untouched /\ Alone

\* What Say and Ingests do to the chain.
LEMMA SayAdds ==
  ASSUME RowsOK, NEW r \in Runs, NEW status \in Statuses, Say(r, status)
  PROVE  \/ UNCHANGED chain
         \/ \E n \in Nat :
              /\ DOMAIN chain = 1..n /\ DOMAIN chain' = 1..(n + 1)
              /\ \A i \in 1..n : chain'[i] = chain[i]
              /\ chain'[n + 1] = [run |-> r, status |-> status]
<1>1. [run |-> r, status |-> status] \in [run : Runs, status : Statuses]
  OBVIOUS
<1>2. QED
  BY <1>1, AppendProperties, LenProperties DEF RowsOK, Say

LEMMA SayWrites ==
  ASSUME RowsOK, NEW r \in Runs, NEW status \in Statuses, Say(r, status)
  PROVE  Written' \subseteq Written \cup {r}
<1>1. CASE UNCHANGED chain
  BY <1>1 DEF Written
<1>2. CASE ~UNCHANGED chain
  <2>1. PICK n \in Nat :
          /\ DOMAIN chain = 1..n /\ DOMAIN chain' = 1..(n + 1)
          /\ \A i \in 1..n : chain'[i] = chain[i]
          /\ chain'[n + 1] = [run |-> r, status |-> status]
    BY <1>2, SayAdds
  <2>2. \A i \in DOMAIN chain' : (i \in DOMAIN chain /\ chain'[i] = chain[i]) \/ chain'[i].run = r
    BY <2>1
  <2>3. QED
    BY <2>2 DEF Written
<1>3. QED
  BY <1>1, <1>2

LEMMA TailDrops ==
  ASSUME RowsOK, chain # <<>>, chain' = Tail(chain)
  PROVE  /\ Len(chain) \in Nat \ {0} /\ DOMAIN chain = 1..Len(chain)
         /\ Head(chain) = chain[1]
         /\ \A i \in DOMAIN chain' : i \in Nat /\ i + 1 \in DOMAIN chain /\ chain'[i] = chain[i + 1]
<1>1. /\ Len(chain) \in Nat \ {0} /\ DOMAIN chain = 1..Len(chain)
      /\ Head(chain) = chain[1]
      /\ DOMAIN chain' = 1..(Len(chain) - 1)
      /\ \A i \in 1..(Len(chain) - 1) : chain'[i] = chain[i + 1]
  BY HeadTailProperties, LenProperties, EmptySeq DEF RowsOK
<1>2. QED
  BY <1>1

LEMMA TailWrites ==
  ASSUME RowsOK, chain # <<>>, chain' = Tail(chain)
  PROVE  Written' \subseteq Written /\ Head(chain).run \in Written
  BY TailDrops DEF Written

LEMMA CallsInvariant == Spec => []CallsInv
<1>1. Init => CallsInv
  BY CallsAssumption, EmptySeq DEF Init, CallsInv, Untouched, Alone, Written, InFlight,
     Calls
<1>2. TypeOK /\ TypeOK' /\ CallsInv /\ [Next]_vars => CallsInv'
  <2> SUFFICES ASSUME TypeOK /\ TypeOK' /\ CallsInv, [Next]_vars
               PROVE  CallsInv'
    OBVIOUS
  <2> USE CallsAssumption
  <2>1. ASSUME NEW r \in Runs, Asked(r)
        PROVE  CallsInv'
    BY <2>1 DEF Asked, CallsInv, Untouched, Alone, Written, InFlight, Of, Goto, Calls,
       memory, ghosts, counts, TypeOK, RowsOK, MemoryOK, CallsOK
  <2>2. ASSUME NEW r \in Runs, Copies(r)
        PROVE  CallsInv'
    BY <2>2 DEF Copies, CallsInv, Untouched, Alone, Written, InFlight, Of, Goto, Calls,
       memory, ghosts, counts, TypeOK, RowsOK, MemoryOK, CallsOK
  <2>3. ASSUME NEW c \in Resumes, NEW r \in Runs, ResumeAsked(c, r)
        PROVE  CallsInv'
    BY <2>3 DEF ResumeAsked, CallsInv, Untouched, Alone, Written, InFlight, Of, Goto,
       Calls, counts, TypeOK, RowsOK, MemoryOK, CallsOK
  <2>4. ASSUME NEW c \in Resumes, ResumeUnbinds(c)
        PROVE  CallsInv'
    <3>1. Of(c) \in Runs
      BY <2>4, OfType DEF ResumeUnbinds, TypeOK, InFlight, CallsOK, Calls
    <3>2. Untouched'
      BY <2>4, <3>1 DEF ResumeUnbinds, CallsInv, Untouched, Written, Of, Goto, Finishes,
         Calls, ghosts, counts, TypeOK, RowsOK, MemoryOK, CallsOK
    <3>3. Alone'
      BY <2>4, <3>1 DEF ResumeUnbinds, CallsInv, Alone, InFlight, Of, Goto, Finishes,
         Calls, ghosts, counts, TypeOK, RowsOK, MemoryOK, CallsOK
    <3>4. QED
      BY <3>2, <3>3 DEF CallsInv
  <2>5. ASSUME NEW c \in Resumes, ResumeMarks(c)
        PROVE  CallsInv'
    <3>1. Of(c) \in Runs
      BY <2>5, OfType DEF ResumeMarks, TypeOK, InFlight, CallsOK, Calls
    <3>2. Untouched'
      BY <2>5, <3>1 DEF ResumeMarks, CallsInv, Untouched, Written, Of, Goto, Calls,
         memory, ghosts, counts, TypeOK, RowsOK, MemoryOK, CallsOK
    <3>3. Alone'
      BY <2>5, <3>1 DEF ResumeMarks, CallsInv, Alone, InFlight, Of, Goto, Calls, memory,
         ghosts, counts, TypeOK, RowsOK, MemoryOK, CallsOK
    <3>4. QED
      BY <3>2, <3>3 DEF CallsInv
  <2>6. ASSUME NEW c \in Calls, TurnedDown(c)
        PROVE  CallsInv'
    <3>1. Of(c) \in Runs
      BY <2>6, OfType DEF TurnedDown, TypeOK, InFlight, CallsOK, Calls
    <3>2. Untouched'
      BY <2>6, <3>1 DEF TurnedDown, CallsInv, Untouched, Written, Of, Goto, Finishes,
         Calls, memory, ghosts, counts, TypeOK, RowsOK, MemoryOK, CallsOK
    <3>3. Alone'
      BY <2>6, <3>1 DEF TurnedDown, CallsInv, Alone, InFlight, Of, Goto, Finishes,
         Calls, memory, ghosts, counts, TypeOK, RowsOK, MemoryOK, CallsOK
    <3>4. QED
      BY <3>2, <3>3 DEF CallsInv
  <2>7. ASSUME NEW c \in Calls, Registers(c)
        PROVE  CallsInv'
    <3>1. Of(c) \in Runs
      BY <2>7, OfType DEF Registers, TypeOK, InFlight, CallsOK, Calls
    <3>2. Untouched'
      BY <2>7, <3>1 DEF Registers, CallsInv, Untouched, Written, Of, Goto, Calls,
         ghosts, counts, TypeOK, RowsOK, MemoryOK, CallsOK
    <3>3. Alone'
      BY <2>7, <3>1 DEF Registers, CallsInv, Alone, InFlight, Of, Goto, Calls, ghosts,
         counts, TypeOK, RowsOK, MemoryOK, CallsOK
    <3>4. QED
      BY <3>2, <3>3 DEF CallsInv
  <2>8. ASSUME NEW c \in Calls, Reserves(c)
        PROVE  CallsInv'
    <3>1. Of(c) \in Runs
      BY <2>8, OfType DEF Reserves, TypeOK, InFlight, CallsOK, Calls
    <3>2. Untouched'
      BY <2>8, <3>1 DEF Reserves, CallsInv, Untouched, Written, Of, Goto, Calls, memory,
         counts, TypeOK, RowsOK, MemoryOK, CallsOK
    <3>3. Alone'
      BY <2>8, <3>1 DEF Reserves, CallsInv, Alone, InFlight, Of, Goto, Calls, memory,
         counts, TypeOK, RowsOK, MemoryOK, CallsOK
    <3>4. QED
      BY <3>2, <3>3 DEF CallsInv
  <2>9. ASSUME NEW c \in Calls, Starts(c)
        PROVE  CallsInv'
    <3>1. Of(c) \in Runs
      BY <2>9, OfType DEF Starts, TypeOK, InFlight, CallsOK, Calls
    <3>2. Untouched'
      BY <2>9, <3>1 DEF Starts, CallsInv, Untouched, Written, Of, Goto, Finishes, Calls,
         ghosts, counts, TypeOK, RowsOK, MemoryOK, CallsOK
    <3>3. Alone'
      BY <2>9, <3>1 DEF Starts, CallsInv, Alone, InFlight, Of, Goto, Finishes, Calls,
         ghosts, counts, TypeOK, RowsOK, MemoryOK, CallsOK
    <3>4. QED
      BY <3>2, <3>3 DEF CallsInv
  <2>10. ASSUME NEW c \in Calls, NoSlot(c)
        PROVE  CallsInv'
    <3>1. Of(c) \in Runs
      BY <2>10, OfType DEF NoSlot, TypeOK, InFlight, CallsOK, Calls
    <3>2. Untouched'
      BY <2>10, <3>1 DEF NoSlot, CallsInv, Untouched, Written, Of, Goto, Calls, memory,
         ghosts, counts, TypeOK, RowsOK, MemoryOK, CallsOK
    <3>3. Alone'
      BY <2>10, <3>1 DEF NoSlot, CallsInv, Alone, InFlight, Of, Goto, Calls, memory,
         ghosts, counts, TypeOK, RowsOK, MemoryOK, CallsOK
    <3>4. QED
      BY <3>2, <3>3 DEF CallsInv
  <2>11. ASSUME NEW c \in Calls, Refused(c)
        PROVE  CallsInv'
    <3>1. Of(c) \in Runs
      BY <2>11, OfType DEF Refused, TypeOK, InFlight, CallsOK, Calls
    <3>2. Untouched'
      BY <2>11, <3>1 DEF Refused, CallsInv, Untouched, Written, Of, Goto, Finishes,
         Calls, ghosts, counts, TypeOK, RowsOK, MemoryOK, CallsOK
    <3>3. Alone'
      BY <2>11, <3>1 DEF Refused, CallsInv, Alone, InFlight, Of, Goto, Finishes, Calls,
         ghosts, counts, TypeOK, RowsOK, MemoryOK, CallsOK
    <3>4. QED
      BY <3>2, <3>3 DEF CallsInv
  <2>12. ASSUME NEW r \in Runs, Begins(r)
        PROVE  CallsInv'
    <3>1. Written' \subseteq Written \cup {r}
      BY <2>12, SayWrites DEF Begins, TypeOK, Statuses, Written
    <3>2. QED
      BY <2>12, <3>1 DEF Begins, CallsInv, Untouched, Alone, InFlight, Of, Calls,
         memory, calls, ghosts, counts, TypeOK, RowsOK, MemoryOK, CallsOK
  <2>13. ASSUME NEW r \in Runs, Pauses(r)
        PROVE  CallsInv'
    <3>1. Written' \subseteq Written \cup {r}
      BY <2>13, SayWrites DEF Pauses, TypeOK, Statuses, Written
    <3>2. QED
      BY <2>13, <3>1 DEF Pauses, CallsInv, Untouched, Alone, InFlight, Of, Calls, calls,
         ghosts, TypeOK, RowsOK, MemoryOK, CallsOK
  <2>14. ASSUME NEW r \in Runs, Ends(r)
        PROVE  CallsInv'
    <3>1. Written' \subseteq Written \cup {r}
      BY <2>14, SayWrites DEF Ends, TypeOK, Statuses, Written
    <3>2. QED
      BY <2>14, <3>1 DEF Ends, CallsInv, Untouched, Alone, InFlight, Of, Calls, memory,
         calls, ghosts, counts, TypeOK, RowsOK, MemoryOK, CallsOK
  <2>15. ASSUME NEW r \in Runs, Exits(r)
        PROVE  CallsInv'
    BY <2>15 DEF Exits, ReleasesSlot, ForgetsEnded, CallsInv, Untouched, Alone, Written,
       InFlight, Of, Calls, calls, ghosts, counts, TypeOK, RowsOK, MemoryOK, CallsOK
  <2>16. ASSUME NEW r \in Runs, SpawnError(r)
        PROVE  CallsInv'
    BY <2>16 DEF SpawnError, ReleasesSlot, CallsInv, Untouched, Alone, Written,
       InFlight, Of, Calls, calls, ghosts, counts, TypeOK, RowsOK, MemoryOK, CallsOK
  <2>17. ASSUME NEW r \in Runs, Returns(r)
        PROVE  CallsInv'
    BY <2>17 DEF Returns, CallsInv, Untouched, Alone, Written, InFlight, Of, Calls,
       memory, calls, ghosts, counts, TypeOK, RowsOK, MemoryOK, CallsOK
  <2>18. ASSUME NEW r \in Runs, CancelReads(r)
        PROVE  CallsInv'
    BY <2>18 DEF CancelReads, CallsInv, Untouched, Alone, Written, InFlight, Of, Calls,
       ghosts, counts, TypeOK, RowsOK, MemoryOK, CallsOK
  <2>19. ASSUME NEW r \in Runs, CancelMarks(r)
        PROVE  CallsInv'
    BY <2>19 DEF CancelMarks, NotEnded, CallsInv, Untouched, Alone, Written, InFlight,
       Of, Calls, memory, ghosts, counts, TypeOK, RowsOK, MemoryOK, CallsOK
  <2>20. CASE Lapses
    BY <2>20 DEF Lapses, CallsInv, Untouched, Alone, Written, InFlight, Of, Calls,
       calls, ghosts, counts, TypeOK, RowsOK, MemoryOK, CallsOK
  <2>21. CASE Ingests
    <3>1. Written' \subseteq Written /\ Head(chain).run \in Written
      BY <2>21, TailWrites DEF Ingests, TypeOK
    <3>2. QED
      BY <2>21, <3>1 DEF Ingests, CallsInv, Untouched, Alone, InFlight, Of, Calls,
         memory, calls, ghosts, counts, TypeOK, RowsOK, MemoryOK, CallsOK
  <2>22. ASSUME GatewayDies
        PROVE  CallsInv'
    BY <2>22, EmptySeq DEF GatewayDies, CallsInv, Untouched, Alone, Written, InFlight, Of,
       Calls, TypeOK, RowsOK, MemoryOK, CallsOK
  <2>23. CASE Crash
    BY <2>22, <2>23 DEF Crash
  <2>24. ASSUME NEW c \in Calls, Unhandled(c)
        PROVE  CallsInv'
    BY <2>22, <2>24 DEF Unhandled
  <2>25. ASSUME NEW c \in Calls, Throws(c)
        PROVE  CallsInv'
    <3>1. Of(c) \in Runs
      BY <2>25, OfType DEF Throws, TypeOK, InFlight, CallsOK, Calls
    <3>2. Untouched'
      BY <2>25, <3>1 DEF Throws, CallsInv, Untouched, Written, Of, Goto, Calls, memory,
         ghosts, counts, TypeOK, RowsOK, MemoryOK, CallsOK
    <3>3. Alone'
      BY <2>25, <3>1 DEF Throws, CallsInv, Alone, InFlight, Of, Goto, Calls, memory,
         ghosts, counts, TypeOK, RowsOK, MemoryOK, CallsOK
    <3>4. QED
      BY <3>2, <3>3 DEF CallsInv
  <2>26. ASSUME NEW c \in Calls, Caught(c)
        PROVE  CallsInv'
    <3>1. Of(c) \in Runs
      BY <2>26, OfType DEF Caught, memory, TypeOK, InFlight, CallsOK, Calls
    <3>2. Untouched'
      BY <2>26, <3>1 DEF Caught, memory, CallsInv, Untouched, Written, Of, Goto, Finishes,
         Calls, ghosts, counts, TypeOK, RowsOK, MemoryOK, CallsOK
    <3>3. Alone'
      BY <2>26, <3>1 DEF Caught, memory, CallsInv, Alone, InFlight, Of, Goto, Finishes, Calls,
         ghosts, counts, TypeOK, RowsOK, MemoryOK, CallsOK
    <3>4. QED
      BY <3>2, <3>3 DEF CallsInv
  <2>27. CASE UNCHANGED vars
    BY <2>27 DEF vars, memory, calls, ghosts, counts, CallsInv, Untouched, Alone,
       Written, InFlight, Of, Calls, TypeOK, RowsOK, MemoryOK, CallsOK
  <2>28. QED
    BY <2>1, <2>2, <2>3, <2>4, <2>5, <2>6, <2>7, <2>8, <2>9, <2>10, <2>11, <2>12, <2>13,
       <2>14, <2>15, <2>16, <2>17, <2>18, <2>19, <2>20, <2>21, <2>22, <2>23, <2>24, <2>25,
       <2>26, <2>27 DEF Next,
       Command, Call, Process
<1>3. QED
  BY <1>1, <1>2, TypeInvariant, PTL DEF Spec

-----------------------------------------------------------------------------
(* What is known of the runs with a process *)

\* A run that a call is about has no process yet, but for a race.
NotUpYet == \A c \in InFlight : Of(c) \in Up => Of(c) \in raced

\* What a call registered is still there when its run starts, but for a race.
Registered ==
  \A c \in Calls : at[c] \in {"reserving", "granted"} => Of(c) \in raced \cup (live \cap bound)

PlacesInv == NotUpYet /\ Registered /\ LiveIsRunning

LEMMA PlacesInvariant == Spec => []PlacesInv
<1>1. Init => PlacesInv
  BY DEF Init, PlacesInv, NotUpYet, Registered, LiveIsRunning, Up, InFlight
<1>2. TypeOK /\ TypeOK' /\ CallsInv /\ PlacesInv /\ [Next]_vars => PlacesInv'
  <2> SUFFICES ASSUME TypeOK /\ TypeOK' /\ CallsInv /\ PlacesInv, [Next]_vars
               PROVE  PlacesInv'
    OBVIOUS
  <2> USE CallsAssumption
  <2>1. ASSUME NEW r \in Runs, Asked(r)
        PROVE  PlacesInv'
    <3>2. NotUpYet'
      BY <2>1 DEF Asked, CallsInv, Untouched, NoneIsLive, PlacesInv, NotUpYet, Up,
         InFlight, Of, Goto, Calls, memory, ghosts, counts, TypeOK, RowsOK, MemoryOK,
         CallsOK, GhostsOK
    <3>3. Registered'
      BY <2>1 DEF Asked, CallsInv, Untouched, NoneIsLive, PlacesInv, NotUpYet,
         Registered, LiveIsRunning, Up, InFlight, Of, Goto, Calls, memory, ghosts,
         counts, TypeOK, RowsOK, MemoryOK, CallsOK, GhostsOK
    <3>4. (Up \ raced \subseteq live \cap bound)'
      BY <2>1 DEF Asked, CallsInv, Untouched, NoneIsLive, PlacesInv, NotUpYet,
         Registered, LiveIsRunning, Up, InFlight, Of, Goto, Calls, memory, ghosts,
         counts, TypeOK, RowsOK, MemoryOK, CallsOK, GhostsOK
    <3>5. \A r1 \in live' : (r1 \in Up \/ Starting(r1) \/ r1 \in stuck)'
      BY <2>1 DEF Asked, CallsInv, Untouched, NoneIsLive, PlacesInv, LiveIsRunning,
         Starting, StartingPlaces, Up, Of, Goto, Calls, memory, ghosts, counts, TypeOK, RowsOK,
         MemoryOK, CallsOK, GhostsOK
    <3>6. QED
      BY <3>2, <3>3, <3>4, <3>5 DEF PlacesInv, LiveIsRunning
  <2>2. ASSUME NEW r \in Runs, Copies(r)
        PROVE  PlacesInv'
    BY <2>2 DEF Copies, PlacesInv, NotUpYet, Registered, LiveIsRunning, Starting, StartingPlaces, Up,
       InFlight, Of, Goto, Calls, memory, ghosts, counts, TypeOK, RowsOK, MemoryOK,
       CallsOK, GhostsOK
  <2>3. ASSUME NEW c \in Resumes, NEW r \in Runs, ResumeAsked(c, r)
        PROVE  PlacesInv'
    <3>2. NotUpYet'
      BY <2>3 DEF ResumeAsked, NoneIsLive, LiveIsRunning, PlacesInv, NotUpYet, Up,
         InFlight, Of, Goto, Calls, counts, TypeOK, RowsOK, MemoryOK, CallsOK, GhostsOK
    <3>3. Registered'
      BY <2>3 DEF ResumeAsked, NoneIsLive, LiveIsRunning, PlacesInv, NotUpYet,
         Registered, Up, InFlight, Of, Goto, Calls, counts, TypeOK, RowsOK, MemoryOK,
         CallsOK, GhostsOK
    <3>4. (Up \ raced \subseteq live \cap bound)'
      BY <2>3 DEF ResumeAsked, NoneIsLive, LiveIsRunning, PlacesInv, NotUpYet,
         Registered, Up, InFlight, Of, Goto, Calls, counts, TypeOK, RowsOK, MemoryOK,
         CallsOK, GhostsOK
    <3>5. \A r1 \in live' : (r1 \in Up \/ Starting(r1) \/ r1 \in stuck)'
      BY <2>3 DEF ResumeAsked, NoneIsLive, LiveIsRunning, PlacesInv, Starting, StartingPlaces, Up,
         InFlight, Of, Goto, Calls, counts, TypeOK, RowsOK, MemoryOK, CallsOK, GhostsOK
    <3>6. QED
      BY <3>2, <3>3, <3>4, <3>5 DEF PlacesInv, LiveIsRunning
  <2>4. ASSUME NEW c \in Resumes, ResumeUnbinds(c)
        PROVE  PlacesInv'
    <3>1. Of(c) \in Runs
      BY <2>4, OfType DEF ResumeUnbinds, TypeOK, InFlight, CallsOK, Calls
    <3>2. NotUpYet'
      BY <2>4, <3>1 DEF ResumeUnbinds, CallsInv, Alone, Finishes, PlacesInv, NotUpYet,
         Up, InFlight, Of, Goto, Calls, ghosts, counts, TypeOK, RowsOK, MemoryOK,
         CallsOK, GhostsOK
    <3>3. Registered'
      BY <2>4, <3>1 DEF ResumeUnbinds, CallsInv, Alone, Finishes, PlacesInv, NotUpYet,
         Registered, LiveIsRunning, Up, InFlight, Of, Goto, Calls, ghosts, counts,
         TypeOK, RowsOK, MemoryOK, CallsOK, GhostsOK
    <3>4. (Up \ raced \subseteq live \cap bound)'
      BY <2>4, <3>1 DEF ResumeUnbinds, CallsInv, Alone, Finishes, PlacesInv, NotUpYet,
         Registered, LiveIsRunning, Up, InFlight, Of, Goto, Calls, ghosts, counts,
         TypeOK, RowsOK, MemoryOK, CallsOK, GhostsOK
    <3>5. \A r1 \in live' : (r1 \in Up \/ Starting(r1) \/ r1 \in stuck)'
      BY <2>4, <3>1 DEF ResumeUnbinds, CallsInv, Alone, Finishes, PlacesInv,
         LiveIsRunning, Starting, StartingPlaces, Up, InFlight, Of, Goto, Calls, ghosts, counts, TypeOK,
         RowsOK, MemoryOK, CallsOK, GhostsOK
    <3>6. QED
      BY <3>2, <3>3, <3>4, <3>5 DEF PlacesInv, LiveIsRunning
  <2>5. ASSUME NEW c \in Resumes, ResumeMarks(c)
        PROVE  PlacesInv'
    BY <2>5 DEF ResumeMarks, PlacesInv, NotUpYet, Registered, LiveIsRunning, Starting, StartingPlaces,
       Up, InFlight, Of, Goto, Calls, memory, ghosts, counts, TypeOK, RowsOK, MemoryOK,
       CallsOK, GhostsOK
  <2>6. ASSUME NEW c \in Calls, TurnedDown(c)
        PROVE  PlacesInv'
    <3>1. Of(c) \in Runs
      BY <2>6, OfType DEF TurnedDown, TypeOK, InFlight, CallsOK, Calls
    <3>2. NotUpYet'
      BY <2>6, <3>1 DEF TurnedDown, CallsInv, Alone, Finishes, PlacesInv, NotUpYet, Up,
         InFlight, Of, Goto, Calls, memory, ghosts, counts, TypeOK, RowsOK, MemoryOK,
         CallsOK, GhostsOK
    <3>3. Registered'
      BY <2>6, <3>1 DEF TurnedDown, CallsInv, Alone, Finishes, PlacesInv, NotUpYet,
         Registered, LiveIsRunning, Up, InFlight, Of, Goto, Calls, memory, ghosts,
         counts, TypeOK, RowsOK, MemoryOK, CallsOK, GhostsOK
    <3>4. (Up \ raced \subseteq live \cap bound)'
      BY <2>6, <3>1 DEF TurnedDown, CallsInv, Alone, Finishes, PlacesInv, NotUpYet,
         Registered, LiveIsRunning, Up, InFlight, Of, Goto, Calls, memory, ghosts,
         counts, TypeOK, RowsOK, MemoryOK, CallsOK, GhostsOK
    <3>5. \A r1 \in live' : (r1 \in Up \/ Starting(r1) \/ r1 \in stuck)'
      BY <2>6, <3>1 DEF TurnedDown, CallsInv, Alone, Finishes, PlacesInv, LiveIsRunning,
         Starting, StartingPlaces, Up, InFlight, Of, Goto, Calls, memory, ghosts, counts, TypeOK,
         RowsOK, MemoryOK, CallsOK, GhostsOK
    <3>6. QED
      BY <3>2, <3>3, <3>4, <3>5 DEF PlacesInv, LiveIsRunning
  <2>7. ASSUME NEW c \in Calls, Registers(c)
        PROVE  PlacesInv'
    <3>1. Of(c) \in Runs
      BY <2>7, OfType DEF Registers, TypeOK, InFlight, CallsOK, Calls
    <3>2. NotUpYet'
      BY <2>7, <3>1 DEF Registers, CallsInv, Alone, PlacesInv, NotUpYet, Up, InFlight,
         Of, Goto, Calls, ghosts, counts, TypeOK, RowsOK, MemoryOK, CallsOK, GhostsOK
    <3>3. Registered'
      BY <2>7, <3>1 DEF Registers, CallsInv, Alone, PlacesInv, NotUpYet, Registered,
         LiveIsRunning, Up, InFlight, Of, Goto, Calls, ghosts, counts, TypeOK, RowsOK,
         MemoryOK, CallsOK, GhostsOK
    <3>4. (Up \ raced \subseteq live \cap bound)'
      BY <2>7, <3>1 DEF Registers, CallsInv, Alone, PlacesInv, NotUpYet, Registered,
         LiveIsRunning, Up, InFlight, Of, Goto, Calls, ghosts, counts, TypeOK, RowsOK,
         MemoryOK, CallsOK, GhostsOK
    <3>5. \A r1 \in live' : (r1 \in Up \/ Starting(r1) \/ r1 \in stuck)'
      BY <2>7, <3>1 DEF Registers, CallsInv, Alone, PlacesInv, LiveIsRunning, Starting, StartingPlaces,
         Up, InFlight, Of, Goto, Calls, ghosts, counts, TypeOK, RowsOK, MemoryOK,
         CallsOK, GhostsOK
    <3>6. QED
      BY <3>2, <3>3, <3>4, <3>5 DEF PlacesInv, LiveIsRunning
  <2>8. ASSUME NEW c \in Calls, Reserves(c)
        PROVE  PlacesInv'
    BY <2>8 DEF Reserves, PlacesInv, NotUpYet, Registered, LiveIsRunning, Starting, StartingPlaces, Up,
       InFlight, Of, Goto, Calls, memory, counts, TypeOK, RowsOK, MemoryOK, CallsOK,
       GhostsOK
  <2>9. ASSUME NEW c \in Calls, Starts(c)
        PROVE  PlacesInv'
    <3>1. Of(c) \in Runs
      BY <2>9, OfType DEF Starts, TypeOK, InFlight, CallsOK, Calls
    <3>2. NotUpYet'
      BY <2>9, <3>1 DEF Starts, CallsInv, Alone, Finishes, PlacesInv, NotUpYet, Up,
         InFlight, Of, Goto, Calls, ghosts, counts, TypeOK, RowsOK, MemoryOK, CallsOK,
         GhostsOK
    <3>3. Registered'
      BY <2>9, <3>1 DEF Starts, CallsInv, Alone, Finishes, PlacesInv, NotUpYet,
         Registered, LiveIsRunning, Up, InFlight, Of, Goto, Calls, ghosts, counts,
         TypeOK, RowsOK, MemoryOK, CallsOK, GhostsOK
    <3>4. (Up \ raced \subseteq live \cap bound)'
      BY <2>9, <3>1 DEF Starts, CallsInv, Alone, Finishes, PlacesInv, NotUpYet,
         Registered, LiveIsRunning, Up, InFlight, Of, Goto, Calls, ghosts, counts,
         TypeOK, RowsOK, MemoryOK, CallsOK, GhostsOK
    <3>5. \A r1 \in live' : (r1 \in Up \/ Starting(r1) \/ r1 \in stuck)'
      <4> SUFFICES ASSUME NEW r1 \in live', r1 \notin Up', r1 \notin stuck'
                   PROVE  Starting(r1)'
        OBVIOUS
      <4>1. r1 \in live /\ r1 \notin Up /\ r1 \notin stuck /\ r1 # Of(c)
        BY <2>9, <3>1 DEF Starts, Up, TypeOK, MemoryOK, ghosts
      <4>2. PICK d \in Calls : at[d] \in StartingPlaces /\ Of(d) = r1
        BY <4>1 DEF PlacesInv, LiveIsRunning, Starting, StartingPlaces
      <4>3. d # c /\ at'[d] = at[d] /\ Of(d)' = Of(d)
        BY <2>9, <4>1, <4>2 DEF Starts, Finishes, Goto, Of, Calls, TypeOK, CallsOK
      <4>4. QED
        BY <4>2, <4>3 DEF Starting, StartingPlaces
    <3>6. QED
      BY <3>2, <3>3, <3>4, <3>5 DEF PlacesInv, LiveIsRunning
  <2>10. ASSUME NEW c \in Calls, NoSlot(c)
        PROVE  PlacesInv'
    BY <2>10 DEF NoSlot, PlacesInv, NotUpYet, Registered, LiveIsRunning, Starting, StartingPlaces, Up,
       InFlight, Of, Goto, Calls, memory, ghosts, counts, TypeOK, RowsOK, MemoryOK,
       CallsOK, GhostsOK
  <2>11. ASSUME NEW c \in Calls, Refused(c)
        PROVE  PlacesInv'
    <3>1. Of(c) \in Runs
      BY <2>11, OfType DEF Refused, TypeOK, InFlight, CallsOK, Calls
    <3>2. NotUpYet'
      BY <2>11, <3>1 DEF Refused, CallsInv, Alone, Finishes, PlacesInv, NotUpYet, Up,
         InFlight, Of, Goto, Calls, ghosts, counts, TypeOK, RowsOK, MemoryOK, CallsOK,
         GhostsOK
    <3>3. Registered'
      BY <2>11, <3>1 DEF Refused, CallsInv, Alone, Finishes, PlacesInv, NotUpYet,
         Registered, LiveIsRunning, Up, InFlight, Of, Goto, Calls, ghosts, counts,
         TypeOK, RowsOK, MemoryOK, CallsOK, GhostsOK
    <3>4. (Up \ raced \subseteq live \cap bound)'
      BY <2>11, <3>1 DEF Refused, CallsInv, Alone, Finishes, PlacesInv, NotUpYet,
         Registered, LiveIsRunning, Up, InFlight, Of, Goto, Calls, ghosts, counts,
         TypeOK, RowsOK, MemoryOK, CallsOK, GhostsOK
    <3>5. \A r1 \in live' : (r1 \in Up \/ Starting(r1) \/ r1 \in stuck)'
      <4> SUFFICES ASSUME NEW r1 \in live', r1 \notin Up', r1 \notin stuck'
                   PROVE  Starting(r1)'
        OBVIOUS
      <4>1. r1 \in live /\ r1 \notin Up /\ r1 \notin stuck /\ r1 # Of(c)
        BY <2>11, <3>1 DEF Refused, Up, TypeOK, MemoryOK, ghosts
      <4>2. PICK d \in Calls : at[d] \in StartingPlaces /\ Of(d) = r1
        BY <4>1 DEF PlacesInv, LiveIsRunning, Starting, StartingPlaces
      <4>3. d # c /\ at'[d] = at[d] /\ Of(d)' = Of(d)
        BY <2>11, <4>1, <4>2 DEF Refused, Finishes, Goto, Of, Calls, TypeOK, CallsOK
      <4>4. QED
        BY <4>2, <4>3 DEF Starting, StartingPlaces
    <3>6. QED
      BY <3>2, <3>3, <3>4, <3>5 DEF PlacesInv, LiveIsRunning
  <2>12. ASSUME NEW r \in Runs, Begins(r)
        PROVE  PlacesInv'
    <3>1. UNCHANGED <<live, bound, raced, stuck, at, target, binder>> /\ Up' = Up
      BY <2>12 DEF Begins, Say, Up, memory, calls, ghosts, TypeOK, MemoryOK
    <3>2. \A c \in Calls : Of(c)' = Of(c)
      BY <3>1 DEF Of
    <3>3. QED
      BY <3>1, <3>2 DEF PlacesInv, NotUpYet, Registered, LiveIsRunning, Starting, Calls,
         InFlight
  <2>13. ASSUME NEW r \in Runs, Pauses(r)
        PROVE  PlacesInv'
    BY <2>13 DEF Pauses, PlacesInv, NotUpYet, Registered, LiveIsRunning, Starting, StartingPlaces, Up,
       InFlight, Of, Calls, calls, ghosts, TypeOK, RowsOK, MemoryOK, CallsOK, GhostsOK
  <2>14. ASSUME NEW r \in Runs, Ends(r)
        PROVE  PlacesInv'
    BY <2>14 DEF Ends, PlacesInv, NotUpYet, Registered, LiveIsRunning, Starting, StartingPlaces, Up,
       InFlight, Of, Calls, memory, calls, ghosts, counts, TypeOK, RowsOK, MemoryOK,
       CallsOK, GhostsOK
  <2>15. ASSUME NEW r \in Runs, Exits(r)
        PROVE  PlacesInv'
    <3>2. NotUpYet'
      BY <2>15 DEF Exits, ReleasesSlot, ForgetsEnded, PlacesInv, NotUpYet, Up, InFlight,
         Of, Calls, calls, ghosts, counts, TypeOK, RowsOK, MemoryOK, CallsOK, GhostsOK
    <3>3. Registered'
      BY <2>15 DEF Exits, ReleasesSlot, ForgetsEnded, PlacesInv, NotUpYet, Registered,
         LiveIsRunning, Up, InFlight, Of, Calls, calls, ghosts, counts, TypeOK, RowsOK,
         MemoryOK, CallsOK, GhostsOK
    <3>4. (Up \ raced \subseteq live \cap bound)'
      BY <2>15 DEF Exits, ReleasesSlot, ForgetsEnded, PlacesInv, NotUpYet, Registered,
         LiveIsRunning, Up, InFlight, Of, Calls, calls, ghosts, counts, TypeOK, RowsOK,
         MemoryOK, CallsOK, GhostsOK
    <3>5. \A r1 \in live' : (r1 \in Up \/ Starting(r1) \/ r1 \in stuck)'
      BY <2>15 DEF Exits, ReleasesSlot, ForgetsEnded, PlacesInv, LiveIsRunning,
         Starting, StartingPlaces, Up, Of, Calls, calls, ghosts, counts, TypeOK, RowsOK, MemoryOK,
         CallsOK, GhostsOK
    <3>6. QED
      BY <3>2, <3>3, <3>4, <3>5 DEF PlacesInv, LiveIsRunning
  <2>16. ASSUME NEW r \in Runs, SpawnError(r)
        PROVE  PlacesInv'
    <3>2. NotUpYet'
      BY <2>16 DEF SpawnError, ReleasesSlot, PlacesInv, NotUpYet, Up, InFlight, Of,
         Calls, calls, ghosts, counts, TypeOK, RowsOK, MemoryOK, CallsOK, GhostsOK
    <3>3. Registered'
      BY <2>16 DEF SpawnError, ReleasesSlot, PlacesInv, NotUpYet, Registered,
         LiveIsRunning, Up, InFlight, Of, Calls, calls, ghosts, counts, TypeOK, RowsOK,
         MemoryOK, CallsOK, GhostsOK
    <3>4. (Up \ raced \subseteq live \cap bound)'
      BY <2>16 DEF SpawnError, ReleasesSlot, PlacesInv, NotUpYet, Registered,
         LiveIsRunning, Up, InFlight, Of, Calls, calls, ghosts, counts, TypeOK, RowsOK,
         MemoryOK, CallsOK, GhostsOK
    <3>5. \A r1 \in live' : (r1 \in Up \/ Starting(r1) \/ r1 \in stuck)'
      BY <2>16 DEF SpawnError, ReleasesSlot, PlacesInv, LiveIsRunning, Starting, StartingPlaces, Up, Of,
         Calls, calls, ghosts, counts, TypeOK, RowsOK, MemoryOK, CallsOK, GhostsOK
    <3>6. QED
      BY <3>2, <3>3, <3>4, <3>5 DEF PlacesInv, LiveIsRunning
  <2>17. ASSUME NEW r \in Runs, Returns(r)
        PROVE  PlacesInv'
    BY <2>17 DEF Returns, PlacesInv, NotUpYet, Registered, LiveIsRunning, Starting, StartingPlaces, Up,
       InFlight, Of, Calls, memory, calls, ghosts, counts, TypeOK, RowsOK, MemoryOK,
       CallsOK, GhostsOK
  <2>18. ASSUME NEW r \in Runs, CancelReads(r)
        PROVE  PlacesInv'
    BY <2>18 DEF CancelReads, PlacesInv, NotUpYet, Registered, LiveIsRunning, Starting, StartingPlaces,
       Up, InFlight, Of, Calls, ghosts, counts, TypeOK, RowsOK, MemoryOK, CallsOK,
       GhostsOK
  <2>19. ASSUME NEW r \in Runs, CancelMarks(r)
        PROVE  PlacesInv'
    BY <2>19 DEF CancelMarks, PlacesInv, NotUpYet, Registered, LiveIsRunning, Starting, StartingPlaces,
       Up, InFlight, Of, Calls, memory, ghosts, counts, TypeOK, RowsOK, MemoryOK,
       CallsOK, GhostsOK
  <2>20. CASE Lapses
    BY <2>20 DEF Lapses, PlacesInv, NotUpYet, Registered, LiveIsRunning, Starting, StartingPlaces, Up,
       InFlight, Of, Calls, calls, ghosts, counts, TypeOK, RowsOK, MemoryOK, CallsOK,
       GhostsOK
  <2>21. CASE Ingests
    BY <2>21 DEF Ingests, PlacesInv, NotUpYet, Registered, LiveIsRunning, Starting, StartingPlaces, Up,
       InFlight, Of, Calls, memory, calls, ghosts, counts, TypeOK, RowsOK, MemoryOK,
       CallsOK, GhostsOK
  <2>22. ASSUME GatewayDies
        PROVE  PlacesInv'
    BY <2>22 DEF GatewayDies, PlacesInv, NotUpYet, Registered, LiveIsRunning, Starting, StartingPlaces, Up,
       InFlight, Of, Calls, TypeOK, RowsOK, MemoryOK, CallsOK, GhostsOK
  <2>23. CASE Crash
    BY <2>22, <2>23 DEF Crash
  <2>24. ASSUME NEW c \in Calls, Unhandled(c)
        PROVE  PlacesInv'
    BY <2>22, <2>24 DEF Unhandled
  <2>25. ASSUME NEW c \in Calls, Throws(c)
        PROVE  PlacesInv'
    BY <2>25 DEF Throws, PlacesInv, NotUpYet, Registered, LiveIsRunning, Starting, StartingPlaces, Up,
       InFlight, Of, Goto, Calls, memory, ghosts, counts, TypeOK, RowsOK, MemoryOK,
       CallsOK, GhostsOK
  <2>26. ASSUME NEW c \in Calls, Caught(c)
        PROVE  PlacesInv'
    <3>1. Of(c) \in Runs
      BY <2>26, OfType DEF Caught, memory, TypeOK, InFlight, CallsOK, Calls
    <3>2. NotUpYet'
      BY <2>26, <3>1 DEF Caught, memory, CallsInv, Alone, Finishes, PlacesInv, NotUpYet, Up,
         InFlight, Of, Goto, Calls, ghosts, counts, TypeOK, RowsOK, MemoryOK, CallsOK,
         GhostsOK
    <3>3. Registered'
      BY <2>26, <3>1 DEF Caught, memory, CallsInv, Alone, Finishes, PlacesInv, NotUpYet,
         Registered, LiveIsRunning, Up, InFlight, Of, Goto, Calls, ghosts, counts,
         TypeOK, RowsOK, MemoryOK, CallsOK, GhostsOK
    <3>4. (Up \ raced \subseteq live \cap bound)'
      BY <2>26, <3>1 DEF Caught, memory, CallsInv, Alone, Finishes, PlacesInv, NotUpYet,
         Registered, LiveIsRunning, Up, InFlight, Of, Goto, Calls, ghosts, counts,
         TypeOK, RowsOK, MemoryOK, CallsOK, GhostsOK
    <3>5. \A r1 \in live' : (r1 \in Up \/ Starting(r1) \/ r1 \in stuck)'
      <4> SUFFICES ASSUME NEW r1 \in live', r1 \notin Up', r1 \notin stuck'
                   PROVE  Starting(r1)'
        OBVIOUS
      <4>1. r1 \in live /\ r1 \notin Up /\ r1 \notin stuck /\ r1 # Of(c)
        BY <2>26, <3>1 DEF Caught, memory, Of, Up, TypeOK, MemoryOK, ghosts
      <4>2. PICK d \in Calls : at[d] \in StartingPlaces /\ Of(d) = r1
        BY <4>1 DEF PlacesInv, LiveIsRunning, Starting, StartingPlaces
      <4>3. d # c /\ at'[d] = at[d] /\ Of(d)' = Of(d)
        BY <2>26, <4>1, <4>2 DEF Caught, memory, Finishes, Goto, Of, Calls, TypeOK, CallsOK
      <4>4. QED
        BY <4>2, <4>3 DEF Starting, StartingPlaces
    <3>6. QED
      BY <3>2, <3>3, <3>4, <3>5 DEF PlacesInv, LiveIsRunning
  <2>27. CASE UNCHANGED vars
    BY <2>27 DEF vars, memory, calls, ghosts, counts, PlacesInv, NotUpYet, Registered,
       LiveIsRunning, Starting, StartingPlaces, Up, InFlight, Of, Calls, TypeOK, RowsOK, MemoryOK,
       CallsOK, GhostsOK
  <2>28. QED
    BY <2>1, <2>2, <2>3, <2>4, <2>5, <2>6, <2>7, <2>8, <2>9, <2>10, <2>11, <2>12, <2>13,
       <2>14, <2>15, <2>16, <2>17, <2>18, <2>19, <2>20, <2>21, <2>22, <2>23, <2>24, <2>25,
       <2>26, <2>27 DEF Next,
       Command, Call, Process
<1>3. QED
  BY <1>1, <1>2, TypeInvariant, CallsInvariant, PTL DEF Spec

-----------------------------------------------------------------------------
(* The one reservation *)

\* What is tracked or on its way back is the lease that stands, once, and so is
\* what the one call that was granted it is about to use.
LeaseIsKnown ==
  /\ \A r \in tracked \cup returning : lease = r
  /\ tracked \cap returning = {}
Granted(c) == at[c] = "granted"
GrantIsAlone ==
  /\ \A c \in Calls : Granted(c) => lease = Of(c) /\ lease \notin tracked \cup returning
  /\ \A c, d \in Calls : Granted(c) /\ Granted(d) => c = d

\* A lease lapses under a run only when no call is in flight, and none is made
\* while the run is live.
HeldOrAlone == \A r \in Up \ raced : r \in tracked \/ InFlight = {}

LeaseInv == LeaseIsKnown /\ GrantIsAlone /\ HeldOrAlone /\ OneRunPerWorkspace /\ ReservationIsUsed

LEMMA LeaseInvariant == Spec => []LeaseInv
<1>1. Init => LeaseInv
  BY CallsAssumption DEF Init, LeaseInv, LeaseIsKnown, GrantIsAlone, HeldOrAlone,
     OneRunPerWorkspace, ReservationIsUsed, Free, Granted, Up
<1>2. TypeOK /\ TypeOK' /\ PlacesInv /\ LeaseInv /\ [Next]_vars => LeaseInv'
  <2> SUFFICES ASSUME TypeOK /\ TypeOK' /\ PlacesInv /\ LeaseInv, [Next]_vars
               PROVE  LeaseInv'
    OBVIOUS
  <2> USE CallsAssumption
  <2>1. ASSUME NEW r \in Runs, Asked(r)
        PROVE  LeaseInv'
    BY <2>1 DEF Asked, PlacesInv, LiveIsRunning, NoneIsLive, LeaseInv, LeaseIsKnown,
       GrantIsAlone, HeldOrAlone, OneRunPerWorkspace, ReservationIsUsed, Free, Granted,
       Up, InFlight, Of, Goto, Calls, memory, ghosts, counts, TypeOK, MemoryOK, LeaseOK,
       CallsOK, GhostsOK
  <2>2. ASSUME NEW r \in Runs, Copies(r)
        PROVE  LeaseInv'
    BY <2>2 DEF Copies, LeaseInv, LeaseIsKnown, GrantIsAlone, HeldOrAlone,
       OneRunPerWorkspace, ReservationIsUsed, Free, Granted, Up, InFlight, Of, Goto,
       Calls, memory, ghosts, counts, TypeOK, MemoryOK, LeaseOK, CallsOK, GhostsOK
  <2>3. ASSUME NEW c \in Resumes, NEW r \in Runs, ResumeAsked(c, r)
        PROVE  LeaseInv'
    <3>2. LeaseIsKnown'
      BY <2>3 DEF ResumeAsked, LeaseInv, LeaseIsKnown, GrantIsAlone, Granted, InFlight,
         Of, Goto, Calls, counts, TypeOK, MemoryOK, LeaseOK, CallsOK, GhostsOK
    <3>3. GrantIsAlone'
      BY <2>3 DEF ResumeAsked, LeaseInv, LeaseIsKnown, GrantIsAlone, Granted, InFlight,
         Of, Goto, Calls, counts, TypeOK, MemoryOK, LeaseOK, CallsOK, GhostsOK
    <3>4. HeldOrAlone'
      BY <2>3 DEF ResumeAsked, PlacesInv, LiveIsRunning, NoneIsLive, LeaseInv,
         HeldOrAlone, Up, InFlight, Of, Goto, Calls, counts, TypeOK, MemoryOK, LeaseOK,
         CallsOK, GhostsOK
    <3>5. OneRunPerWorkspace'
      BY <2>3 DEF ResumeAsked, LeaseInv, LeaseIsKnown, GrantIsAlone, HeldOrAlone,
         OneRunPerWorkspace, Granted, Up, InFlight, Of, Goto, Calls, counts, TypeOK,
         MemoryOK, LeaseOK, CallsOK, GhostsOK
    <3>6. ReservationIsUsed'
      BY <2>3 DEF ResumeAsked, LeaseInv, LeaseIsKnown, GrantIsAlone, ReservationIsUsed,
         Free, Granted, Up, InFlight, Of, Goto, Calls, counts, TypeOK, MemoryOK,
         LeaseOK, CallsOK, GhostsOK
    <3>7. QED
      BY <3>2, <3>3, <3>4, <3>5, <3>6 DEF LeaseInv
  <2>4. ASSUME NEW c \in Resumes, ResumeUnbinds(c)
        PROVE  LeaseInv'
    <3>1. Of(c) \in Runs
      BY <2>4, OfType DEF ResumeUnbinds, TypeOK, InFlight, CallsOK, Calls
    <3>2. LeaseIsKnown'
      BY <2>4, <3>1 DEF ResumeUnbinds, Finishes, LeaseInv, LeaseIsKnown, GrantIsAlone,
         Granted, Of, Goto, Calls, ghosts, counts, TypeOK, MemoryOK, LeaseOK, CallsOK,
         GhostsOK
    <3>3. GrantIsAlone'
      BY <2>4, <3>1 DEF ResumeUnbinds, Finishes, LeaseInv, LeaseIsKnown, GrantIsAlone,
         Granted, Of, Goto, Calls, ghosts, counts, TypeOK, MemoryOK, LeaseOK, CallsOK,
         GhostsOK
    <3>4. HeldOrAlone'
      BY <2>4, <3>1 DEF ResumeUnbinds, Finishes, LeaseInv, HeldOrAlone, Up, InFlight,
         Of, Goto, Calls, ghosts, counts, TypeOK, MemoryOK, LeaseOK, CallsOK, GhostsOK
    <3>5. OneRunPerWorkspace'
      BY <2>4, <3>1 DEF ResumeUnbinds, Finishes, LeaseInv, LeaseIsKnown, GrantIsAlone,
         HeldOrAlone, OneRunPerWorkspace, Granted, Up, InFlight, Of, Goto, Calls,
         ghosts, counts, TypeOK, MemoryOK, LeaseOK, CallsOK, GhostsOK
    <3>6. ReservationIsUsed'
      BY <2>4, <3>1 DEF ResumeUnbinds, Finishes, LeaseInv, LeaseIsKnown, GrantIsAlone,
         ReservationIsUsed, Free, Granted, Up, Of, Goto, Calls, ghosts, counts, TypeOK,
         MemoryOK, LeaseOK, CallsOK, GhostsOK
    <3>7. QED
      BY <3>2, <3>3, <3>4, <3>5, <3>6 DEF LeaseInv
  <2>5. ASSUME NEW c \in Resumes, ResumeMarks(c)
        PROVE  LeaseInv'
    BY <2>5 DEF ResumeMarks, LeaseInv, LeaseIsKnown, GrantIsAlone, HeldOrAlone,
       OneRunPerWorkspace, ReservationIsUsed, Free, Granted, Up, InFlight, Of, Goto,
       Calls, memory, ghosts, counts, TypeOK, MemoryOK, LeaseOK, CallsOK, GhostsOK
  <2>6. ASSUME NEW c \in Calls, TurnedDown(c)
        PROVE  LeaseInv'
    <3>1. Of(c) \in Runs
      BY <2>6, OfType DEF TurnedDown, TypeOK, InFlight, CallsOK, Calls
    <3>2. LeaseIsKnown'
      BY <2>6, <3>1 DEF TurnedDown, Finishes, LeaseInv, LeaseIsKnown, GrantIsAlone,
         Granted, Of, Goto, Calls, memory, ghosts, counts, TypeOK, MemoryOK, LeaseOK,
         CallsOK, GhostsOK
    <3>3. GrantIsAlone'
      BY <2>6, <3>1 DEF TurnedDown, Finishes, LeaseInv, LeaseIsKnown, GrantIsAlone,
         Granted, Of, Goto, Calls, memory, ghosts, counts, TypeOK, MemoryOK, LeaseOK,
         CallsOK, GhostsOK
    <3>4. HeldOrAlone'
      BY <2>6, <3>1 DEF TurnedDown, Finishes, LeaseInv, HeldOrAlone, Up, InFlight, Of,
         Goto, Calls, memory, ghosts, counts, TypeOK, MemoryOK, LeaseOK, CallsOK,
         GhostsOK
    <3>5. OneRunPerWorkspace'
      BY <2>6, <3>1 DEF TurnedDown, Finishes, LeaseInv, LeaseIsKnown, GrantIsAlone,
         HeldOrAlone, OneRunPerWorkspace, Granted, Up, InFlight, Of, Goto, Calls,
         memory, ghosts, counts, TypeOK, MemoryOK, LeaseOK, CallsOK, GhostsOK
    <3>6. ReservationIsUsed'
      BY <2>6, <3>1 DEF TurnedDown, Finishes, LeaseInv, LeaseIsKnown, GrantIsAlone,
         ReservationIsUsed, Free, Granted, Up, Of, Goto, Calls, memory, ghosts, counts,
         TypeOK, MemoryOK, LeaseOK, CallsOK, GhostsOK
    <3>7. QED
      BY <3>2, <3>3, <3>4, <3>5, <3>6 DEF LeaseInv
  <2>7. ASSUME NEW c \in Calls, Registers(c)
        PROVE  LeaseInv'
    BY <2>7 DEF Registers, LeaseInv, LeaseIsKnown, GrantIsAlone, HeldOrAlone,
       OneRunPerWorkspace, ReservationIsUsed, Free, Granted, Up, InFlight, Of, Goto,
       Calls, ghosts, counts, TypeOK, MemoryOK, LeaseOK, CallsOK, GhostsOK
  <2>8. ASSUME NEW c \in Calls, Reserves(c)
        PROVE  LeaseInv'
    <3>1. Of(c) \in Runs
      BY <2>8, OfType DEF Reserves, TypeOK, InFlight, CallsOK, Calls
    <3>2. LeaseIsKnown'
      BY <2>8, <3>1 DEF Reserves, LeaseInv, LeaseIsKnown, GrantIsAlone, Free, Granted,
         Of, Goto, Calls, memory, counts, TypeOK, MemoryOK, LeaseOK, CallsOK, GhostsOK
    <3>3. GrantIsAlone'
      BY <2>8, <3>1 DEF Reserves, LeaseInv, LeaseIsKnown, GrantIsAlone, Free, Granted,
         Of, Goto, Calls, memory, counts, TypeOK, MemoryOK, LeaseOK, CallsOK, GhostsOK
    <3>4. HeldOrAlone'
      BY <2>8, <3>1 DEF Reserves, LeaseInv, HeldOrAlone, Free, Up, InFlight, Of, Goto,
         Calls, memory, counts, TypeOK, MemoryOK, LeaseOK, CallsOK, GhostsOK
    <3>5. OneRunPerWorkspace'
      BY <2>8, <3>1 DEF Reserves, LeaseInv, LeaseIsKnown, GrantIsAlone, HeldOrAlone,
         OneRunPerWorkspace, Free, Granted, Up, InFlight, Of, Goto, Calls, memory,
         counts, TypeOK, MemoryOK, LeaseOK, CallsOK, GhostsOK
    <3>6. ReservationIsUsed'
      BY <2>8, <3>1 DEF Reserves, LeaseInv, LeaseIsKnown, GrantIsAlone,
         ReservationIsUsed, Free, Granted, Up, Of, Goto, Calls, memory, counts, TypeOK,
         MemoryOK, LeaseOK, CallsOK, GhostsOK
    <3>7. QED
      BY <3>2, <3>3, <3>4, <3>5, <3>6 DEF LeaseInv
  <2>9. ASSUME NEW c \in Calls, Starts(c)
        PROVE  LeaseInv'
    <3>1. Of(c) \in Runs
      BY <2>9, OfType DEF Starts, TypeOK, InFlight, CallsOK, Calls
    <3>2. LeaseIsKnown'
      BY <2>9, <3>1 DEF Starts, Finishes, LeaseInv, LeaseIsKnown, GrantIsAlone, Granted,
         Of, Goto, Calls, ghosts, counts, TypeOK, MemoryOK, LeaseOK, CallsOK, GhostsOK
    <3>3. GrantIsAlone'
      BY <2>9, <3>1 DEF Starts, Finishes, LeaseInv, LeaseIsKnown, GrantIsAlone, Granted,
         Of, Goto, Calls, ghosts, counts, TypeOK, MemoryOK, LeaseOK, CallsOK, GhostsOK
    <3>4. HeldOrAlone'
      BY <2>9, <3>1 DEF Starts, Finishes, LeaseInv, HeldOrAlone, Up, InFlight, Of, Goto,
         Calls, ghosts, counts, TypeOK, MemoryOK, LeaseOK, CallsOK, GhostsOK
    <3>5. OneRunPerWorkspace'
      BY <2>9, <3>1 DEF Starts, Finishes, LeaseInv, LeaseIsKnown, GrantIsAlone,
         HeldOrAlone, OneRunPerWorkspace, Granted, Up, InFlight, Of, Goto, Calls,
         ghosts, counts, TypeOK, MemoryOK, LeaseOK, CallsOK, GhostsOK
    <3>6. ReservationIsUsed'
      BY <2>9, <3>1 DEF Starts, Finishes, LeaseInv, LeaseIsKnown, GrantIsAlone,
         ReservationIsUsed, Free, Granted, Up, Of, Goto, Calls, ghosts, counts, TypeOK,
         MemoryOK, LeaseOK, CallsOK, GhostsOK
    <3>7. QED
      BY <3>2, <3>3, <3>4, <3>5, <3>6 DEF LeaseInv
  <2>10. ASSUME NEW c \in Calls, NoSlot(c)
        PROVE  LeaseInv'
    BY <2>10 DEF NoSlot, LeaseInv, LeaseIsKnown, GrantIsAlone, HeldOrAlone,
       OneRunPerWorkspace, ReservationIsUsed, Free, Granted, Up, InFlight, Of, Goto,
       Calls, memory, ghosts, counts, TypeOK, MemoryOK, LeaseOK, CallsOK, GhostsOK
  <2>11. ASSUME NEW c \in Calls, Refused(c)
        PROVE  LeaseInv'
    <3>1. Of(c) \in Runs
      BY <2>11, OfType DEF Refused, TypeOK, InFlight, CallsOK, Calls
    <3>2. LeaseIsKnown'
      BY <2>11, <3>1 DEF Refused, Finishes, LeaseInv, LeaseIsKnown, GrantIsAlone,
         Granted, Of, Goto, Calls, ghosts, counts, TypeOK, MemoryOK, LeaseOK, CallsOK,
         GhostsOK
    <3>3. GrantIsAlone'
      BY <2>11, <3>1 DEF Refused, Finishes, LeaseInv, LeaseIsKnown, GrantIsAlone,
         Granted, Of, Goto, Calls, ghosts, counts, TypeOK, MemoryOK, LeaseOK, CallsOK,
         GhostsOK
    <3>4. HeldOrAlone'
      BY <2>11, <3>1 DEF Refused, Finishes, LeaseInv, HeldOrAlone, Up, InFlight, Of,
         Goto, Calls, ghosts, counts, TypeOK, MemoryOK, LeaseOK, CallsOK, GhostsOK
    <3>5. OneRunPerWorkspace'
      BY <2>11, <3>1 DEF Refused, Finishes, LeaseInv, LeaseIsKnown, GrantIsAlone,
         HeldOrAlone, OneRunPerWorkspace, Granted, Up, InFlight, Of, Goto, Calls,
         ghosts, counts, TypeOK, MemoryOK, LeaseOK, CallsOK, GhostsOK
    <3>6. ReservationIsUsed'
      BY <2>11, <3>1 DEF Refused, Finishes, LeaseInv, LeaseIsKnown, GrantIsAlone,
         ReservationIsUsed, Free, Granted, Up, Of, Goto, Calls, ghosts, counts, TypeOK,
         MemoryOK, LeaseOK, CallsOK, GhostsOK
    <3>7. QED
      BY <3>2, <3>3, <3>4, <3>5, <3>6 DEF LeaseInv
  <2>12. ASSUME NEW r \in Runs, Begins(r)
        PROVE  LeaseInv'
    BY <2>12 DEF Begins, LeaseInv, LeaseIsKnown, GrantIsAlone, HeldOrAlone,
       OneRunPerWorkspace, ReservationIsUsed, Free, Granted, Up, InFlight, Of, Calls,
       memory, calls, ghosts, counts, TypeOK, MemoryOK, LeaseOK, CallsOK, GhostsOK
  <2>13. ASSUME NEW r \in Runs, Pauses(r)
        PROVE  LeaseInv'
    BY <2>13 DEF Pauses, LeaseInv, LeaseIsKnown, GrantIsAlone, HeldOrAlone,
       OneRunPerWorkspace, ReservationIsUsed, Free, Granted, Up, InFlight, Of, Calls,
       calls, ghosts, TypeOK, MemoryOK, LeaseOK, CallsOK, GhostsOK
  <2>14. ASSUME NEW r \in Runs, Ends(r)
        PROVE  LeaseInv'
    BY <2>14 DEF Ends, LeaseInv, LeaseIsKnown, GrantIsAlone, HeldOrAlone,
       OneRunPerWorkspace, ReservationIsUsed, Free, Granted, Up, InFlight, Of, Calls,
       memory, calls, ghosts, counts, TypeOK, MemoryOK, LeaseOK, CallsOK, GhostsOK
  <2>15. ASSUME NEW r \in Runs, Exits(r)
        PROVE  LeaseInv'
    <3>2. LeaseIsKnown'
      BY <2>15 DEF Exits, ReleasesSlot, ForgetsEnded, LeaseInv, LeaseIsKnown,
         GrantIsAlone, Granted, Of, Calls, calls, ghosts, counts, TypeOK, MemoryOK,
         LeaseOK, CallsOK, GhostsOK
    <3>3. GrantIsAlone'
      BY <2>15 DEF Exits, ReleasesSlot, ForgetsEnded, LeaseInv, LeaseIsKnown,
         GrantIsAlone, Granted, Of, Calls, calls, ghosts, counts, TypeOK, MemoryOK,
         LeaseOK, CallsOK, GhostsOK
    <3>4. HeldOrAlone'
      BY <2>15 DEF Exits, ReleasesSlot, ForgetsEnded, LeaseInv, HeldOrAlone, Up,
         InFlight, Calls, calls, ghosts, counts, TypeOK, MemoryOK, LeaseOK, CallsOK,
         GhostsOK
    <3>5. OneRunPerWorkspace'
      BY <2>15 DEF Exits, ReleasesSlot, ForgetsEnded, LeaseInv, LeaseIsKnown,
         GrantIsAlone, HeldOrAlone, OneRunPerWorkspace, Granted, Up, InFlight, Of,
         Calls, calls, ghosts, counts, TypeOK, MemoryOK, LeaseOK, CallsOK, GhostsOK
    <3>6. ReservationIsUsed'
      BY <2>15 DEF Exits, ReleasesSlot, ForgetsEnded, PlacesInv, LiveIsRunning,
         LeaseInv, LeaseIsKnown, GrantIsAlone, ReservationIsUsed, Free, Granted, Up, Of,
         Calls, calls, ghosts, counts, TypeOK, MemoryOK, LeaseOK, CallsOK, GhostsOK
    <3>7. QED
      BY <3>2, <3>3, <3>4, <3>5, <3>6 DEF LeaseInv
  <2>16. ASSUME NEW r \in Runs, SpawnError(r)
        PROVE  LeaseInv'
    <3>2. LeaseIsKnown'
      BY <2>16 DEF SpawnError, ReleasesSlot, LeaseInv, LeaseIsKnown, GrantIsAlone,
         Granted, Of, Calls, calls, ghosts, counts, TypeOK, MemoryOK, LeaseOK, CallsOK,
         GhostsOK
    <3>3. GrantIsAlone'
      BY <2>16 DEF SpawnError, ReleasesSlot, LeaseInv, LeaseIsKnown, GrantIsAlone,
         Granted, Of, Calls, calls, ghosts, counts, TypeOK, MemoryOK, LeaseOK, CallsOK,
         GhostsOK
    <3>4. HeldOrAlone'
      BY <2>16 DEF SpawnError, ReleasesSlot, LeaseInv, HeldOrAlone, Up, InFlight, Calls,
         calls, ghosts, counts, TypeOK, MemoryOK, LeaseOK, CallsOK, GhostsOK
    <3>5. OneRunPerWorkspace'
      BY <2>16 DEF SpawnError, ReleasesSlot, LeaseInv, LeaseIsKnown, GrantIsAlone,
         HeldOrAlone, OneRunPerWorkspace, Granted, Up, InFlight, Of, Calls, calls,
         ghosts, counts, TypeOK, MemoryOK, LeaseOK, CallsOK, GhostsOK
    <3>6. ReservationIsUsed'
      BY <2>16 DEF SpawnError, ReleasesSlot, PlacesInv, LiveIsRunning, LeaseInv,
         LeaseIsKnown, GrantIsAlone, ReservationIsUsed, Free, Granted, Up, Of, Calls,
         calls, ghosts, counts, TypeOK, MemoryOK, LeaseOK, CallsOK, GhostsOK
    <3>7. QED
      BY <3>2, <3>3, <3>4, <3>5, <3>6 DEF LeaseInv
  <2>17. ASSUME NEW r \in Runs, Returns(r)
        PROVE  LeaseInv'
    BY <2>17 DEF Returns, LeaseInv, LeaseIsKnown, GrantIsAlone, HeldOrAlone,
       OneRunPerWorkspace, ReservationIsUsed, Free, Granted, Up, InFlight, Of, Calls,
       memory, calls, ghosts, counts, TypeOK, MemoryOK, LeaseOK, CallsOK, GhostsOK
  <2>18. ASSUME NEW r \in Runs, CancelReads(r)
        PROVE  LeaseInv'
    BY <2>18 DEF CancelReads, LeaseInv, LeaseIsKnown, GrantIsAlone, HeldOrAlone,
       OneRunPerWorkspace, ReservationIsUsed, Free, Granted, Up, InFlight, Of, Calls,
       ghosts, counts, TypeOK, MemoryOK, LeaseOK, CallsOK, GhostsOK
  <2>19. ASSUME NEW r \in Runs, CancelMarks(r)
        PROVE  LeaseInv'
    BY <2>19 DEF CancelMarks, LeaseInv, LeaseIsKnown, GrantIsAlone, HeldOrAlone,
       OneRunPerWorkspace, ReservationIsUsed, Free, Granted, Up, InFlight, Of, Calls,
       memory, ghosts, counts, TypeOK, MemoryOK, LeaseOK, CallsOK, GhostsOK
  <2>20. CASE Lapses
    BY <2>20 DEF Lapses, LeaseInv, LeaseIsKnown, GrantIsAlone, HeldOrAlone,
       OneRunPerWorkspace, ReservationIsUsed, Free, Granted, Up, InFlight, Of, Calls,
       calls, ghosts, counts, TypeOK, MemoryOK, LeaseOK, CallsOK, GhostsOK
  <2>21. CASE Ingests
    BY <2>21 DEF Ingests, LeaseInv, LeaseIsKnown, GrantIsAlone, HeldOrAlone,
       OneRunPerWorkspace, ReservationIsUsed, Free, Granted, Up, InFlight, Of, Calls,
       memory, calls, ghosts, counts, TypeOK, MemoryOK, LeaseOK, CallsOK, GhostsOK
  <2>22. ASSUME GatewayDies
        PROVE  LeaseInv'
    BY <2>22 DEF GatewayDies, LeaseInv, LeaseIsKnown, GrantIsAlone, HeldOrAlone,
       OneRunPerWorkspace, ReservationIsUsed, Free, Granted, Up, InFlight, Of, Calls,
       TypeOK, MemoryOK, LeaseOK, CallsOK, GhostsOK
  <2>23. CASE Crash
    BY <2>22, <2>23 DEF Crash
  <2>24. ASSUME NEW c \in Calls, Unhandled(c)
        PROVE  LeaseInv'
    BY <2>22, <2>24 DEF Unhandled
  <2>25. ASSUME NEW c \in Calls, Throws(c)
        PROVE  LeaseInv'
    BY <2>25 DEF Throws, LeaseInv, LeaseIsKnown, GrantIsAlone, HeldOrAlone,
       OneRunPerWorkspace, ReservationIsUsed, Free, Granted, Up, InFlight, Of, Goto,
       Calls, memory, ghosts, counts, TypeOK, MemoryOK, LeaseOK, CallsOK, GhostsOK
  <2>26. ASSUME NEW c \in Calls, Caught(c)
        PROVE  LeaseInv'
    <3>1. Of(c) \in Runs
      BY <2>26, OfType DEF Caught, memory, TypeOK, InFlight, CallsOK, Calls
    <3>2. LeaseIsKnown'
      BY <2>26, <3>1 DEF Caught, memory, Finishes, LeaseInv, LeaseIsKnown, GrantIsAlone,
         Granted, Of, Goto, Calls, ghosts, counts, TypeOK, MemoryOK, LeaseOK, CallsOK,
         GhostsOK
    <3>3. GrantIsAlone'
      BY <2>26, <3>1 DEF Caught, memory, Finishes, LeaseInv, LeaseIsKnown, GrantIsAlone,
         Granted, Of, Goto, Calls, ghosts, counts, TypeOK, MemoryOK, LeaseOK, CallsOK,
         GhostsOK
    <3>4. HeldOrAlone'
      BY <2>26, <3>1 DEF Caught, memory, Finishes, LeaseInv, HeldOrAlone, Up, InFlight, Of,
         Goto, Calls, ghosts, counts, TypeOK, MemoryOK, LeaseOK, CallsOK, GhostsOK
    <3>5. OneRunPerWorkspace'
      BY <2>26, <3>1 DEF Caught, memory, Finishes, LeaseInv, LeaseIsKnown, GrantIsAlone,
         HeldOrAlone, OneRunPerWorkspace, Granted, Up, InFlight, Of, Goto, Calls,
         ghosts, counts, TypeOK, MemoryOK, LeaseOK, CallsOK, GhostsOK
    <3>6. ReservationIsUsed'
      BY <2>26, <3>1 DEF Caught, memory, Finishes, LeaseInv, LeaseIsKnown, GrantIsAlone,
         ReservationIsUsed, Free, Granted, Up, Of, Goto, Calls, ghosts, counts, TypeOK,
         MemoryOK, LeaseOK, CallsOK, GhostsOK
    <3>7. QED
      BY <3>2, <3>3, <3>4, <3>5, <3>6 DEF LeaseInv
  <2>27. CASE UNCHANGED vars
    BY <2>27 DEF vars, memory, calls, ghosts, counts, LeaseInv, LeaseIsKnown,
       GrantIsAlone, HeldOrAlone, OneRunPerWorkspace, ReservationIsUsed, Free, Granted,
       Up, InFlight, Of, Calls, TypeOK, MemoryOK, LeaseOK, CallsOK, GhostsOK
  <2>28. QED
    BY <2>1, <2>2, <2>3, <2>4, <2>5, <2>6, <2>7, <2>8, <2>9, <2>10, <2>11, <2>12, <2>13,
       <2>14, <2>15, <2>16, <2>17, <2>18, <2>19, <2>20, <2>21, <2>22, <2>23, <2>24, <2>25,
       <2>26, <2>27 DEF Next,
       Command, Call, Process
<1>3. QED
  BY <1>1, <1>2, TypeInvariant, PlacesInvariant, PTL DEF Spec

-----------------------------------------------------------------------------
(* What the rows say *)

Halted == {"paused", "completed", "error"}
Busy   == {r \in Runs \ raced : proc[r] \in {"starting", "working"}}

\* A row that reads as halted is not about to be written.
QuietRows == \A r \in Runs \ raced : row[r] \in Halted => r \notin Written

\* A process at work has said nothing but run_start, and its row does not read
\* as halted; and nothing follows a write that halts its run.
BusyRows == \A r \in Busy : row[r] \notin Halted
BusySays == \A i \in DOMAIN chain : chain[i].run \in Busy => chain[i].status = "running"
LastWord ==
  \A i, j \in DOMAIN chain :
    i < j /\ chain[i].run = chain[j].run /\ chain[i].run \notin raced => chain[i].status = "running"

\* Nothing is queued about a run that is being resumed or started, and it has
\* not ended.
ResumeQuiet ==
  \A c \in Resumes : at[c] # "idle" /\ target[c] \notin raced =>
    /\ target[c] \notin Written /\ row[target[c]] \notin {"completed", "error"}
    /\ at[c] \notin {"binding", "marking"} => row[target[c]] # "paused"
FreshQuiet ==
  \A r \in Runs \ raced : at[r] # "over" => r \notin Written /\ row[r] \notin Halted

RowsInv == QuietRows /\ BusyRows /\ BusySays /\ LastWord /\ ResumeQuiet /\ FreshQuiet

LEMMA SayBusy ==
  ASSUME RowsOK, BusySays, NEW r \in Runs, NEW status \in Statuses, Say(r, status),
         Busy' \subseteq Busy, status = "running" \/ r \notin Busy'
  PROVE  BusySays'
<1>1. CASE UNCHANGED chain
  BY <1>1 DEF BusySays
<1>2. CASE ~UNCHANGED chain
  <2>1. PICK n \in Nat :
          /\ DOMAIN chain = 1..n /\ DOMAIN chain' = 1..(n + 1)
          /\ \A i \in 1..n : chain'[i] = chain[i]
          /\ chain'[n + 1] = [run |-> r, status |-> status]
    BY <1>2, SayAdds
  <2>2. \A i \in DOMAIN chain' : \/ i \in DOMAIN chain /\ chain'[i] = chain[i]
                                 \/ chain'[i].run = r /\ chain'[i].status = status
    BY <2>1
  <2>3. QED
    BY <2>2 DEF BusySays
<1>3. QED
  BY <1>1, <1>2

LEMMA SayLast ==
  ASSUME RowsOK, LastWord, NEW r \in Runs, NEW status \in Statuses, Say(r, status),
         UNCHANGED raced,
         \A i \in DOMAIN chain : chain[i].run = r /\ r \notin raced => chain[i].status = "running"
  PROVE  LastWord'
<1>1. CASE UNCHANGED chain
  BY <1>1 DEF LastWord
<1>2. CASE ~UNCHANGED chain
  <2>1. PICK n \in Nat :
          /\ DOMAIN chain = 1..n /\ DOMAIN chain' = 1..(n + 1)
          /\ \A i \in 1..n : chain'[i] = chain[i]
          /\ chain'[n + 1] = [run |-> r, status |-> status]
    BY <1>2, SayAdds
  <2> SUFFICES ASSUME NEW i \in DOMAIN chain', NEW j \in DOMAIN chain', i < j,
                      chain'[i].run = chain'[j].run, chain'[i].run \notin raced
               PROVE  chain'[i].status = "running"
    BY DEF LastWord
  <2>2. /\ i \in DOMAIN chain /\ chain'[i] = chain[i]
        /\ (j \in DOMAIN chain /\ chain'[j] = chain[j]) \/ chain'[j].run = r
    BY <2>1
  <2>3. QED
    BY <2>2 DEF LastWord
<1>3. QED
  BY <1>1, <1>2

LEMMA TailLast ==
  ASSUME RowsOK, LastWord, chain # <<>>, chain' = Tail(chain), UNCHANGED raced
  PROVE  /\ LastWord'
         /\ \A x \in Written' : x = Head(chain).run /\ x \notin raced => Head(chain).status = "running"
<1>1. LastWord'
  <2> SUFFICES ASSUME NEW i \in DOMAIN chain', NEW j \in DOMAIN chain', i < j,
                      chain'[i].run = chain'[j].run, chain'[i].run \notin raced
               PROVE  chain'[i].status = "running"
    BY DEF LastWord
  <2>1. /\ i + 1 \in DOMAIN chain /\ j + 1 \in DOMAIN chain /\ i + 1 < j + 1
        /\ chain'[i] = chain[i + 1] /\ chain'[j] = chain[j + 1]
    BY TailDrops
  <2>2. QED
    BY <2>1 DEF LastWord
<1>2. ASSUME NEW i \in DOMAIN chain', chain'[i].run = Head(chain).run, Head(chain).run \notin raced
      PROVE  Head(chain).status = "running"
  <2>1. /\ 1 \in DOMAIN chain /\ i + 1 \in DOMAIN chain /\ 1 < i + 1
        /\ Head(chain) = chain[1] /\ chain'[i] = chain[i + 1]
    <3>1. i \in DOMAIN chain' /\ i \in Nat /\ i + 1 \in 1..Len(chain)
      BY TailDrops
    <3>2. QED
      BY <3>1, TailDrops
  <2>2. QED
    BY <1>2, <2>1 DEF LastWord
<1>3. QED
  BY <1>1, <1>2 DEF Written

LEMMA RowsInvariant == Spec => []RowsInv
<1>1. Init => RowsInv
  BY CallsAssumption, EmptySeq DEF Init, RowsInv, QuietRows, BusyRows, BusySays,
     LastWord, ResumeQuiet, FreshQuiet, Busy, Halted, Written, Calls
<1>2. TypeOK /\ TypeOK' /\ CallsInv /\ PlacesInv /\ RowsInv /\ [Next]_vars => RowsInv'
  <2> SUFFICES ASSUME TypeOK /\ TypeOK' /\ CallsInv /\ PlacesInv /\ RowsInv, [Next]_vars
               PROVE  RowsInv'
    OBVIOUS
  <2> USE CallsAssumption
  <2>1. ASSUME NEW r \in Runs, Asked(r)
        PROVE  RowsInv'
    BY <2>1 DEF Asked, RowsInv, QuietRows, BusyRows, BusySays, LastWord, ResumeQuiet,
       FreshQuiet, Busy, Halted, Written, Goto, Calls, memory, ghosts, counts, TypeOK,
       RowsOK, MemoryOK, CallsOK, GhostsOK
  <2>2. ASSUME NEW r \in Runs, Copies(r)
        PROVE  RowsInv'
    <3>2. QuietRows'
      BY <2>2 DEF Copies, CallsInv, Alone, Untouched, RowsInv, QuietRows, BusyRows,
         BusySays, LastWord, ResumeQuiet, FreshQuiet, Busy, Halted, Written, InFlight,
         Of, Goto, Calls, memory, ghosts, counts, TypeOK, RowsOK, MemoryOK, CallsOK,
         GhostsOK
    <3>3. BusyRows'
      BY <2>2 DEF Copies, CallsInv, Alone, Untouched, RowsInv, QuietRows, BusyRows,
         BusySays, LastWord, ResumeQuiet, FreshQuiet, Busy, Halted, Written, InFlight,
         Of, Goto, Calls, memory, ghosts, counts, TypeOK, RowsOK, MemoryOK, CallsOK,
         GhostsOK
    <3>4. BusySays'
      BY <2>2 DEF Copies, CallsInv, Alone, Untouched, RowsInv, QuietRows, BusyRows,
         BusySays, LastWord, ResumeQuiet, FreshQuiet, Busy, Halted, Written, InFlight,
         Of, Goto, Calls, memory, ghosts, counts, TypeOK, RowsOK, MemoryOK, CallsOK,
         GhostsOK
    <3>5. LastWord'
      BY <2>2 DEF Copies, CallsInv, Alone, Untouched, RowsInv, QuietRows, BusyRows,
         BusySays, LastWord, ResumeQuiet, FreshQuiet, Busy, Halted, Written, InFlight,
         Of, Goto, Calls, memory, ghosts, counts, TypeOK, RowsOK, MemoryOK, CallsOK,
         GhostsOK
    <3>6. ResumeQuiet'
      BY <2>2 DEF Copies, CallsInv, Alone, Untouched, RowsInv, QuietRows, BusyRows,
         BusySays, LastWord, ResumeQuiet, FreshQuiet, Busy, Halted, Written, InFlight,
         Of, Goto, Calls, memory, ghosts, counts, TypeOK, RowsOK, MemoryOK, CallsOK,
         GhostsOK
    <3>7. FreshQuiet'
      BY <2>2 DEF Copies, CallsInv, Alone, Untouched, RowsInv, QuietRows, BusyRows,
         BusySays, LastWord, ResumeQuiet, FreshQuiet, Busy, Halted, Written, InFlight,
         Of, Goto, Calls, memory, ghosts, counts, TypeOK, RowsOK, MemoryOK, CallsOK,
         GhostsOK
    <3>8. QED
      BY <3>2, <3>3, <3>4, <3>5, <3>6, <3>7 DEF RowsInv
  <2>3. ASSUME NEW c \in Resumes, NEW r \in Runs, ResumeAsked(c, r)
        PROVE  RowsInv'
    BY <2>3 DEF ResumeAsked, RowsInv, QuietRows, BusyRows, BusySays, LastWord,
       ResumeQuiet, FreshQuiet, Busy, Halted, Written, InFlight, Of, Goto, Calls,
       counts, TypeOK, RowsOK, MemoryOK, CallsOK, GhostsOK
  <2>4. ASSUME NEW c \in Resumes, ResumeUnbinds(c)
        PROVE  RowsInv'
    <3>1. Of(c) \in Runs
      BY <2>4, OfType DEF ResumeUnbinds, TypeOK, InFlight, CallsOK, Calls
    <3>2. QuietRows'
      BY <2>4, <3>1 DEF ResumeUnbinds, Finishes, RowsInv, QuietRows, BusyRows, BusySays,
         LastWord, ResumeQuiet, FreshQuiet, Busy, Halted, Written, Of, Goto, Calls,
         ghosts, counts, TypeOK, RowsOK, MemoryOK, CallsOK, GhostsOK
    <3>3. BusyRows'
      BY <2>4, <3>1 DEF ResumeUnbinds, Finishes, RowsInv, QuietRows, BusyRows, BusySays,
         LastWord, ResumeQuiet, FreshQuiet, Busy, Halted, Written, Of, Goto, Calls,
         ghosts, counts, TypeOK, RowsOK, MemoryOK, CallsOK, GhostsOK
    <3>4. BusySays'
      BY <2>4, <3>1 DEF ResumeUnbinds, Finishes, RowsInv, QuietRows, BusyRows, BusySays,
         LastWord, ResumeQuiet, FreshQuiet, Busy, Halted, Written, Of, Goto, Calls,
         ghosts, counts, TypeOK, RowsOK, MemoryOK, CallsOK, GhostsOK
    <3>5. LastWord'
      BY <2>4, <3>1 DEF ResumeUnbinds, Finishes, RowsInv, QuietRows, BusyRows, BusySays,
         LastWord, ResumeQuiet, FreshQuiet, Busy, Halted, Written, Of, Goto, Calls,
         ghosts, counts, TypeOK, RowsOK, MemoryOK, CallsOK, GhostsOK
    <3>6. ResumeQuiet'
      BY <2>4, <3>1 DEF ResumeUnbinds, Finishes, RowsInv, QuietRows, BusyRows, BusySays,
         LastWord, ResumeQuiet, FreshQuiet, Busy, Halted, Written, Of, Goto, Calls,
         ghosts, counts, TypeOK, RowsOK, MemoryOK, CallsOK, GhostsOK
    <3>7. FreshQuiet'
      BY <2>4, <3>1 DEF ResumeUnbinds, Finishes, RowsInv, QuietRows, BusyRows, BusySays,
         LastWord, ResumeQuiet, FreshQuiet, Busy, Halted, Written, Of, Goto, Calls,
         ghosts, counts, TypeOK, RowsOK, MemoryOK, CallsOK, GhostsOK
    <3>8. QED
      BY <3>2, <3>3, <3>4, <3>5, <3>6, <3>7 DEF RowsInv
  <2>5. ASSUME NEW c \in Resumes, ResumeMarks(c)
        PROVE  RowsInv'
    <3>1. Of(c) \in Runs
      BY <2>5, OfType DEF ResumeMarks, TypeOK, InFlight, CallsOK, Calls
    <3>2. QuietRows'
      BY <2>5, <3>1 DEF ResumeMarks, CallsInv, Alone, Untouched, RowsInv, QuietRows,
         BusyRows, BusySays, LastWord, ResumeQuiet, FreshQuiet, Busy, Halted, Written,
         InFlight, Of, Goto, Calls, memory, ghosts, counts, TypeOK, RowsOK, MemoryOK,
         CallsOK, GhostsOK
    <3>3. BusyRows'
      BY <2>5, <3>1 DEF ResumeMarks, CallsInv, Alone, Untouched, RowsInv, QuietRows,
         BusyRows, BusySays, LastWord, ResumeQuiet, FreshQuiet, Busy, Halted, Written,
         InFlight, Of, Goto, Calls, memory, ghosts, counts, TypeOK, RowsOK, MemoryOK,
         CallsOK, GhostsOK
    <3>4. BusySays'
      BY <2>5, <3>1 DEF ResumeMarks, CallsInv, Alone, Untouched, RowsInv, QuietRows,
         BusyRows, BusySays, LastWord, ResumeQuiet, FreshQuiet, Busy, Halted, Written,
         InFlight, Of, Goto, Calls, memory, ghosts, counts, TypeOK, RowsOK, MemoryOK,
         CallsOK, GhostsOK
    <3>5. LastWord'
      BY <2>5, <3>1 DEF ResumeMarks, CallsInv, Alone, Untouched, RowsInv, QuietRows,
         BusyRows, BusySays, LastWord, ResumeQuiet, FreshQuiet, Busy, Halted, Written,
         InFlight, Of, Goto, Calls, memory, ghosts, counts, TypeOK, RowsOK, MemoryOK,
         CallsOK, GhostsOK
    <3>6. ResumeQuiet'
      BY <2>5, <3>1 DEF ResumeMarks, CallsInv, Alone, Untouched, RowsInv, QuietRows,
         BusyRows, BusySays, LastWord, ResumeQuiet, FreshQuiet, Busy, Halted, Written,
         InFlight, Of, Goto, Calls, memory, ghosts, counts, TypeOK, RowsOK, MemoryOK,
         CallsOK, GhostsOK
    <3>7. FreshQuiet'
      BY <2>5, <3>1 DEF ResumeMarks, CallsInv, Alone, Untouched, RowsInv, QuietRows,
         BusyRows, BusySays, LastWord, ResumeQuiet, FreshQuiet, Busy, Halted, Written,
         InFlight, Of, Goto, Calls, memory, ghosts, counts, TypeOK, RowsOK, MemoryOK,
         CallsOK, GhostsOK
    <3>8. QED
      BY <3>2, <3>3, <3>4, <3>5, <3>6, <3>7 DEF RowsInv
  <2>6. ASSUME NEW c \in Calls, TurnedDown(c)
        PROVE  RowsInv'
    <3>1. Of(c) \in Runs
      BY <2>6, OfType DEF TurnedDown, TypeOK, InFlight, CallsOK, Calls
    <3>2. QuietRows'
      BY <2>6, <3>1 DEF TurnedDown, Finishes, RowsInv, QuietRows, BusyRows, BusySays,
         LastWord, ResumeQuiet, FreshQuiet, Busy, Halted, Written, Of, Goto, Calls,
         memory, ghosts, counts, TypeOK, RowsOK, MemoryOK, CallsOK, GhostsOK
    <3>3. BusyRows'
      BY <2>6, <3>1 DEF TurnedDown, Finishes, RowsInv, QuietRows, BusyRows, BusySays,
         LastWord, ResumeQuiet, FreshQuiet, Busy, Halted, Written, Of, Goto, Calls,
         memory, ghosts, counts, TypeOK, RowsOK, MemoryOK, CallsOK, GhostsOK
    <3>4. BusySays'
      BY <2>6, <3>1 DEF TurnedDown, Finishes, RowsInv, QuietRows, BusyRows, BusySays,
         LastWord, ResumeQuiet, FreshQuiet, Busy, Halted, Written, Of, Goto, Calls,
         memory, ghosts, counts, TypeOK, RowsOK, MemoryOK, CallsOK, GhostsOK
    <3>5. LastWord'
      BY <2>6, <3>1 DEF TurnedDown, Finishes, RowsInv, QuietRows, BusyRows, BusySays,
         LastWord, ResumeQuiet, FreshQuiet, Busy, Halted, Written, Of, Goto, Calls,
         memory, ghosts, counts, TypeOK, RowsOK, MemoryOK, CallsOK, GhostsOK
    <3>6. ResumeQuiet'
      BY <2>6, <3>1 DEF TurnedDown, Finishes, RowsInv, QuietRows, BusyRows, BusySays,
         LastWord, ResumeQuiet, FreshQuiet, Busy, Halted, Written, Of, Goto, Calls,
         memory, ghosts, counts, TypeOK, RowsOK, MemoryOK, CallsOK, GhostsOK
    <3>7. FreshQuiet'
      BY <2>6, <3>1 DEF TurnedDown, Finishes, RowsInv, QuietRows, BusyRows, BusySays,
         LastWord, ResumeQuiet, FreshQuiet, Busy, Halted, Written, Of, Goto, Calls,
         memory, ghosts, counts, TypeOK, RowsOK, MemoryOK, CallsOK, GhostsOK
    <3>8. QED
      BY <3>2, <3>3, <3>4, <3>5, <3>6, <3>7 DEF RowsInv
  <2>7. ASSUME NEW c \in Calls, Registers(c)
        PROVE  RowsInv'
    BY <2>7 DEF Registers, RowsInv, QuietRows, BusyRows, BusySays, LastWord,
       ResumeQuiet, FreshQuiet, Busy, Halted, Written, Of, Goto, Calls, ghosts, counts,
       TypeOK, RowsOK, MemoryOK, CallsOK, GhostsOK
  <2>8. ASSUME NEW c \in Calls, Reserves(c)
        PROVE  RowsInv'
    BY <2>8 DEF Reserves, RowsInv, QuietRows, BusyRows, BusySays, LastWord, ResumeQuiet,
       FreshQuiet, Busy, Halted, Written, Of, Goto, Calls, memory, counts, TypeOK,
       RowsOK, MemoryOK, CallsOK, GhostsOK
  <2>9. ASSUME NEW c \in Calls, Starts(c)
        PROVE  RowsInv'
    <3>1. Of(c) \in Runs
      BY <2>9, OfType DEF Starts, TypeOK, InFlight, CallsOK, Calls
    <3>2. QuietRows'
      BY <2>9, <3>1 DEF Starts, Finishes, CallsInv, Alone, Untouched, PlacesInv,
         NotUpYet, RowsInv, QuietRows, BusyRows, BusySays, LastWord, ResumeQuiet,
         FreshQuiet, Busy, Halted, Written, InFlight, Up, Of, Goto, Calls, ghosts,
         counts, TypeOK, RowsOK, MemoryOK, CallsOK, GhostsOK
    <3>3. BusyRows'
      BY <2>9, <3>1 DEF Starts, Finishes, CallsInv, Alone, Untouched, PlacesInv,
         NotUpYet, RowsInv, QuietRows, BusyRows, BusySays, LastWord, ResumeQuiet,
         FreshQuiet, Busy, Halted, Written, InFlight, Up, Of, Goto, Calls, ghosts,
         counts, TypeOK, RowsOK, MemoryOK, CallsOK, GhostsOK
    <3>4. BusySays'
      BY <2>9, <3>1 DEF Starts, Finishes, CallsInv, Alone, Untouched, PlacesInv,
         NotUpYet, RowsInv, QuietRows, BusyRows, BusySays, LastWord, ResumeQuiet,
         FreshQuiet, Busy, Halted, Written, InFlight, Up, Of, Goto, Calls, ghosts,
         counts, TypeOK, RowsOK, MemoryOK, CallsOK, GhostsOK
    <3>5. LastWord'
      BY <2>9, <3>1 DEF Starts, Finishes, CallsInv, Alone, Untouched, PlacesInv,
         NotUpYet, RowsInv, QuietRows, BusyRows, BusySays, LastWord, ResumeQuiet,
         FreshQuiet, Busy, Halted, Written, InFlight, Up, Of, Goto, Calls, ghosts,
         counts, TypeOK, RowsOK, MemoryOK, CallsOK, GhostsOK
    <3>6. ResumeQuiet'
      BY <2>9, <3>1 DEF Starts, Finishes, CallsInv, Alone, Untouched, PlacesInv,
         NotUpYet, RowsInv, QuietRows, BusyRows, BusySays, LastWord, ResumeQuiet,
         FreshQuiet, Busy, Halted, Written, InFlight, Up, Of, Goto, Calls, ghosts,
         counts, TypeOK, RowsOK, MemoryOK, CallsOK, GhostsOK
    <3>7. FreshQuiet'
      BY <2>9, <3>1 DEF Starts, Finishes, CallsInv, Alone, Untouched, PlacesInv,
         NotUpYet, RowsInv, QuietRows, BusyRows, BusySays, LastWord, ResumeQuiet,
         FreshQuiet, Busy, Halted, Written, InFlight, Up, Of, Goto, Calls, ghosts,
         counts, TypeOK, RowsOK, MemoryOK, CallsOK, GhostsOK
    <3>8. QED
      BY <3>2, <3>3, <3>4, <3>5, <3>6, <3>7 DEF RowsInv
  <2>10. ASSUME NEW c \in Calls, NoSlot(c)
        PROVE  RowsInv'
    BY <2>10 DEF NoSlot, RowsInv, QuietRows, BusyRows, BusySays, LastWord, ResumeQuiet,
       FreshQuiet, Busy, Halted, Written, Of, Goto, Calls, memory, ghosts, counts,
       TypeOK, RowsOK, MemoryOK, CallsOK, GhostsOK
  <2>11. ASSUME NEW c \in Calls, Refused(c)
        PROVE  RowsInv'
    <3>1. Of(c) \in Runs
      BY <2>11, OfType DEF Refused, TypeOK, InFlight, CallsOK, Calls
    <3>2. QuietRows'
      BY <2>11, <3>1 DEF Refused, Finishes, RowsInv, QuietRows, BusyRows, BusySays,
         LastWord, ResumeQuiet, FreshQuiet, Busy, Halted, Written, Of, Goto, Calls,
         ghosts, counts, TypeOK, RowsOK, MemoryOK, CallsOK, GhostsOK
    <3>3. BusyRows'
      BY <2>11, <3>1 DEF Refused, Finishes, RowsInv, QuietRows, BusyRows, BusySays,
         LastWord, ResumeQuiet, FreshQuiet, Busy, Halted, Written, Of, Goto, Calls,
         ghosts, counts, TypeOK, RowsOK, MemoryOK, CallsOK, GhostsOK
    <3>4. BusySays'
      BY <2>11, <3>1 DEF Refused, Finishes, RowsInv, QuietRows, BusyRows, BusySays,
         LastWord, ResumeQuiet, FreshQuiet, Busy, Halted, Written, Of, Goto, Calls,
         ghosts, counts, TypeOK, RowsOK, MemoryOK, CallsOK, GhostsOK
    <3>5. LastWord'
      BY <2>11, <3>1 DEF Refused, Finishes, RowsInv, QuietRows, BusyRows, BusySays,
         LastWord, ResumeQuiet, FreshQuiet, Busy, Halted, Written, Of, Goto, Calls,
         ghosts, counts, TypeOK, RowsOK, MemoryOK, CallsOK, GhostsOK
    <3>6. ResumeQuiet'
      BY <2>11, <3>1 DEF Refused, Finishes, RowsInv, QuietRows, BusyRows, BusySays,
         LastWord, ResumeQuiet, FreshQuiet, Busy, Halted, Written, Of, Goto, Calls,
         ghosts, counts, TypeOK, RowsOK, MemoryOK, CallsOK, GhostsOK
    <3>7. FreshQuiet'
      BY <2>11, <3>1 DEF Refused, Finishes, RowsInv, QuietRows, BusyRows, BusySays,
         LastWord, ResumeQuiet, FreshQuiet, Busy, Halted, Written, Of, Goto, Calls,
         ghosts, counts, TypeOK, RowsOK, MemoryOK, CallsOK, GhostsOK
    <3>8. QED
      BY <3>2, <3>3, <3>4, <3>5, <3>6, <3>7 DEF RowsInv
  <2>12. ASSUME NEW r \in Runs, Begins(r)
        PROVE  RowsInv'
    <3>1. /\ Written' \subseteq Written \cup {r}
          /\ Busy' \subseteq Busy /\ r \in Busy \cup raced
      BY <2>12, SayWrites DEF Begins, TypeOK, MemoryOK, Statuses, Written, Busy, ghosts
    <3>2. QuietRows' /\ BusyRows'
      BY <2>12, <3>1 DEF Begins, RowsInv, QuietRows, BusyRows, ghosts, TypeOK, MemoryOK
    <3>3. r \notin Busy' \/ UNCHANGED chain \/ Say(r, "running")
      BY <2>12 DEF Begins, Busy, TypeOK, MemoryOK
    <3>4. BusySays'
      BY <2>12, <3>1, <3>3, SayBusy DEF Begins, BusySays, RowsInv, TypeOK, Statuses
    <3>5. LastWord'
      BY <2>12, <3>1, SayLast DEF Begins, LastWord, BusySays, RowsInv, TypeOK, Statuses,
         ghosts
    <3>6. ResumeQuiet'
      <4> SUFFICES ASSUME NEW c \in Resumes, at[c] # "idle", target[c] \notin raced
                   PROVE  (/\ target[c] \notin Written /\ row[target[c]] \notin {"completed", "error"}
                           /\ at[c] \notin {"binding", "marking"} => row[target[c]] # "paused")'
        BY <2>12 DEF Begins, ResumeQuiet, calls, ghosts
      <4>1. target[c] # r
        BY <2>12 DEF Begins, PlacesInv, NotUpYet, InFlight, Up, Of, Calls, ResumeQuiet,
           TypeOK, MemoryOK, CallsOK
      <4>2. QED
        BY <2>12, <3>1, <4>1 DEF Begins, RowsInv, ResumeQuiet, calls
    <3>7. FreshQuiet'
      <4> SUFFICES ASSUME NEW x \in Runs \ raced, at[x] # "over"
                   PROVE  x \notin Written' /\ row[x] \notin Halted
        BY <2>12 DEF Begins, FreshQuiet, calls, ghosts
      <4>1. x # r
        BY <2>12 DEF Begins, CallsInv, Untouched, PlacesInv, NotUpYet, InFlight, Up, Of,
           Calls
      <4>2. QED
        BY <3>1, <4>1 DEF RowsInv, FreshQuiet
    <3>8. QED
      BY <3>2, <3>4, <3>5, <3>6, <3>7 DEF RowsInv
  <2>13. ASSUME NEW r \in Runs, Pauses(r)
        PROVE  RowsInv'
    <3>1. /\ Written' \subseteq Written \cup {r}
          /\ Busy' \subseteq Busy /\ r \in Busy \cup raced
      BY <2>13, SayWrites DEF Pauses, TypeOK, MemoryOK, Statuses, Written, Busy, ghosts
    <3>2. QuietRows' /\ BusyRows'
      BY <2>13, <3>1 DEF Pauses, RowsInv, QuietRows, BusyRows, ghosts, TypeOK, MemoryOK
    <3>3. r \notin Busy' \/ UNCHANGED chain \/ Say(r, "running")
      BY <2>13 DEF Pauses, Busy, TypeOK, MemoryOK
    <3>4. BusySays'
      BY <2>13, <3>1, <3>3, SayBusy DEF Pauses, BusySays, RowsInv, TypeOK, Statuses
    <3>5. LastWord'
      BY <2>13, <3>1, SayLast DEF Pauses, LastWord, BusySays, RowsInv, TypeOK, Statuses,
         ghosts
    <3>6. ResumeQuiet'
      <4> SUFFICES ASSUME NEW c \in Resumes, at[c] # "idle", target[c] \notin raced
                   PROVE  (/\ target[c] \notin Written /\ row[target[c]] \notin {"completed", "error"}
                           /\ at[c] \notin {"binding", "marking"} => row[target[c]] # "paused")'
        BY <2>13 DEF Pauses, ResumeQuiet, calls, ghosts
      <4>1. target[c] # r
        BY <2>13 DEF Pauses, PlacesInv, NotUpYet, InFlight, Up, Of, Calls, ResumeQuiet,
           TypeOK, MemoryOK, CallsOK
      <4>2. QED
        BY <2>13, <3>1, <4>1 DEF Pauses, RowsInv, ResumeQuiet, calls
    <3>7. FreshQuiet'
      <4> SUFFICES ASSUME NEW x \in Runs \ raced, at[x] # "over"
                   PROVE  x \notin Written' /\ row[x] \notin Halted
        BY <2>13 DEF Pauses, FreshQuiet, calls, ghosts
      <4>1. x # r
        BY <2>13 DEF Pauses, CallsInv, Untouched, PlacesInv, NotUpYet, InFlight, Up, Of,
           Calls
      <4>2. QED
        BY <3>1, <4>1 DEF RowsInv, FreshQuiet
    <3>8. QED
      BY <3>2, <3>4, <3>5, <3>6, <3>7 DEF RowsInv
  <2>14. ASSUME NEW r \in Runs, Ends(r)
        PROVE  RowsInv'
    <3>1. /\ Written' \subseteq Written \cup {r}
          /\ Busy' \subseteq Busy /\ r \in Busy \cup raced
      BY <2>14, SayWrites DEF Ends, TypeOK, MemoryOK, Statuses, Written, Busy, ghosts
    <3>2. QuietRows' /\ BusyRows'
      BY <2>14, <3>1 DEF Ends, RowsInv, QuietRows, BusyRows, ghosts, TypeOK, MemoryOK
    <3>3. r \notin Busy' \/ UNCHANGED chain \/ Say(r, "running")
      BY <2>14 DEF Ends, Busy, TypeOK, MemoryOK
    <3>4. BusySays'
      BY <2>14, <3>1, <3>3, SayBusy DEF Ends, BusySays, RowsInv, TypeOK, Statuses
    <3>5. LastWord'
      BY <2>14, <3>1, SayLast DEF Ends, LastWord, BusySays, RowsInv, TypeOK, Statuses,
         ghosts
    <3>6. ResumeQuiet'
      <4> SUFFICES ASSUME NEW c \in Resumes, at[c] # "idle", target[c] \notin raced
                   PROVE  (/\ target[c] \notin Written /\ row[target[c]] \notin {"completed", "error"}
                           /\ at[c] \notin {"binding", "marking"} => row[target[c]] # "paused")'
        BY <2>14 DEF Ends, ResumeQuiet, calls, ghosts
      <4>1. target[c] # r
        BY <2>14 DEF Ends, PlacesInv, NotUpYet, InFlight, Up, Of, Calls, ResumeQuiet,
           TypeOK, MemoryOK, CallsOK
      <4>2. QED
        BY <2>14, <3>1, <4>1 DEF Ends, RowsInv, ResumeQuiet, calls
    <3>7. FreshQuiet'
      <4> SUFFICES ASSUME NEW x \in Runs \ raced, at[x] # "over"
                   PROVE  x \notin Written' /\ row[x] \notin Halted
        BY <2>14 DEF Ends, FreshQuiet, calls, ghosts
      <4>1. x # r
        BY <2>14 DEF Ends, CallsInv, Untouched, PlacesInv, NotUpYet, InFlight, Up, Of,
           Calls
      <4>2. QED
        BY <3>1, <4>1 DEF RowsInv, FreshQuiet
    <3>8. QED
      BY <3>2, <3>4, <3>5, <3>6, <3>7 DEF RowsInv
  <2>15. ASSUME NEW r \in Runs, Exits(r)
        PROVE  RowsInv'
    BY <2>15 DEF Exits, ReleasesSlot, ForgetsEnded, RowsInv, QuietRows, BusyRows,
       BusySays, LastWord, ResumeQuiet, FreshQuiet, Busy, Halted, Written, Calls, calls,
       ghosts, counts, TypeOK, RowsOK, MemoryOK, CallsOK, GhostsOK
  <2>16. ASSUME NEW r \in Runs, SpawnError(r)
        PROVE  RowsInv'
    BY <2>16 DEF SpawnError, ReleasesSlot, RowsInv, QuietRows, BusyRows, BusySays,
       LastWord, ResumeQuiet, FreshQuiet, Busy, Halted, Written, Calls, calls, ghosts,
       counts, TypeOK, RowsOK, MemoryOK, CallsOK, GhostsOK
  <2>17. ASSUME NEW r \in Runs, Returns(r)
        PROVE  RowsInv'
    BY <2>17 DEF Returns, RowsInv, QuietRows, BusyRows, BusySays, LastWord, ResumeQuiet,
       FreshQuiet, Busy, Halted, Written, Calls, memory, calls, ghosts, counts, TypeOK,
       RowsOK, MemoryOK, CallsOK, GhostsOK
  <2>18. ASSUME NEW r \in Runs, CancelReads(r)
        PROVE  RowsInv'
    BY <2>18 DEF CancelReads, RowsInv, QuietRows, BusyRows, BusySays, LastWord,
       ResumeQuiet, FreshQuiet, Busy, Halted, Written, Calls, ghosts, counts, TypeOK,
       RowsOK, MemoryOK, CallsOK, GhostsOK
  <2>19. ASSUME NEW r \in Runs, CancelMarks(r)
        PROVE  RowsInv'
    BY <2>19 DEF CancelMarks, RowsInv, QuietRows, BusyRows, BusySays, LastWord,
       ResumeQuiet, FreshQuiet, Busy, Halted, Written, Calls, memory, ghosts, counts,
       TypeOK, RowsOK, MemoryOK, CallsOK, GhostsOK
  <2>20. CASE Lapses
    BY <2>20 DEF Lapses, RowsInv, QuietRows, BusyRows, BusySays, LastWord, ResumeQuiet,
       FreshQuiet, Busy, Halted, Written, InFlight, Calls, calls, ghosts, counts,
       TypeOK, RowsOK, MemoryOK, CallsOK, GhostsOK
  <2>21. CASE Ingests
    <3>1. /\ Len(chain) \in Nat \ {0} /\ DOMAIN chain = 1..Len(chain)
          /\ Head(chain) = chain[1]
          /\ \A i \in DOMAIN chain' : i \in Nat /\ i + 1 \in DOMAIN chain /\ chain'[i] = chain[i + 1]
          /\ Written' \subseteq Written /\ Head(chain).run \in Written
          /\ LastWord'
          /\ \A x \in Written' : x = Head(chain).run /\ x \notin raced => Head(chain).status = "running"
      BY <2>21, TailDrops, TailWrites, TailLast DEF Ingests, TypeOK, RowsInv, ghosts
    <3>2. QuietRows'
      BY <2>21, <3>1 DEF Ingests, RowsInv, QuietRows, BusyRows, BusySays, LastWord,
         ResumeQuiet, FreshQuiet, Busy, Halted, Calls, memory, calls, ghosts, counts,
         TypeOK, RowsOK, MemoryOK, CallsOK, GhostsOK
    <3>3. BusyRows'
      BY <2>21, <3>1 DEF Ingests, RowsInv, QuietRows, BusyRows, BusySays, LastWord,
         ResumeQuiet, FreshQuiet, Busy, Halted, Calls, memory, calls, ghosts, counts,
         TypeOK, RowsOK, MemoryOK, CallsOK, GhostsOK
    <3>4. BusySays'
      BY <2>21, <3>1 DEF Ingests, RowsInv, QuietRows, BusyRows, BusySays, LastWord,
         ResumeQuiet, FreshQuiet, Busy, Halted, Calls, memory, calls, ghosts, counts,
         TypeOK, RowsOK, MemoryOK, CallsOK, GhostsOK
    <3>5. LastWord'
      BY <2>21, <3>1 DEF Ingests, RowsInv, QuietRows, BusyRows, BusySays, LastWord,
         ResumeQuiet, FreshQuiet, Busy, Halted, Calls, memory, calls, ghosts, counts,
         TypeOK, RowsOK, MemoryOK, CallsOK, GhostsOK
    <3>6. ResumeQuiet'
      BY <2>21, <3>1 DEF Ingests, RowsInv, QuietRows, BusyRows, BusySays, LastWord,
         ResumeQuiet, FreshQuiet, Busy, Halted, Calls, memory, calls, ghosts, counts,
         TypeOK, RowsOK, MemoryOK, CallsOK, GhostsOK
    <3>7. FreshQuiet'
      BY <2>21, <3>1 DEF Ingests, RowsInv, QuietRows, BusyRows, BusySays, LastWord,
         ResumeQuiet, FreshQuiet, Busy, Halted, Calls, memory, calls, ghosts, counts,
         TypeOK, RowsOK, MemoryOK, CallsOK, GhostsOK
    <3>8. QED
      BY <3>2, <3>3, <3>4, <3>5, <3>6, <3>7 DEF RowsInv
  <2>22. ASSUME GatewayDies
        PROVE  RowsInv'
    <3>2. QuietRows'
      BY <2>22, EmptySeq DEF GatewayDies, RowsInv, QuietRows, BusyRows, BusySays, LastWord,
         ResumeQuiet, FreshQuiet, Busy, Halted, Written, Calls, TypeOK, RowsOK,
         MemoryOK, CallsOK, GhostsOK
    <3>3. BusyRows'
      BY <2>22, EmptySeq DEF GatewayDies, RowsInv, QuietRows, BusyRows, BusySays, LastWord,
         ResumeQuiet, FreshQuiet, Busy, Halted, Written, Calls, TypeOK, RowsOK,
         MemoryOK, CallsOK, GhostsOK
    <3>4. BusySays'
      BY <2>22, EmptySeq DEF GatewayDies, RowsInv, QuietRows, BusyRows, BusySays, LastWord,
         ResumeQuiet, FreshQuiet, Busy, Halted, Written, Calls, TypeOK, RowsOK,
         MemoryOK, CallsOK, GhostsOK
    <3>5. LastWord'
      BY <2>22, EmptySeq DEF GatewayDies, RowsInv, QuietRows, BusyRows, BusySays, LastWord,
         ResumeQuiet, FreshQuiet, Busy, Halted, Written, Calls, TypeOK, RowsOK,
         MemoryOK, CallsOK, GhostsOK
    <3>6. ResumeQuiet'
      BY <2>22, EmptySeq DEF GatewayDies, RowsInv, QuietRows, BusyRows, BusySays, LastWord,
         ResumeQuiet, FreshQuiet, Busy, Halted, Written, Calls, TypeOK, RowsOK,
         MemoryOK, CallsOK, GhostsOK
    <3>7. FreshQuiet'
      BY <2>22, EmptySeq DEF GatewayDies, CallsInv, Untouched, RowsInv, QuietRows, BusyRows,
         BusySays, LastWord, ResumeQuiet, FreshQuiet, Busy, Halted, Written, Calls,
         TypeOK, RowsOK, MemoryOK, CallsOK, GhostsOK
    <3>8. QED
      BY <3>2, <3>3, <3>4, <3>5, <3>6, <3>7 DEF RowsInv
  <2>23. CASE Crash
    BY <2>22, <2>23 DEF Crash
  <2>24. ASSUME NEW c \in Calls, Unhandled(c)
        PROVE  RowsInv'
    BY <2>22, <2>24 DEF Unhandled
  <2>25. ASSUME NEW c \in Calls, Throws(c)
        PROVE  RowsInv'
    BY <2>25 DEF Throws, RowsInv, QuietRows, BusyRows, BusySays, LastWord, ResumeQuiet,
       FreshQuiet, Busy, Halted, Written, Of, Goto, Calls, memory, ghosts, counts,
       TypeOK, RowsOK, MemoryOK, CallsOK, GhostsOK
  <2>26. ASSUME NEW c \in Calls, Caught(c)
        PROVE  RowsInv'
    <3>1. Of(c) \in Runs
      BY <2>26, OfType DEF Caught, memory, TypeOK, InFlight, CallsOK, Calls
    <3>2. QuietRows'
      BY <2>26, <3>1 DEF Caught, memory, Finishes, RowsInv, QuietRows, BusyRows, BusySays,
         LastWord, ResumeQuiet, FreshQuiet, Busy, Halted, Written, Of, Goto, Calls,
         ghosts, counts, TypeOK, RowsOK, MemoryOK, CallsOK, GhostsOK
    <3>3. BusyRows'
      BY <2>26, <3>1 DEF Caught, memory, Finishes, RowsInv, QuietRows, BusyRows, BusySays,
         LastWord, ResumeQuiet, FreshQuiet, Busy, Halted, Written, Of, Goto, Calls,
         ghosts, counts, TypeOK, RowsOK, MemoryOK, CallsOK, GhostsOK
    <3>4. BusySays'
      BY <2>26, <3>1 DEF Caught, memory, Finishes, RowsInv, QuietRows, BusyRows, BusySays,
         LastWord, ResumeQuiet, FreshQuiet, Busy, Halted, Written, Of, Goto, Calls,
         ghosts, counts, TypeOK, RowsOK, MemoryOK, CallsOK, GhostsOK
    <3>5. LastWord'
      BY <2>26, <3>1 DEF Caught, memory, Finishes, RowsInv, QuietRows, BusyRows, BusySays,
         LastWord, ResumeQuiet, FreshQuiet, Busy, Halted, Written, Of, Goto, Calls,
         ghosts, counts, TypeOK, RowsOK, MemoryOK, CallsOK, GhostsOK
    <3>6. ResumeQuiet'
      BY <2>26, <3>1 DEF Caught, memory, Finishes, RowsInv, QuietRows, BusyRows, BusySays,
         LastWord, ResumeQuiet, FreshQuiet, Busy, Halted, Written, Of, Goto, Calls,
         ghosts, counts, TypeOK, RowsOK, MemoryOK, CallsOK, GhostsOK
    <3>7. FreshQuiet'
      BY <2>26, <3>1 DEF Caught, memory, Finishes, RowsInv, QuietRows, BusyRows, BusySays,
         LastWord, ResumeQuiet, FreshQuiet, Busy, Halted, Written, Of, Goto, Calls,
         ghosts, counts, TypeOK, RowsOK, MemoryOK, CallsOK, GhostsOK
    <3>8. QED
      BY <3>2, <3>3, <3>4, <3>5, <3>6, <3>7 DEF RowsInv
  <2>27. CASE UNCHANGED vars
    BY <2>27 DEF vars, memory, calls, ghosts, counts, RowsInv, QuietRows, BusyRows,
       BusySays, LastWord, ResumeQuiet, FreshQuiet, Busy, Halted, Written, Calls,
       TypeOK, RowsOK, MemoryOK, CallsOK, GhostsOK
  <2>28. QED
    BY <2>1, <2>2, <2>3, <2>4, <2>5, <2>6, <2>7, <2>8, <2>9, <2>10, <2>11, <2>12, <2>13,
       <2>14, <2>15, <2>16, <2>17, <2>18, <2>19, <2>20, <2>21, <2>22, <2>23, <2>24, <2>25,
       <2>26, <2>27 DEF Next,
       Command, Call, Process
<1>3. QED
  BY <1>1, <1>2, TypeInvariant, CallsInvariant, PlacesInvariant, PTL DEF Spec

-----------------------------------------------------------------------------
(* Theorems *)

\* Every variable keeps its type.
THEOREM TypeCorrect == Spec => []TypeOK
  BY TypeInvariant

\* However starts, branches, resumes, exits and lapses interleave, no two runs of
\* a workspace have a process at one time, but for runs two resumes raced for.
THEOREM OneRunAtATime == Spec => []OneRunPerWorkspace
<1>1. LeaseInv => OneRunPerWorkspace
  BY DEF LeaseInv
<1>2. QED
  BY <1>1, LeaseInvariant, PTL

\* liveRuns and runWorkspaces have every run with a process, and liveRuns none
\* that neither has one nor is starting, but for a shadow run whose start threw.
THEOREM LiveRunsAreRight == Spec => []LiveIsRunning
<1>1. PlacesInv => LiveIsRunning
  BY DEF PlacesInv
<1>2. QED
  BY <1>1, PlacesInvariant, PTL

\* No reservation is left to stand out its hour by a start that did not happen or
\* a process that went.
THEOREM NoReservationIsLost == Spec => []ReservationIsUsed
<1>1. LeaseInv => ReservationIsUsed
  BY DEF LeaseInv
<1>2. QED
  BY <1>1, LeaseInvariant, PTL

\* A row that reads paused belongs to a run whose process is going or gone.
THEOREM PausedRunsAreIdle == Spec => []PausedIsIdle
<1>1. TypeOK /\ RowsInv => PausedIsIdle
  BY DEF TypeOK, MemoryOK, RowsInv, BusyRows, Busy, Halted, PausedIsIdle
<1>2. QED
  BY <1>1, TypeInvariant, RowsInvariant, PTL

\* No step of the server writes over what a run's own run_end wrote.
THEOREM EndsAreKept == Spec => EndIsKept
<1> DEFINE Kept == \A r \in Runs \ raced : row[r] \in {"completed", "error"} => row'[r] = row[r]
<1>1. TypeOK /\ RowsInv /\ [Next]_vars => [Kept]_vars
  <2> SUFFICES ASSUME TypeOK, RowsInv, [Next]_vars, NEW x \in Runs \ raced,
                      row[x] \in {"completed", "error"}
               PROVE  row'[x] = row[x]
    OBVIOUS
  <2>1. ASSUME NEW r \in Runs, Copies(r)
        PROVE  row'[x] = row[x]
    BY <2>1 DEF Copies, RowsInv, FreshQuiet, Halted, TypeOK, RowsOK
  <2>2. ASSUME NEW c \in Resumes, ResumeMarks(c)
        PROVE  row'[x] = row[x]
    BY <2>2, CallsAssumption DEF ResumeMarks, Of, RowsInv, ResumeQuiet, TypeOK, RowsOK
  <2>3. ASSUME NEW r \in Runs, CancelMarks(r)
        PROVE  row'[x] = row[x]
    BY <2>3 DEF CancelMarks, NotEnded, TypeOK, RowsOK
  <2>4. CASE Ingests
    <3>1. Head(chain).run \in Written
      BY <2>4, TailWrites DEF Ingests, TypeOK
    <3>2. x # Head(chain).run
      BY <3>1 DEF RowsInv, QuietRows, Halted
    <3>3. QED
      BY <2>4, <3>2 DEF Ingests, TypeOK, RowsOK
  <2>5. CASE GatewayDies
    BY <2>5 DEF GatewayDies
  <2>6. CASE UNCHANGED row
    BY <2>6
  <2>7. QED
    BY <2>1, <2>2, <2>3, <2>4, <2>5, <2>6 DEF Next, Command, Call, Process, vars, Asked,
       ResumeAsked, ResumeUnbinds, TurnedDown, Registers, Reserves, Starts, NoSlot,
       Refused, Throws, Caught, Unhandled, Crash, Begins, Pauses, Ends, Exits, SpawnError,
       Returns, CancelReads, Lapses
<1>2. QED
  BY <1>1, TypeInvariant, RowsInvariant, PTL DEF Spec, EndIsKept
=============================================================================
