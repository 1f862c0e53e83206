-------------------------- MODULE FairQueueProofs ---------------------------
(***************************************************************************)
(* Theorems about FairQueue, for every set of workspaces, jobs and lease   *)
(* ids, every owner of a job, every TTL and every cap.                     *)
(***************************************************************************)
EXTENDS FairQueue, FunctionTheorems, FiniteSetTheorems, SequenceTheorems, TLAPS

-----------------------------------------------------------------------------
(* Sequences *)

\* What dropping one element of a sequence leaves.
LEMMA DropAtFacts ==
  ASSUME NEW S, NEW s \in Seq(S), NEW i \in 1..Len(s)
  PROVE  /\ RemoveAt(s, i) \in Seq(S)
         /\ Len(RemoveAt(s, i)) = Len(s) - 1
         /\ \A p \in 1..(Len(s) - 1) :
              RemoveAt(s, i)[p] = IF p < i THEN s[p] ELSE s[p + 1]
<1> DEFINE a == SubSeq(s, 1, i - 1)
           b == SubSeq(s, i + 1, Len(s))
<1>1. /\ a \in Seq(S)
      /\ Len(a) = i - 1
      /\ \A p \in 1..(i - 1) : a[p] = s[p]
  BY SubSeqProperties, ElementOfSeq, LenProperties
<1>2. /\ b \in Seq(S)
      /\ Len(b) = Len(s) - i
      /\ \A p \in 1..(Len(s) - i) : b[p] = s[p + i]
  <2>1. \A p \in (i + 1)..Len(s) : s[p] \in S
    BY ElementOfSeq, LenProperties
  <2>2. Len(s) \in Int /\ i + 1 \in Int
    BY LenProperties
  <2>3. /\ b \in Seq(S)
        /\ Len(b) = IF i + 1 <= Len(s) THEN Len(s) - (i + 1) + 1 ELSE 0
        /\ \A p \in 1..(Len(s) - (i + 1) + 1) : b[p] = s[i + 1 + p - 1]
    BY <2>1, <2>2, SubSeqProperties
  <2>4. QED
    BY <2>2, <2>3
<1>3. RemoveAt(s, i) = a \o b
  BY DEF RemoveAt
<1> HIDE DEF a, b
<1>4. /\ a \o b \in Seq(S)
      /\ Len(a \o b) = Len(a) + Len(b)
      /\ \A p \in 1..(Len(a) + Len(b)) :
           (a \o b)[p] = IF p <= Len(a) THEN a[p] ELSE b[p - Len(a)]
  BY <1>1, <1>2, ConcatProperties
<1>5. QED
  BY <1>1, <1>2, <1>3, <1>4, LenProperties

\* The list that a purge keeps is a list of jobs.
LEMMA KeptIsSeq ==
  ASSUME NEW S, NEW s \in Seq(S), NEW n \in Nat, NEW at \in [1..n -> DOMAIN s]
  PROVE  [i \in 1..n |-> s[at[i]]] \in Seq(S)
  BY LenProperties

\* What becomes of a ring when a workspace joins it at the back, ...
LEMMA JoinRing ==
  ASSUME NEW S, NEW s \in Seq(S), IsInjective(s), NEW e \in S, ~ Contains(s, e)
  PROVE  /\ IsInjective(Append(s, e))
         /\ \A w \in S : Contains(Append(s, e), w) <=> Contains(s, w) \/ w = e
         /\ \A u, w \in S : Before(Append(s, e), u, w) => Before(s, u, w) \/ w = e
<1> DEFINE t == Append(s, e)
<1>1. /\ t \in Seq(S)
      /\ Len(t) = Len(s) + 1
      /\ \A i \in 1..Len(s) : t[i] = s[i]
      /\ t[Len(s) + 1] = e
  BY AppendProperties
<1>2. Len(s) \in Nat /\ DOMAIN s = 1..Len(s) /\ DOMAIN t = 1..(Len(s) + 1)
  BY <1>1, LenProperties
<1> HIDE DEF t
<1>3. \A i \in 1..Len(s) : s[i] # e
  BY DEF Contains
<1>4. IsInjective(t)
  BY <1>1, <1>2, <1>3 DEF IsInjective
<1>5. ASSUME NEW w \in S
      PROVE  Contains(t, w) <=> Contains(s, w) \/ w = e
  BY <1>1, <1>2 DEF Contains
<1>6. ASSUME NEW u \in S, NEW w \in S, Before(t, u, w)
      PROVE  Before(s, u, w) \/ w = e
  BY <1>1, <1>2, <1>6 DEF Before
<1>7. QED
  BY <1>4, <1>5, <1>6 DEF t

\* ... and when its i-th workspace leaves it.
LEMMA LeaveRingAt ==
  ASSUME NEW S, NEW s \in Seq(S), IsInjective(s), NEW i \in 1..Len(s)
  PROVE  /\ IsInjective(RemoveAt(s, i))
         /\ \A w \in S : Contains(RemoveAt(s, i), w) <=> Contains(s, w) /\ w # s[i]
         /\ \A u, w \in S : Before(RemoveAt(s, i), u, w) =>
              Before(s, u, w) /\ u # s[i] /\ w # s[i]
<1> DEFINE t == RemoveAt(s, i)
           old(p) == IF p < i THEN p ELSE p + 1
<1>1. /\ t \in Seq(S)
      /\ Len(t) = Len(s) - 1
      /\ \A p \in 1..(Len(s) - 1) : t[p] = s[old(p)]
  BY DropAtFacts
<1>2. Len(s) \in Nat /\ DOMAIN s = 1..Len(s) /\ DOMAIN t = 1..(Len(s) - 1)
  BY <1>1, LenProperties
<1>3. \A p \in 1..(Len(s) - 1) : old(p) \in 1..Len(s) /\ old(p) # i
  BY <1>2
<1>4. \A p, q \in 1..(Len(s) - 1) : p < q <=> old(p) < old(q)
  BY <1>2
<1>5. \A q \in 1..Len(s) : q # i => \E p \in 1..(Len(s) - 1) : q = old(p)
  <2> SUFFICES ASSUME NEW q \in 1..Len(s), q # i
               PROVE  \E p \in 1..(Len(s) - 1) : q = old(p)
    OBVIOUS
  <2>1. CASE q < i
    <3>1. q \in 1..(Len(s) - 1) /\ q = old(q)
      BY <1>2, <2>1
    <3>2. QED
      BY <3>1
  <2>2. CASE q > i
    <3>1. q - 1 \in 1..(Len(s) - 1) /\ q = old(q - 1)
      BY <1>2, <2>2
    <3>2. QED
      BY <3>1
  <2>3. QED
    BY <1>2, <2>1, <2>2
<1> HIDE DEF t, old
<1>6. IsInjective(t)
  <2> SUFFICES ASSUME NEW p \in 1..(Len(s) - 1), NEW q \in 1..(Len(s) - 1), t[p] = t[q]
               PROVE  p = q
    BY <1>2 DEF IsInjective
  <2>1. old(p) = old(q)
    BY <1>1, <1>2, <1>3 DEF IsInjective
  <2>2. ~ (p < q) /\ ~ (q < p)
    BY <1>3, <1>4, <2>1
  <2>3. QED
    BY <1>2, <2>2
<1>7. ASSUME NEW w \in S
      PROVE  Contains(t, w) <=> Contains(s, w) /\ w # s[i]
  <2>1. ASSUME NEW p \in 1..(Len(s) - 1), t[p] = w
        PROVE  Contains(s, w) /\ w # s[i]
    BY <1>1, <1>2, <1>3, <2>1 DEF Contains, IsInjective
  <2>2. ASSUME NEW q \in 1..Len(s), s[q] = w, w # s[i]
        PROVE  Contains(t, w)
    <3>1. PICK p \in 1..(Len(s) - 1) : q = old(p)
      BY <1>5, <2>2
    <3>2. t[p] = w
      BY <1>1, <2>2, <3>1
    <3>3. QED
      BY <1>1, <3>2 DEF Contains
  <2>3. QED
    BY <1>1, <2>1, <2>2 DEF Contains
<1>8. ASSUME NEW u \in S, NEW w \in S, Before(t, u, w)
      PROVE  Before(s, u, w) /\ u # s[i] /\ w # s[i]
  <2>1. PICK p \in 1..(Len(s) - 1), q \in 1..(Len(s) - 1) :
          p < q /\ t[p] = u /\ t[q] = w
    BY <1>2, <1>8 DEF Before
  <2>2. old(p) < old(q) /\ s[old(p)] = u /\ s[old(q)] = w
    BY <1>1, <1>4, <2>1
  <2>3. QED
    BY <1>2, <1>3, <2>2 DEF Before, IsInjective
<1>9. QED
  BY <1>6, <1>7, <1>8 DEF t

\* Taking the head off is leaving it at 1.
LEMMA RestIsRemoveHead ==
  ASSUME NEW S, NEW s \in Seq(S), 1 \in DOMAIN s
  PROVE  SubSeq(s, 2, Len(s)) = RemoveAt(s, 1)
<1>1. Len(s) \in Nat /\ DOMAIN s = 1..Len(s) /\ 1 <= Len(s)
  BY LenProperties
<1>2. \A p \in 2..Len(s) : s[p] \in S
  BY <1>1, ElementOfSeq
<1>3. SubSeq(s, 2, Len(s)) \in Seq(S)
  BY <1>1, <1>2, SubSeqProperties
<1>4. SubSeq(s, 1, 0) = <<>>
  BY SubSeqEmpty
<1>5. QED
  BY <1>3, <1>4, ConcatEmptySeq DEF RemoveAt

-----------------------------------------------------------------------------
(* Type correctness *)

LEMMA PushType ==
  ASSUME TypeOK, NEW j \in Jobs, Push(j)
  PROVE  /\ lists' \in [Workspaces -> Seq(Jobs)]
         /\ ring' \in Seq(Workspaces)
<1>1. Owner[j] \in Workspaces
  BY OwnerAssumption
<1>2. QED
  BY <1>1 DEF TypeOK, Push, AddToRing

LEMMA ServeType ==
  ASSUME TypeOK, NEW l \in LeaseIds, NEW k \in DOMAIN ring, Serve(l, k)
  PROVE  /\ lists' \in [Workspaces -> Seq(Jobs)]
         /\ ring' \in Seq(Workspaces)
         /\ reserved' \in [LeaseIds -> Jobs \cup {NoJob}]
         /\ left' \in [LeaseIds -> 0..LeaseTtl]
         /\ passed' \in [Workspaces -> [Workspaces -> Nat]]
<1> DEFINE w == ring[k]
           rest == SubSeq(ring, k + 1, Len(ring))
<1>1. w \in Workspaces /\ k \in 1..Len(ring)
  BY DEF TypeOK
<1>2. lists[w] \in Seq(Jobs) /\ lists[w] # <<>>
  BY <1>1 DEF TypeOK, Serve, Rotated, Granted
<1>3. Head(lists[w]) \in Jobs /\ Tail(lists[w]) \in Seq(Jobs)
  BY <1>2, HeadTailProperties
<1>4. rest \in Seq(Workspaces)
  <2>1. \A p \in (k + 1)..Len(ring) : ring[p] \in Workspaces
    BY <1>1 DEF TypeOK
  <2>2. QED
    BY <1>1, <2>1, SubSeqProperties
<1>5. lists' \in [Workspaces -> Seq(Jobs)]
  BY <1>1, <1>3 DEF TypeOK, Serve, Rotated, Granted
<1>6. ring' \in Seq(Workspaces)
  <2>1. ring' = Append(rest, w) \/ ring' = rest
    BY DEF Serve, Rotated, Granted
  <2> HIDE DEF rest, w
  <2>2. QED
    BY <1>1, <1>4, <2>1, AppendProperties
<1>7. reserved' \in [LeaseIds -> Jobs \cup {NoJob}]
  BY <1>3 DEF TypeOK, Serve, Rotated, Granted
<1>8. left' \in [LeaseIds -> 0..LeaseTtl]
  BY LeaseTtlAssumption DEF TypeOK, Serve, Rotated, Granted
<1>9. passed' \in [Workspaces -> [Workspaces -> Nat]]
  <2>1. ASSUME NEW v \in Workspaces
        PROVE  (IF v = w \/ ~ InRing(v) THEN NoneServed
                ELSE [passed[v] EXCEPT ![w] = @ + 1]) \in [Workspaces -> Nat]
    <3>1. NoneServed \in [Workspaces -> Nat]
      BY DEF NoneServed
    <3>2. [passed[v] EXCEPT ![w] = @ + 1] \in [Workspaces -> Nat]
      <4>1. passed[v] \in [Workspaces -> Nat]
        BY DEF TypeOK
      <4> HIDE DEF w
      <4>2. QED
        BY <1>1, <4>1
    <3>3. QED
      BY <3>1, <3>2
  <2>2. QED
    BY <2>1 DEF Serve, Rotated, Granted
<1>10. QED
  BY <1>5, <1>6, <1>7, <1>8, <1>9

LEMMA LeaveRingType ==
  ASSUME TypeOK, NEW w \in Workspaces, LeaveRing(w)
  PROVE  ring' \in Seq(Workspaces)
<1>1. PICK i \in DOMAIN ring : ring' = RemoveAt(ring, i)
  BY DEF LeaveRing
<1>2. ring \in Seq(Workspaces) /\ i \in 1..Len(ring)
  BY LenProperties DEF TypeOK
<1>3. QED
  BY <1>1, <1>2, DropAtFacts

\* No step takes a variable of the queue out of its type.
LEMMA QueueType ==
  ASSUME TypeOK, [Next]_vars
  PROVE  TypeOK'
<1>1. ASSUME NEW j \in Jobs, Enqueue(j)
      PROVE  TypeOK'
  BY <1>1, PushType DEF TypeOK, Enqueue
<1>2. ASSUME NEW l \in LeaseIds, TryAdmit(l)
      PROVE  TypeOK'
  <2>1. PICK k \in DOMAIN ring : Serve(l, k)
    BY <1>2 DEF TryAdmit
  <2>2. QED
    BY <1>2, <2>1, ServeType DEF TypeOK, TryAdmit
<1>3. ASSUME NEW l \in LeaseIds, Ack(l)
      PROVE  TypeOK'
  BY <1>3, LeaseTtlAssumption DEF TypeOK, Ack
<1>4. ASSUME NEW l \in LeaseIds, ReapClaim(l)
      PROVE  TypeOK'
  BY <1>4 DEF TypeOK, ReapClaim, Expired, Taken
<1>5. ASSUME NEW j \in Jobs, ReapEnqueue(j)
      PROVE  TypeOK'
  BY <1>5, PushType DEF TypeOK, ReapEnqueue
<1>6. ASSUME NEW w \in Workspaces, NEW keys, PurgePending(w, keys)
      PROVE  TypeOK'
  <2>1. lists' \in [Workspaces -> Seq(Jobs)]
    <3>0. PICK n \in 0..Len(lists[w]) : \E at \in [1..n -> DOMAIN lists[w]] :
            lists' = [lists EXCEPT ![w] = [i \in 1..n |-> lists[w][at[i]]]]
      BY <1>6 DEF PurgePending
    <3>1. PICK at \in [1..n -> DOMAIN lists[w]] :
            lists' = [lists EXCEPT ![w] = [i \in 1..n |-> lists[w][at[i]]]]
      BY <3>0
    <3>2. n \in Nat /\ lists[w] \in Seq(Jobs)
      BY DEF TypeOK
    <3>3. [i \in 1..n |-> lists[w][at[i]]] \in Seq(Jobs)
      BY <3>1, <3>2, KeptIsSeq
    <3>4. QED
      BY <3>1, <3>3 DEF TypeOK
  <2>2. ring' \in Seq(Workspaces)
    BY <1>6, LeaveRingType DEF TypeOK, PurgePending
  <2>3. passed' \in [Workspaces -> [Workspaces -> Nat]]
    BY <1>6 DEF TypeOK, PurgePending, NoneServed
  <2>4. QED
    BY <1>6, <2>1, <2>2, <2>3 DEF TypeOK, PurgePending
<1>7. ASSUME NEW w \in Workspaces, PurgeWorkspace(w)
      PROVE  TypeOK'
  <2>1. ring' \in Seq(Workspaces)
    BY <1>7, LeaveRingType DEF PurgeWorkspace
  <2>2. QED
    BY <1>7, <2>1 DEF TypeOK, PurgeWorkspace, NoneServed
<1>8. CASE Tick
  BY <1>8, LeaseTtlAssumption DEF TypeOK, Tick
<1>9. CASE UNCHANGED vars
  BY <1>9 DEF TypeOK, vars
<1>10. QED
  BY <1>1, <1>2, <1>3, <1>4, <1>5, <1>6, <1>7, <1>8, <1>9 DEF Next, Admit

\* The variables of the queue always hold values of their types: a list holds
\* jobs, the ring workspaces, a lease a job or nothing.
THEOREM TypeCorrect == Spec => []TypeOK
<1>1. Init => TypeOK
  BY LeaseTtlAssumption DEF Init, TypeOK, NoneServed
<1>2. TypeOK /\ [Next]_vars => TypeOK'
  BY QueueType
<1>3. QED
  BY <1>1, <1>2, PTL DEF Spec

-----------------------------------------------------------------------------
(* The ring *)

LEMMA InRingDef == \A w : InRing(w) <=> Contains(ring, w)
  BY DEF InRing

LEMMA EmptyIffNoLength ==
  ASSUME NEW S, NEW s \in Seq(S)
  PROVE  s = <<>> <=> Len(s) = 0
  BY EmptySeq

\* Enqueueing keeps the ring exact and owes nobody more turns: a workspace
\* joins at the back, behind everybody.
LEMMA PushRing ==
  ASSUME TypeOK, RingExact, TurnsOwed,
         NEW j \in Jobs, Push(j), UNCHANGED passed
  PROVE  RingExact' /\ TurnsOwed'
<1> DEFINE w == Owner[j]
<1>1. w \in Workspaces /\ lists[w] \in Seq(Jobs) /\ ring \in Seq(Workspaces)
  BY OwnerAssumption DEF TypeOK
<1>2. \A v \in Workspaces : lists'[v] # <<>> <=> lists[v] # <<>> \/ v = w
  <2>1. Append(lists[w], j) # <<>>
    BY <1>1, AppendProperties
  <2>2. QED
    BY <1>1, <2>1 DEF TypeOK, Push, AddToRing
<1>3. CASE Len(lists[w]) = 0
  <2>1. ring' = Append(ring, w) /\ ~ Contains(ring, w)
    BY <1>1, <1>3, EmptyIffNoLength DEF Push, AddToRing, RingExact, InRing
  <2>2. /\ IsInjective(ring')
        /\ \A v \in Workspaces : Contains(ring', v) <=> Contains(ring, v) \/ v = w
        /\ \A u, v \in Workspaces : Before(ring', u, v) => Before(ring, u, v) \/ v = w
    BY <1>1, <2>1, JoinRing DEF RingExact
  <2>3. RingExact'
    BY <1>2, <2>2 DEF RingExact, InRing
  <2>4. TurnsOwed'
    <3> SUFFICES ASSUME NEW v \in Workspaces, NEW u \in Workspaces
                 PROVE  /\ Contains(ring', v) /\ u # v =>
                             passed[v][u] + (IF Before(ring', u, v) THEN 1 ELSE 0) <= 1
                        /\ ~ Contains(ring', v) => passed[v][u] = 0
      BY DEF TurnsOwed, InRing
    <3>1. passed[v][u] \in Nat
      BY DEF TypeOK
    <3>2. ~ Contains(ring, v) => passed[v][u] = 0
      BY DEF TurnsOwed, InRing
    <3>3. Contains(ring, v) /\ u # v =>
            passed[v][u] + (IF Before(ring, u, v) THEN 1 ELSE 0) <= 1
      BY DEF TurnsOwed, InRing
    <3>4. QED
      BY <2>1, <2>2, <3>1, <3>2, <3>3
  <2>5. QED
    BY <2>3, <2>4
<1>4. CASE Len(lists[w]) # 0
  <2>1. ring' = ring /\ lists[w] # <<>>
    BY <1>1, <1>4, EmptyIffNoLength DEF Push, AddToRing
  <2>2. QED
    BY <1>1, <1>2, <2>1 DEF RingExact, TurnsOwed, InRing
<1>5. QED
  BY <1>3, <1>4

\* So does a workspace whose list was emptied by a purge.
LEMMA PurgeRing ==
  ASSUME TypeOK, RingExact, TurnsOwed, NEW w \in Workspaces,
         LeaveRing(w), lists' = [lists EXCEPT ![w] = <<>>],
         passed' = [passed EXCEPT ![w] = NoneServed]
  PROVE  RingExact' /\ TurnsOwed'
<1>1. PICK i \in 1..Len(ring) : ring[i] = w /\ ring' = RemoveAt(ring, i)
  BY LenProperties DEF LeaveRing, TypeOK
<1>2. /\ IsInjective(ring')
      /\ \A v \in Workspaces : Contains(ring', v) <=> Contains(ring, v) /\ v # w
      /\ \A u, v \in Workspaces : Before(ring', u, v) => Before(ring, u, v)
  BY <1>1, LeaveRingAt DEF TypeOK, RingExact
<1>3. RingExact'
  BY <1>2 DEF RingExact, InRing, TypeOK
<1>4. TurnsOwed'
  <2> SUFFICES ASSUME NEW v \in Workspaces, NEW u \in Workspaces
               PROVE  /\ Contains(ring', v) /\ u # v =>
                           passed'[v][u] + (IF Before(ring', u, v) THEN 1 ELSE 0) <= 1
                      /\ ~ Contains(ring', v) => passed'[v][u] = 0
    BY DEF TurnsOwed, InRing
  <2>1. passed[v][u] \in Nat
    BY DEF TypeOK
  <2>2. passed'[v][u] = IF v = w THEN 0 ELSE passed[v][u]
    BY DEF TypeOK, NoneServed
  <2>3. ~ Contains(ring, v) => passed[v][u] = 0
    BY DEF TurnsOwed, InRing
  <2>4. Contains(ring, v) /\ u # v =>
          passed[v][u] + (IF Before(ring, u, v) THEN 1 ELSE 0) <= 1
    BY DEF TurnsOwed, InRing
  <2>5. QED
    BY <1>2, <2>1, <2>2, <2>3, <2>4
<1>5. QED
  BY <1>3, <1>4

\* An exact ring has no stale entry, so an admit serves its head, ...
LEMMA HeadIsServed ==
  ASSUME TypeOK, RingExact, NEW l \in LeaseIds, NEW k \in DOMAIN ring, Serve(l, k)
  PROVE  k = 1
<1>1. k \in 1..Len(ring) /\ Len(ring) \in Nat
  BY LenProperties DEF TypeOK
<1>2. ring[1] \in Workspaces /\ 1 \in DOMAIN ring
  BY <1>1, LenProperties, ElementOfSeq DEF TypeOK
<1>3. lists[ring[1]] # <<>>
  BY <1>1, <1>2, LenProperties DEF RingExact, InRing, Contains, TypeOK
<1>4. k # 1 => 1 \in 1..(k - 1)
  BY <1>1
<1>5. \A i \in 1..(k - 1) : lists[ring[i]] = <<>>
  BY DEF Serve
<1>6. QED
  BY <1>3, <1>4, <1>5

\* ... which goes behind everybody it was ahead of: they count one more turn
\* of it, the only one it was owed.
LEMMA ServeRing ==
  ASSUME TypeOK, RingExact, TurnsOwed,
         NEW l \in LeaseIds, NEW k \in DOMAIN ring, Serve(l, k)
  PROVE  RingExact' /\ TurnsOwed'
<1> DEFINE w == ring[1]
           rest == RemoveAt(ring, 1)
<1>1. k = 1
  BY HeadIsServed
<1>2. /\ Len(ring) \in Nat /\ DOMAIN ring = 1..Len(ring) /\ 1 \in 1..Len(ring)
      /\ w \in Workspaces /\ lists[w] \in Seq(Jobs) /\ lists[w] # <<>>
  BY <1>1, LenProperties, ElementOfSeq DEF TypeOK, Serve, Rotated, Granted
<1>3. rest = SubSeq(ring, 2, Len(ring))
  BY <1>2, RestIsRemoveHead DEF TypeOK
<1>4. /\ lists' = [lists EXCEPT ![w] = Tail(@)]
      /\ ring' = IF Len(lists[w]) > 1 THEN Append(rest, w) ELSE rest
      /\ passed' = [v \in Workspaces |->
           IF v = w \/ ~ Contains(ring, v) THEN NoneServed
           ELSE [passed[v] EXCEPT ![w] = @ + 1]]
  <2>1. Serve(l, 1) /\ 1 + 1 = 2
    BY <1>1
  <2> HIDE DEF rest
  <2>2. QED
    BY <1>3, <2>1 DEF Serve, Rotated, Granted, InRing
<1>5. /\ rest \in Seq(Workspaces)
      /\ IsInjective(rest)
      /\ \A v \in Workspaces : Contains(rest, v) <=> Contains(ring, v) /\ v # w
      /\ \A u, v \in Workspaces : Before(rest, u, v) => Before(ring, u, v) /\ u # w /\ v # w
  BY <1>2, LeaveRingAt, DropAtFacts DEF TypeOK, RingExact
<1>6. Len(Tail(lists[w])) = Len(lists[w]) - 1 /\ Tail(lists[w]) \in Seq(Jobs)
      /\ Len(lists[w]) \in Nat
  BY <1>2, HeadTailProperties, LenProperties
<1>7. \A v \in Workspaces : lists'[v] # <<>> <=>
        lists[v] # <<>> /\ (v = w => Len(lists[w]) > 1)
  <2>1. Tail(lists[w]) # <<>> <=> Len(lists[w]) > 1
    <3> DEFINE tl == Tail(lists[w])
               n == Len(lists[w])
    <3>1. tl = <<>> <=> Len(tl) = 0
      BY <1>6, EmptyIffNoLength
    <3>2. n # 0
      BY <1>2, EmptyIffNoLength
    <3>3. n \in Nat /\ Len(tl) = n - 1
      BY <1>6
    <3> HIDE DEF tl, n
    <3>4. tl # <<>> <=> n > 1
      BY <3>1, <3>2, <3>3
    <3>5. QED
      BY <3>4 DEF tl, n
  <2>2. QED
    BY <1>2, <1>4, <2>1 DEF TypeOK
<1>8. Contains(ring, w)
  BY <1>2 DEF Contains
<1> HIDE DEF rest
<1>9. /\ IsInjective(ring')
      /\ \A v \in Workspaces : Contains(ring', v) <=>
           Contains(ring, v) /\ (v = w => Len(lists[w]) > 1)
      /\ \A u, v \in Workspaces : Before(ring', u, v) =>
           v = w \/ (Before(ring, u, v) /\ u # w)
  <2>1. CASE Len(lists[w]) > 1
    <3>1. ~ Contains(rest, w) /\ ring' = Append(rest, w)
      BY <1>2, <1>4, <1>5, <2>1
    <3>2. /\ IsInjective(ring')
          /\ \A v \in Workspaces : Contains(ring', v) <=> Contains(rest, v) \/ v = w
          /\ \A u, v \in Workspaces : Before(ring', u, v) => Before(rest, u, v) \/ v = w
      BY <1>2, <1>5, <3>1, JoinRing
    <3>3. QED
      BY <1>5, <1>8, <2>1, <3>2
  <2>2. CASE ~ (Len(lists[w]) > 1)
    BY <1>4, <1>5, <2>2
  <2>3. QED
    BY <2>1, <2>2
<1>10. RingExact'
  BY <1>7, <1>9 DEF RingExact, InRing
<1>11. TurnsOwed'
  <2> SUFFICES ASSUME NEW v \in Workspaces, NEW u \in Workspaces
               PROVE  /\ Contains(ring', v) /\ u # v =>
                           passed'[v][u] + (IF Before(ring', u, v) THEN 1 ELSE 0) <= 1
                      /\ ~ Contains(ring', v) => passed'[v][u] = 0
    BY DEF TurnsOwed, InRing
  <2>1. passed[v][u] \in Nat /\ passed[v] \in [Workspaces -> Nat]
    BY DEF TypeOK
  <2>2. Contains(ring, v) /\ u # v =>
          passed[v][u] + (IF Before(ring, u, v) THEN 1 ELSE 0) <= 1
    BY DEF TurnsOwed, InRing
  <2>3. CASE v = w \/ ~ Contains(ring, v)
    <3>1. passed'[v][u] = 0
      BY <1>4, <2>3 DEF NoneServed
    <3>2. QED
      BY <3>1
  <2>4. CASE v # w /\ Contains(ring, v)
    <3>1. passed'[v][u] = IF u = w THEN passed[v][u] + 1 ELSE passed[v][u]
      BY <1>2, <1>4, <2>1, <2>4
    <3>2. Before(ring, w, v)
      <4>1. PICK i \in 1..Len(ring) : ring[i] = v
        BY <1>2, <2>4 DEF Contains
      <4>2. 1 < i
        BY <1>2, <2>4, <4>1
      <4>3. QED
        BY <1>2, <4>1, <4>2 DEF Before
    <3>3. QED
      BY <1>9, <2>1, <2>2, <2>4, <3>1, <3>2
  <2>5. QED
    BY <2>3, <2>4
<1>12. QED
  BY <1>10, <1>11

\* A purge that keeps something leaves a list that is not empty; one that
\* keeps nothing leaves the empty list.
LEMMA PurgeKeeps ==
  ASSUME TypeOK, NEW w \in Workspaces, NEW keys, PurgePending(w, keys)
  PROVE  \E kept \in Seq(Jobs) :
           /\ lists' = [lists EXCEPT ![w] = kept]
           /\ kept = <<>> <=> Waiting(w) \subseteq keys
           /\ \A p \in 1..Len(kept) : kept[p] \in Waiting(w)
           /\ IsInjective(lists[w]) => IsInjective(kept)
<1> DEFINE list == lists[w]
<1>1. list \in Seq(Jobs) /\ Len(list) \in Nat /\ DOMAIN list = 1..Len(list)
  BY LenProperties DEF TypeOK
<1>2. PICK n \in 0..Len(list) : \E at \in [1..n -> DOMAIN list] :
        /\ \A i, k \in 1..n : i < k => at[i] < at[k]
        /\ {at[i] : i \in 1..n} = {i \in DOMAIN list : list[i] \notin keys}
        /\ lists' = [lists EXCEPT ![w] = [i \in 1..n |-> list[at[i]]]]
  BY DEF PurgePending
<1>3. PICK at \in [1..n -> DOMAIN list] :
        /\ \A i, k \in 1..n : i < k => at[i] < at[k]
        /\ {at[i] : i \in 1..n} = {i \in DOMAIN list : list[i] \notin keys}
        /\ lists' = [lists EXCEPT ![w] = [i \in 1..n |-> list[at[i]]]]
  BY <1>2
<1> DEFINE kept == [i \in 1..n |-> list[at[i]]]
<1>4. n \in Nat
  BY <1>1
<1>5. kept \in Seq(Jobs)
  BY <1>1, <1>4, KeptIsSeq
<1>6. Len(kept) = n
  BY <1>4, <1>5, LenProperties
<1>7. Waiting(w) \subseteq keys <=> \A i \in DOMAIN list : list[i] \in keys
  BY DEF Waiting, ToSet
<1>8. kept = <<>> <=> n = 0
  BY <1>5, <1>6, EmptyIffNoLength
<1>9. n = 0 <=> \A i \in DOMAIN list : list[i] \in keys
  <2>1. n = 0 <=> 1..n = {}
    BY <1>4
  <2>2. 1..n = {} <=> {at[i] : i \in 1..n} = {}
    OBVIOUS
  <2>3. QED
    BY <1>3, <2>1, <2>2
<1>10. \A p \in 1..n : kept[p] \in Waiting(w)
  BY <1>1 DEF Waiting, ToSet
<1>11. IsInjective(list) => IsInjective(kept)
  <2> SUFFICES ASSUME IsInjective(list), NEW p \in 1..n, NEW q \in 1..n, kept[p] = kept[q]
               PROVE  p = q
    BY DEF IsInjective
  <2>1. at[p] = at[q]
    BY DEF IsInjective
  <2>2. ~ (p < q) /\ ~ (q < p)
    BY <1>1, <1>3, <2>1
  <2>3. QED
    BY <1>4, <2>2
<1>12. lists' = [lists EXCEPT ![w] = kept]
  BY <1>3
<1>13. QED
  <2> HIDE DEF kept
  <2>1. QED
    BY <1>5, <1>6, <1>7, <1>8, <1>9, <1>10, <1>11, <1>12

LEMMA PurgePendingRing ==
  ASSUME TypeOK, RingExact, TurnsOwed, NEW w \in Workspaces, NEW keys,
         PurgePending(w, keys)
  PROVE  RingExact' /\ TurnsOwed'
<1>1. PICK kept \in Seq(Jobs) :
        /\ lists' = [lists EXCEPT ![w] = kept]
        /\ kept = <<>> <=> Waiting(w) \subseteq keys
  BY PurgeKeeps
<1>2. CASE Waiting(w) \subseteq keys
  BY <1>1, <1>2, PurgeRing DEF PurgePending
<1>3. CASE ~ (Waiting(w) \subseteq keys)
  <2>1. ring' = ring /\ passed' = passed
    BY <1>3 DEF PurgePending
  <2>2. lists[w] # <<>>
    BY DEF PurgePending, Waiting, ToSet
  <2>3. \A v \in Workspaces : lists'[v] # <<>> <=> lists[v] # <<>>
    BY <1>1, <1>3, <2>2 DEF TypeOK
  <2>4. QED
    BY <2>1, <2>3 DEF RingExact, TurnsOwed, InRing
<1>4. QED
  BY <1>2, <1>3

\* The ring is exact and round robin owes nobody more than a turn.
LEMMA RingInvariant == Spec => [](RingExact /\ TurnsOwed)
<1>1. Init => RingExact /\ TurnsOwed
  BY DEF Init, RingExact, TurnsOwed, InRing, Contains, IsInjective, NoneServed
<1>2. TypeOK /\ RingExact /\ TurnsOwed /\ [Next]_vars => RingExact' /\ TurnsOwed'
  <2> SUFFICES ASSUME TypeOK, RingExact, TurnsOwed, [Next]_vars
               PROVE  RingExact' /\ TurnsOwed'
    OBVIOUS
  <2>1. ASSUME NEW j \in Jobs, Enqueue(j)
        PROVE  RingExact' /\ TurnsOwed'
    BY <2>1, PushRing DEF Enqueue
  <2>2. ASSUME NEW l \in LeaseIds, TryAdmit(l)
        PROVE  RingExact' /\ TurnsOwed'
    BY <2>2, ServeRing DEF TryAdmit
  <2>3. ASSUME NEW j \in Jobs, ReapEnqueue(j)
        PROVE  RingExact' /\ TurnsOwed'
    BY <2>3, PushRing DEF ReapEnqueue
  <2>4. ASSUME NEW w \in Workspaces, NEW keys, PurgePending(w, keys)
        PROVE  RingExact' /\ TurnsOwed'
    BY <2>4, PurgePendingRing
  <2>5. ASSUME NEW w \in Workspaces, PurgeWorkspace(w)
        PROVE  RingExact' /\ TurnsOwed'
    BY <2>5, PurgeRing DEF PurgeWorkspace
  <2>6. ASSUME UNCHANGED <<lists, ring, passed>>
        PROVE  RingExact' /\ TurnsOwed'
    BY <2>6 DEF RingExact, TurnsOwed, InRing
  <2>7. QED
    BY <2>1, <2>2, <2>3, <2>4, <2>5, <2>6
    DEF Next, Admit, Ack, ReapClaim, Tick, vars
<1>3. QED
  BY <1>1, <1>2, TypeCorrect, PTL DEF Spec

\* The ring names exactly the workspaces with waiting jobs, each once, so no
\* waiting workspace is ever out of the rotation.
THEOREM RingIsExact == Spec => []RingExact
  BY RingInvariant, PTL

\* Round robin by workspace: nobody is served twice while another one waits.
THEOREM RoundRobin == Spec => []NoOvertaking
<1>1. TypeOK /\ TurnsOwed => NoOvertaking
  <2> SUFFICES ASSUME TypeOK, TurnsOwed, NEW w \in Workspaces, NEW u \in Workspaces,
                      InRing(w), u # w
               PROVE  passed[w][u] <= 1
    BY DEF NoOvertaking
  <2>1. passed[w][u] \in Nat
    BY DEF TypeOK
  <2>2. passed[w][u] + (IF Before(ring, u, w) THEN 1 ELSE 0) <= 1
    BY DEF TurnsOwed
  <2>3. QED
    BY <2>1, <2>2
<1>2. QED
  BY <1>1, TypeCorrect, RingInvariant, PTL

-----------------------------------------------------------------------------
(* The cap *)

\* However many workers admit at once, the leases that are still good never
\* outnumber the class's cap.
THEOREM CapHolds == Spec => []CapRespected
<1>1. Init => CapRespected
  <2>1. Init => Live = {}
    BY DEF Init, Live, Taken
  <2>2. Cardinality({}) = 0
    BY FS_EmptySet
  <2>3. QED
    BY <2>1, <2>2, CapAssumption DEF CapRespected
<1>2. TypeOK /\ TypeOK' /\ CapRespected /\ [Next]_vars => CapRespected'
  <2> SUFFICES ASSUME TypeOK, TypeOK', CapRespected, [Next]_vars, MaxGlobalInFlight # NoCap
               PROVE  Cardinality(Live') <= MaxGlobalInFlight
    BY DEF CapRespected
  <2>1. MaxGlobalInFlight \in Nat /\ Cardinality(Live) <= MaxGlobalInFlight
    BY CapAssumption DEF CapRespected
  <2>2. IsFiniteSet(Live) /\ Cardinality(Live) \in Nat
    BY LeaseIdsAssumption, FS_Subset, FS_CardinalityType DEF Live, Taken
  <2>3. ASSUME Live' \subseteq Live
        PROVE  Cardinality(Live') <= MaxGlobalInFlight
    <3>1. Cardinality(Live') <= Cardinality(Live) /\ IsFiniteSet(Live')
      BY <2>2, <2>3, FS_Subset
    <3>2. Cardinality(Live') \in Nat
      BY <3>1, FS_CardinalityType
    <3>3. QED
      BY <2>1, <2>2, <3>1, <3>2
  <2>4. ASSUME NEW l \in LeaseIds, TryAdmit(l)
        PROVE  Cardinality(Live') <= MaxGlobalInFlight
    <3>1. Live' \subseteq Live \cup {l} /\ l \notin Live
      <4>1. PICK k \in DOMAIN ring : Serve(l, k)
        BY <2>4 DEF TryAdmit
      <4>2. \A m \in LeaseIds : m # l => reserved'[m] = reserved[m] /\ left'[m] = left[m]
        BY <4>1 DEF Serve, Rotated, Granted, TypeOK
      <4>3. QED
        BY <2>4, <4>2 DEF TryAdmit, Live, Taken
    <3>2. Cardinality(Live \cup {l}) = Cardinality(Live) + 1 /\ IsFiniteSet(Live \cup {l})
      BY <2>2, <3>1, FS_AddElement
    <3>3. Cardinality(Live') <= Cardinality(Live \cup {l}) /\ IsFiniteSet(Live')
      BY <3>1, <3>2, FS_Subset
    <3>4. Cardinality(Live') \in Nat
      BY <3>3, FS_CardinalityType
    <3>5. Cardinality(Live) < MaxGlobalInFlight
      BY <2>4 DEF TryAdmit, HasCapacity
    <3>6. QED
      BY <2>1, <2>2, <3>2, <3>3, <3>4, <3>5
  <2>5. ASSUME NEW l \in LeaseIds, Ack(l)
        PROVE  Live' \subseteq Live
    BY <2>5 DEF Ack, Live, Taken, TypeOK
  <2>6. ASSUME NEW l \in LeaseIds, ReapClaim(l)
        PROVE  Live' \subseteq Live
    BY <2>6 DEF ReapClaim, Live, Taken, TypeOK
  <2>7. ASSUME Tick
        PROVE  Live' \subseteq Live
    BY <2>7 DEF Tick, Live, Taken, TypeOK
  <2>8. ASSUME UNCHANGED <<reserved, left>>
        PROVE  Live' \subseteq Live
    BY <2>8 DEF Live, Taken
  <2>9. QED
    BY <2>3, <2>4, <2>5, <2>6, <2>7, <2>8
    DEF Next, Admit, Enqueue, ReapEnqueue, PurgePending, PurgeWorkspace, vars
<1>3. QED
  BY <1>1, <1>2, TypeCorrect, PTL DEF Spec

-----------------------------------------------------------------------------
(* One copy *)

\* OneCopy, split into what it says of the lists and of everything else.
ListsInOrder ==
  \A w \in Workspaces :
    /\ IsInjective(lists[w])
    /\ \A i \in DOMAIN lists[w] : Owner[lists[w][i]] = w

PlacesApart ==
  /\ \A l, m \in Taken : reserved[l] = reserved[m] => l = m
  /\ AllWaiting \cap Reserved = {}
  /\ (AllWaiting \cup Reserved) \cap reclaimed = {}

LEMMA OneCopySplit == OneCopy <=> ListsInOrder /\ PlacesApart
  BY DEF OneCopy, ListsInOrder, PlacesApart, IsInjective

\* A list's jobs all belong to its workspace, so different lists share none.
LEMMA WaitingAt ==
  ASSUME TypeOK, ListsInOrder, NEW w \in Workspaces
  PROVE  Waiting(w) = {j \in AllWaiting : Owner[j] = w}
  BY DEF TypeOK, ListsInOrder, Waiting, AllWaiting, ToSet

LEMMA PushLists ==
  ASSUME TypeOK, ListsInOrder, NEW j \in Jobs, j \notin AllWaiting, Push(j)
  PROVE  ListsInOrder' /\ AllWaiting' = AllWaiting \cup {j}
<1> DEFINE w == Owner[j]
           t == Append(lists[w], j)
<1>1. w \in Workspaces /\ lists[w] \in Seq(Jobs) /\ Len(lists[w]) \in Nat
      /\ DOMAIN lists[w] = 1..Len(lists[w])
  BY OwnerAssumption, LenProperties DEF TypeOK
<1>2. /\ t \in Seq(Jobs)
      /\ DOMAIN t = 1..(Len(lists[w]) + 1)
      /\ \A i \in 1..Len(lists[w]) : t[i] = lists[w][i]
      /\ t[Len(lists[w]) + 1] = j
  BY <1>1, AppendProperties, LenProperties
<1> HIDE DEF t
<1>3. lists' = [lists EXCEPT ![w] = t]
  BY DEF Push, AddToRing, t
<1>4. \A i \in 1..Len(lists[w]) : lists[w][i] # j
  BY <1>1 DEF AllWaiting, Waiting, ToSet
<1>5. IsInjective(t) /\ \A i \in DOMAIN t : Owner[t[i]] = w
  <2>1. IsInjective(lists[w]) /\ \A i \in DOMAIN lists[w] : Owner[lists[w][i]] = w
    BY <1>1 DEF ListsInOrder
  <2>2. \A i \in DOMAIN t : i \in DOMAIN lists[w] \/ i = Len(lists[w]) + 1
    BY <1>1, <1>2
  <2>3. IsInjective(t)
    BY <1>1, <1>2, <1>4, <2>1, <2>2 DEF IsInjective
  <2>4. QED
    BY <1>1, <1>2, <2>1, <2>2, <2>3
<1>6. ListsInOrder'
  BY <1>1, <1>3, <1>5 DEF ListsInOrder, TypeOK
<1>7. ToSet(t) = Waiting(w) \cup {j}
  BY <1>1, <1>2 DEF Waiting, ToSet
<1>8. \A v \in Workspaces : Waiting(v)' = IF v = w THEN Waiting(w) \cup {j} ELSE Waiting(v)
  BY <1>1, <1>3, <1>7 DEF Waiting, TypeOK
<1>9. AllWaiting' = AllWaiting \cup {j}
  BY <1>1, <1>8 DEF AllWaiting
<1>10. QED
  BY <1>6, <1>9

\* An admit takes exactly the head of one list out of the waiting jobs.
LEMMA ServeLists ==
  ASSUME TypeOK, ListsInOrder, NEW l \in LeaseIds, NEW k \in DOMAIN ring, Serve(l, k)
  PROVE  \E h \in AllWaiting :
           /\ ListsInOrder'
           /\ AllWaiting' = AllWaiting \ {h}
           /\ reserved' = [reserved EXCEPT ![l] = h]
<1> DEFINE w == ring[k]
           h == Head(lists[w])
           t == Tail(lists[w])
           n == Len(lists[w])
<1>1. w \in Workspaces /\ lists[w] \in Seq(Jobs) /\ lists[w] # <<>>
  BY LenProperties, ElementOfSeq DEF TypeOK, Serve, Rotated, Granted
<1>2. n \in Nat /\ n # 0 /\ DOMAIN lists[w] = 1..n
  BY <1>1, LenProperties, EmptyIffNoLength
<1>3. /\ h = lists[w][1]
      /\ t \in Seq(Jobs)
      /\ DOMAIN t = 1..(n - 1)
      /\ \A i \in 1..(n - 1) : t[i] = lists[w][i + 1]
  <2>1. t \in Seq(Jobs) /\ Len(t) = n - 1 /\ \A i \in 1..(n - 1) : t[i] = lists[w][i + 1]
    BY <1>1, HeadTailProperties
  <2>2. DOMAIN t = 1..Len(t)
    BY <2>1, LenProperties
  <2>3. QED
    BY <1>1, <2>1, <2>2
<1>4. lists' = [lists EXCEPT ![w] = t] /\ reserved' = [reserved EXCEPT ![l] = h]
  BY DEF Serve, Rotated, Granted
<1> HIDE DEF h, t, n, w
<1>5. IsInjective(lists[w]) /\ \A i \in DOMAIN lists[w] : Owner[lists[w][i]] = w
  BY <1>1 DEF ListsInOrder
<1> DEFINE list == lists[w]
<1>a. /\ \A i \in 1..(n - 1) : i + 1 \in 1..n /\ i + 1 # 1 /\ t[i] = list[i + 1]
      /\ \A i, m \in 1..(n - 1) : i + 1 = m + 1 => i = m
      /\ \A i \in 1..n : i # 1 => i - 1 \in 1..(n - 1) /\ list[i] = t[i - 1]
      /\ 1 \in 1..n /\ list[1] = h
      /\ \A i, m \in 1..n : list[i] = list[m] => i = m
      /\ \A i \in 1..n : Owner[list[i]] = w
  <2>1. /\ \A i \in 1..(n - 1) : i + 1 \in 1..n /\ i + 1 # 1 /\ t[i] = list[i + 1]
        /\ \A i, m \in 1..(n - 1) : i + 1 = m + 1 => i = m
    BY <1>2, <1>3
  <2>2. \A i \in 1..n : i # 1 => i - 1 \in 1..(n - 1) /\ (i - 1) + 1 = i
    BY <1>2
  <2>3. \A i \in 1..n : i # 1 => list[i] = t[i - 1]
    BY <2>1, <2>2
  <2>4. \A i, m \in 1..n : list[i] = list[m] => i = m
    BY <1>2, <1>5 DEF IsInjective
  <2>5. 1 \in 1..n /\ list[1] = h
    BY <1>2, <1>3
  <2>6. \A i \in 1..n : Owner[list[i]] = w
    BY <1>2, <1>5
  <2> HIDE DEF list
  <2>7. QED
    BY <2>1, <2>2, <2>3, <2>4, <2>5, <2>6
<1>b. DOMAIN t = 1..(n - 1) /\ DOMAIN list = 1..n
  BY <1>2, <1>3
<1>6. IsInjective(t) /\ \A i \in DOMAIN t : Owner[t[i]] = w
  <2> HIDE DEF list
  <2>1. QED
    BY <1>a, <1>b DEF IsInjective
<1>7. ListsInOrder'
  BY <1>1, <1>4, <1>6 DEF ListsInOrder, TypeOK
<1>8. ToSet(t) = Waiting(w) \ {h} /\ h \in Waiting(w)
  <2> HIDE DEF list
  <2>1. ToSet(t) = ToSet(list) \ {h} /\ h \in ToSet(list)
    BY <1>a, <1>b DEF ToSet
  <2>2. QED
    BY <2>1 DEF Waiting, list
<1>9. \A v \in Workspaces : Waiting(v)' = IF v = w THEN Waiting(w) \ {h} ELSE Waiting(v)
  BY <1>1, <1>4, <1>8 DEF Waiting, TypeOK
<1>10. \A v \in Workspaces : v # w => h \notin Waiting(v)
  BY <1>1, <1>8, WaitingAt
<1>11. AllWaiting' = AllWaiting \ {h} /\ h \in AllWaiting
  BY <1>1, <1>8, <1>9, <1>10 DEF AllWaiting
<1>12. QED
  BY <1>4, <1>7, <1>11

\* A purge takes waiting jobs out and moves none.
LEMMA PurgeLists ==
  ASSUME TypeOK, ListsInOrder, NEW w \in Workspaces, NEW kept \in Seq(Jobs),
         lists' = [lists EXCEPT ![w] = kept], IsInjective(kept),
         \A p \in 1..Len(kept) : kept[p] \in Waiting(w)
  PROVE  ListsInOrder' /\ AllWaiting' \subseteq AllWaiting
<1>1. DOMAIN kept = 1..Len(kept)
  BY LenProperties
<1>2. \A p \in 1..Len(kept) : Owner[kept[p]] = w
  BY WaitingAt
<1>3. ListsInOrder'
  BY <1>1, <1>2 DEF ListsInOrder, TypeOK
<1>4. ToSet(kept) \subseteq Waiting(w)
  BY <1>1 DEF ToSet
<1>5. \A v \in Workspaces : Waiting(v)' \subseteq Waiting(v)
  BY <1>4 DEF Waiting, TypeOK
<1>6. QED
  BY <1>3, <1>5 DEF AllWaiting

\* What each kind of step does to the leases.
LEMMA ReservedAfterGrant ==
  ASSUME TypeOK, NEW l \in LeaseIds, reserved[l] = NoJob, NEW h \in Jobs,
         reserved' = [reserved EXCEPT ![l] = h]
  PROVE  /\ Taken' = Taken \cup {l}
         /\ Reserved' = Reserved \cup {h}
         /\ \A m \in Taken : m # l /\ reserved'[m] = reserved[m]
         /\ reserved'[l] = h
<1>1. h # NoJob
  BY NoJobAssumption
<1>2. \A m \in LeaseIds : reserved'[m] = IF m = l THEN h ELSE reserved[m]
  BY DEF TypeOK
<1>3. l \notin Taken
  BY DEF Taken
<1>4. Taken' = Taken \cup {l}
  BY <1>1, <1>2 DEF Taken
<1>5. \A m \in Taken : m \in LeaseIds /\ m # l
  BY <1>3 DEF Taken
<1>6. QED
  BY <1>2, <1>4, <1>5 DEF Reserved

LEMMA ReservedAfterRelease ==
  ASSUME TypeOK, PlacesApart, NEW l \in Taken,
         reserved' = [reserved EXCEPT ![l] = NoJob]
  PROVE  /\ Taken' = Taken \ {l}
         /\ Reserved' = Reserved \ {reserved[l]}
         /\ \A m \in Taken : m # l => reserved'[m] = reserved[m]
<1>1. \A m \in LeaseIds : reserved'[m] = IF m = l THEN NoJob ELSE reserved[m]
  BY DEF TypeOK, Taken
<1>2. Taken' = Taken \ {l}
  BY <1>1 DEF Taken
<1>3. \A m \in Taken : m \in LeaseIds
  BY DEF Taken
<1>4. QED
  BY <1>1, <1>2, <1>3 DEF Reserved, PlacesApart

LEMMA EnqueueOnce ==
  ASSUME TypeOK, ListsInOrder, PlacesApart, NEW j \in Jobs,
         j \notin AllWaiting \cup Reserved, Push(j), UNCHANGED reserved,
         reclaimed' = reclaimed \ {j}
  PROVE  ListsInOrder' /\ PlacesApart'
<1>1. ListsInOrder' /\ AllWaiting' = AllWaiting \cup {j}
  BY PushLists
<1>2. Taken' = Taken /\ Reserved' = Reserved
  BY DEF Taken, Reserved
<1>3. PlacesApart'
  BY <1>1, <1>2 DEF PlacesApart
<1>4. QED
  BY <1>1, <1>3

\* No step puts a copy of a job at a second place.
LEMMA OneCopyStep ==
  ASSUME TypeOK, ListsInOrder, PlacesApart, [Next]_vars
  PROVE  ListsInOrder' /\ PlacesApart'
<1>1. ASSUME NEW j \in Jobs, Enqueue(j)
      PROVE  ListsInOrder' /\ PlacesApart'
  <2>1. reclaimed' = reclaimed \ {j}
    BY <1>1 DEF Enqueue
  <2>2. QED
    BY <1>1, <2>1, EnqueueOnce DEF Enqueue
<1>2. ASSUME NEW l \in LeaseIds, TryAdmit(l)
      PROVE  ListsInOrder' /\ PlacesApart'
  <2>1. PICK k \in DOMAIN ring : Serve(l, k)
    BY <1>2 DEF TryAdmit
  <2>2. PICK h \in AllWaiting :
          /\ ListsInOrder'
          /\ AllWaiting' = AllWaiting \ {h}
          /\ reserved' = [reserved EXCEPT ![l] = h]
    BY <2>1, ServeLists
  <2>3. h \in Jobs
    BY DEF AllWaiting, Waiting, ToSet, TypeOK
  <2>4. /\ Taken' = Taken \cup {l}
        /\ Reserved' = Reserved \cup {h}
        /\ \A m \in Taken : m # l /\ reserved'[m] = reserved[m]
        /\ reserved'[l] = h
    BY <1>2, <2>2, <2>3, ReservedAfterGrant DEF TryAdmit
  <2>5. h \notin Reserved /\ h \notin reclaimed
    BY DEF PlacesApart
  <2>6. \A m \in Taken : reserved[m] # h
    BY <2>5 DEF Reserved
  <2>7. \A m, p \in Taken' : reserved'[m] = reserved'[p] => m = p
    BY <2>4, <2>6 DEF PlacesApart
  <2>8. reclaimed' = reclaimed
    BY <1>2 DEF TryAdmit
  <2>9. PlacesApart'
    BY <2>2, <2>4, <2>5, <2>7, <2>8 DEF PlacesApart
  <2>10. QED
    BY <2>2, <2>9
<1>3. ASSUME NEW l \in LeaseIds, Ack(l)
      PROVE  ListsInOrder' /\ PlacesApart'
  <2>1. l \in Taken /\ reserved' = [reserved EXCEPT ![l] = NoJob]
        /\ UNCHANGED <<lists, reclaimed>>
    BY <1>3 DEF Ack, Taken
  <2>2. /\ Taken' = Taken \ {l}
        /\ Reserved' = Reserved \ {reserved[l]}
        /\ \A m \in Taken : m # l => reserved'[m] = reserved[m]
    BY <2>1, ReservedAfterRelease
  <2>3. AllWaiting' = AllWaiting /\ ListsInOrder'
    BY <2>1 DEF AllWaiting, Waiting, ListsInOrder
  <2>4. QED
    BY <2>1, <2>2, <2>3 DEF PlacesApart
<1>4. ASSUME NEW l \in LeaseIds, ReapClaim(l)
      PROVE  ListsInOrder' /\ PlacesApart'
  <2>1. /\ l \in Taken /\ reserved' = [reserved EXCEPT ![l] = NoJob]
        /\ reclaimed' = reclaimed \cup {reserved[l]} /\ UNCHANGED lists
    BY <1>4 DEF ReapClaim, Expired
  <2>2. /\ Taken' = Taken \ {l}
        /\ Reserved' = Reserved \ {reserved[l]}
        /\ \A m \in Taken : m # l => reserved'[m] = reserved[m]
    BY <2>1, ReservedAfterRelease
  <2>3. AllWaiting' = AllWaiting /\ ListsInOrder'
    BY <2>1 DEF AllWaiting, Waiting, ListsInOrder
  <2>4. reserved[l] \in Reserved
    BY <2>1 DEF Reserved
  <2>5. QED
    BY <2>1, <2>2, <2>3, <2>4 DEF PlacesApart
<1>5. ASSUME NEW j \in Jobs, ReapEnqueue(j)
      PROVE  ListsInOrder' /\ PlacesApart'
  <2>1. j \notin AllWaiting \cup Reserved
    BY <1>5 DEF ReapEnqueue, PlacesApart
  <2>2. QED
    BY <1>5, <2>1, EnqueueOnce DEF ReapEnqueue
<1>6. ASSUME NEW w \in Workspaces, NEW kept \in Seq(Jobs),
             lists' = [lists EXCEPT ![w] = kept], IsInjective(kept),
             \A p \in 1..Len(kept) : kept[p] \in Waiting(w),
             UNCHANGED <<reserved, reclaimed>>
      PROVE  ListsInOrder' /\ PlacesApart'
  <2>1. ListsInOrder' /\ AllWaiting' \subseteq AllWaiting
    BY <1>6, PurgeLists
  <2>2. Taken' = Taken /\ Reserved' = Reserved
    BY <1>6 DEF Taken, Reserved
  <2>3. QED
    BY <1>6, <2>1, <2>2 DEF PlacesApart
<1>7. ASSUME NEW w \in Workspaces, NEW keys, PurgePending(w, keys)
      PROVE  ListsInOrder' /\ PlacesApart'
  <2>1. PICK kept \in Seq(Jobs) :
          /\ lists' = [lists EXCEPT ![w] = kept]
          /\ \A p \in 1..Len(kept) : kept[p] \in Waiting(w)
          /\ IsInjective(lists[w]) => IsInjective(kept)
    BY <1>7, PurgeKeeps
  <2>2. IsInjective(kept)
    BY <2>1 DEF ListsInOrder
  <2>3. QED
    BY <1>6, <1>7, <2>1, <2>2 DEF PurgePending
<1>8. ASSUME NEW w \in Workspaces, PurgeWorkspace(w)
      PROVE  ListsInOrder' /\ PlacesApart'
  <2>1. <<>> \in Seq(Jobs) /\ IsInjective(<<>>) /\ Len(<<>>) = 0
    BY DEF IsInjective
  <2>2. \A p \in 1..Len(<<>>) : <<>>[p] \in Waiting(w)
    BY <2>1
  <2>3. QED
    BY <1>6, <1>8, <2>1, <2>2 DEF PurgeWorkspace
<1>9. ASSUME UNCHANGED <<lists, reserved, reclaimed>>
      PROVE  ListsInOrder' /\ PlacesApart'
  BY <1>9 DEF ListsInOrder, PlacesApart, AllWaiting, Waiting, Reserved, Taken
<1>10. QED
  BY <1>1, <1>2, <1>3, <1>4, <1>5, <1>7, <1>8, <1>9 DEF Next, Admit, Tick, vars

\* A copy of a job is at one place only, whatever is admitted, acked, reaped,
\* enqueued again or purged.
THEOREM OneCopyHolds == Spec => []OneCopy
<1>1. Init => ListsInOrder /\ PlacesApart
  BY DEF Init, ListsInOrder, PlacesApart, IsInjective, AllWaiting, Waiting, ToSet,
         Reserved, Taken
<1>2. TypeOK /\ ListsInOrder /\ PlacesApart /\ [Next]_vars => ListsInOrder' /\ PlacesApart'
  BY OneCopyStep
<1>3. QED
  BY <1>1, <1>2, TypeCorrect, OneCopySplit, PTL DEF Spec

-----------------------------------------------------------------------------
(* First in, first out *)

\* Whoever stands before an element of s in t stood before it in s.
KeepsOrder(s, t) ==
  \A k \in DOMAIN s : \A p, q \in DOMAIN t :
    p < q /\ t[q] = s[k] => \E i \in DOMAIN s : i < k /\ t[p] = s[i]

ListsKeepOrder == \A w \in Workspaces : KeepsOrder(lists[w], lists'[w])

\* A job that has others before it is not admitted while they wait.
OldestFirst ==
  \A w \in Workspaces : \A k, i \in DOMAIN lists[w] :
    i < k /\ lists[w][k] \in Reserved' => lists[w][i] \notin AllWaiting'

LEMMA FifoSplit == FifoStep <=> ListsKeepOrder /\ OldestFirst
  BY DEF FifoStep, ListsKeepOrder, OldestFirst, KeepsOrder

\* Order is kept by reading a sequence at increasing positions, ...
LEMMA ReadInOrder ==
  ASSUME NEW S, NEW s \in Seq(S), NEW t \in Seq(S), IsInjective(s),
         NEW at \in [DOMAIN t -> DOMAIN s],
         \A p, q \in DOMAIN t : p < q => at[p] < at[q],
         \A p \in DOMAIN t : t[p] = s[at[p]]
  PROVE  KeepsOrder(s, t)
<1> SUFFICES ASSUME NEW k \in DOMAIN s, NEW p \in DOMAIN t, NEW q \in DOMAIN t,
                    p < q, t[q] = s[k]
             PROVE  at[p] \in DOMAIN s /\ at[p] < k /\ t[p] = s[at[p]]
  BY DEF KeepsOrder
<1>1. at[q] = k
  BY DEF IsInjective
<1>2. QED
  BY <1>1

\* ... and by putting a new element behind all others.
LEMMA JoinsBehind ==
  ASSUME NEW S, NEW s \in Seq(S), IsInjective(s), NEW e \in S,
         \A i \in DOMAIN s : s[i] # e
  PROVE  KeepsOrder(s, Append(s, e))
<1> DEFINE t == Append(s, e)
<1>1. Len(s) \in Nat /\ DOMAIN s = 1..Len(s)
  BY LenProperties
<1>2. /\ DOMAIN t = 1..(Len(s) + 1)
      /\ \A i \in 1..Len(s) : t[i] = s[i]
      /\ t[Len(s) + 1] = e
  BY AppendProperties, LenProperties
<1> HIDE DEF t
<1> SUFFICES ASSUME NEW k \in DOMAIN s, NEW p \in DOMAIN t, NEW q \in DOMAIN t,
                    p < q, t[q] = s[k]
             PROVE  p \in DOMAIN s /\ p < k /\ t[p] = s[p]
  BY DEF KeepsOrder, t
<1>3. q # Len(s) + 1
  BY <1>2
<1>4. q \in DOMAIN s /\ q = k
  BY <1>1, <1>2, <1>3 DEF IsInjective
<1>5. QED
  BY <1>1, <1>2, <1>4

\* A list that does not change keeps its order.
LEMMA StaysInOrder ==
  ASSUME NEW S, NEW s \in Seq(S), IsInjective(s)
  PROVE  KeepsOrder(s, s)
  BY LenProperties DEF KeepsOrder, IsInjective

\* So the lists keep their order when only one of them changes and keeps its.
LEMMA OneListChanges ==
  ASSUME TypeOK, ListsInOrder, NEW w \in Workspaces, NEW t,
         lists' = [lists EXCEPT ![w] = t], KeepsOrder(lists[w], t)
  PROVE  ListsKeepOrder
<1>1. \A v \in Workspaces : lists'[v] = IF v = w THEN t ELSE lists[v]
  BY DEF TypeOK
<1>2. \A v \in Workspaces : KeepsOrder(lists[v], lists[v])
  BY StaysInOrder DEF TypeOK, ListsInOrder
<1>3. QED
  BY <1>1, <1>2 DEF ListsKeepOrder

LEMMA NoListChanges ==
  ASSUME TypeOK, ListsInOrder, UNCHANGED lists
  PROVE  ListsKeepOrder
  BY StaysInOrder DEF TypeOK, ListsInOrder, ListsKeepOrder

\* Enqueueing puts a job behind all others of its workspace, ...
LEMMA PushInOrder ==
  ASSUME TypeOK, ListsInOrder, NEW j \in Jobs, j \notin AllWaiting, Push(j)
  PROVE  ListsKeepOrder
<1>1. Owner[j] \in Workspaces
  BY OwnerAssumption
<1>2. lists[Owner[j]] \in Seq(Jobs) /\ IsInjective(lists[Owner[j]])
  BY <1>1 DEF TypeOK, ListsInOrder
<1>3. \A i \in DOMAIN lists[Owner[j]] : lists[Owner[j]][i] # j
  BY <1>1 DEF AllWaiting, Waiting, ToSet
<1>4. KeepsOrder(lists[Owner[j]], Append(lists[Owner[j]], j))
  BY <1>2, <1>3, JoinsBehind
<1>5. lists' = [lists EXCEPT ![Owner[j]] = Append(lists[Owner[j]], j)]
  BY DEF Push
<1>6. QED
  BY <1>1, <1>4, <1>5, OneListChanges

\* ... admitting takes the first of a list, which nobody stands before, ...
LEMMA ServeInOrder ==
  ASSUME TypeOK, ListsInOrder, NEW l \in LeaseIds, reserved[l] = NoJob,
         NEW k \in DOMAIN ring, Serve(l, k)
  PROVE  ListsKeepOrder /\ (PlacesApart => OldestFirst)
<1> DEFINE w == ring[k]
           s == lists[w]
<1>1. w \in Workspaces /\ s \in Seq(Jobs) /\ s # <<>>
  BY LenProperties, ElementOfSeq DEF TypeOK, Serve, Rotated, Granted
<1>2. /\ lists' = [lists EXCEPT ![w] = Tail(s)]
      /\ reserved' = [reserved EXCEPT ![l] = Head(s)]
  BY DEF Serve, Rotated, Granted
<1>3. IsInjective(s) /\ \A i \in DOMAIN s : Owner[s[i]] = w
  BY <1>1 DEF ListsInOrder
<1>4. Len(s) \in Nat /\ Len(s) # 0 /\ DOMAIN s = 1..Len(s)
  BY <1>1, LenProperties, EmptyIffNoLength
<1>5. /\ Head(s) = s[1]
      /\ Tail(s) \in Seq(Jobs)
      /\ Len(Tail(s)) = Len(s) - 1
      /\ \A i \in 1..(Len(s) - 1) : Tail(s)[i] = s[i + 1]
  BY <1>1, HeadTailProperties
<1>6. DOMAIN Tail(s) = 1..(Len(s) - 1)
  BY <1>5, LenProperties
<1> HIDE DEF w, s
<1>7. KeepsOrder(s, Tail(s))
  <2> DEFINE at == [i \in DOMAIN Tail(s) |-> i + 1]
  <2>1. at \in [DOMAIN Tail(s) -> DOMAIN s]
    BY <1>4, <1>6
  <2>2. \A p, q \in DOMAIN Tail(s) : p < q => at[p] < at[q]
    BY <1>4, <1>6
  <2>3. \A p \in DOMAIN Tail(s) : Tail(s)[p] = s[at[p]]
    BY <1>5, <1>6
  <2> HIDE DEF at
  <2>4. QED
    BY <1>1, <1>3, <1>5, <2>1, <2>2, <2>3, ReadInOrder
<1>8. ListsKeepOrder
  BY <1>1, <1>2, <1>7, OneListChanges DEF s
<1>9. ASSUME PlacesApart, NEW v \in Workspaces, NEW q \in DOMAIN lists[v],
             NEW i \in DOMAIN lists[v], i < q, lists[v][q] \in Reserved'
      PROVE  FALSE
  <2>1. Head(s) \in Jobs
    BY <1>1, <1>4, <1>5, ElementOfSeq
  <2>2. Reserved' = Reserved \cup {Head(s)}
    BY <1>2, <2>1, ReservedAfterGrant
  <2>3. lists[v][q] \in AllWaiting
    BY DEF AllWaiting, Waiting, ToSet
  <2>4. lists[v][q] = s[1]
    BY <1>5, <1>9, <2>2, <2>3 DEF PlacesApart
  <2>5. 1 \in DOMAIN s
    BY <1>4
  <2>6. v = w
    BY <1>3, <2>4, <2>5 DEF ListsInOrder
  <2>7. q = 1
    BY <1>3, <2>4, <2>5, <2>6 DEF IsInjective, s
  <2>8. i \in 1..Len(s)
    BY <1>4, <2>6 DEF s
  <2>9. QED
    BY <1>4, <1>9, <2>7, <2>8
<1>10. QED
  BY <1>8, <1>9 DEF OldestFirst

\* ... and a purge reads what it keeps of a list at increasing positions.
LEMMA PurgeInOrder ==
  ASSUME TypeOK, ListsInOrder, NEW w \in Workspaces, NEW keys, PurgePending(w, keys)
  PROVE  ListsKeepOrder
<1> DEFINE s == lists[w]
<1>1. s \in Seq(Jobs) /\ IsInjective(s) /\ Len(s) \in Nat
  BY LenProperties DEF TypeOK, ListsInOrder
<1>2. PICK n \in 0..Len(s) : \E at \in [1..n -> DOMAIN s] :
        /\ \A i, k \in 1..n : i < k => at[i] < at[k]
        /\ lists' = [lists EXCEPT ![w] = [i \in 1..n |-> s[at[i]]]]
  BY DEF PurgePending
<1>3. PICK at \in [1..n -> DOMAIN s] :
        /\ \A i, k \in 1..n : i < k => at[i] < at[k]
        /\ lists' = [lists EXCEPT ![w] = [i \in 1..n |-> s[at[i]]]]
  BY <1>2
<1> DEFINE t == [i \in 1..n |-> s[at[i]]]
<1>4. t \in Seq(Jobs) /\ DOMAIN t = 1..n
  BY <1>1, KeptIsSeq
<1>5. \A p \in DOMAIN t : t[p] = s[at[p]]
  BY <1>4
<1>6. lists' = [lists EXCEPT ![w] = t]
  BY <1>3
<1> HIDE DEF t
<1>7. KeepsOrder(s, t)
  BY <1>1, <1>3, <1>4, <1>5, ReadInOrder
<1>8. QED
  BY <1>6, <1>7, OneListChanges

\* A step that grants no lease admits nobody out of turn.
LEMMA NothingAdmitted ==
  ASSUME PlacesApart, Reserved' \subseteq Reserved
  PROVE  OldestFirst
<1>1. \A w \in Workspaces : \A k \in DOMAIN lists[w] : lists[w][k] \in AllWaiting
  BY DEF AllWaiting, Waiting, ToSet
<1>2. QED
  BY <1>1 DEF OldestFirst, PlacesApart

\* Within a workspace jobs are admitted in the order they were enqueued in, and
\* no step ever puts one job before another it was behind.
THEOREM FirstInFirstOut == Spec => FifoPerWorkspace
<1>1. ASSUME TypeOK, ListsInOrder, PlacesApart, Next
      PROVE  ListsKeepOrder /\ OldestFirst
  <2>1. ASSUME NEW j \in Jobs, Enqueue(j)
        PROVE  ListsKeepOrder /\ OldestFirst
    <3>1. Reserved' = Reserved
      BY <2>1 DEF Enqueue, Reserved, Taken
    <3>2. QED
      BY <1>1, <2>1, <3>1, PushInOrder, NothingAdmitted DEF Enqueue
  <2>2. ASSUME NEW l \in LeaseIds, TryAdmit(l)
        PROVE  ListsKeepOrder /\ OldestFirst
    BY <1>1, <2>2, ServeInOrder DEF TryAdmit
  <2>3. ASSUME NEW l \in Taken, UNCHANGED lists, reserved' = [reserved EXCEPT ![l] = NoJob]
        PROVE  ListsKeepOrder /\ OldestFirst
    <3>1. Reserved' \subseteq Reserved
      BY <1>1, <2>3, ReservedAfterRelease
    <3>2. QED
      BY <1>1, <2>3, <3>1, NoListChanges, NothingAdmitted
  <2>4. ASSUME NEW j \in Jobs, ReapEnqueue(j)
        PROVE  ListsKeepOrder /\ OldestFirst
    <3>1. Reserved' = Reserved
      BY <2>4 DEF ReapEnqueue, Reserved, Taken
    <3>2. j \notin AllWaiting
      BY <1>1, <2>4 DEF ReapEnqueue, PlacesApart
    <3>3. QED
      BY <1>1, <2>4, <3>1, <3>2, PushInOrder, NothingAdmitted DEF ReapEnqueue
  <2>5. ASSUME UNCHANGED reserved
        PROVE  OldestFirst
    <3>1. Reserved' = Reserved
      BY <2>5 DEF Reserved, Taken
    <3>2. QED
      BY <1>1, <3>1, NothingAdmitted
  <2>6. ASSUME NEW w \in Workspaces, NEW keys, PurgePending(w, keys)
        PROVE  ListsKeepOrder /\ OldestFirst
    BY <1>1, <2>5, <2>6, PurgeInOrder DEF PurgePending
  <2>7. ASSUME NEW w \in Workspaces, PurgeWorkspace(w)
        PROVE  ListsKeepOrder /\ OldestFirst
    <3>1. KeepsOrder(lists[w], <<>>)
      BY DEF KeepsOrder
    <3>2. QED
      BY <1>1, <2>5, <2>7, <3>1, OneListChanges DEF PurgeWorkspace
  <2>8. CASE Tick
    BY <1>1, <2>5, <2>8, NoListChanges DEF Tick
  <2>9. QED
    BY <1>1, <2>1, <2>2, <2>3, <2>4, <2>6, <2>7, <2>8
    DEF Next, Admit, Ack, ReapClaim, Expired, Taken
<1>2. TypeOK /\ OneCopy /\ [Next]_vars => [FifoStep]_vars
  BY <1>1, FifoSplit, OneCopySplit
<1>3. QED
  BY <1>2, TypeCorrect, OneCopyHolds, PTL DEF Spec, FifoPerWorkspace

-----------------------------------------------------------------------------
(* What each call leaves in the queue, for the modules that call it *)

Present == AllWaiting \cup Reserved \cup reclaimed

\* Every call keeps the queue well typed and each copy at one place.
LEMMA CallKeeps ==
  ASSUME TypeOK, OneCopy, Next
  PROVE  TypeOK' /\ OneCopy'
<1>1. ListsInOrder /\ PlacesApart
  BY OneCopySplit
<1>2. ListsInOrder' /\ PlacesApart'
  BY <1>1, OneCopyStep
<1>3. OneCopy'
  BY <1>2 DEF OneCopy, ListsInOrder, PlacesApart, IsInjective
<1>4. QED
  BY <1>3, QueueType

LEMMA StartsEmpty ==
  ASSUME Init
  PROVE  TypeOK /\ OneCopy /\ Present = {}
  BY LeaseTtlAssumption
  DEF Init, TypeOK, NoneServed, OneCopy, Present, AllWaiting, Waiting, ToSet, Reserved,
      Taken

LEMMA EnqueueAdds ==
  ASSUME TypeOK, OneCopy, NEW j \in Jobs, Enqueue(j)
  PROVE  TypeOK' /\ OneCopy' /\ Present' = Present \cup {j}
<1>1. TypeOK' /\ OneCopy'
  BY CallKeeps DEF Next
<1>2. AllWaiting' = AllWaiting \cup {j}
  BY OneCopySplit, PushLists DEF Enqueue
<1>3. Reserved' = Reserved /\ reclaimed' = reclaimed
  BY DEF Enqueue, Reserved, Taken
<1>4. QED
  BY <1>1, <1>2, <1>3 DEF Present

LEMMA AdmitMoves ==
  ASSUME TypeOK, OneCopy, NEW l \in LeaseIds, TryAdmit(l)
  PROVE  /\ TypeOK' /\ OneCopy' /\ Present' = Present
         /\ \E h \in Present \cap Jobs : reserved' = [reserved EXCEPT ![l] = h]
<1>1. TypeOK' /\ OneCopy'
  BY CallKeeps DEF Next, Admit
<1>2. PICK k \in DOMAIN ring : Serve(l, k)
  BY DEF TryAdmit
<1>3. PICK h \in AllWaiting :
        /\ AllWaiting' = AllWaiting \ {h}
        /\ reserved' = [reserved EXCEPT ![l] = h]
  BY <1>2, OneCopySplit, ServeLists
<1>4. h \in Jobs
  BY DEF AllWaiting, Waiting, ToSet, TypeOK
<1>5. Reserved' = Reserved \cup {h} /\ reclaimed' = reclaimed
  BY <1>3, <1>4, ReservedAfterGrant DEF TryAdmit
<1>6. QED
  BY <1>1, <1>3, <1>4, <1>5 DEF Present

LEMMA AckTakes ==
  ASSUME TypeOK, OneCopy, NEW l \in LeaseIds, Ack(l)
  PROVE  TypeOK' /\ OneCopy' /\ Present' = Present \ {reserved[l]}
<1>1. TypeOK' /\ OneCopy'
  BY CallKeeps DEF Next
<1>2. PlacesApart /\ l \in Taken /\ reserved[l] \in Reserved
  BY OneCopySplit DEF Ack, Taken, Reserved
<1>3. Reserved' = Reserved \ {reserved[l]}
  BY <1>2, ReservedAfterRelease DEF Ack
<1>4. AllWaiting' = AllWaiting /\ reclaimed' = reclaimed
  BY DEF Ack, AllWaiting, Waiting
<1>5. reserved[l] \notin AllWaiting \cup reclaimed
  BY <1>2 DEF PlacesApart
<1>6. QED
  BY <1>1, <1>3, <1>4, <1>5 DEF Present

LEMMA ReapClaimMoves ==
  ASSUME TypeOK, OneCopy, NEW l \in LeaseIds, ReapClaim(l)
  PROVE  TypeOK' /\ OneCopy' /\ Present' = Present /\ reserved[l] \in Jobs
<1>1. TypeOK' /\ OneCopy'
  BY CallKeeps DEF Next
<1>2. PlacesApart /\ l \in Taken /\ reserved[l] \in Reserved \cap Jobs
  BY OneCopySplit DEF ReapClaim, Expired, Taken, Reserved, TypeOK
<1>3. Reserved' = Reserved \ {reserved[l]}
  BY <1>2, ReservedAfterRelease DEF ReapClaim
<1>4. AllWaiting' = AllWaiting /\ reclaimed' = reclaimed \cup {reserved[l]}
  BY DEF ReapClaim, AllWaiting, Waiting
<1>5. QED
  BY <1>1, <1>2, <1>3, <1>4 DEF Present

LEMMA ReapEnqueueMoves ==
  ASSUME TypeOK, OneCopy, NEW j \in Jobs, ReapEnqueue(j)
  PROVE  TypeOK' /\ OneCopy' /\ Present' = Present
<1>1. TypeOK' /\ OneCopy'
  BY CallKeeps DEF Next
<1>2. j \in reclaimed /\ j \notin AllWaiting
  BY OneCopySplit DEF ReapEnqueue, PlacesApart
<1>3. AllWaiting' = AllWaiting \cup {j}
  BY <1>2, OneCopySplit, PushLists DEF ReapEnqueue
<1>4. Reserved' = Reserved /\ reclaimed' = reclaimed \ {j}
  BY DEF ReapEnqueue, Reserved, Taken
<1>5. QED
  BY <1>1, <1>2, <1>3, <1>4 DEF Present

LEMMA TickKeeps ==
  ASSUME TypeOK, OneCopy, Tick
  PROVE  TypeOK' /\ OneCopy' /\ Present' = Present
<1>1. TypeOK' /\ OneCopy'
  BY CallKeeps DEF Next
<1>2. QED
  BY <1>1 DEF Tick, Present, AllWaiting, Waiting, Reserved, Taken

\* A job that goes missing out of a reaper's hands takes nothing else along.
LEMMA ForgetKeeps ==
  ASSUME TypeOK, OneCopy, NEW S, reclaimed' = reclaimed \ S,
         UNCHANGED <<lists, ring, reserved, left, passed>>
  PROVE  TypeOK' /\ OneCopy' /\ Present' \subseteq Present
<1>1. AllWaiting' = AllWaiting /\ Reserved' = Reserved /\ Taken' = Taken
  BY DEF AllWaiting, Waiting, Reserved, Taken
<1>2. TypeOK'
  BY DEF TypeOK
<1>3. ListsInOrder' /\ PlacesApart'
  BY <1>1, OneCopySplit DEF ListsInOrder, PlacesApart
<1>4. OneCopy'
  BY <1>3 DEF OneCopy, ListsInOrder, PlacesApart, IsInjective
<1>5. QED
  BY <1>1, <1>2, <1>4 DEF Present

-----------------------------------------------------------------------------
(* The queue keeps its promise *)

Held   == {reserved[l] : l \in Live}
Lapsed == {reserved[l] : l \in Expired} \cup reclaimed

\* Every taken lease is live or expired, so what is held and what has lapsed
\* in a lease's hands is what is reserved.
LEMMA LiveOrExpired ==
  ASSUME TypeOK
  PROVE  /\ Taken = Live \cup Expired
         /\ Live \cap Expired = {}
  BY DEF TypeOK, Live, Expired, Taken

\* No more jobs are held than leases are live.
LEMMA HeldWithinLive ==
  ASSUME TypeOK
  PROVE  /\ Cardinality(Live) \in Nat
         /\ Cardinality(Held) \in Nat
         /\ Cardinality(Held) <= Cardinality(Live)
<1> DEFINE f == [l \in Live |-> reserved[l]]
<1>1. IsFiniteSet(Live)
  BY LeaseIdsAssumption, FS_Subset DEF Live, Taken
<1>2. f \in Surjection(Live, Held)
  <2>1. f \in [Live -> Held]
    BY DEF Held
  <2>2. \A h \in Held : \E l \in Live : f[l] = h
    BY DEF Held
  <2>3. QED
    BY <2>1, <2>2, Fun_IsSurj
<1> HIDE DEF f
<1>3. IsFiniteSet(Held) /\ Cardinality(Held) <= Cardinality(Live)
  BY <1>1, <1>2, FS_Surjection
<1>4. QED
  BY <1>1, <1>3, FS_CardinalityType

\* Each step of the queue is a step of the promise, or changes nothing of it.
LEMMA GrantPromise ==
  ASSUME TypeOK, ListsInOrder, PlacesApart, NEW l \in LeaseIds, TryAdmit(l)
  PROVE  \E j \in Jobs : Promise!Grant(j)
<1>1. PICK k \in DOMAIN ring : Serve(l, k)
  BY DEF TryAdmit
<1>2. PICK h \in AllWaiting :
        /\ AllWaiting' = AllWaiting \ {h}
        /\ reserved' = [reserved EXCEPT ![l] = h]
  BY <1>1, ServeLists
<1>3. h \in Jobs
  BY DEF AllWaiting, Waiting, ToSet, TypeOK
<1>4. /\ Taken' = Taken \cup {l}
      /\ \A m \in Taken : m # l /\ reserved'[m] = reserved[m]
      /\ reserved'[l] = h
  BY <1>2, <1>3, ReservedAfterGrant DEF TryAdmit
<1>5. \A m \in LeaseIds : left'[m] = IF m = l THEN LeaseTtl ELSE left[m]
  BY <1>1 DEF Serve, Rotated, Granted, TypeOK
<1>6. Taken \subseteq LeaseIds
  BY DEF Taken
<1>7. Live' = Live \cup {l} /\ Expired' = Expired
  BY <1>4, <1>5, <1>6, LeaseTtlAssumption DEF Live, Expired
<1>8. Held' = Held \cup {h}
  BY <1>4, <1>7 DEF Held, Live
<1>9. Lapsed' = Lapsed
  BY <1>4, <1>7 DEF Lapsed, Expired, TryAdmit
<1>10. MaxGlobalInFlight = NoCap \/ Cardinality(Held) < MaxGlobalInFlight
  BY HeldWithinLive, CapAssumption DEF TryAdmit, HasCapacity
<1>11. Promise!Grant(h)
  <2>1. h \in AllWaiting /\ AllWaiting' = AllWaiting \ {h}
    BY <1>2
  <2>2. {reserved[m] : m \in Live}' = {reserved[m] : m \in Live} \cup {h}
    BY <1>8 DEF Held
  <2>3. UNCHANGED ({reserved[m] : m \in Expired} \cup reclaimed)
    BY <1>9 DEF Lapsed
  <2>4. MaxGlobalInFlight = NoCap \/ Cardinality({reserved[m] : m \in Live}) < MaxGlobalInFlight
    BY <1>10 DEF Held
  <2>5. Promise!Cardinality({reserved[m] : m \in Live}) = Cardinality({reserved[m] : m \in Live})
    BY DEF Promise!Cardinality, Cardinality
  <2>6. QED
    BY <2>1, <2>2, <2>3, <2>4, <2>5 DEF Promise!Grant
<1>12. QED
  BY <1>3, <1>11

LEMMA ReleaseFacts ==
  ASSUME TypeOK, PlacesApart, NEW l \in Taken,
         reserved' = [reserved EXCEPT ![l] = NoJob],
         \A m \in LeaseIds : m # l => left'[m] = left[m]
  PROVE  /\ Held' = Held \ {reserved[l]}
         /\ {reserved[m] : m \in Expired}' = {reserved[m] : m \in Expired} \ {reserved[l]}
<1>1. /\ Taken' = Taken \ {l}
      /\ \A m \in Taken : m # l => reserved'[m] = reserved[m]
  BY ReservedAfterRelease
<1>2. Taken \subseteq LeaseIds
  BY DEF Taken
<1>3. Live' = Live \ {l} /\ Expired' = Expired \ {l}
  BY <1>1, <1>2 DEF Live, Expired
<1>4. \A m \in Taken : m # l => reserved[m] # reserved[l]
  BY DEF PlacesApart
<1>5. Held' = Held \ {reserved[l]}
  BY <1>1, <1>3, <1>4 DEF Held, Live
<1>6. {reserved[m] : m \in Expired}' = {reserved[m] : m \in Expired} \ {reserved[l]}
  BY <1>1, <1>3, <1>4 DEF Expired
<1>7. QED
  BY <1>5, <1>6

LEMMA AckPromise ==
  ASSUME TypeOK, PlacesApart, NEW l \in LeaseIds, Ack(l)
  PROVE  \E j \in Jobs : Promise!Settle(j)
<1>1. l \in Taken /\ reserved[l] \in Jobs
  BY DEF Ack, Taken, TypeOK
<1>2. reserved[l] \in Held \cup Lapsed
  BY <1>1, LiveOrExpired DEF Held, Lapsed
<1>3. \A m \in LeaseIds : m # l => left'[m] = left[m]
  BY DEF Ack, TypeOK
<1>4. /\ Held' = Held \ {reserved[l]}
      /\ {reserved[m] : m \in Expired}' = {reserved[m] : m \in Expired} \ {reserved[l]}
  BY <1>1, <1>3, ReleaseFacts DEF Ack
<1>5. reserved[l] \notin reclaimed
  BY <1>1 DEF PlacesApart, Reserved
<1>6. Lapsed' = Lapsed \ {reserved[l]}
  BY <1>4, <1>5 DEF Lapsed, Ack
<1>7. AllWaiting' = AllWaiting
  BY DEF Ack, AllWaiting, Waiting
<1>8. QED
  BY <1>1, <1>2, <1>4, <1>6, <1>7 DEF Promise!Settle, Held, Lapsed

LEMMA ReapClaimPromise ==
  ASSUME TypeOK, PlacesApart, NEW l \in LeaseIds, ReapClaim(l)
  PROVE  UNCHANGED <<AllWaiting, Held, Lapsed>>
<1>1. l \in Taken /\ l \in Expired /\ l \notin Live
  BY DEF ReapClaim, Expired, LiveOrExpired, Live, TypeOK
<1>2. /\ Held' = Held \ {reserved[l]}
      /\ {reserved[m] : m \in Expired}' = {reserved[m] : m \in Expired} \ {reserved[l]}
  BY <1>1, ReleaseFacts DEF ReapClaim
<1>3. reserved[l] \notin Held
  BY <1>1 DEF Held, PlacesApart, Live
<1>4. reserved[l] \in {reserved[m] : m \in Expired}
  BY <1>1
<1>5. Lapsed' = Lapsed
  BY <1>2, <1>4 DEF Lapsed, ReapClaim
<1>6. AllWaiting' = AllWaiting
  BY DEF ReapClaim, AllWaiting, Waiting
<1>7. QED
  BY <1>2, <1>3, <1>5, <1>6

LEMMA ReapEnqueuePromise ==
  ASSUME TypeOK, ListsInOrder, PlacesApart, NEW j \in Jobs, ReapEnqueue(j)
  PROVE  Promise!GiveBack(j)
<1>1. j \in reclaimed /\ j \notin AllWaiting /\ j \notin Reserved
  BY DEF ReapEnqueue, PlacesApart
<1>2. AllWaiting' = AllWaiting \cup {j}
  BY <1>1, PushLists DEF ReapEnqueue
<1>3. Held' = Held /\ Expired' = Expired
  BY DEF ReapEnqueue, Held, Live, Expired, Taken
<1>4. {reserved[m] : m \in Expired} \subseteq Reserved
  BY LiveOrExpired DEF Reserved
<1>5. Lapsed' = Lapsed \ {j} /\ j \in Lapsed
  BY <1>1, <1>3, <1>4 DEF Lapsed, ReapEnqueue
<1>6. QED
  BY <1>2, <1>3, <1>5 DEF Promise!GiveBack, Held, Lapsed

LEMMA PurgePromise ==
  ASSUME AllWaiting' \subseteq AllWaiting, UNCHANGED <<reserved, left, reclaimed>>
  PROVE  (\E S \in SUBSET AllWaiting : Promise!Withdraw(S))
         \/ UNCHANGED <<AllWaiting, Held, Lapsed>>
<1> DEFINE S == AllWaiting \ AllWaiting'
<1>1. Held' = Held /\ Lapsed' = Lapsed
  BY DEF Held, Lapsed, Live, Expired, Taken
<1>2. AllWaiting' = AllWaiting \ S /\ S \in SUBSET AllWaiting
  OBVIOUS
<1>3. CASE S = {}
  BY <1>1, <1>2, <1>3
<1>4. CASE S # {}
  <2> HIDE DEF S
  <2>1. Promise!Withdraw(S)
    BY <1>1, <1>2, <1>4 DEF Promise!Withdraw, Held, Lapsed
  <2>2. QED
    BY <1>2, <2>1
<1>5. QED
  BY <1>3, <1>4

LEMMA TickPromise ==
  ASSUME TypeOK, PlacesApart, Tick
  PROVE  (\E S \in SUBSET Held : Promise!Lapse(S)) \/ UNCHANGED <<AllWaiting, Held, Lapsed>>
<1> DEFINE Ran == Live \ Live'
           S == {reserved[l] : l \in Ran}
<1>1. Taken' = Taken /\ UNCHANGED <<reserved, reclaimed>>
  BY DEF Tick, Taken
<1>2. AllWaiting' = AllWaiting
  BY DEF Tick, AllWaiting, Waiting
<1>3. Live' \subseteq Live
  BY <1>1 DEF Tick, Live, Taken, TypeOK
<1>4. Expired' = Expired \cup Ran
  <2>1. \A l \in Taken : (l \in Live <=> left[l] > 0) /\ (l \in Expired <=> ~ (left[l] > 0))
    BY DEF Live, Expired, Taken, TypeOK
  <2>2. \A l \in Taken : left'[l] \in Nat
    BY DEF Tick, TypeOK, Taken
  <2>3. \A l \in Taken : (l \in Live' <=> left'[l] > 0) /\ (l \in Expired' <=> ~ (left'[l] > 0))
    BY <1>1, <2>2 DEF Live, Expired
  <2>4. Live \subseteq Taken /\ Expired \subseteq Taken /\ Expired' \subseteq Taken
    BY <1>1 DEF Live, Expired
  <2>5. QED
    BY <1>3, <2>1, <2>3, <2>4
<1>5. \A l, m \in Live : reserved[l] = reserved[m] => l = m
  BY DEF PlacesApart, Live
<1>6. Held' = Held \ S
  BY <1>1, <1>3, <1>5 DEF Held
<1>7. Lapsed' = Lapsed \cup S
  BY <1>1, <1>4 DEF Lapsed
<1>8. S \in SUBSET Held
  BY DEF Held
<1> HIDE DEF S
<1>9. CASE S = {}
  BY <1>2, <1>6, <1>7, <1>9
<1>10. CASE S # {}
  <2>1. PICK T \in SUBSET Held : T = S
    BY <1>8
  <2>2. Promise!Lapse(T)
    BY <1>2, <1>6, <1>7, <1>10, <2>1 DEF Promise!Lapse, Held, Lapsed
  <2>3. QED
    BY <2>2
<1>11. QED
  BY <1>9, <1>10

LEMMA EnqueuePromise ==
  ASSUME TypeOK, ListsInOrder, NEW j \in Jobs, Enqueue(j)
  PROVE  Promise!Submit(j)
<1>1. AllWaiting' = AllWaiting \cup {j}
  BY PushLists DEF Enqueue
<1>2. Held' = Held /\ Lapsed' = Lapsed
  BY DEF Enqueue, Held, Lapsed, Live, Expired, Taken
<1>3. Reserved = {reserved[l] : l \in Live} \cup {reserved[l] : l \in Expired}
  BY LiveOrExpired DEF Reserved
<1>4. QED
  BY <1>1, <1>2, <1>3 DEF Enqueue, Held, Lapsed, Promise!Submit

\* The queue implements its promise: a job that was submitted waits, is held
\* or has lapsed until it is settled or withdrawn; none is ever lost.
THEOREM QueueKeepsPromise == Spec => ImplementsJobQueue
<1>1. Init => Promise!Init
  BY DEF Init, Promise!Init, AllWaiting, Waiting, ToSet, Live, Expired, Taken
<1>2. TypeOK /\ OneCopy /\ [Next]_vars => [Promise!Next]_Promise!vars
  <2> SUFFICES ASSUME TypeOK, OneCopy, [Next]_vars
               PROVE  Promise!Next \/ UNCHANGED <<AllWaiting, Held, Lapsed>>
    BY DEF Promise!vars, Held, Lapsed
  <2>1. ListsInOrder /\ PlacesApart
    BY OneCopySplit
  <2>2. ASSUME NEW j \in Jobs, Enqueue(j)
        PROVE  Promise!Next
    BY <2>1, <2>2, EnqueuePromise DEF Promise!Next
  <2>3. ASSUME NEW l \in LeaseIds, TryAdmit(l)
        PROVE  Promise!Next
    BY <2>1, <2>3, GrantPromise DEF Promise!Next
  <2>4. ASSUME NEW l \in LeaseIds, Ack(l)
        PROVE  Promise!Next
    BY <2>1, <2>4, AckPromise DEF Promise!Next
  <2>5. ASSUME NEW l \in LeaseIds, ReapClaim(l)
        PROVE  UNCHANGED <<AllWaiting, Held, Lapsed>>
    BY <2>1, <2>5, ReapClaimPromise
  <2>6. ASSUME NEW j \in Jobs, ReapEnqueue(j)
        PROVE  Promise!Next
    BY <2>1, <2>6, ReapEnqueuePromise DEF Promise!Next
  <2>7. ASSUME AllWaiting' \subseteq AllWaiting, UNCHANGED <<reserved, left, reclaimed>>
        PROVE  Promise!Next \/ UNCHANGED <<AllWaiting, Held, Lapsed>>
    BY <2>7, PurgePromise DEF Promise!Next
  <2>8. ASSUME NEW w \in Workspaces, NEW keys, PurgePending(w, keys)
        PROVE  AllWaiting' \subseteq AllWaiting
    <3>1. PICK kept \in Seq(Jobs) :
            /\ lists' = [lists EXCEPT ![w] = kept]
            /\ \A p \in 1..Len(kept) : kept[p] \in Waiting(w)
            /\ IsInjective(lists[w]) => IsInjective(kept)
      BY <2>8, PurgeKeeps
    <3>2. IsInjective(kept)
      BY <2>1, <3>1 DEF ListsInOrder
    <3>3. QED
      BY <2>1, <3>1, <3>2, PurgeLists
  <2>9. ASSUME NEW w \in Workspaces, PurgeWorkspace(w)
        PROVE  AllWaiting' \subseteq AllWaiting
    <3>1. \A v \in Workspaces : Waiting(v)' \subseteq Waiting(v)
      BY <2>9 DEF PurgeWorkspace, Waiting, ToSet, TypeOK
    <3>2. QED
      BY <3>1 DEF AllWaiting
  <2>10. ASSUME Tick
         PROVE  Promise!Next \/ UNCHANGED <<AllWaiting, Held, Lapsed>>
    BY <2>1, <2>10, TickPromise DEF Promise!Next, Held
  <2>11. ASSUME UNCHANGED vars
         PROVE  UNCHANGED <<AllWaiting, Held, Lapsed>>
    BY <2>11 DEF vars, AllWaiting, Waiting, Held, Lapsed, Live, Expired, Taken
  <2>12. QED
    BY <2>2, <2>3, <2>4, <2>5, <2>6, <2>7, <2>8, <2>9, <2>10, <2>11
    DEF Next, Admit, PurgePending, PurgeWorkspace
<1>3. QED
  BY <1>1, <1>2, TypeCorrect, OneCopyHolds, PTL DEF Spec, ImplementsJobQueue, Promise!Spec
=============================================================================
