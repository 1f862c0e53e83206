--------------------------- MODULE BalancesProofs ---------------------------
(***************************************************************************)
(* Theorems about Balances, for any finite number of runs and evals, any   *)
(* number of sweeps, every estimate, cost and top-up, and any number of    *)
(* crashes.                                                                *)
(***************************************************************************)
EXTENDS Balances, FiniteSetTheorems, TLAPS

-----------------------------------------------------------------------------
(* Sums *)

\* One member's coins.
LEMMA ShareType ==
  ASSUME NEW x, NEW n \in Nat
  PROVE  IsFiniteSet({x} \X (1..n)) /\ Cardinality({x} \X (1..n)) = n
<1>1. IsFiniteSet({x}) /\ Cardinality({x}) = 1
  BY FS_Singleton
<1>2. IsFiniteSet(1..n) /\ Cardinality(1..n) = n
  <2>1. /\ IsFiniteSet(1..n)
        /\ Cardinality(1..n) = IF 1 > n THEN 0 ELSE n - 1 + 1
    BY FS_Interval
  <2>2. QED
    BY <2>1
<1>3. /\ IsFiniteSet({x} \X (1..n))
      /\ Cardinality({x} \X (1..n)) = Cardinality({x}) * Cardinality(1..n)
  BY <1>1, <1>2, FS_Product
<1>4. QED
  BY <1>1, <1>2, <1>3

\* A sum over finitely many is a natural number, and its coins can be counted.
LEMMA TotalType ==
  ASSUME NEW S, IsFiniteSet(S), NEW f, \A w \in S : f[w] \in Nat
  PROVE  IsFiniteSet(Coins(f, S)) /\ Total(f, S) \in Nat
<1> DEFINE one(w) == {w} \X (1..f[w])
<1>1. IsFiniteSet({one(w) : w \in S})
  <2>1. [w \in S |-> one(w)] \in Surjection(S, {one(w) : w \in S})
    BY DEF Surjection
  <2>2. QED
    BY <2>1, FS_Surjection
<1>2. \A w \in S : IsFiniteSet(one(w))
  BY ShareType
<1>3. IsFiniteSet(UNION {one(w) : w \in S})
  BY <1>1, <1>2, FS_UNION
<1>4. QED
  BY <1>3, FS_CardinalityType DEF Coins, Total

\* A sum depends on what the function says of the members only.
LEMMA TotalSame ==
  ASSUME NEW S, NEW f, NEW g, \A w \in S : f[w] = g[w]
  PROVE  Total(f, S) = Total(g, S)
<1>1. {{w} \X (1..f[w]) : w \in S} = {{w} \X (1..g[w]) : w \in S}
  OBVIOUS
<1>2. QED
  BY <1>1 DEF Total, Coins

\* Whoever leaves a sum takes its share with it.
LEMMA TotalWithout ==
  ASSUME NEW S, IsFiniteSet(S), NEW f, \A w \in S : f[w] \in Nat, NEW x \in S
  PROVE  Total(f, S \ {x}) = Total(f, S) - f[x]
<1> DEFINE rest == Coins(f, S \ {x})
           share == {x} \X (1..f[x])
<1>1. Coins(f, S) = rest \cup share /\ rest \cap share = {}
  BY DEF Coins
<1>2. IsFiniteSet(rest) /\ IsFiniteSet(share)
  <2>1. IsFiniteSet(Coins(f, S))
    BY TotalType
  <2>2. QED
    BY <1>1, <2>1, FS_Subset
<1>3. Cardinality(share) = f[x]
  BY ShareType
<1>4. Cardinality(rest \cup share) = Cardinality(rest) + Cardinality(share)
  <2>1. Cardinality(rest \cup share) = Cardinality(rest) + Cardinality(share) - Cardinality(rest \cap share)
    BY <1>2, FS_Union
  <2>2. Cardinality(rest \cap share) = 0
    BY <1>1, FS_EmptySet
  <2>3. Cardinality(rest) \in Nat /\ Cardinality(share) \in Nat
    BY <1>2, FS_CardinalityType
  <2>4. QED
    BY <2>1, <2>2, <2>3
<1>5. Cardinality(rest) \in Nat
  BY <1>2, FS_CardinalityType
<1>6. QED
  BY <1>1, <1>3, <1>4, <1>5 DEF Total

\* What one member gains or loses, the sum does.
LEMMA TotalChanges ==
  ASSUME NEW S, IsFiniteSet(S), NEW f, NEW g, \A w \in S : f[w] \in Nat /\ g[w] \in Nat,
         NEW x \in S,         \A w \in S \ {x} : f[w] = g[w]
  PROVE  Total(g, S) = Total(f, S) + g[x] - f[x]
<1> DEFINE tf == Total(f, S)
           tg == Total(g, S)
           rest == Total(f, S \ {x})
           fx == f[x]
           gx == g[x]
<1>1. rest = Total(g, S \ {x})
  BY TotalSame
<1>2. rest = tf - fx /\ rest = tg - gx
  BY <1>1, TotalWithout
<1>3. tf \in Nat /\ tg \in Nat
  BY TotalType
<1>4. fx \in Nat /\ gx \in Nat
  OBVIOUS
<1> HIDE DEF tf, tg, rest, fx, gx
<1>5. tg = tf + gx - fx
  BY <1>2, <1>3, <1>4
<1>6. QED
  BY <1>5 DEF tf, tg, fx, gx

LEMMA AddType ==
  ASSUME NEW f \in [Work -> Nat], NEW w \in Work, NEW n \in Nat
  PROVE  [f EXCEPT ![w] = @ + n] \in [Work -> Nat]
  OBVIOUS

-----------------------------------------------------------------------------
(* Types *)

\* Both columns stay natural numbers because a release is cut at zero, and no
\* more is recorded than came up.
CostsBounded == \A w \in Work : pending[w] + ledger[w] <= MaxCost
TypeInv == TypeOK /\ CostsBounded

\* TypeInv is inductive: one step per action.
LEMMA TypeInvariant == Spec => []TypeInv
<1>1. Init => TypeInv
  BY MoneyAssumption DEF Init, TypeInv, TypeOK, TableOK, GatewayOK, GhostsOK,
     CostsBounded, NoHold, Places
<1>2. TypeInv /\ [Next]_vars => TypeInv'
  <2> SUFFICES ASSUME TypeInv, [Next]_vars
               PROVE  TypeInv'
    OBVIOUS
  <2> Credit \in Nat /\ TopUps \in Nat /\ MaxCost \in Nat /\ MaxCrashes \in Nat /\ Estimates \subseteq Nat
    BY MoneyAssumption
  <2>1. ASSUME NEW w \in Work, GateRefuses(w)
        PROVE  TypeInv'
    BY <2>1 DEF GateRefuses, Go, table, ghosts, TypeInv, TypeOK, Places, TableOK,
       GatewayOK, GhostsOK, CostsBounded
  <2>2. ASSUME NEW w \in Work, GateAsks(w)
        PROVE  TypeInv'
    BY <2>2 DEF GateAsks, Go, table, ghosts, TypeInv, TypeOK, Places, TableOK,
       GatewayOK, GhostsOK, CostsBounded
  <2>3. ASSUME NEW w \in Work, Reserve(w)
        PROVE  TypeInv'
    <3>1. TableOK'
      BY <2>3 DEF Reserve, Go, ghosts, TypeInv, TypeOK, TableOK, GatewayOK, GhostsOK,
         Places
    <3>2. GatewayOK'
      BY <2>3 DEF Reserve, Go, ghosts, TypeInv, TypeOK, TableOK, GatewayOK, GhostsOK,
         Places
    <3>3. GhostsOK'
      BY <2>3 DEF Reserve, Go, ghosts, TypeInv, TypeOK, TableOK, GatewayOK, GhostsOK,
         Places
    <3>4. CostsBounded'
      BY <2>3 DEF Reserve, Go, ghosts, TypeInv, TypeOK, TableOK, GatewayOK, GhostsOK,
         Places, CostsBounded
    <3>5. QED
      BY <3>1, <3>2, <3>3, <3>4 DEF TypeInv, TypeOK
  <2>4. ASSUME NEW w \in Work, NoteHold(w)
        PROVE  TypeInv'
    BY <2>4 DEF NoteHold, Go, table, ghosts, TypeInv, TypeOK, Places, TableOK,
       GatewayOK, GhostsOK, CostsBounded
  <2>5. ASSUME NEW w \in Work, Starts(w)
        PROVE  TypeInv'
    BY <2>5 DEF Starts, Go, table, ghosts, TypeInv, TypeOK, Places, TableOK, GatewayOK,
       GhostsOK, CostsBounded
  <2>6. ASSUME NEW w \in Work, StartRefused(w)
        PROVE  TypeInv'
    BY <2>6 DEF StartRefused, Go, table, ghosts, TypeInv, TypeOK, Places, TableOK,
       GatewayOK, GhostsOK, CostsBounded
  <2>7. ASSUME NEW w \in Work, StartThrows(w)
        PROVE  TypeInv'
    BY <2>7 DEF StartThrows, Go, table, ghosts, TypeInv, TypeOK, Places, TableOK,
       GatewayOK, GhostsOK, CostsBounded
  <2>8. ASSUME NEW w \in Work, SpawnError(w)
        PROVE  TypeInv'
    BY <2>8 DEF SpawnError, Go, table, ghosts, TypeInv, TypeOK, Places, TableOK,
       GatewayOK, GhostsOK, CostsBounded
  <2>9. ASSUME NEW w \in Work, Costs(w)
        PROVE  TypeInv'
    <3>1. TableOK'
      BY <2>9 DEF Costs, table, ghosts, TypeInv, TypeOK, TableOK, GatewayOK, GhostsOK,
         Places
    <3>2. GatewayOK'
      BY <2>9 DEF Costs, table, ghosts, TypeInv, TypeOK, TableOK, GatewayOK, GhostsOK,
         Places
    <3>3. GhostsOK'
      BY <2>9 DEF Costs, table, ghosts, TypeInv, TypeOK, TableOK, GatewayOK, GhostsOK,
         Places
    <3>4. CostsBounded'
      BY <2>9 DEF Costs, table, ghosts, TypeInv, TypeOK, TableOK, GatewayOK, GhostsOK,
         Places, CostsBounded
    <3>5. QED
      BY <3>1, <3>2, <3>3, <3>4 DEF TypeInv, TypeOK
  <2>10. ASSUME NEW w \in Work, Recorded(w)
        PROVE  TypeInv'
    <3>1. TableOK'
      BY <2>10 DEF Recorded, ghosts, TypeInv, TypeOK, TableOK, GatewayOK, GhostsOK,
         Places, CostsBounded
    <3>2. GatewayOK'
      BY <2>10 DEF Recorded, ghosts, TypeInv, TypeOK, TableOK, GatewayOK, GhostsOK,
         Places, CostsBounded
    <3>3. GhostsOK'
      BY <2>10 DEF Recorded, ghosts, TypeInv, TypeOK, TableOK, GatewayOK, GhostsOK,
         Places, CostsBounded
    <3>4. CostsBounded'
      BY <2>10 DEF Recorded, ghosts, TypeInv, TypeOK, TableOK, GatewayOK, GhostsOK,
         Places, CostsBounded
    <3>5. QED
      BY <3>1, <3>2, <3>3, <3>4 DEF TypeInv, TypeOK
  <2>11. ASSUME NEW w \in Work, Ends(w)
        PROVE  TypeInv'
    BY <2>11 DEF Ends, Go, table, ghosts, TypeInv, TypeOK, Places, TableOK, GatewayOK,
       GhostsOK, CostsBounded
  <2>12. ASSUME NEW w \in Work, Settle(w)
        PROVE  TypeInv'
    BY <2>12 DEF Settle, Go, table, ghosts, TypeInv, TypeOK, Places, TableOK, GatewayOK,
       GhostsOK, CostsBounded
  <2>13. ASSUME NEW w \in Work, ReadSpend(w)
        PROVE  TypeInv'
    BY <2>13 DEF ReadSpend, Go, table, ghosts, TypeInv, TypeOK, Places, TableOK,
       GatewayOK, GhostsOK, CostsBounded
  <2>14. ASSUME NEW w \in Work, SettleFails(w)
        PROVE  TypeInv'
    BY <2>14 DEF SettleFails, Go, table, ghosts, TypeInv, TypeOK, Places, TableOK,
       GatewayOK, GhostsOK, CostsBounded
  <2>15. ASSUME NEW w \in Work, ReleaseReads(w)
        PROVE  TypeInv'
    BY <2>15 DEF ReleaseReads, Go, table, ghosts, TypeInv, TypeOK, Places, TableOK,
       GatewayOK, GhostsOK, CostsBounded
  <2>16. ASSUME NEW w \in Work, ReleaseMoves(w)
        PROVE  TypeInv'
    <3> bill[w] \in Nat
      BY DEF TypeInv, TypeOK, GatewayOK
    <3>1. TableOK'
      BY <2>16 DEF ReleaseMoves, Go, Released, Less, Unreleased, TypeInv, TypeOK,
         TableOK, GatewayOK, GhostsOK, Places
    <3>2. GatewayOK'
      BY <2>16 DEF ReleaseMoves, Go, Released, Less, Unreleased, TypeInv, TypeOK,
         TableOK, GatewayOK, GhostsOK, Places
    <3>3. GhostsOK'
      BY <2>16, AddType DEF ReleaseMoves, Go, Released, Less, Unreleased, TypeInv,
         TypeOK, TableOK, GatewayOK, GhostsOK, Places
    <3>4. CostsBounded'
      BY <2>16 DEF ReleaseMoves, Go, Released, Less, Unreleased, TypeInv, TypeOK,
         TableOK, GatewayOK, GhostsOK, Places, CostsBounded
    <3>5. QED
      BY <3>1, <3>2, <3>3, <3>4 DEF TypeInv, TypeOK
  <2>17. ASSUME NEW w \in Work, Expire(w)
        PROVE  TypeInv'
    BY <2>17 DEF Expire, ghosts, gateway, TypeInv, TypeOK, Places, TableOK, GatewayOK,
       GhostsOK, CostsBounded
  <2>18. ASSUME NEW s \in Sweepers, SweepReads(s)
        PROVE  TypeInv'
    <3> Expired \in SUBSET Work
      BY DEF Expired
    <3>1. TableOK'
      BY <2>18 DEF SweepReads, table, ghosts, TypeInv, TypeOK, TableOK, GatewayOK,
         GhostsOK, Places
    <3>2. GatewayOK'
      BY <2>18 DEF SweepReads, table, ghosts, TypeInv, TypeOK, TableOK, GatewayOK,
         GhostsOK, Places
    <3>3. GhostsOK'
      BY <2>18 DEF SweepReads, table, ghosts, TypeInv, TypeOK, TableOK, GatewayOK,
         GhostsOK, Places
    <3>4. CostsBounded'
      BY <2>18 DEF SweepReads, table, ghosts, TypeInv, TypeOK, TableOK, GatewayOK,
         GhostsOK, Places, CostsBounded
    <3>5. QED
      BY <3>1, <3>2, <3>3, <3>4 DEF TypeInv, TypeOK
  <2>19. ASSUME NEW s \in Sweepers, NEW w \in Work, SweepPicks(s, w)
        PROVE  TypeInv'
    BY <2>19 DEF SweepPicks, table, ghosts, TypeInv, TypeOK, Places, TableOK, GatewayOK,
       GhostsOK, CostsBounded
  <2>20. ASSUME NEW s \in Sweepers, SweepMoves(s)
        PROVE  TypeInv'
    <3>1. TableOK'
      BY <2>20 DEF SweepMoves, Released, Less, Unreleased, TypeInv, TypeOK, TableOK,
         GatewayOK, GhostsOK, Places
    <3>2. GatewayOK'
      BY <2>20 DEF SweepMoves, Released, Less, Unreleased, TypeInv, TypeOK, TableOK,
         GatewayOK, GhostsOK, Places
    <3>3. GhostsOK'
      BY <2>20 DEF SweepMoves, Released, Less, Unreleased, TypeInv, TypeOK, TableOK,
         GatewayOK, GhostsOK, Places
    <3>4. CostsBounded'
      BY <2>20 DEF SweepMoves, Released, Less, Unreleased, TypeInv, TypeOK, TableOK,
         GatewayOK, GhostsOK, Places, CostsBounded
    <3>5. QED
      BY <3>1, <3>2, <3>3, <3>4 DEF TypeInv, TypeOK
  <2>21. ASSUME TopUp
        PROVE  TypeInv'
    <3>1. TableOK'
      BY <2>21 DEF TopUp, gateway, TypeInv, TypeOK, TableOK, GatewayOK, GhostsOK, Places
    <3>2. GatewayOK'
      BY <2>21 DEF TopUp, gateway, TypeInv, TypeOK, TableOK, GatewayOK, GhostsOK, Places
    <3>3. GhostsOK'
      BY <2>21 DEF TopUp, gateway, TypeInv, TypeOK, TableOK, GatewayOK, GhostsOK, Places
    <3>4. CostsBounded'
      BY <2>21 DEF TopUp, gateway, TypeInv, TypeOK, TableOK, GatewayOK, GhostsOK,
         Places, CostsBounded
    <3>5. QED
      BY <3>1, <3>2, <3>3, <3>4 DEF TypeInv, TypeOK
  <2>22. ASSUME Crash
        PROVE  TypeInv'
    <3>1. TableOK'
      BY <2>22 DEF Crash, table, TypeInv, TypeOK, TableOK, GatewayOK, GhostsOK, Places
    <3>2. GatewayOK'
      BY <2>22 DEF Crash, table, TypeInv, TypeOK, TableOK, GatewayOK, GhostsOK, Places
    <3>3. GhostsOK'
      BY <2>22 DEF Crash, table, TypeInv, TypeOK, TableOK, GatewayOK, GhostsOK, Places
    <3>4. CostsBounded'
      BY <2>22 DEF Crash, table, TypeInv, TypeOK, TableOK, GatewayOK, GhostsOK, Places,
         CostsBounded
    <3>5. QED
      BY <3>1, <3>2, <3>3, <3>4 DEF TypeInv, TypeOK
  <2>23. CASE UNCHANGED vars
    BY <2>23 DEF vars, table, gateway, ghosts, TypeInv, TypeOK, Places, TableOK,
       GatewayOK, GhostsOK, CostsBounded
  <2>24. QED
    BY <2>1, <2>2, <2>3, <2>4, <2>5, <2>6, <2>7, <2>8, <2>9, <2>10, <2>11, <2>12, <2>13,
       <2>14, <2>15, <2>16, <2>17, <2>18, <2>19, <2>20, <2>21, <2>22, <2>23 DEF Next,
       Gate, Begin, Settlement, Sweep
<1>3. QED
  BY <1>1, <1>2, PTL DEF Spec

\* The columns of workspace_balances are never negative, and everything else has
\* its type, whatever runs, evals, sweeps and crashes do.
THEOREM TypeCorrect == Spec => []TypeOK
<1>1. TypeInv => TypeOK
  BY DEF TypeInv
<1>2. QED
  BY <1>1, TypeInvariant, PTL

-----------------------------------------------------------------------------
(* Where a hold is *)

\* Nothing is held for what has not asked; nothing is charged before the hold is
\* released; a bill is read once, on the way to the release.
HoldInv ==
  \A w \in Work :
    /\ at[w] \in {"new", "asked"} => hold[w] = NoHold
    /\ charged[w] # 0 => hold[w].state = "released"
    /\ bill[w] # 0 => at[w] \in {"release", "claim", "over", "left", "gone"}

LEMMA HoldInvariant == Spec => []HoldInv
<1>1. Init => HoldInv
  BY DEF Init, HoldInv
<1>2. TypeInv /\ HoldInv /\ [Next]_vars => HoldInv'
  <2> SUFFICES ASSUME TypeInv, HoldInv, [Next]_vars
               PROVE  HoldInv'
    OBVIOUS
  <2>1. ASSUME NEW w \in Work, GateRefuses(w)
        PROVE  HoldInv'
    BY <2>1 DEF GateRefuses, Go, table, ghosts, HoldInv, NoHold, TypeInv, TypeOK,
       TableOK, GatewayOK, GhostsOK, Places
  <2>2. ASSUME NEW w \in Work, GateAsks(w)
        PROVE  HoldInv'
    BY <2>2 DEF GateAsks, Go, table, ghosts, HoldInv, NoHold, TypeInv, TypeOK, TableOK,
       GatewayOK, GhostsOK, Places
  <2>3. ASSUME NEW w \in Work, Reserve(w)
        PROVE  HoldInv'
    BY <2>3 DEF Reserve, Go, HoldInv, NoHold, ghosts, TypeInv, TypeOK, TableOK,
       GatewayOK, GhostsOK, Places
  <2>4. ASSUME NEW w \in Work, NoteHold(w)
        PROVE  HoldInv'
    BY <2>4 DEF NoteHold, Go, table, ghosts, HoldInv, NoHold, TypeInv, TypeOK, TableOK,
       GatewayOK, GhostsOK, Places
  <2>5. ASSUME NEW w \in Work, Starts(w)
        PROVE  HoldInv'
    BY <2>5 DEF Starts, Go, table, ghosts, HoldInv, NoHold, TypeInv, TypeOK, TableOK,
       GatewayOK, GhostsOK, Places
  <2>6. ASSUME NEW w \in Work, StartRefused(w)
        PROVE  HoldInv'
    BY <2>6 DEF StartRefused, Go, table, ghosts, HoldInv, NoHold, TypeInv, TypeOK,
       TableOK, GatewayOK, GhostsOK, Places
  <2>7. ASSUME NEW w \in Work, StartThrows(w)
        PROVE  HoldInv'
    BY <2>7 DEF StartThrows, Go, table, ghosts, HoldInv, NoHold, TypeInv, TypeOK,
       TableOK, GatewayOK, GhostsOK, Places
  <2>8. ASSUME NEW w \in Work, SpawnError(w)
        PROVE  HoldInv'
    BY <2>8 DEF SpawnError, Go, table, ghosts, HoldInv, NoHold, TypeInv, TypeOK,
       TableOK, GatewayOK, GhostsOK, Places
  <2>9. ASSUME NEW w \in Work, Costs(w)
        PROVE  HoldInv'
    BY <2>9 DEF Costs, table, ghosts, HoldInv, NoHold, TypeInv, TypeOK, TableOK,
       GatewayOK, GhostsOK, Places
  <2>10. ASSUME NEW w \in Work, Recorded(w)
        PROVE  HoldInv'
    BY <2>10 DEF Recorded, ghosts, HoldInv, NoHold, TypeInv, TypeOK, TableOK, GatewayOK,
       GhostsOK, Places
  <2>11. ASSUME NEW w \in Work, Ends(w)
        PROVE  HoldInv'
    BY <2>11 DEF Ends, Go, table, ghosts, HoldInv, NoHold, TypeInv, TypeOK, TableOK,
       GatewayOK, GhostsOK, Places
  <2>12. ASSUME NEW w \in Work, Settle(w)
        PROVE  HoldInv'
    BY <2>12 DEF Settle, Go, table, ghosts, HoldInv, NoHold, TypeInv, TypeOK, TableOK,
       GatewayOK, GhostsOK, Places
  <2>13. ASSUME NEW w \in Work, ReadSpend(w)
        PROVE  HoldInv'
    BY <2>13 DEF ReadSpend, Go, table, ghosts, HoldInv, NoHold, TypeInv, TypeOK,
       TableOK, GatewayOK, GhostsOK, Places
  <2>14. ASSUME NEW w \in Work, SettleFails(w)
        PROVE  HoldInv'
    BY <2>14 DEF SettleFails, Go, table, ghosts, HoldInv, NoHold, TypeInv, TypeOK,
       TableOK, GatewayOK, GhostsOK, Places
  <2>15. ASSUME NEW w \in Work, ReleaseReads(w)
        PROVE  HoldInv'
    BY <2>15 DEF ReleaseReads, Go, table, ghosts, HoldInv, NoHold, TypeInv, TypeOK,
       TableOK, GatewayOK, GhostsOK, Places
  <2>16. ASSUME NEW w \in Work, ReleaseMoves(w)
        PROVE  HoldInv'
    BY <2>16 DEF ReleaseMoves, Go, Released, Less, Unreleased, HoldInv, NoHold, TypeInv,
       TypeOK, TableOK, GatewayOK, GhostsOK, Places
  <2>17. ASSUME NEW w \in Work, Expire(w)
        PROVE  HoldInv'
    BY <2>17 DEF Expire, gateway, ghosts, HoldInv, NoHold, TypeInv, TypeOK, TableOK,
       GatewayOK, GhostsOK, Places
  <2>18. ASSUME NEW s \in Sweepers, SweepReads(s)
        PROVE  HoldInv'
    BY <2>18 DEF SweepReads, table, ghosts, HoldInv, NoHold, TypeInv, TypeOK, TableOK,
       GatewayOK, GhostsOK, Places
  <2>19. ASSUME NEW s \in Sweepers, NEW w \in Work, SweepPicks(s, w)
        PROVE  HoldInv'
    BY <2>19 DEF SweepPicks, table, ghosts, HoldInv, NoHold, TypeInv, TypeOK, TableOK,
       GatewayOK, GhostsOK, Places
  <2>20. ASSUME NEW s \in Sweepers, SweepMoves(s)
        PROVE  HoldInv'
    BY <2>20 DEF SweepMoves, Released, Less, Unreleased, HoldInv, NoHold, TypeInv,
       TypeOK, TableOK, GatewayOK, GhostsOK, Places
  <2>21. ASSUME TopUp
        PROVE  HoldInv'
    BY <2>21 DEF TopUp, gateway, HoldInv, NoHold, TypeInv, TypeOK, TableOK, GatewayOK,
       GhostsOK, Places
  <2>22. ASSUME Crash
        PROVE  HoldInv'
    BY <2>22 DEF Crash, table, HoldInv, NoHold, TypeInv, TypeOK, TableOK, GatewayOK,
       GhostsOK, Places
  <2>23. CASE UNCHANGED vars
    BY <2>23 DEF vars, table, gateway, ghosts, HoldInv, NoHold
  <2>24. QED
    BY <2>1, <2>2, <2>3, <2>4, <2>5, <2>6, <2>7, <2>8, <2>9, <2>10, <2>11, <2>12, <2>13,
       <2>14, <2>15, <2>16, <2>17, <2>18, <2>19, <2>20, <2>21, <2>22, <2>23 DEF Next,
       Gate, Begin, Settlement, Sweep
<1>3. QED
  BY <1>1, <1>2, TypeInvariant, PTL DEF Spec

-----------------------------------------------------------------------------
(* What a run is charged *)

\* What a run costs is all recorded when its settlement reads the ledger, and
\* only that settlement, or a sweep, releases its hold.
CostInv ==
  \A w \in Runs :
    /\ pending[w] # 0 => at[w] \in {"up", "exited"}
    /\ at[w] \in {"release", "claim"} => bill[w] = ledger[w]
    /\ hold[w].state = "released" /\ w \notin swept
         => at[w] = "over" /\ charged[w] = ledger[w]

LEMMA CostInvariant == Spec => []CostInv
<1>1. Init => CostInv
  BY DEF Init, CostInv, NoHold, Work
<1>2. TypeInv /\ HoldInv /\ CostInv /\ [Next]_vars => CostInv'
  <2> SUFFICES ASSUME TypeInv, HoldInv, CostInv, [Next]_vars
               PROVE  CostInv'
    OBVIOUS
  <2> USE DEF Work
  <2>1. ASSUME NEW w \in Work, GateRefuses(w)
        PROVE  CostInv'
    BY <2>1 DEF GateRefuses, Go, table, ghosts, CostInv, HoldInv, NoHold, TypeInv,
       TypeOK, TableOK, GatewayOK, GhostsOK, Places
  <2>2. ASSUME NEW w \in Work, GateAsks(w)
        PROVE  CostInv'
    BY <2>2 DEF GateAsks, Go, table, ghosts, CostInv, HoldInv, NoHold, TypeInv, TypeOK,
       TableOK, GatewayOK, GhostsOK, Places
  <2>3. ASSUME NEW w \in Work, Reserve(w)
        PROVE  CostInv'
    BY <2>3 DEF Reserve, Go, CostInv, HoldInv, NoHold, ghosts, TypeInv, TypeOK, TableOK,
       GatewayOK, GhostsOK, Places
  <2>4. ASSUME NEW w \in Work, NoteHold(w)
        PROVE  CostInv'
    BY <2>4 DEF NoteHold, Go, table, ghosts, CostInv, HoldInv, NoHold, TypeInv, TypeOK,
       TableOK, GatewayOK, GhostsOK, Places
  <2>5. ASSUME NEW w \in Work, Starts(w)
        PROVE  CostInv'
    BY <2>5 DEF Starts, Go, table, ghosts, CostInv, HoldInv, NoHold, TypeInv, TypeOK,
       TableOK, GatewayOK, GhostsOK, Places
  <2>6. ASSUME NEW w \in Work, StartRefused(w)
        PROVE  CostInv'
    BY <2>6 DEF StartRefused, Go, table, ghosts, CostInv, HoldInv, NoHold, TypeInv,
       TypeOK, TableOK, GatewayOK, GhostsOK, Places
  <2>7. ASSUME NEW w \in Work, StartThrows(w)
        PROVE  CostInv'
    BY <2>7 DEF StartThrows, Go, table, ghosts, CostInv, HoldInv, NoHold, TypeInv,
       TypeOK, TableOK, GatewayOK, GhostsOK, Places
  <2>8. ASSUME NEW w \in Work, SpawnError(w)
        PROVE  CostInv'
    BY <2>8 DEF SpawnError, Go, table, ghosts, CostInv, HoldInv, NoHold, TypeInv,
       TypeOK, TableOK, GatewayOK, GhostsOK, Places
  <2>9. ASSUME NEW w \in Work, Costs(w)
        PROVE  CostInv'
    BY <2>9 DEF Costs, table, ghosts, CostInv, HoldInv, NoHold, TypeInv, TypeOK,
       TableOK, GatewayOK, GhostsOK, Places
  <2>10. ASSUME NEW w \in Work, Recorded(w)
        PROVE  CostInv'
    BY <2>10 DEF Recorded, ghosts, CostInv, HoldInv, NoHold, TypeInv, TypeOK, TableOK,
       GatewayOK, GhostsOK, Places
  <2>11. ASSUME NEW w \in Work, Ends(w)
        PROVE  CostInv'
    BY <2>11 DEF Ends, Go, table, ghosts, CostInv, HoldInv, NoHold, TypeInv, TypeOK,
       TableOK, GatewayOK, GhostsOK, Places
  <2>12. ASSUME NEW w \in Work, Settle(w)
        PROVE  CostInv'
    BY <2>12 DEF Settle, Go, table, ghosts, CostInv, HoldInv, NoHold, Landed, TypeInv,
       TypeOK, TableOK, GatewayOK, GhostsOK, Places
  <2>13. ASSUME NEW w \in Work, ReadSpend(w)
        PROVE  CostInv'
    BY <2>13 DEF ReadSpend, Go, table, ghosts, CostInv, HoldInv, NoHold, TypeInv,
       TypeOK, TableOK, GatewayOK, GhostsOK, Places
  <2>14. ASSUME NEW w \in Work, SettleFails(w)
        PROVE  CostInv'
    BY <2>14 DEF SettleFails, Go, table, ghosts, CostInv, HoldInv, NoHold, TypeInv,
       TypeOK, TableOK, GatewayOK, GhostsOK, Places
  <2>15. ASSUME NEW w \in Work, ReleaseReads(w)
        PROVE  CostInv'
    BY <2>15 DEF ReleaseReads, Go, table, ghosts, CostInv, HoldInv, NoHold, Unreleased,
       TypeInv, TypeOK, TableOK, GatewayOK, GhostsOK, Places
  <2>16. ASSUME NEW w \in Work, ReleaseMoves(w)
        PROVE  CostInv'
    BY <2>16 DEF ReleaseMoves, Go, Released, Less, Unreleased, CostInv, HoldInv, NoHold,
       TypeInv, TypeOK, TableOK, GatewayOK, GhostsOK, Places
  <2>17. ASSUME NEW w \in Work, Expire(w)
        PROVE  CostInv'
    BY <2>17 DEF Expire, gateway, ghosts, CostInv, HoldInv, NoHold, TypeInv, TypeOK,
       TableOK, GatewayOK, GhostsOK, Places
  <2>18. ASSUME NEW s \in Sweepers, SweepReads(s)
        PROVE  CostInv'
    BY <2>18 DEF SweepReads, table, ghosts, CostInv, HoldInv, NoHold, TypeInv, TypeOK,
       TableOK, GatewayOK, GhostsOK, Places
  <2>19. ASSUME NEW s \in Sweepers, NEW w \in Work, SweepPicks(s, w)
        PROVE  CostInv'
    BY <2>19 DEF SweepPicks, table, ghosts, CostInv, HoldInv, NoHold, Unreleased,
       TypeInv, TypeOK, TableOK, GatewayOK, GhostsOK, Places
  <2>20. ASSUME NEW s \in Sweepers, SweepMoves(s)
        PROVE  CostInv'
    BY <2>20 DEF SweepMoves, Released, Less, Unreleased, CostInv, HoldInv, NoHold,
       TypeInv, TypeOK, TableOK, GatewayOK, GhostsOK, Places
  <2>21. ASSUME TopUp
        PROVE  CostInv'
    BY <2>21 DEF TopUp, gateway, CostInv, HoldInv, NoHold, TypeInv, TypeOK, TableOK,
       GatewayOK, GhostsOK, Places
  <2>22. ASSUME Crash
        PROVE  CostInv'
    BY <2>22 DEF Crash, table, CostInv, HoldInv, NoHold, TypeInv, TypeOK, TableOK,
       GatewayOK, GhostsOK, Places
  <2>23. CASE UNCHANGED vars
    BY <2>23 DEF vars, table, gateway, ghosts, CostInv, HoldInv, NoHold
  <2>24. QED
    BY <2>1, <2>2, <2>3, <2>4, <2>5, <2>6, <2>7, <2>8, <2>9, <2>10, <2>11, <2>12, <2>13,
       <2>14, <2>15, <2>16, <2>17, <2>18, <2>19, <2>20, <2>21, <2>22, <2>23 DEF Next,
       Gate, Begin, Settlement, Sweep
<1>3. QED
  BY <1>1, <1>2, TypeInvariant, HoldInvariant, PTL DEF Spec

\* A run that was settled pays what the ledger says its steps cost, for every
\* order of its steps, its exit, its settlement, sweeps and crashes.
THEOREM RunsAreChargedRight == Spec => []RunsPayTheirCost
<1>1. CostInv => RunsPayTheirCost
  BY DEF CostInv, RunsPayTheirCost
<1>2. QED
  BY <1>1, CostInvariant, PTL

-----------------------------------------------------------------------------
(* What is reserved *)

LEMMA AmountType ==
  ASSUME TypeInv
  PROVE  /\ IsFiniteSet(Work) /\ IsFiniteSet(Unreturned)
         /\ \A w \in Work : Amount[w] = hold[w].amount /\ hold[w].amount \in Nat
<1>1. \A w \in Work : hold[w].amount \in Estimates \cup {0}
  BY DEF TypeInv, TypeOK, TableOK
<1>2. \A w \in Work : Amount[w] = hold[w].amount /\ hold[w].amount \in Nat
  BY <1>1, MoneyAssumption DEF Amount
<1>3. IsFiniteSet(Unreturned)
  BY WorkAssumption, FS_Subset DEF Unreturned
<1>4. QED
  BY <1>2, <1>3, WorkAssumption

\* Whoever has no hold yet takes one.
LEMMA ReserveAdds ==
  ASSUME TypeInv, TypeInv', ReservedIsSum, NEW w \in Work, NEW amount \in Nat,
         hold[w] = NoHold, reserved' = reserved + amount,
         hold' = [hold EXCEPT ![w] = [amount |-> amount, state |-> "standing"]]
  PROVE  ReservedIsSum'
<1>1. w \notin Unreturned /\ Unreturned' = Unreturned \cup {w}
  BY DEF Unreturned, Unreleased, NoHold, TypeInv, TypeOK, TableOK
<1>2. Amount'[w] = amount /\ \A v \in Unreturned : Amount'[v] = Amount[v]
  BY <1>1 DEF Amount, Unreturned, TypeInv, TypeOK, TableOK
<1>3. IsFiniteSet(Unreturned') /\ \A v \in Unreturned' : Amount'[v] \in Nat
  <2>1. Unreturned' \in SUBSET Work
    BY DEF Unreturned
  <2>2. IsFiniteSet(Unreturned')
    BY <2>1, WorkAssumption, FS_Subset
  <2>3. \A v \in Unreturned : Amount[v] \in Nat
    BY AmountType DEF Unreturned
  <2>4. QED
    BY <1>1, <1>2, <2>2, <2>3
<1>4. Unreturned' \ {w} = Unreturned
  BY <1>1
<1>5. Total(Amount', Unreturned) = Total(Amount', Unreturned') - amount
  <2>1. w \in Unreturned'
    BY <1>1
  <2>2. Total(Amount', Unreturned' \ {w}) = Total(Amount', Unreturned') - Amount'[w]
    BY <1>3, <2>1, TotalWithout
  <2>3. QED
    BY <1>2, <1>4, <2>2
<1>6. Total(Amount', Unreturned) = Total(Amount, Unreturned)
  BY <1>2, TotalSame
<1>7. Total(Amount', Unreturned') \in Nat
  BY <1>3, TotalType
<1>8. QED
  BY <1>5, <1>6, <1>7 DEF ReservedIsSum

\* A hold that is released takes its amount out of what is reserved.
LEMMA ReleaseTakes ==
  ASSUME TypeInv, ReservedIsSum, NEW w \in Work, Unreleased(w), NEW cost, Released(w, cost)
  PROVE  /\ ReservedIsSum'
         /\ hold[w].amount <= reserved
         /\ reserved' = reserved - hold[w].amount
<1>1. w \in Unreturned /\ Unreturned' = Unreturned \ {w}
  BY DEF Unreturned, Unreleased, Released, TypeInv, TypeOK, TableOK
<1>2. \A v \in Work : Amount'[v] = Amount[v]
  BY DEF Amount, Released, TypeInv, TypeOK, TableOK
<1>3. IsFiniteSet(Unreturned) /\ \A v \in Unreturned : Amount[v] \in Nat
  BY AmountType DEF Unreturned
<1>4. Total(Amount, Unreturned \ {w}) = Total(Amount, Unreturned) - Amount[w]
  BY <1>1, <1>3, TotalWithout
<1>5. Total(Amount', Unreturned') = Total(Amount, Unreturned \ {w})
  BY <1>1, <1>2, TotalSame DEF Unreturned
<1>6. Total(Amount, Unreturned) \in Nat /\ Total(Amount, Unreturned \ {w}) \in Nat
  BY <1>1, <1>3, TotalType, FS_Subset
<1>7. Amount[w] = hold[w].amount /\ hold[w].amount \in Nat
  BY AmountType
<1> DEFINE a == hold[w].amount
           before == Total(Amount, Unreturned)
           after == Total(Amount, Unreturned \ {w})
<1>8. reserved = before /\ after = before - a /\ before \in Nat /\ after \in Nat /\ a \in Nat
  BY <1>4, <1>6, <1>7 DEF ReservedIsSum
<1>9. reserved' = IF reserved >= a THEN reserved - a ELSE 0
  BY DEF Released, Less
<1> HIDE DEF a, before, after
<1>10. a <= reserved /\ reserved' = reserved - a /\ reserved' = after
  BY <1>8, <1>9
<1>11. QED
  BY <1>5, <1>10 DEF ReservedIsSum, a, after

\* Nothing else touches what the sum is made of.
LEMMA SumStays ==
  ASSUME TypeInv, ReservedIsSum, reserved' = reserved,
         \A w \in Work : /\ hold'[w].amount = hold[w].amount
                         /\ Unreleased(w)' <=> Unreleased(w)
  PROVE  ReservedIsSum'
<1>1. Amount' = Amount /\ Unreturned' = Unreturned
  BY DEF Amount, Unreturned
<1>2. QED
  BY <1>1 DEF ReservedIsSum

\* The counter on the balance is the sum of the standing holds, in every
\* interleaving of gates, settlements, sweeps and crashes.
THEOREM ReservedIsExplained == Spec => []ReservedIsSum
<1>1. Init => ReservedIsSum
  <2> SUFFICES ASSUME Init
               PROVE  reserved = Total(Amount, Unreturned)
    BY DEF ReservedIsSum
  <2>1. Unreturned = {}
    BY DEF Init, Unreturned, Unreleased, NoHold
  <2>2. Coins(Amount, {}) = {}
    BY DEF Coins
  <2>3. QED
    BY <2>1, <2>2, FS_EmptySet DEF Total, Init
<1>2. TypeInv /\ TypeInv' /\ HoldInv /\ ReservedIsSum /\ [Next]_vars => ReservedIsSum'
  <2> SUFFICES ASSUME TypeInv, TypeInv', HoldInv, ReservedIsSum, [Next]_vars
               PROVE  ReservedIsSum'
    OBVIOUS
  <2>1. ASSUME NEW w \in Work, GateRefuses(w)
        PROVE  ReservedIsSum'
    BY <2>1, SumStays DEF GateRefuses, table, Unreleased
  <2>2. ASSUME NEW w \in Work, GateAsks(w)
        PROVE  ReservedIsSum'
    BY <2>2, SumStays DEF GateAsks, table, Unreleased
  <2>3. ASSUME NEW w \in Work, Reserve(w)
        PROVE  ReservedIsSum'
    <3>1. hold[w] = NoHold
      BY <2>3 DEF Reserve, HoldInv
    <3>2. PICK amount \in Estimates :
            IF HasCredit(amount)
            THEN /\ reserved' = reserved + amount
                 /\ hold' = [hold EXCEPT ![w] = [amount |-> amount, state |-> "standing"]]
            ELSE UNCHANGED <<reserved, hold>>
      BY <2>3 DEF Reserve
    <3>3. amount \in Nat
      BY MoneyAssumption
    <3>4. CASE HasCredit(amount)
      BY <3>1, <3>2, <3>3, <3>4, ReserveAdds
    <3>5. CASE ~ HasCredit(amount)
      BY <3>2, <3>5, SumStays DEF Unreleased
    <3>6. QED
      BY <3>4, <3>5
  <2>4. ASSUME NEW w \in Work, NoteHold(w)
        PROVE  ReservedIsSum'
    BY <2>4, SumStays DEF NoteHold, table, Unreleased
  <2>5. ASSUME NEW w \in Work, Starts(w)
        PROVE  ReservedIsSum'
    BY <2>5, SumStays DEF Starts, table, Unreleased
  <2>6. ASSUME NEW w \in Work, StartRefused(w)
        PROVE  ReservedIsSum'
    BY <2>6, SumStays DEF StartRefused, table, Unreleased
  <2>7. ASSUME NEW w \in Work, StartThrows(w)
        PROVE  ReservedIsSum'
    BY <2>7, SumStays DEF StartThrows, table, Unreleased
  <2>8. ASSUME NEW w \in Work, SpawnError(w)
        PROVE  ReservedIsSum'
    BY <2>8, SumStays DEF SpawnError, table, Unreleased
  <2>9. ASSUME NEW w \in Work, Costs(w)
        PROVE  ReservedIsSum'
    BY <2>9, SumStays DEF Costs, table, Unreleased
  <2>10. ASSUME NEW w \in Work, Recorded(w)
        PROVE  ReservedIsSum'
    BY <2>10, SumStays DEF Recorded, Unreleased
  <2>11. ASSUME NEW w \in Work, Ends(w)
        PROVE  ReservedIsSum'
    BY <2>11, SumStays DEF Ends, table, Unreleased
  <2>12. ASSUME NEW w \in Work, Settle(w)
        PROVE  ReservedIsSum'
    BY <2>12, SumStays DEF Settle, table, Unreleased
  <2>13. ASSUME NEW w \in Work, ReadSpend(w)
        PROVE  ReservedIsSum'
    BY <2>13, SumStays DEF ReadSpend, table, Unreleased
  <2>14. ASSUME NEW w \in Work, SettleFails(w)
        PROVE  ReservedIsSum'
    BY <2>14, SumStays DEF SettleFails, table, Unreleased
  <2>15. ASSUME NEW w \in Work, ReleaseReads(w)
        PROVE  ReservedIsSum'
    BY <2>15, SumStays DEF ReleaseReads, table, Unreleased
  <2>16. ASSUME NEW w \in Work, ReleaseMoves(w)
        PROVE  ReservedIsSum'
    <3>1. CASE Unreleased(w)
      BY <2>16, <3>1, ReleaseTakes DEF ReleaseMoves
    <3>2. CASE ~ Unreleased(w)
      BY <2>16, <3>2, SumStays DEF ReleaseMoves, Unreleased
    <3>3. QED
      BY <3>1, <3>2
  <2>17. ASSUME NEW w \in Work, Expire(w)
        PROVE  ReservedIsSum'
    BY <2>17, SumStays DEF Expire, Unreleased, TypeInv, TypeOK, TableOK
  <2>18. ASSUME NEW s \in Sweepers, SweepReads(s)
        PROVE  ReservedIsSum'
    BY <2>18, SumStays DEF SweepReads, table, Unreleased
  <2>19. ASSUME NEW s \in Sweepers, NEW w \in Work, SweepPicks(s, w)
        PROVE  ReservedIsSum'
    BY <2>19, SumStays DEF SweepPicks, table, Unreleased
  <2>20. ASSUME NEW s \in Sweepers, SweepMoves(s)
        PROVE  ReservedIsSum'
    <3>1. CASE Unreleased(tx[s])
      <4>1. tx[s] \in Work
        BY <2>20 DEF SweepMoves, TypeInv, TypeOK, GatewayOK
      <4>2. QED
        BY <2>20, <3>1, <4>1, ReleaseTakes DEF SweepMoves
    <3>2. CASE ~ Unreleased(tx[s])
      BY <2>20, <3>2, SumStays DEF SweepMoves, Unreleased
    <3>3. QED
      BY <3>1, <3>2
  <2>21. ASSUME TopUp
        PROVE  ReservedIsSum'
    BY <2>21, SumStays DEF TopUp, Unreleased
  <2>22. ASSUME Crash
        PROVE  ReservedIsSum'
    BY <2>22, SumStays DEF Crash, table, Unreleased
  <2>23. CASE UNCHANGED vars
    BY <2>23, SumStays DEF vars, table, Unreleased
  <2>24. QED
    BY <2>1, <2>2, <2>3, <2>4, <2>5, <2>6, <2>7, <2>8, <2>9, <2>10, <2>11, <2>12, <2>13,
       <2>14, <2>15, <2>16, <2>17, <2>18, <2>19, <2>20, <2>21, <2>22, <2>23 DEF Next,
       Gate, Begin, Settlement, Sweep
<1>3. QED
  BY <1>1, <1>2, TypeInvariant, HoldInvariant, PTL DEF Spec

-----------------------------------------------------------------------------
(* What can be paid *)

\* A release that costs no more than it held leaves the rest as well covered.
LEMMA ReleasePays ==
  ASSUME TypeInv, ReservedIsSum, NEW w \in Work, Unreleased(w),
         NEW cost \in Nat, cost <= hold[w].amount, Released(w, cost), topUps' = topUps,
         reserved <= balance, balance = Credit + topUps - Total(charged, Work)
  PROVE  /\ reserved' <= balance'
         /\ balance' = Credit + topUps' - Total(charged', Work)
<1> DEFINE before == Total(charged, Work)
           after == Total(charged', Work)
           a == hold[w].amount
<1>1. after = before + cost
  <2>1. charged \in [Work -> Nat] /\ charged' \in [Work -> Nat]
    BY AddType DEF Released, TypeInv, TypeOK, GhostsOK
  <2>2. charged'[w] = charged[w] + cost /\ \A v \in Work \ {w} : charged[v] = charged'[v]
    BY <2>1 DEF Released
  <2>3. after = before + charged'[w] - charged[w]
    BY <2>1, <2>2, WorkAssumption, TotalChanges
  <2>4. before \in Nat
    BY <2>1, WorkAssumption, TotalType
  <2> DEFINE c == charged[w]
             d == charged'[w]
  <2>5. after = before + d - c /\ d = c + cost /\ c \in Nat
    BY <2>1, <2>2, <2>3
  <2> HIDE DEF before, after, c, d
  <2>6. QED
    BY <2>4, <2>5
<1>2. a <= reserved /\ reserved' = reserved - a
  BY ReleaseTakes
<1>3. balance' = IF balance >= cost THEN balance - cost ELSE 0
  BY DEF Released, Less
<1>4. /\ balance \in Nat /\ reserved \in Nat /\ a \in Nat /\ before \in Nat
      /\ topUps \in Nat /\ Credit \in Nat
  <2>1. before \in Nat
    BY WorkAssumption, TotalType DEF TypeInv, TypeOK, GhostsOK
  <2>2. a \in Nat
    BY AmountType
  <2>3. QED
    BY <2>1, <2>2, MoneyAssumption DEF TypeInv, TypeOK, TableOK, GhostsOK
<1>5. cost <= a /\ balance = Credit + topUps - before
  OBVIOUS
<1> HIDE DEF before, after, a
<1>6. reserved' <= balance' /\ balance' = Credit + topUps - after
  BY <1>1, <1>2, <1>3, <1>4, <1>5
<1>7. QED
  BY <1>6 DEF after

\* A bill that exceeds its hold does so for good.
LEMMA CoveredBefore ==
  ASSUME TypeInv, TypeInv', HoldInv, Next, Covered'
  PROVE  Covered
<1> SUFFICES ASSUME NEW v \in Work
             PROVE  bill[v] <= hold[v].amount
  BY DEF Covered
<1>1. bill'[v] <= hold'[v].amount
  BY DEF Covered
<1>2. bill[v] \in Nat /\ hold[v].amount \in Nat
  BY AmountType DEF TypeInv, TypeOK, GatewayOK
<1>3. CASE bill[v] = 0
  BY <1>2, <1>3
<1>4. CASE bill[v] # 0
  <2>1. at[v] \in {"release", "claim", "over", "left", "gone"}
    BY <1>4 DEF HoldInv
  <2>2. bill'[v] = bill[v] /\ hold'[v].amount = hold[v].amount
    <3>1. ASSUME NEW w \in Work, GateRefuses(w)
          PROVE  bill'[v] = bill[v] /\ hold'[v].amount = hold[v].amount
      BY <3>1, <2>1 DEF GateRefuses, Go, table, ghosts, Unreleased, TypeInv, TypeOK,
         TableOK, GatewayOK, GhostsOK, Places
    <3>2. ASSUME NEW w \in Work, GateAsks(w)
          PROVE  bill'[v] = bill[v] /\ hold'[v].amount = hold[v].amount
      BY <3>2, <2>1 DEF GateAsks, Go, table, ghosts, Unreleased, TypeInv, TypeOK,
         TableOK, GatewayOK, GhostsOK, Places
    <3>3. ASSUME NEW w \in Work, Reserve(w)
          PROVE  bill'[v] = bill[v] /\ hold'[v].amount = hold[v].amount
      BY <3>3, <2>1 DEF Reserve, Go, ghosts, Unreleased, TypeInv, TypeOK, TableOK,
         GatewayOK, GhostsOK, Places
    <3>4. ASSUME NEW w \in Work, NoteHold(w)
          PROVE  bill'[v] = bill[v] /\ hold'[v].amount = hold[v].amount
      BY <3>4, <2>1 DEF NoteHold, Go, table, ghosts, Unreleased, TypeInv, TypeOK,
         TableOK, GatewayOK, GhostsOK, Places
    <3>5. ASSUME NEW w \in Work, Starts(w)
          PROVE  bill'[v] = bill[v] /\ hold'[v].amount = hold[v].amount
      BY <3>5, <2>1 DEF Starts, Go, table, ghosts, Unreleased, TypeInv, TypeOK, TableOK,
         GatewayOK, GhostsOK, Places
    <3>6. ASSUME NEW w \in Work, StartRefused(w)
          PROVE  bill'[v] = bill[v] /\ hold'[v].amount = hold[v].amount
      BY <3>6, <2>1 DEF StartRefused, Go, table, ghosts, Unreleased, TypeInv, TypeOK,
         TableOK, GatewayOK, GhostsOK, Places
    <3>7. ASSUME NEW w \in Work, StartThrows(w)
          PROVE  bill'[v] = bill[v] /\ hold'[v].amount = hold[v].amount
      BY <3>7, <2>1 DEF StartThrows, Go, table, ghosts, Unreleased, TypeInv, TypeOK,
         TableOK, GatewayOK, GhostsOK, Places
    <3>8. ASSUME NEW w \in Work, SpawnError(w)
          PROVE  bill'[v] = bill[v] /\ hold'[v].amount = hold[v].amount
      BY <3>8, <2>1 DEF SpawnError, Go, table, ghosts, Unreleased, TypeInv, TypeOK,
         TableOK, GatewayOK, GhostsOK, Places
    <3>9. ASSUME NEW w \in Work, Costs(w)
          PROVE  bill'[v] = bill[v] /\ hold'[v].amount = hold[v].amount
      BY <3>9, <2>1 DEF Costs, table, ghosts, Unreleased, TypeInv, TypeOK, TableOK,
         GatewayOK, GhostsOK, Places
    <3>10. ASSUME NEW w \in Work, Recorded(w)
          PROVE  bill'[v] = bill[v] /\ hold'[v].amount = hold[v].amount
      BY <3>10, <2>1 DEF Recorded, ghosts, Unreleased, TypeInv, TypeOK, TableOK,
         GatewayOK, GhostsOK, Places
    <3>11. ASSUME NEW w \in Work, Ends(w)
          PROVE  bill'[v] = bill[v] /\ hold'[v].amount = hold[v].amount
      BY <3>11, <2>1 DEF Ends, Go, table, ghosts, Unreleased, TypeInv, TypeOK, TableOK,
         GatewayOK, GhostsOK, Places
    <3>12. ASSUME NEW w \in Work, Settle(w)
          PROVE  bill'[v] = bill[v] /\ hold'[v].amount = hold[v].amount
      BY <3>12, <2>1 DEF Settle, Go, table, ghosts, Unreleased, TypeInv, TypeOK,
         TableOK, GatewayOK, GhostsOK, Places
    <3>13. ASSUME NEW w \in Work, ReadSpend(w)
          PROVE  bill'[v] = bill[v] /\ hold'[v].amount = hold[v].amount
      BY <3>13, <2>1 DEF ReadSpend, Go, table, ghosts, Unreleased, TypeInv, TypeOK,
         TableOK, GatewayOK, GhostsOK, Places
    <3>14. ASSUME NEW w \in Work, SettleFails(w)
          PROVE  bill'[v] = bill[v] /\ hold'[v].amount = hold[v].amount
      BY <3>14, <2>1 DEF SettleFails, Go, table, ghosts, Unreleased, TypeInv, TypeOK,
         TableOK, GatewayOK, GhostsOK, Places
    <3>15. ASSUME NEW w \in Work, ReleaseReads(w)
          PROVE  bill'[v] = bill[v] /\ hold'[v].amount = hold[v].amount
      BY <3>15, <2>1 DEF ReleaseReads, Go, table, ghosts, Unreleased, TypeInv, TypeOK,
         TableOK, GatewayOK, GhostsOK, Places
    <3>16. ASSUME NEW w \in Work, ReleaseMoves(w)
          PROVE  bill'[v] = bill[v] /\ hold'[v].amount = hold[v].amount
      BY <3>16, <2>1 DEF ReleaseMoves, Go, Released, Less, Unreleased, TypeInv, TypeOK,
         TableOK, GatewayOK, GhostsOK, Places
    <3>17. ASSUME NEW w \in Work, Expire(w)
          PROVE  bill'[v] = bill[v] /\ hold'[v].amount = hold[v].amount
      BY <3>17, <2>1 DEF Expire, gateway, ghosts, Unreleased, TypeInv, TypeOK, TableOK,
         GatewayOK, GhostsOK, Places
    <3>18. ASSUME NEW s \in Sweepers, SweepReads(s)
          PROVE  bill'[v] = bill[v] /\ hold'[v].amount = hold[v].amount
      BY <3>18, <2>1 DEF SweepReads, table, ghosts, Unreleased, TypeInv, TypeOK,
         TableOK, GatewayOK, GhostsOK, Places
    <3>19. ASSUME NEW s \in Sweepers, NEW w \in Work, SweepPicks(s, w)
          PROVE  bill'[v] = bill[v] /\ hold'[v].amount = hold[v].amount
      BY <3>19, <2>1 DEF SweepPicks, table, ghosts, Unreleased, TypeInv, TypeOK,
         TableOK, GatewayOK, GhostsOK, Places
    <3>20. ASSUME NEW s \in Sweepers, SweepMoves(s)
          PROVE  bill'[v] = bill[v] /\ hold'[v].amount = hold[v].amount
      <4>1. bill' = bill
        BY <3>20 DEF SweepMoves
      <4>2. CASE Unreleased(tx[s])
        <5>1. hold' = [hold EXCEPT ![tx[s]].state = "released"]
          BY <3>20, <4>2 DEF SweepMoves, Released
        <5>2. QED
          BY <4>1, <5>1 DEF TypeInv, TypeOK, TableOK
      <4>3. CASE ~ Unreleased(tx[s])
        BY <3>20, <4>1, <4>3 DEF SweepMoves
      <4>4. QED
        BY <4>2, <4>3
    <3>21. ASSUME TopUp
          PROVE  bill'[v] = bill[v] /\ hold'[v].amount = hold[v].amount
      BY <3>21, <2>1 DEF TopUp, gateway, Unreleased, TypeInv, TypeOK, TableOK,
         GatewayOK, GhostsOK, Places
    <3>22. ASSUME Crash
          PROVE  bill'[v] = bill[v] /\ hold'[v].amount = hold[v].amount
      BY <3>22, <2>1 DEF Crash, table, Unreleased, TypeInv, TypeOK, TableOK, GatewayOK,
         GhostsOK, Places
    <3>23. QED
      BY <3>1, <3>2, <3>3, <3>4, <3>5, <3>6, <3>7, <3>8, <3>9, <3>10, <3>11, <3>12,
         <3>13, <3>14, <3>15, <3>16, <3>17, <3>18, <3>19, <3>20, <3>21, <3>22 DEF Next,
         Gate, Begin, Settlement, Sweep
  <2>3. QED
    BY <1>1, <2>2
<1>5. QED
  BY <1>3, <1>4

\* What is reserved is paid for as long as every bill stays within its hold.
THEOREM HoldsAreCovered == Spec => []CoveredIsPaid
<1>1. Init => CoveredIsPaid
  <2> SUFFICES ASSUME Init
               PROVE  reserved <= balance /\ balance = Credit + topUps - Total(charged, Work)
    BY DEF CoveredIsPaid
  <2>1. Coins(charged, Work) = {}
    BY DEF Init, Coins
  <2>2. Total(charged, Work) = 0
    BY <2>1, FS_EmptySet DEF Total
  <2>3. QED
    BY <2>2, MoneyAssumption DEF Init
<1>2. TypeInv /\ TypeInv' /\ HoldInv /\ ReservedIsSum /\ CoveredIsPaid /\ [Next]_vars
        => CoveredIsPaid'
  <2> SUFFICES ASSUME TypeInv, TypeInv', HoldInv, ReservedIsSum, CoveredIsPaid, Next, Covered'
               PROVE  (reserved <= balance /\ balance = Credit + topUps - Total(charged, Work))'
    <3>1. CASE UNCHANGED vars
      BY <3>1 DEF vars, table, gateway, ghosts, CoveredIsPaid, Covered
    <3>2. QED
      BY <3>1 DEF CoveredIsPaid
  <2> reserved <= balance /\ balance = Credit + topUps - Total(charged, Work)
    BY CoveredBefore DEF CoveredIsPaid
  <2>1. ASSUME NEW w \in Work, GateRefuses(w)
        PROVE  (reserved <= balance /\ balance = Credit + topUps - Total(charged, Work))'
    BY <2>1 DEF GateRefuses, table, ghosts
  <2>2. ASSUME NEW w \in Work, GateAsks(w)
        PROVE  (reserved <= balance /\ balance = Credit + topUps - Total(charged, Work))'
    BY <2>2 DEF GateAsks, table, ghosts
  <2>3. ASSUME NEW w \in Work, Reserve(w)
        PROVE  (reserved <= balance /\ balance = Credit + topUps - Total(charged, Work))'
    <3>1. balance' = balance /\ topUps' = topUps /\ charged' = charged
      BY <2>3 DEF Reserve, ghosts
    <3>2. PICK amount \in Estimates :
            IF HasCredit(amount) THEN reserved' = reserved + amount ELSE UNCHANGED reserved
      BY <2>3 DEF Reserve
    <3>3. amount \in Nat
      BY MoneyAssumption
    <3>4. reserved' <= balance'
      BY <3>1, <3>2, <3>3 DEF HasCredit, Available, TypeInv, TypeOK, TableOK
    <3>5. QED
      BY <3>1, <3>4
  <2>4. ASSUME NEW w \in Work, NoteHold(w)
        PROVE  (reserved <= balance /\ balance = Credit + topUps - Total(charged, Work))'
    BY <2>4 DEF NoteHold, table, ghosts
  <2>5. ASSUME NEW w \in Work, Starts(w)
        PROVE  (reserved <= balance /\ balance = Credit + topUps - Total(charged, Work))'
    BY <2>5 DEF Starts, table, ghosts
  <2>6. ASSUME NEW w \in Work, StartRefused(w)
        PROVE  (reserved <= balance /\ balance = Credit + topUps - Total(charged, Work))'
    BY <2>6 DEF StartRefused, table, ghosts
  <2>7. ASSUME NEW w \in Work, StartThrows(w)
        PROVE  (reserved <= balance /\ balance = Credit + topUps - Total(charged, Work))'
    BY <2>7 DEF StartThrows, table, ghosts
  <2>8. ASSUME NEW w \in Work, SpawnError(w)
        PROVE  (reserved <= balance /\ balance = Credit + topUps - Total(charged, Work))'
    BY <2>8 DEF SpawnError, table, ghosts
  <2>9. ASSUME NEW w \in Work, Costs(w)
        PROVE  (reserved <= balance /\ balance = Credit + topUps - Total(charged, Work))'
    BY <2>9 DEF Costs, table, ghosts
  <2>10. ASSUME NEW w \in Work, Recorded(w)
        PROVE  (reserved <= balance /\ balance = Credit + topUps - Total(charged, Work))'
    BY <2>10 DEF Recorded, ghosts
  <2>11. ASSUME NEW w \in Work, Ends(w)
        PROVE  (reserved <= balance /\ balance = Credit + topUps - Total(charged, Work))'
    BY <2>11 DEF Ends, table, ghosts
  <2>12. ASSUME NEW w \in Work, Settle(w)
        PROVE  (reserved <= balance /\ balance = Credit + topUps - Total(charged, Work))'
    BY <2>12 DEF Settle, table, ghosts
  <2>13. ASSUME NEW w \in Work, ReadSpend(w)
        PROVE  (reserved <= balance /\ balance = Credit + topUps - Total(charged, Work))'
    BY <2>13 DEF ReadSpend, table, ghosts
  <2>14. ASSUME NEW w \in Work, SettleFails(w)
        PROVE  (reserved <= balance /\ balance = Credit + topUps - Total(charged, Work))'
    BY <2>14 DEF SettleFails, table, ghosts
  <2>15. ASSUME NEW w \in Work, ReleaseReads(w)
        PROVE  (reserved <= balance /\ balance = Credit + topUps - Total(charged, Work))'
    BY <2>15 DEF ReleaseReads, table, ghosts
  <2>16. ASSUME NEW w \in Work, ReleaseMoves(w)
        PROVE  (reserved <= balance /\ balance = Credit + topUps - Total(charged, Work))'
    <3>1. CASE Unreleased(w)
      <4>1. Covered
        BY CoveredBefore
      <4>2. bill[w] \in Nat /\ bill[w] <= hold[w].amount
        BY <4>1 DEF Covered, TypeInv, TypeOK, GatewayOK
      <4>3. Released(w, bill[w]) /\ topUps' = topUps
        BY <2>16, <3>1 DEF ReleaseMoves
      <4>4. QED
        BY <3>1, <4>2, <4>3, ReleasePays
    <3>2. CASE ~ Unreleased(w)
      BY <2>16, <3>2 DEF ReleaseMoves
    <3>3. QED
      BY <3>1, <3>2
  <2>17. ASSUME NEW w \in Work, Expire(w)
        PROVE  (reserved <= balance /\ balance = Credit + topUps - Total(charged, Work))'
    BY <2>17 DEF Expire, ghosts
  <2>18. ASSUME NEW s \in Sweepers, SweepReads(s)
        PROVE  (reserved <= balance /\ balance = Credit + topUps - Total(charged, Work))'
    BY <2>18 DEF SweepReads, table, ghosts
  <2>19. ASSUME NEW s \in Sweepers, NEW w \in Work, SweepPicks(s, w)
        PROVE  (reserved <= balance /\ balance = Credit + topUps - Total(charged, Work))'
    BY <2>19 DEF SweepPicks, table, ghosts
  <2>20. ASSUME NEW s \in Sweepers, SweepMoves(s)
        PROVE  (reserved <= balance /\ balance = Credit + topUps - Total(charged, Work))'
    <3>1. CASE Unreleased(tx[s])
      <4>1. tx[s] \in Work
        BY <2>20 DEF SweepMoves, TypeInv, TypeOK, GatewayOK
      <4>2. hold[tx[s]].amount \in Nat
        BY <4>1, AmountType
      <4>3. Released(tx[s], 0) /\ topUps' = topUps
        BY <2>20, <3>1 DEF SweepMoves
      <4>4. QED
        BY <3>1, <4>1, <4>2, <4>3, ReleasePays
    <3>2. CASE ~ Unreleased(tx[s])
      BY <2>20, <3>2 DEF SweepMoves
    <3>3. QED
      BY <3>1, <3>2
  <2>21. ASSUME TopUp
        PROVE  (reserved <= balance /\ balance = Credit + topUps - Total(charged, Work))'
    <3>1. reserved' = reserved /\ charged' = charged
      BY <2>21 DEF TopUp
    <3>2. balance' = balance + 1 /\ topUps' = topUps + 1
      BY <2>21 DEF TopUp
    <3>3. Total(charged, Work) \in Nat
      BY WorkAssumption, TotalType DEF TypeInv, TypeOK, GhostsOK
    <3>4. balance \in Nat /\ reserved \in Nat /\ topUps \in Nat /\ Credit \in Nat
      BY MoneyAssumption DEF TypeInv, TypeOK, TableOK, GhostsOK
    <3>5. QED
      BY <3>1, <3>2, <3>3, <3>4
  <2>22. ASSUME Crash
        PROVE  (reserved <= balance /\ balance = Credit + topUps - Total(charged, Work))'
    BY <2>22 DEF Crash, table
  <2>23. QED
    BY <2>1, <2>2, <2>3, <2>4, <2>5, <2>6, <2>7, <2>8, <2>9, <2>10, <2>11, <2>12, <2>13,
       <2>14, <2>15, <2>16, <2>17, <2>18, <2>19, <2>20, <2>21, <2>22 DEF Next, Gate,
       Begin, Settlement, Sweep
<1>3. QED
  BY <1>1, <1>2, TypeInvariant, HoldInvariant, ReservedIsExplained, PTL DEF Spec
=============================================================================
