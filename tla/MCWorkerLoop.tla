---------------------------- MODULE MCWorkerLoop ----------------------------
EXTENDS WorkerLoop, TLC

CONSTANTS ws1, u1, c1, c2, l1, l2, a, b

\* One unit, with a second copy of it in case it is enqueued twice.
MCOwner  == c1 :> ws1 @@ c2 :> ws1
MCUnitOf == c1 :> u1  @@ c2 :> u1

LeaseSymmetry == Permutations(LeaseIds)
=============================================================================
