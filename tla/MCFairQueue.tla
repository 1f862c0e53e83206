---------------------------- MODULE MCFairQueue -----------------------------
EXTENDS FairQueue, TLC

CONSTANTS w1, w2, w3, j1, j2, j3, j4, l1, l2, l3

\* w1 floods the queue with two jobs, the others have one each.
MCOwner == j1 :> w1 @@ j2 :> w1 @@ j3 :> w2 @@ j4 :> w3
=============================================================================
