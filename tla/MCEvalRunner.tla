---------------------------- MODULE MCEvalRunner ----------------------------
EXTENDS EvalRunner, TLC

CONSTANTS ws1, e1, e2, j1, j2, j3, p1, r1, r2, r3

\* One eval of two jobs, and another one of the same workspace.
MCWs       == e1 :> ws1 @@ e2 :> ws1
MCEvalOf   == j1 :> e1 @@ j2 :> e1 @@ j3 :> e2
MCProvider == j1 :> p1 @@ j2 :> p1 @@ j3 :> p1

\* The first eval alone.
MCWs1       == e1 :> ws1
MCEvalOf1   == j1 :> e1 @@ j2 :> e1
MCProvider1 == j1 :> p1 @@ j2 :> p1

\* One eval of one job.
MCEvalOf3   == j1 :> e1
MCProvider3 == j1 :> p1

RunSymmetry == Permutations(Runs)
=============================================================================
