-------------------------- MODULE MCInteractiveRuns --------------------------
EXTENDS InteractiveRuns, TLC

CONSTANTS r1, r2, c1, c2

ResumeSymmetry == Permutations(Resumes)
=============================================================================
