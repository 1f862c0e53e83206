SPECIFICATION FairSpec
CONSTANTS
  Runs = {r1}
  Evals = {e1}
  Sweepers = {s1}
  NoWork = NoWork
  Credit = 2
  TopUps = 1
  Estimates = {0, 2}
  MaxCost = 2
  MaxCrashes = 1
  Failures = {"start", "spawn", "settle"}
INVARIANTS TypeOK ReservedIsSum CoveredIsPaid RunsPayTheirCost
PROPERTIES HoldsComeBack
CHECK_DEADLOCK TRUE
