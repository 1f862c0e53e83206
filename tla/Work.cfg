SPECIFICATION FairSpec
CONSTANTS
  Items = {j}
  MaxAttempts = 2
  Cap = 1
  MaxRestarts = 1
  Worlds <- MCWorlds
INVARIANTS TypeOK OneCopyAtATime OpenIsWatched EndingIsTrue
PROPERTIES FinalIsFinal ReportedEnds TokensComeBack
CHECK_DEADLOCK FALSE
