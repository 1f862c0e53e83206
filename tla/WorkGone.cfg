SPECIFICATION FairSpec
CONSTANTS
  Items = {j}
  MaxAttempts = 1
  Cap = 1
  MaxRestarts = 0
  Worlds = {{"vanish"}}
PROPERTIES GoneIsSettled
CHECK_DEADLOCK FALSE
