SPECIFICATION FairSpec
CONSTANTS
  ws1 = ws1  u1 = u1  c1 = c1  c2 = c2
  l1 = l1  l2 = l2  a = a  b = b
  NoJob = NoJob
  NoCap = NoCap
  NoLease = NoLease
  Workspaces = {ws1}
  Jobs = {c1, c2}
  Owner <- MCOwner
  Units = {u1}
  UnitOf <- MCUnitOf
  LeaseIds = {l1, l2}
  LeaseTtl = 1
  MaxGlobalInFlight = NoCap
  Workers = {a, b}
  Mortal = {a}
  Stoppable = {a}
  Throwing = {b}
  MaxThrows = 1
  DieMidway = FALSE
INVARIANTS TypeOK NothingLost OneLiveHolder
PROPERTIES EventuallyDone
CHECK_DEADLOCK FALSE
