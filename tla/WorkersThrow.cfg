SPECIFICATION Spec
CONSTANTS
  ws1 = ws1  u1 = u1  c1 = c1  c2 = c2
  l1 = l1  l2 = l2  a = a  b = b
  NoJob = NoJob
  NoCap = NoCap
  NoLease = NoLease
  Workspaces = {ws1}
  Jobs = {c1, c2}
  Owner <- MCOwner
  Units = {u1}
  UnitOf <- MCUnitOf
  LeaseIds = {l1, l2}
  LeaseTtl = 1
  MaxGlobalInFlight = NoCap
  Workers = {a, b}
  Mortal = {}
  Stoppable = {a}
  Throwing = {a}
  MaxThrows = 1
  DieMidway = FALSE
SYMMETRY LeaseSymmetry
INVARIANTS NothingLost
CHECK_DEADLOCK FALSE
