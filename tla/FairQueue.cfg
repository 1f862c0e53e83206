SPECIFICATION FairSpec
CONSTANTS
  w1 = w1  w2 = w2  w3 = w3
  j1 = j1  j2 = j2  j3 = j3  j4 = j4
  l1 = l1  l2 = l2  l3 = l3
  NoJob = NoJob
  NoCap = NoCap
  Workspaces = {w1, w2, w3}
  Jobs = {j1, j2, j3, j4}
  Owner <- MCOwner
  LeaseIds = {l1, l2, l3}
  LeaseTtl = 2
  MaxGlobalInFlight = 2
INVARIANTS TypeOK RingExact OneCopy CapRespected NoOvertaking
PROPERTIES FifoPerWorkspace ImplementsJobQueue NeverStarved
CHECK_DEADLOCK TRUE
