SPECIFICATION Spec
CONSTANTS
  ws1 = ws1  e1 = e1  e2 = e2  p1 = p1
  j1 = j1  j2 = j2  j3 = j3
  r1 = r1  r2 = r2  r3 = r3
  NoKey = NoKey
  NoRun = NoRun
  NoBudget = NoBudget
  Workspaces = {ws1}
  Providers = {p1}
  Evals = {e1, e2}
  Ws <- MCWs
  Jobs = {j1, j2, j3}
  EvalOf <- MCEvalOf
  Provider <- MCProvider
  Runs = {r1, r2}
  PoolSize = 1
  ProviderLimit = 2
  MaxAttempts = 1
  Budget = NoBudget
  Deleted = {j3}
  Cancellable = {}
  Transients = {"transient"}
  MaxThrows = 1
SYMMETRY RunSymmetry
INVARIANTS AttemptsBounded ReservationsAccounted PoolNeverFull SettledMeansIdle OneEvalPerWorkspace
CHECK_DEADLOCK TRUE
