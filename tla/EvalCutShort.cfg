SPECIFICATION Spec
CONSTANTS
  ws1 = ws1  e1 = e1  e2 = e2  p1 = p1
  j1 = j1  j2 = j2  j3 = j3
  r1 = r1  r2 = r2  r3 = r3
  NoKey = NoKey
  NoRun = NoRun
  NoBudget = NoBudget
  Workspaces = {ws1}
  Providers = {p1}
  Evals = {e1}
  Ws <- MCWs1
  Jobs = {j1, j2}
  EvalOf <- MCEvalOf1
  Provider <- MCProvider1
  Runs = {r1, r2}
  PoolSize = 2
  ProviderLimit = 1
  MaxAttempts = 2
  Budget = NoBudget
  Deleted = {}
  Cancellable = {}
  Transients = {"transient"}
  MaxThrows = 0
SYMMETRY RunSymmetry
INVARIANTS NoMoreJobs
CHECK_DEADLOCK TRUE
