SPECIFICATION Spec
CONSTANTS
  r1 = r1  r2 = r2  c1 = c1  c2 = c2
  NoRun = NoRun
  Runs = {r1, r2}
  Branches = {r2}
  Resumes = {c1, c2}
  Cancellable = {r2}
  MaxPauses = 2
  MaxCrashes = 1
INVARIANTS TypeOK OneRunPerWorkspace LiveIsRunning ReservationIsUsed PausedIsIdle
PROPERTIES EndIsKept
CHECK_DEADLOCK FALSE
SYMMETRY ResumeSymmetry
