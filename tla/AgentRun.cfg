CONSTANTS
  Runs = {r1, r2}
  Tickets = {t1, t2}
  NoRun = NoRun
  MaxGen = 1
  MaxWork = 3
SPECIFICATION Spec
SYMMETRY Symmetry
INVARIANT WaitersReachable
PROPERTY AbortFencesRecovery
CHECK_DEADLOCK FALSE
