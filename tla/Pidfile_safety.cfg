SPECIFICATION Spec
CONSTANTS
  r1 = r1
  r2 = r2
  k1 = k1
  Runs = {r1, r2}
  Kills = {k1}
  NetRuns = {}
  Old = Old
  None = None
  Faulty = {r1, r2, k1}
  Serial = FALSE
SYMMETRY Symmetry
INVARIANTS TypeOK NoLeakedLock NoReadWhileLocked NoLeftover
