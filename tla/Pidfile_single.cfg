SPECIFICATION Spec
CONSTANTS
  r1 = r1
  r2 = r2
  Runs = {r1, r2}
  Kills = {}
  NetRuns = {}
  Old = Old
  None = None
  Faulty = {}
  Serial = FALSE
INVARIANT SingleInstance
