SPECIFICATION Spec
CONSTANTS
  r1 = r1
  k1 = k1
  Runs = {r1}
  Kills = {k1}
  NetRuns = {}
  Old = Old
  None = None
  Faulty = {}
  Serial = TRUE
PROPERTY KillConfirmsDeath
