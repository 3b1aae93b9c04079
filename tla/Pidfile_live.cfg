SPECIFICATION FairSpec
CONSTANTS
  r1 = r1
  r2 = r2
  k1 = k1
  Runs = {r1, r2}
  Kills = {k1}
  NetRuns = {r1}
  Old = Old
  None = None
  Faulty = {r1, r2}
  Serial = FALSE
PROPERTIES Progress ZombiesReaped KillIsEffective
