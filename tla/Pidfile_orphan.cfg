SPECIFICATION FairSpec
CONSTANTS
  r1 = r1
  r2 = r2
  Runs = {r1, r2}
  Kills = {}
  NetRuns = {r1}
  Old = Old
  None = None
  Faulty = {r1}
  Serial = TRUE
PROPERTY EmptyRecovered
