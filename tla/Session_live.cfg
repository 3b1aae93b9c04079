SPECIFICATION FairSpec
CONSTANTS
  s1 = s1
  s2 = s2
  Sessions = {s1, s2}
  NetSessions = {s1, s2}
  MaxId = 1
  ScanMax = 2
  None = None
  Faults = TRUE
  Killed = {s1}
INVARIANTS RootLifetime HostEndConfigured
PROPERTIES ParentEnds ChildWakes RootRemovedEarly
