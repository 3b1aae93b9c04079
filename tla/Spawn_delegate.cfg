SPECIFICATION Spec
CONSTANTS
  s1 = s1
  s2 = s2
  Sessions = {s1, s2}
  NetSessions = {s1}
  CgSessions = {s1}
  MaxTries = 4
  Faults = FALSE
INVARIANT ControllersDelegated
