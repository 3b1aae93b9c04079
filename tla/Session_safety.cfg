SPECIFICATION Spec
CONSTANTS
  s1 = s1
  s2 = s2
  s3 = s3
  Sessions = {s1, s2, s3}
  NetSessions = {s1, s2, s3}
  MaxId = 1
  ScanMax = 1
  None = None
  Faults = FALSE
  Killed = {}
SYMMETRY Symmetry
INVARIANTS TypeOK AddressesDistinct LinkAfterUnshare NetHandshake
