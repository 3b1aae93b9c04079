SPECIFICATION Spec
CONSTANTS
  n1 = n1
  n2 = n2
  Names = {n1, n2}
  Devs = {1, 2}
  Layouts <- MCLayouts
  Disks <- MCDisks
  MaxImages = 3
  MaxStarts = 3
  MaxKills = 1
  MaxReboots = 1
  MaxFaults = 1

CHECK_DEADLOCK FALSE
INVARIANT ActiveIsMounted
