SPECIFICATION FairSpec
CONSTANTS
  k1 = k1
  k2 = k2
  k3 = k3
  k4 = k4
  Empty = Empty
  v1 = v1
  Keys = {k1, k2, k3, k4}
  Vals = {Empty, v1}
  Absent = Absent
  Hash <- MCHash
  InitCap = 3
  MinGrow = 1
INVARIANTS TypeOK BuildFits FreeSlot
PROPERTIES ImplementsDict CallsReturn
