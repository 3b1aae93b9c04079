SPECIFICATION Spec
CONSTANTS
  p1 = p1
  p2 = p2
  Procs = {p1, p2}
  Modules = {"veth", "overlay", "base", "low"}
  Trees <- MCTrees
  MaxFaults = 1
  Ifaces = {"eth0", "eth1", "wlan0"}
  Plugged = {"eth0", "eth1"}
  Quiet = {"eth1"}
  veth = "veth"
  overlay = "overlay"
INVARIANT OffWhenRaiseFails
