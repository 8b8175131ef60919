CONSTANTS
  HdrUnits = 2
  BufUnits = 4
  Lens = {1, 3}
  Addrs = {"ram", "edge", "none"}
  MaxReqs = 3
SPECIFICATION Spec
INVARIANT NoGarbageCommand
CHECK_DEADLOCK FALSE
