CONSTANTS
  HdrUnits = 2
  BufUnits = 4
  Lens = {1, 2}
  Addrs = {"ram", "edge", "none"}
  MaxReqs = 3
SPECIFICATION Spec
INVARIANT FailAckMeansUnchanged
CHECK_DEADLOCK FALSE
