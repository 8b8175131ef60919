CONSTANTS
  NumEvents = 4
  Devices = {d1, d2}
  NULL = NULL
  Guest = Guest
  NoOwner = NoOwner
  LOPHI_RECONNECT_COUNT = 2
  MaxSockets = 3
  PacketUnits = 2
SPECIFICATION Spec
INVARIANT StreamsFramed
CHECK_DEADLOCK FALSE
