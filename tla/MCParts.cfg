CONSTANTS
  NULL = NULL
  NoName = NoName
  Items = {t1, t2, t3}
  MaxIds = 4
  Names = {a}
  Fds = {4}
  MaxRows = 1
  NumEvents = 4
  Devices = {d1, d2}
  Guest = Guest
  NoOwner = NoOwner
  LOPHI_RECONNECT_COUNT = 2
  MaxSockets = 3
  PacketUnits = 2
  HdrUnits = 2
  BufUnits = 4
  Lens = {1, 2}
  Addrs = {"ram", "edge", "none"}
  MaxReqs = 3
SPECIFICATION PartsSpec
VIEW PartsView
INVARIANT HooksTypeOK ListWellFormed LookupsMatchRegistry NoInterleavedWrites EachUnitOnce
PROPERTY RefinesRegistry Responds
CHECK_DEADLOCK FALSE
