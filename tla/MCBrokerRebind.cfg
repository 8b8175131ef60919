CONSTANTS
  Producers = {p1}
  Clients = {c1, c2}
  Names = {a}
  Fds = {3, 4, 5}
  Nodes = {n1, n2}
  NULL = NULL
  NoName = NoName
  Headers <- MCHeaders
  MaxRecords = 0
  MaxCmds = 1
SPECIFICATION Spec
PROPERTY CleanupClearsOnlyOwn
SYMMETRY Symmetry
CHECK_DEADLOCK FALSE
