CONSTANTS
  Producers = {p1}
  Clients = {c1, c2}
  Names = {a, b}
  Fds = {3, 4, 5}
  Nodes = {n1, n2, n3}
  NULL = NULL
  NoName = NoName
  Headers <- MCHeaders
  MaxRecords = 1
  MaxCmds = 1
SPECIFICATION Spec
INVARIANT ListIntact
SYMMETRY Symmetry
CHECK_DEADLOCK FALSE
