CONSTANTS
  Names = {a, b}
  Fds = {4, 5}
  Nodes = {n1, n2, n3}
  NULL = NULL
SPECIFICATION MCSpec
INVARIANT ListIntact
