SPECIFICATION Spec
CONSTANTS
  Clients = {c1, c2, c3}
  Workers = {w1}
  Fds = {1, 2, 3}
  MaxSessions = 2
  MaxIds = 4
  ClientCapacity = 1
  TaskCapacity = 1
  MaxConns = 4
  MaxOps = 1
  Kinds = {"delete"}
  FreedMutexBlocks = TRUE
SYMMETRY ThreadSymmetry
CHECK_DEADLOCK FALSE
INVARIANTS
  UniqueRouting
