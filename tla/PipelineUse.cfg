SPECIFICATION Spec
CONSTANTS
  Clients = {c1, c2}
  Workers = {w1, w2}
  Fds = {1, 2}
  MaxSessions = 3
  MaxIds = 3
  ClientCapacity = 1
  TaskCapacity = 1
  MaxConns = 2
  MaxOps = 1
  Kinds = {"upload", "download"}
  FreedMutexBlocks = TRUE
SYMMETRY ThreadSymmetry
CHECK_DEADLOCK FALSE
INVARIANTS
  NoUseAfterFree
