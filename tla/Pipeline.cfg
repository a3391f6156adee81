SPECIFICATION Spec
CONSTANTS
  Clients = {c1, c2}
  Workers = {w1, w2}
  Fds = {1, 2}
  MaxSessions = 2
  MaxIds = 3
  ClientCapacity = 1
  TaskCapacity = 1
  MaxConns = 3
  MaxOps = 1
  Kinds = {"download"}
  FreedMutexBlocks = TRUE
SYMMETRY ThreadSymmetry
CHECK_DEADLOCK FALSE
INVARIANTS
  TypeOK
  DeliverySafe
  NeverDropped
  SocketOwned
  CleanShutdown
