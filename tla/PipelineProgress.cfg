SPECIFICATION FairSpec
CONSTANTS
  Clients = {c1, c2}
  Workers = {w1}
  Fds = {1, 2}
  MaxSessions = 2
  MaxIds = 2
  ClientCapacity = 1
  TaskCapacity = 1
  MaxConns = 2
  MaxOps = 2
  Kinds = {"upload"}
  FreedMutexBlocks = TRUE
CHECK_DEADLOCK FALSE
INVARIANTS
  BuffersOwned
  AnswerMatchesRequest
PROPERTIES
  ResponseArrives
  
  ImplementsLifecycle
