SPECIFICATION Spec
CONSTANTS
  Clients = {c1, c2, c3}
  MaxSessions = 4
  MaxIds = 7
SYMMETRY ClientSymmetry
INVARIANTS
  TypeOK
  StatisticsExact
  FirstLapLookups
  NoSessionLeaked
  RoomForEveryClient
