SPECIFICATION Spec
CONSTANTS
  Clients = {c1, c2}
  Files = {f1, f2}
  Payloads = {small, large}
  small = small
  large = large
  NoFile = NoFile
  NoPayload = NoPayload
  Size <- SmallAndLarge
  QuotaLimit = 3
  Faults = {"write", "flush", "database", "crash"}
INVARIANTS
  TypeOK
  DiskMatchesRows
  QuotaIsStored
  QuotaSoftLimit
PROPERTIES
  ImplementsFileMap
