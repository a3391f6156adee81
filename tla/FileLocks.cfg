SPECIFICATION FairSpec
CONSTANTS
  Workers = {w1, w2, w3}
  Files = {f1, f2, f3}
  Capacity = 2
  Hash <- OneCollision
  NoWorker = NoWorker
  NoFile = NoFile
INVARIANTS
  TypeOK
  RefCountExact
  PointerValid
  ExclusionWhileApart
PROPERTIES
  SlotNotReused
  RefusedOnlyWhenFull
  FileProgress
  ImplementsFileMutex
