SPECIFICATION FairSpec
CONSTANTS
  Producers = {p1, main}
  Consumers = {c1, c2}
  Main = main
  Capacity = 2
  MaxPushes = 2
  MaxSpurious = 1
  Interruptible = {c1, main}
  SignalPoints <- OutsideMutex
  NoThread = NoThread
  NoItem = NoItem
INVARIANTS
  TypeOK
  NoLostWakeup
  ShutdownWakesAll
PROPERTIES
  ImplementsFifo
  EveryItemDelivered
  ShutdownTerminates
