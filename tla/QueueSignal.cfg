SPECIFICATION FairSpec
CONSTANTS
  Producers = {main}
  Consumers = {c1}
  Main = main
  Capacity = 1
  MaxPushes = 2
  MaxSpurious = 0
  Interruptible = {main}
  SignalPoints <- Anywhere
  NoThread = NoThread
  NoItem = NoItem
CHECK_DEADLOCK FALSE
PROPERTIES
  ShutdownTerminates
