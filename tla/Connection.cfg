SPECIFICATION Spec
CONSTANTS
  Sessions = {s1, s2}
  Wire = s1
  Names = {alice}
  Passwords = {p1, p2}
  NoPassword = NoPassword
  NoName = NoName
  NoFile = NoFile
  Payloads <- SmallFiles
  OtherCalls <- OnePassword
  Capacity = 4
INVARIANTS
  TypeOK
  InStep
  ToldTruly
PROPERTIES
  ImplementsRegistry
  
  ThreadFreed
