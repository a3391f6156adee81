SPECIFICATION Spec
CONSTANTS
  Workers = {w1, w2, w3}
  Files = {f1, f2}
  Capacity = 2
  Hash <- CollidingHash
  NoWorker = NoWorker
  NoFile = NoFile
INVARIANTS
  FileExclusion
