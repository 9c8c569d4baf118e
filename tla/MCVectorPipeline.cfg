SPECIFICATION Spec
CONSTANTS
  Threads = {t1, t2}
  NoThread = NoThread
  Batches <- MCBatches
  Bytes <- MCBytes
  CounterMax = 2
  MaxVolume = 2
SYMMETRY Symmetry
INVARIANTS
  TypeOK
  NoBorrowError
  CountersExact
PROPERTIES
  CountersOnlyGrow
  ImplementsRunStats
