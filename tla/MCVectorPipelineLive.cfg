SPECIFICATION Spec
CONSTANTS
  Threads = {t1, t2}
  NoThread = NoThread
  Batches <- MCSmallBatches
  Bytes <- MCBytes
  CounterMax = 1
  MaxVolume = 1
PROPERTIES
  CallsReturn
