SPECIFICATION Spec
CONSTANTS
  Threads = {t1, t2}
  NoThread = NoThread
  Batches <- MCSmallBatches
  Bytes <- MCBytes
  CounterMax = 2
  MaxVolume = 2
INVARIANTS
  StatsDescribeOneRun
