SPECIFICATION Spec
CONSTANTS
  Fields <- MCFields
  Texts <- MCTexts
  Programs <- MCPrograms
  Seeds <- MCSeeds
  Batches <- MCBatches
  Iterations <- MCIterations
  MaxTotal = 3
  UsizeMax = 5
INVARIANTS
  TypeOK
  WorkRunsOnce
  OutcomesAreTheEventsOwn
  OnlyKnownLosses
  MetricsCountTheWork
PROPERTIES
  CallsReturn
