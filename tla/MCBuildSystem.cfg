SPECIFICATION Spec
CONSTANTS
  v48 = v48
  v47 = v47
  NoVersion = NoVersion
  Versions <- MCVersions
  Discoverable <- MCDiscoverable
  MaxRuns = 3
CHECK_DEADLOCK FALSE
INVARIANTS
  TypeOK
  SuccessIsOfTheVersion
  CompiledSourceIsWhole
