SPECIFICATION Spec
CONSTANTS
  v48 = v48
  v47 = v47
  NoVersion = NoVersion
  Versions <- MCVersions
  Discoverable <- MCDiscoverable
  MaxRuns = 2
CHECK_DEADLOCK FALSE
INVARIANTS
  ReusedBuildsAreComplete
