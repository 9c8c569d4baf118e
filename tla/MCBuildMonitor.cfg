SPECIFICATION Spec
CONSTANTS
  Lines <- MCLines
  PhaseLimit <- MCPhaseLimit
  ProgressLimit = 2
  StallLimit = 1
  MaxUnread = 2
  Forever = 6
INVARIANTS
  TypeOK
  TroubleEndsInTime
PROPERTIES
  EndedOnlyWhenDue
  HungBuildsEnd
  FatalLinesEndBuilds
