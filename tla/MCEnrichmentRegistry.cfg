SPECIFICATION Spec
CONSTANTS
  Fields = {"id", "team"}
  Texts <- MCTexts
  Lower <- MCLower
  Addresses = {"a", "b"}
  NotScalar = NotScalar
  NoIndex = NoIndex
  NoSelect = NoSelect
  Threads = {t1, t2}
  NoThread = NoThread
  Names = {"users"}
  Files <- MCFiles
  Programs <- MCPrograms
  MaxWrites = 2
INVARIANTS
  TypeOK
  FindsAreScans
  GetsAreScans
  UnknownFieldsFail
  NoRingOfWaits
PROPERTIES
  ResolvedStaysRegistered
  EveryStepLeadsBack
  ImplementsTableStore
  CallsReturn
