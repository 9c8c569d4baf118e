SPECIFICATION Spec
CONSTANTS
  Names = {"in", "a", "b", "c"}
  TableNames = {"users", "two lines"}
  Lines = {"good", "bad", "odd"}
  Threads = {t1, t2}
  Configs <- MCConfigs
  Inputs <- MCInputs
  Separators = {"odd"}
  BrokenNames = {"two lines"}
  Directories = {d1, d2, d3}
  NoDirectory = NoDirectory
  NoConfig = NoConfig
INVARIANTS
  TypeOK
  ExactlyChainsRun
  SuccessIsEveryEvent
  NothingOutlivesItsCall
  VerdictsAreFair
SYMMETRY Symmetry
