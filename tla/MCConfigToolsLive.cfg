SPECIFICATION Spec
CONSTANTS
  Names = {"in", "a", "b", "c"}
  TableNames = {"users"}
  Lines = {"good", "bad", "odd"}
  Threads = {t1, t2}
  Configs <- MCRun
  Inputs <- MCInputs
  Separators = {"odd"}
  BrokenNames = {}
  Directories = {d1}
  NoDirectory = NoDirectory
  NoConfig = NoConfig
PROPERTY
  CallsReturn
