SPECIFICATION FairTidySpec
CONSTANTS
  CLUSTER_MAP_SIZE = 9
  FAT_BLOCK_CELLS = 4
  SLOT_COUNT = 6
  CLUSTER_SIZE = 2
  COUNT_RANGE = 256
  a = a
  root = root
  zero = zero
  sh = sh
  ikanaide = ikanaide
  copy = copy
  program = program
  hallo = hallo
  junk = junk
  none = none
  Name <- MCName
  RootName = root
  ZeroName = zero
  Data <- MCData
  NoData = none
  Sizes = {0, 2, 4}
  MaxCrashes = 2
  ShellName = sh
  Greeting = ikanaide
  ShellData = program
  GreetingData = hallo
  ShellSize = 4
  GreetingSize = 2
  KernelBuffer = 4
  OtherFiles = {a}
  CopyName = copy
  BufferSize = 2
  Junk = junk
  Typed <- MCTyped
  MaxDepth = 2
VIEW ShellView
INVARIANTS
  ShellTypeOK
  NoUnderflow
  ParentsArePath
  PromptShowsPath
  KernelRunsShell
PROPERTIES
  MvKeepsAName
  CarefulClient
  SystemAnswers
