SPECIFICATION WSpec
CONSTANTS
  m1 = m1
  m2 = m2
  Migrations = {m1, m2}
  Moves = {m1}
  Tags = {1}
  Hosts <- SomeHosts
  NoOne = NoOne
  Other = Other
  git = git
  gitAlt = gitAlt
  nix = nix
  dash = dash
  redo = redo
  rm = rm
  Deploys = {git, gitAlt, nix, dash, redo, rm}
  Kind <- Kinds
  Asked <- AskedFiles
  Layouts <- SomeLayouts
  Vars = {v1}
  MaxPushes = 2
  NoDeploy = NoDeploy
  MaxLines = 6
  PipeCap = 2
  ChanCap = 2
  Batch = 2
  LongLines = {5}
INVARIANTS
  WorkloadsTypeOK
  WorkloadSurvives
  OneCopyRuns
  TransferIsAdmitted
  PulledIsDeployed
  LogTellsOutcome
  ReturnedIsComplete
PROPERTIES
  MigrationEnds
  CommandReturns
CHECK_DEADLOCK FALSE
