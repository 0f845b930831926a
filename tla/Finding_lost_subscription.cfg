\* A subscription breaks under fair watchers and ticks.
SPECIFICATION FairSpec
CONSTANTS
  Pids = {1}
  Apps <- OnlyGame
  Paths <- AllPaths
  Families <- AllFamilies
  FileName <- Files
  FolderExe <- Folders
  SystemNames = {"terminal.exe"}
  Protected = {}
  Requests <- GameRequest
  None = None
  MaxCalls = 1
  MaxLaunches = 2
  MaxDeaths = 0
  MaxLosses = 1
  MaxSnapshotFaults = 0
PROPERTY LossIsNoticed
