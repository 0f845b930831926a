\* Three calls; a process that runs before, one that starts under the same id;
\* watchers that die, fail, come up or stop late, go deaf; a snapshot that fails.
SPECIFICATION FairSpec
CONSTANTS
  Pids = {1}
  Apps <- GameAndTool
  Paths <- AllPaths
  Families <- AllFamilies
  FileName <- Files
  FolderExe <- Folders
  SystemNames = {"terminal.exe"}
  Protected = {}
  Requests <- GameOrTool
  None = None
  MaxCalls = 3
  MaxLaunches = 1
  MaxDeaths = 1
  MaxLosses = 1
  MaxSnapshotFaults = 1
INVARIANTS TypeOK NoEscape
PROPERTIES OnlyTargetsDie SystemToolsSurvive TargetsDie AbandonedWatchersEnd
