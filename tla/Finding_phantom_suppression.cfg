\* Nothing fails, no targets and no lists; one restart.
SPECIFICATION HSpec
CONSTANTS
  ScheduleIds = {1, 2}
  Plans <- Overlapping
  Modes = {"blocklist", "lockdown"}
  Targets = {}
  BlockSites = {}
  AllowSites = {}
  Durations = {2}
  PerSec = 1
  DayLen = 4
  WeekLen = 2
  NoEnd = NoEnd
  MaxTime = 5
  MaxSessions = 2
  MaxRestarts = 1
  MaxStoreFaults = 0
  MaxEnforcerFaults = 0
INVARIANT OnlyUserStopsSuppress
