\* One enforcement call fails when the service starts.
SPECIFICATION FairSpec
CONSTANTS
  ScheduleIds = {}
  Plans <- EarlyAndLate
  Modes = {"blocklist", "lockdown"}
  Targets = {t1}
  BlockSites = {}
  AllowSites = {}
  Durations = {0}
  PerSec = 1
  DayLen = 4
  WeekLen = 2
  NoEnd = NoEnd
  MaxTime = 1
  MaxSessions = 1
  MaxRestarts = 1
  MaxStoreFaults = 0
  MaxEnforcerFaults = 1
PROPERTY RestoreIsRetried
