\* Crashes between any two writes and failing enforcement calls, no failing SQL.
SPECIFICATION HSpec
CONSTANTS
  ScheduleIds = {1, 2}
  Plans <- EarlyAndLate
  Modes = {"blocklist", "lockdown"}
  Targets = {t1}
  BlockSites = {}
  AllowSites = {}
  Durations = {0, 2}
  PerSec = 1
  DayLen = 4
  WeekLen = 2
  NoEnd = NoEnd
  MaxTime = 4
  MaxSessions = 2
  MaxRestarts = 2
  MaxStoreFaults = 0
  MaxEnforcerFaults = 1
INVARIANTS DiskMatchesMemory OnlyUserStopsSuppressInMemory
PROPERTIES ImplementsLifecycle UserStopSticks
