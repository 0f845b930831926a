\* Fair runs with a crash, failing SQL and failing enforcement calls.
SPECIFICATION FairSpec
CONSTANTS
  ScheduleIds = {1}
  Plans <- EarlyAndLate
  Modes = {"blocklist", "lockdown"}
  Targets = {t1}
  BlockSites = {}
  AllowSites = {}
  Durations = {2}
  PerSec = 1
  DayLen = 4
  WeekLen = 2
  NoEnd = NoEnd
  MaxTime = 3
  MaxSessions = 1
  MaxRestarts = 1
  MaxStoreFaults = 1
  MaxEnforcerFaults = 1
INVARIANTS NothingEnforcedWithoutSession RunningSessionIsOnDisk EnforcedIsOnDisk
PROPERTIES SessionsEnd ScheduleIsHonoured
