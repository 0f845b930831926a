\* No crash, nothing fails, half seconds: what holds between requests.
SPECIFICATION Spec
CONSTANTS
  ScheduleIds = {1, 2}
  Plans <- HalfSeconds
  Modes = {"blocklist", "lockdown"}
  Targets = {t1}
  BlockSites = {b1}
  AllowSites = {}
  Durations = {0, 2}
  PerSec = 2
  DayLen = 8
  WeekLen = 2
  NoEnd = NoEnd
  MaxTime = 9
  MaxSessions = 2
  MaxRestarts = 0
  MaxStoreFaults = 0
  MaxEnforcerFaults = 0
INVARIANTS TypeOK SessionFollowsSchedule SchedulesDisjoint EnforcementMatchesSnapshot SnapshotIsCurrent
