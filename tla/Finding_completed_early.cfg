SPECIFICATION Spec
CONSTANTS
  Pages <- AllPages
  ExtensionPages = {"popup"}
  Entries = {"a"}
  Accepted = {"a"}
  Wildcards = {}
  Covers <- AllCovers
  WwwCovers <- AllWww
  DayLen = 4
  WeekLen = 2
  NoEnd = NoEnd
  PerSec = 1
  None = None
  Plans <- OnlyToday
  Starts <- Lockdown
  AllowTimes = {1}
  Stored <- FreshOrLegacy
  MaxTime = 2
  MaxEvents = 1
  MaxWriters = 2
CHECK_DEADLOCK FALSE
PROPERTIES OnlyDueSessionsComplete
