SPECIFICATION FairSpec
CONSTANTS
  Pages = {"b", "popup"}
  ExtensionPages = {"popup"}
  Entries = {}
  Accepted = {}
  Wildcards = {}
  Covers <- NoPages
  WwwCovers <- NoPages
  DayLen = 8
  WeekLen = 2
  NoEnd = NoEnd
  PerSec = 2
  None = None
  Plans <- OneOrTwo
  Starts <- OneSecond
  AllowTimes = {1}
  Stored <- FreshOrRepeating
  MaxTime = 4
  MaxEvents = 2
  MaxWriters = 1
CHECK_DEADLOCK FALSE
INVARIANTS SettledSessionIsRight
PROPERTIES WindowGetsItsSession
