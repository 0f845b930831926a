SPECIFICATION Spec
CONSTANTS
  Seconds = 1
  FirstLength = 1
  LastLength = 2
  Answers = 3
  Clicks = 2
  None = None
  Types = {"countdown", "typing", "reflection", "pattern", "math"}
  Challenged = {"lockdown"}
  MaxSessions = 2
  MaxOpens = 2
  MaxProbes = 2
  MaxMessages = 1
  MaxFailures = 1
CHECK_DEADLOCK FALSE
INVARIANTS TypeOK SessionStaysVisible ShowsWhatIsStored
PROPERTIES StopsAreEarned
