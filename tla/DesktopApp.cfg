SPECIFICATION FairSpec
CONSTANTS
  Slots = {"am"}
  Meets <- Alone
  None = None
  MaxClicks = 2
  MaxPolls = 2
  MaxEvents = 2
  MaxFailures = 1
INVARIANTS TypeOK SessionStaysVisible NoTwinSchedules
PROPERTIES HomeCatchesUp
CHECK_DEADLOCK FALSE
