SPECIFICATION MCSpec
CONSTANTS
  Modes = {"broker", "mailbox", "off"}
  MaxTime = 5
  Windows <- MCWindows
  Blackout <- MCBlackout
  Wait = 1
  MinInterval = 2
  FreshAge = 1
  MaxUnanswered = 2
  FailureThreshold = 2
  ExpiresAt = 3
  MaxSessions = 3
  MaxLogins = 2
  MaxGateFaults = 2
  MaxResets = 1
  k1 = k1
  k2 = k2
  None = None
  Kids = {k1, k2}
  Siblings = {}
  KidOrder <- MCOrder
  Quiet <- MCQuiet
  DescOnly <- MCDesc
  Threshold = 2
  Moving <- MCMoving
  MaxPolls = 2
  MaxEvents = 2
  MaxChanges = 1
  MaxSwitches = 2
  MaxFaults = 1
  LastDay = 7
  TermEnd = 3
  NoSchool <- MCNoSchool
  Settle = 2
  CarryMax = 4
  MaxMarks = 3
  MaxFailures = 2
  Surfaces <- MCSurfaces
  Listed <- MCListed
  Growing <- MCGrowing
  MaxSeen = 2
  Drift = 2
  Sessions = 2
  MaxId = 3
  MaxTriggers = 1
  MaxWindows = 1
  MaxMishaps = 2
INVARIANTS GateKept TurnKept CarryKept 
PROPERTIES PortalSteps
CHECK_DEADLOCK FALSE
