SPECIFICATION Spec
CONSTANTS
  Callers = {c1}
  Creds = {k1, k2}
  FirstCred = k1
  Deployments <- MCDeployments
  MaxClock = 4
  DayLen = 5
  Blackout <- MCBlackout
  Headroom = 1
  OpTimeout = 1
  RunTimeout = 1
  AttemptFreshFor = 2
  MinInterval = 2
  Cooldown = 1
  RecentLogin = 1
  MinSessionAge = 2
  RequestMaxAge = 1
  MaxFailures = 1
  MaxUnconfirmed = 1
  WriteAttempts = 2
 
PROPERTIES  Answered
CHECK_DEADLOCK FALSE
