SPECIFICATION Spec
CONSTANTS
  s1 = s1
  s2 = s2
  Server <- OneServer
  Connected <- OneServer
  Worker = {1, 2}
  Namespace <- TwoSpaces
  Asked <- SharedDelete
  Posted <- Joins
  MaxChanges = 5
  MaxTime = 0
  KeepFor = 0
  MaxRestarts = 0
  MaxInFlight = 9
PROPERTY DeleteSparesOthers
CHECK_DEADLOCK FALSE
