SPECIFICATION Spec
CONSTANTS
  s1 = s1
  s2 = s2
  Server <- TwoServers
  Connected <- TwoServers
  Worker = {1, 2}
  Namespace <- OneSpace
  Asked <- TwoWorkers
  Posted <- Nothing
  MaxChanges = 3
  MaxTime = 1
  KeepFor = 1
  MaxRestarts = 0
  MaxInFlight = 9
PROPERTY ResultStands
CHECK_DEADLOCK FALSE
