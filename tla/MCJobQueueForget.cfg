SPECIFICATION Spec
CONSTANTS
  s1 = s1
  s2 = s2
  Server <- TwoServers
  Connected <- OneServer
  Worker = {1, 2}
  Namespace <- OneSpace
  Asked <- Cancelling
  Posted <- Nothing
  MaxChanges = 2
  MaxTime = 1
  KeepFor = 0
  MaxRestarts = 0
  MaxInFlight = 1
PROPERTY EventuallyForgotten
CHECK_DEADLOCK FALSE
