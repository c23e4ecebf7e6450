SPECIFICATION Spec
CONSTANTS
  s1 = s1
  s2 = s2
  Server <- TwoServers
  Connected <- TwoServers
  Worker = {1, 2}
  Namespace <- OneSpace
  Asked <- OneWorker
  Posted <- Submissions
  MaxChanges = 3
  MaxTime = 1
  KeepFor = 1
  MaxRestarts = 0
  MaxInFlight = 9
INVARIANT ToldIsStored
PROPERTY EventuallyAgree
CHECK_DEADLOCK FALSE
