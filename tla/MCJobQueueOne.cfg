SPECIFICATION Spec
CONSTANTS
  s1 = s1
  s2 = s2
  Server <- OneServer
  Connected <- OneServer
  Worker = {1, 2}
  Namespace <- OneSpace
  Asked <- TwoWorkers
  Posted <- Nothing
  MaxChanges = 6
  MaxTime = 1
  KeepFor = 1
  MaxRestarts = 1
  MaxInFlight = 9
INVARIANTS MemoryIsDatabase NotRunAgain
CHECK_DEADLOCK FALSE
