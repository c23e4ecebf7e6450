SPECIFICATION Spec
CONSTANTS
  s1 = s1
  s2 = s2
  Server <- OneServer
  Connected <- OneServer
  Worker = {1, 2}
  Namespace <- OneSpace
  Asked <- Cancelling
  Posted <- Nothing
  MaxChanges = 4
  MaxTime = 1
  KeepFor = 1
  MaxRestarts = 0
  MaxInFlight = 9
PROPERTY CancelIsNoop
CHECK_DEADLOCK FALSE
