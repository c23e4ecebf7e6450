SPECIFICATION Spec
CONSTANTS
  s1 = s1
  s2 = s2
  Server <- TwoServers
  Connected <- TwoServers
  Worker = {1, 2}
  Namespace <- TwoSpaces
  Asked <- SharedDelete
  Posted <- Replacements
  MaxChanges = 5
  MaxTime = 0
  KeepFor = 0
  MaxRestarts = 1
  MaxInFlight = 9
CONSTRAINT OneSpeaks
INVARIANT TypeOK
PROPERTY ResultStands
CHECK_DEADLOCK FALSE
