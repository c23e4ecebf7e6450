SPECIFICATION Spec
CONSTANTS
  s1 = s1
  s2 = s2
  Server <- TwoServers
  Worker <- TwoWorkers
  Time <- TwoTimes
  Why <- Worth
  MaxChanges = 2
INVARIANTS
  TypeOK
  NothingBetterInFlight
PROPERTIES
  NeverBack
  EventuallyAgree
