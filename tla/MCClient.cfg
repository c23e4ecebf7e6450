SPECIFICATION Spec
CONSTANTS
  a = a
  b = b
  None = None
  Hash = {a, b}
  World <- Worlds
  Results = {"Success"}
INVARIANT TypeOK
PROPERTIES ShowsTheResult CancelStandsUntilActedOn CancelReachesServer SubmissionIsNotLost
CHECK_DEADLOCK FALSE
