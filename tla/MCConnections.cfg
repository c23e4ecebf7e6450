SPECIFICATION Spec
CONSTANTS
  Server = {s1, s2}
  Worker = {w}
  Queue <- Objects
  Socket = {1, 2, 3}
  s1 = s1
  s2 = s2
  None = None
  Unheard = Unheard
  World <- Worlds
  MaxTrouble = 1
  Browser = Browser
  MaxNews = 1
INVARIANTS TypeOK ViewsCatchUp
PROPERTIES LostOnlyIfUnlisted KnownAgain LostIsNoticed ClientsAreSwept
CHECK_DEADLOCK FALSE
