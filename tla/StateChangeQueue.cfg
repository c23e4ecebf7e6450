SPECIFICATION Spec
CONSTANT MaxAsked = 7
INVARIANT OneAtATime
PROPERTIES ImplementsInTurn EveryChangeIsMade
CHECK_DEADLOCK FALSE
