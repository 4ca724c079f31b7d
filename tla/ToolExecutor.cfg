CONSTANTS
  MaxLoad = 3
  Turns <- MixedTurns
  SafeLimit = 2
SPECIFICATION FairSpec
INVARIANTS ExclusiveAlone OneExecution
PROPERTY TurnEnds
CHECK_DEADLOCK FALSE
