CONSTANTS
  MaxSubmits = 3
SPECIFICATION Spec
INVARIANTS
  TypeOK
  OneSession
  ActiveDataIsWatched
PROPERTIES
  EveryAttemptIsDecided
CHECK_DEADLOCK FALSE
