SPECIFICATION Spec
CONSTANTS
  MaxCalls = 3
  MaxStops = 1
  MaxConf = 2
CHECK_DEADLOCK FALSE
INVARIANTS TimersAreWanted ReadyIsUp ConfIsSaved StopReaps
PROPERTIES StartsAnswer Retries
