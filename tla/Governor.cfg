CONSTANTS
  Demands <- MCDemands
  CacheSizes <- MCCacheSizes
  Slacks <- MCSlacks
  Rooms <- MCRooms
  Limits <- MCLimits
SPECIFICATION GovernorFairSpec
INVARIANTS HonestAndStopped
PROPERTIES ImplementsPressure StopReturns
CHECK_DEADLOCK FALSE
