\* A burst takes longer than the interval of the timer.
SPECIFICATION Spec
CONSTANTS
  Interval = 3
  POOL_SIZE = 2
  MaxTrip = 2
  Skews = {0}
  MaxFaults = 0
  MaxTime = 9
PROPERTIES OriginateMatches
