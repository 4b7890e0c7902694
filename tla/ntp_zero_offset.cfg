\* The clocks agree, and the network takes no measurable time.
SPECIFICATION Spec
CONSTANTS
  Interval = 3
  POOL_SIZE = 2
  MaxTrip = 1
  Skews = {0}
  MaxFaults = 0
  MaxTime = 9
INVARIANTS AverageOfMeasured
