\* Bursts of three exchanges over a lossy network, and one fault: the client's
\* clock is stepped, forwards or backwards, or a datagram is duplicated.
SPECIFICATION FairSpec
CONSTANTS
  Interval = 3
  POOL_SIZE = 2
  MaxTrip = 1
  Skews <- MCSkews
  MaxFaults = 1
  MaxTime = 9
INVARIANTS TypeOK PoolRecovers ClockOffsetAccurate
PROPERTIES BurstsDoNotOverlap LossIsRetried
