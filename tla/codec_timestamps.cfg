\* What encodeTimestamp makes of times before and after the wrap of 2036.
SPECIFICATION Spec
CONSTANTS
  BASE = 4
  MaxStarts = 1
  MaxQueue = 1
  MaxTrip = 1
  Skews <- MCSkews
  MaxSteps = 0
  MaxTime = 1
  Failures = {}
  Followed <- MCNtpOnly
INVARIANTS EncodesTimestamps
