\* One start, and a network that may lose a datagram: the clock cannot be
\* right when the offset is never measured again.
SPECIFICATION FairSpec
CONSTANTS
  BASE = 4
  MaxStarts = 1
  MaxQueue = 1
  MaxTrip = 1
  Skews <- MCSkews
  MaxSteps = 0
  MaxTime = 1
  Failures = {}
  Followed <- MCNtpOnly
PROPERTY SyncGoesOn
