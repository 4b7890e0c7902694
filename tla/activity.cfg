\* Two starts of the activity, and so two tasks side by side: two of audio in
\* one behaviour, two of NTP in another; every failure; and the codec.
SPECIFICATION FairSpec
CONSTANTS
  BASE = 4
  MaxStarts = 2
  MaxQueue = 1
  MaxTrip = 1
  Skews <- MCSkews
  MaxSteps = 1
  MaxTime = 1
  Failures = {"socket", "location", "network"}
  Followed <- MCFollowed
INVARIANTS TypeOK LiveTaskHasRecorder OneLateRead OffsetAccurate MessagesSurvive
PROPERTIES TasksEnd
