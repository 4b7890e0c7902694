\* Blocks of two samples, a pipe for one, two blocks and a half in all; a
\* clock that may be set back once.
SPECIFICATION FairSpec
CONSTANTS
  BACKOFF = 2
  BLOCKSIZE = 2
  PipeSize = 1
  MaxSamples = 5
  PingInterval = 1
  NtpInterval = 1
  DspSize = 1
  Delivered = {"SIGTERM", "SIGQUIT"}
  MaxSetbacks = 1
  MaxTime = 2
INVARIANTS TypeOK SamplesInOrder TimersKept ReportsOncePerBackoff LastingNoiseReportedOnce
PROPERTIES CaptureGoesOn SignalEndsRun DueTimerServed
