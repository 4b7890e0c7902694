\* The liveness of the loop.  Two signals, one of them SIGQUIT, with up to two
\* registrations; and, at other times, up to three timer nodes of two callbacks
\* with a wall clock that may be set back once.  Allocation may fail, also that
\* of mainloop_run's own handler.  No descriptors.
SPECIFICATION FairSpec
CONSTANTS
  c1 = c1
  c2 = c2
  none = none
  Fds = {}
  FdTypes = {"read"}
  FdCbs = {}
  NoHandler = none
  TimerCbs = {c1, c2}
  Intervals = {1}
  Signums = {2, 3}
  SigCbs = {c1, c2}
  SIGQUIT = 3
  on_sigquit = c2
  IdleTimeout = 1
  AllocFails = TRUE
  SelectFails = FALSE
  MaxFds = 0
  MaxTimers = 3
  MaxSigs = 2
  MaxTime = 2
  MaxSetbacks = 1
ACTION_CONSTRAINT StaysSeparate
INVARIANTS CaughtWhileLive
PROPERTIES SignalHandled StopEndsRun DueTimerFires
