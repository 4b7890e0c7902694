\* A periodic timer when the wall clock is set back while its handler runs.
SPECIFICATION Spec
CONSTANTS
  c1 = c1
  c2 = c2
  none = none
  Fds = {}
  FdTypes = {"read"}
  FdCbs = {}
  NoHandler = none
  TimerCbs = {c1, c2}
  Intervals = {2}
  Signums = {3}
  SigCbs = {none}
  SIGQUIT = 3
  on_sigquit = none
  IdleTimeout = 1
  AllocFails = FALSE
  SelectFails = FALSE
  MaxFds = 0
  MaxTimers = 2
  MaxSigs = 0
  MaxTime = 3
  MaxSetbacks = 1
PROPERTIES RescheduleKept
