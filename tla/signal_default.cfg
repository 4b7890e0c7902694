\* Two handlers of one signal, deleted one after the other.
SPECIFICATION Spec
CONSTANTS
  c1 = c1
  c2 = c2
  none = none
  Fds = {}
  FdTypes = {"read"}
  FdCbs = {}
  NoHandler = none
  TimerCbs = {}
  Intervals = {}
  Signums = {2, 3}
  SigCbs = {c1, c2}
  SIGQUIT = 3
  on_sigquit = c2
  IdleTimeout = 1
  AllocFails = TRUE
  SelectFails = FALSE
  MaxFds = 0
  MaxTimers = 0
  MaxSigs = 3
  MaxTime = 0
  MaxSetbacks = 0
PROPERTIES DefaultRestored
