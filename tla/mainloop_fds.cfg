\* The descriptor table and its dispatch.  Every poll returns to the caller
\* or runs under mainloop_run; allocation and select may fail.
SPECIFICATION Spec
CONSTANTS
  c1 = c1
  c2 = c2
  none = none
  Fds = {1, 2}
  FdTypes = {"read", "write"}
  FdCbs = {c1, none}
  NoHandler = none
  TimerCbs = {}
  Intervals = {}
  Signums = {3}
  SigCbs = {c2}
  SIGQUIT = 3
  on_sigquit = c2
  IdleTimeout = 0
  AllocFails = TRUE
  SelectFails = TRUE
  MaxFds = 3
  MaxTimers = 0
  MaxSigs = 0
  MaxTime = 0
  MaxSetbacks = 0
INVARIANTS UniqueLiveFd
PROPERTIES NoStaleDispatch
