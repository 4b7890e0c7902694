\* Two callbacks that add, delete and reschedule up to three timer nodes, and
\* a wall clock that may be set back once.
SPECIFICATION Spec
CONSTANTS
  c1 = c1
  c2 = c2
  none = none
  Fds = {}
  FdTypes = {"read"}
  FdCbs = {}
  NoHandler = none
  TimerCbs = {c1, c2}
  Intervals = {0, 2}
  Signums = {3}
  SigCbs = {none}
  SIGQUIT = 3
  on_sigquit = none
  IdleTimeout = 1
  AllocFails = FALSE
  SelectFails = FALSE
  MaxFds = 0
  MaxTimers = 3
  MaxSigs = 0
  MaxTime = 3
  MaxSetbacks = 1
SYMMETRY CbSymmetry
INVARIANTS TypeOK OneLiveTimer TimersSorted SelectCoversTimers FiredIsFreed
PROPERTIES SteadyRescheduleKept TimersAsPromised
