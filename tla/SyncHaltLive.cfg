\* One project, any halt the last process left; two threads of clicks and replies,
\* one click and one order of the administrator's.
SPECIFICATION FairSpec
CONSTANTS
  f1 = f1
  f2 = f2
  tray = tray
  reporter = reporter
  Folders = {f1}
  Callers = {tray, reporter}
  Inherited = {"off", "local", "fleet"}
  Presses = 1
  Orders = 1
  Restarts = 0
  Failures = 0
  Slow = TRUE
PROPERTIES
  FleetHaltReaches
  LaneCComesBack
