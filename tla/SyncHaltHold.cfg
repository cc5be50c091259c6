\* One project; two threads of clicks and replies, a restart, a refused call.
SPECIFICATION Spec
CONSTANTS
  f1 = f1
  f2 = f2
  tray = tray
  reporter = reporter
  Folders = {f1}
  Callers = {tray, reporter}
  Inherited = {"off"}
  Presses = 2
  Orders = 1
  Restarts = 1
  Failures = 1
  Slow = TRUE
SYMMETRY Symmetric
INVARIANTS
  TypeOK
  HaltHolds
  FilteredFirst
