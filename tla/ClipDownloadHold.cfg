\* Two clips, one machine that may claim twice, one answer lost, one mishap.
SPECIFICATION Spec
CONSTANTS
  Clips = {1, 2}
  a = a
  t1 = t1
  Machines = {a}
  Tabs = {t1}
  Nobody = Nobody
  Streak = 2
  Presses = 1
  Stops = 0
  Claims = 2
  Resends = 1
  Mishaps = 1
CHECK_DEADLOCK FALSE
INVARIANTS TypeOK SettledUncrossed CountersTrue NoClipStranded OneExecutor BackForGood
