\* One clip, a press and a retry, one stop, one claim and one mishap.
SPECIFICATION FairSpec
CONSTANTS
  Clips = {1}
  a = a
  t1 = t1
  Machines = {a}
  Tabs = {t1}
  Nobody = Nobody
  Streak = 1
  Presses = 2
  Stops = 1
  Claims = 1
  Resends = 0
  Mishaps = 1
CHECK_DEADLOCK FALSE
PROPERTIES DownloadEnds
