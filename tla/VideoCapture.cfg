\* Two modes, two processes at a time, three sessions.
CONSTANTS
  hd = hd
  sd = sd
  none = none
  p1 = p1
  p2 = p2
  Modes = {hd, sd}
  Default = hd
  None = none
  Pids = {p1, p2}
  MaxSessions = 3

SPECIFICATION FairSpec
INVARIANTS Consistent FallbackProven StopIsFinal
PROPERTIES AllSettles
CHECK_DEADLOCK FALSE
