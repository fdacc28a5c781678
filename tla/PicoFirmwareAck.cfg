\* A button that is held and clicked.
CONSTANTS
  s1 = s1
  s2 = s2
  none = none
  junk = junk
  Junk = junk
  Sids = {s1, s2}
  NoSid = none
  Keys = {}
  Buttons = {"left"}
  Ops = {"session", "down", "up", "click"}
  Watchdogs = {1}
  MaxSeq = 3
  CacheSize = 2
  MaxPieces = 1
  MaxHeld = 2
  Loop = 1
  MaxTime = 1
SPECIFICATION Spec
PROPERTIES AckedDownIsDown
CHECK_DEADLOCK FALSE
