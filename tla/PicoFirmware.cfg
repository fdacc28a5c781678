\* Two sessions, a key and a button, two sequence numbers and a cache of one.
CONSTANTS
  s1 = s1
  s2 = s2
  none = none
  junk = junk
  Junk = junk
  Sids = {s1, s2}
  NoSid = none
  Keys = {"K"}
  Buttons = {"left"}
  Ops = {"session", "ping", "release_all", "down", "up", "click", "type", "combo", "move"}
  Watchdogs = {1}
  MaxSeq = 2
  CacheSize = 1
  MaxPieces = 1
  MaxHeld = 2
  Loop = 1
  MaxTime = 5
SPECIFICATION Spec
INVARIANTS DownIsTracked LetGoInTime
CHECK_DEADLOCK FALSE
