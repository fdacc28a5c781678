\* Four events, two arms, one failure.
CONSTANTS
  ctrl = ctrl
  esc = esc
  a = a
  left = left
  Keys = {ctrl, esc, a}
  Buttons = {left}
  Chord = {ctrl, esc}
  ReadEvents = 2
  MaxEvents = 4
  MaxArms = 2
  MaxFails = 1
SPECIFICATION FairSpec
INVARIANTS AllOrNothing DownIsHeld ChordNeverWhole LeaseOnItsWayBack
CHECK_DEADLOCK FALSE
PROPERTIES LetGoWhenReleased
