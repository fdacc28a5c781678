\* Two keys typed ahead of a second arm.
CONSTANTS
  ctrl = ctrl
  esc = esc
  a = a
  left = left
  Keys = {ctrl, esc, a}
  Buttons = {left}
  Chord = {ctrl, esc}
  ReadEvents = 2
  MaxEvents = 4
  MaxArms = 2
  MaxFails = 0
SPECIFICATION Spec
PROPERTIES NothingFromBefore
CHECK_DEADLOCK FALSE
