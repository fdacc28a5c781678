\* A plain key while half of the chord is down.
CONSTANTS
  ctrl = ctrl
  esc = esc
  a = a
  left = left
  Keys = {ctrl, esc, a}
  Buttons = {left}
  Chord = {ctrl, esc}
  ReadEvents = 2
  MaxEvents = 4
  MaxArms = 1
  MaxFails = 0
SPECIFICATION Spec
PROPERTIES ChordStaysHome
CHECK_DEADLOCK FALSE
