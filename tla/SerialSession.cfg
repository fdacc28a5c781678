\* An emergency release beside a text and a burst, two sessions, one fault.
CONSTANTS
  text = text
  burst = burst
  release = release
  none = none
  Inputs = {text, burst}
  Batches = {burst}
  Size <- TextAndMove
  Releases = {release}
  None = none
  Modulus = 8
  CacheSize = 2
  MaxPending = 2
  Beating = FALSE
  MaxSessions = 2
  MaxFaults = 1
SPECIFICATION Spec
INVARIANTS AtMostOnce PublicOrder FreshReady FailClosed
PROPERTIES ReleaseIsFinal
CHECK_DEADLOCK FALSE
