\* A burst beside the heartbeat, whose numbers wrap, two sessions, one fault.
CONSTANTS
  text = text
  burst = burst
  release = release
  none = none
  Inputs = {burst}
  Batches = {burst}
  Size <- Reports
  Releases = {}
  None = none
  Modulus = 5
  CacheSize = 2
  MaxPending = 2
  Beating = TRUE
  MaxSessions = 2
  MaxFaults = 1
SPECIFICATION FairSpec
INVARIANTS AckedIsExecuted
PROPERTIES CallersReturn LostSessionNoticed
CHECK_DEADLOCK FALSE
