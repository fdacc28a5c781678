\* The built-in controls beside one HTTP request at a time of any kind, or
\* beside two that claim, arm and switch the capture mode.
CONSTANTS
  r1 = r1
  r2 = r2
  k1 = k1
  idler = idler
  dog = dog
  Requests = {r1, r2}
  Readers = {k1}
  IdleTask = idler
  Watchdog = dog
  Uses <- Local
  MaxLease = 2
SPECIFICATION Spec
INVARIANTS SingleHand LocalLeaseKnown ArmedExclusive EyesBeforeHands
CHECK_DEADLOCK FALSE
