\* What a confirmed disarm says of the target.
CONSTANTS
  r1 = r1
  r2 = r2
  k1 = k1
  idler = idler
  dog = dog
  Requests = {r1, r2}
  Readers = {k1}
  IdleTask = idler
  Watchdog = dog
  Uses <- Confirm
  MaxLease = 2
SPECIFICATION Spec
PROPERTIES ConfirmedIsReleased
CHECK_DEADLOCK FALSE
