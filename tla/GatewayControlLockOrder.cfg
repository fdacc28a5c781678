\* Arming and forwarding take control_gate and the event lock in opposite orders.
CONSTANTS
  r1 = r1
  r2 = r2
  k1 = k1
  idler = idler
  dog = dog
  Requests = {r1, r2}
  Readers = {k1}
  IdleTask = idler
  Watchdog = dog
  Uses <- LockOrder
  MaxLease = 1
SPECIFICATION FairSpec
PROPERTIES EmergencyAnswered
CHECK_DEADLOCK FALSE
