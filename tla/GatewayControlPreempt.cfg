\* A late failure of one controller and the lease of the next one.
CONSTANTS
  r1 = r1
  r2 = r2
  k1 = k1
  idler = idler
  dog = dog
  Requests = {r1, r2}
  Readers = {}
  IdleTask = idler
  Watchdog = dog
  Uses <- Preempt
  MaxLease = 2
SPECIFICATION Spec
PROPERTIES NoSilentPreemption
