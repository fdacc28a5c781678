\* Two concurrent HTTP requests, built-in controls disabled (the default).
CONSTANTS
  r1 = r1
  r2 = r2
  k1 = k1
  idler = idler
  dog = dog
  Requests = {r1, r2}
  Readers = {}
  IdleTask = idler
  Watchdog = dog
  Uses <- Http
  MaxLease = 2
SPECIFICATION FairSpec
INVARIANTS ReleaseOnRecord
PROPERTIES FencedSend Answered DeadmanReleases
