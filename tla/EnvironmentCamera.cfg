\* Two browsers, one of four pairs of wishes; one reboot, one fault.
CONSTANTS
  b1 = b1
  b2 = b2
  Browsers <- TwoBrowsers
  Wishes <- Asked
  StatusLoop = StatusLoop
  StreamLoop = StreamLoop
  None = None
  MaxViewers = 1
  BootEnabled = TRUE
  MaxBoots = 2
  MaxGeneration = 3
  MaxFaults = 1
SPECIFICATION Spec
CHECK_DEADLOCK FALSE
INVARIANT ViewIsCurrent
PROPERTIES GenerationNamesOne NoChangeLost Converges
