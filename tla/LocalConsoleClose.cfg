\* An operator who arms, records, looks at what is stored or saves a picture.
CONSTANTS
  i1 = i1
  i2 = i2
  Uses <- Sessions
  Media <- TwoItems
  None = None
  QueueSize = 2
  KeptJobs = 1
  MaxJobs = 2
  MaxReaders = 2
  MaxListers = 1
SPECIFICATION Spec
CHECK_DEADLOCK FALSE
INVARIANT ClosedIsDisarmed
