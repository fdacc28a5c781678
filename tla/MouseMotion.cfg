\* Movements at the edges of a report, a burst and the accumulator.
CONSTANTS
  ReportLimit = 4
  BatchLimit = 2
  AxisLimit = 8
  WheelLimit = 4
  MotionLimit = 19
  Deltas <- Few
  Requests <- Asked
SPECIFICATION MotionSpec
INVARIANTS MovesArriveWhole
