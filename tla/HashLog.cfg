CONSTANTS
  N = 3
  Periods = {1, 2}
  PeakSpan = 1
  Word = 1023
  MaxSpeed = 2
  MaxTime = 5
  MaxRecs = 5
SPECIFICATION Spec
INVARIANT TypeOK
INVARIANT RateIsMeasured
INVARIANT PeakNotTooHigh
CHECK_DEADLOCK FALSE
