CONSTANTS
  Junk = Junk
  NBufs = 4
  Cap = 3
  BioCap = 4
  Sizes = {1, 2, 4}
  HelloSize = 2
  MaxMsgs = 2
SPECIFICATION FairSpec
CHECK_DEADLOCK FALSE
INVARIANT TypeOK
INVARIANT HandledInOrder
INVARIANT PoliteIsUnderstood
INVARIANT NoLineWaits
INVARIANT LinkHolds
PROPERTY GetsThrough
PROPERTY GivenUpIsClosed
