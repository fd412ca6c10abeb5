\* Four events for two overlapping workers, replies of two, at least two entries kept.
SPECIFICATION FairSpec
CONSTANTS
  Workers = {w1, w2}
  MaxEvents = 4
  MaxLen = 2
  Count = 2
INVARIANTS HandledOnce AckedWasHandled
PROPERTY EveryEventIsTried
CHECK_DEADLOCK FALSE
