\* A handler error and the retry that the comments promise.
SPECIFICATION FairSpec
CONSTANTS
  Workers = {w1}
  MaxEvents = 2
  MaxLen = 2
  Count = 2
PROPERTY FailedIsRetried
CHECK_DEADLOCK FALSE
