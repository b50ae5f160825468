SPECIFICATION Spec
CONSTANTS
  W = 2
  MaxRun = 2
  Messages <- MCMessages
  BufSizes = {0, 5, 9}
INVARIANT TypeOK
INVARIANT Exact
INVARIANT Delivered
PROPERTY RetrySucceeds
CHECK_DEADLOCK FALSE
