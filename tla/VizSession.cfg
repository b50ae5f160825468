SPECIFICATION Spec
CONSTANT Timeout = 3
INVARIANT TypeOK
INVARIANT Watched
PROPERTY CutOnlyLate
PROPERTY Concludes
CHECK_DEADLOCK FALSE
