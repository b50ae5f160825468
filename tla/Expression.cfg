SPECIFICATION Spec
CONSTANTS
  Starts <- MCStarts
  VarNames <- MCVarNames
  ByteValues = 4
  IntValues = 32
  Overflow <- MCOverflow
  MAX_NESTING_DEPTH = 12
  Unary <- UnaryOps
  Binary <- BinaryOps
  Listed <- ListedOps
  Places <- MCPlaces
INVARIANTS
  TypeOK
  ValueMeant
  DerivativeMeant
\* One answer per expression and point.
CHECK_DEADLOCK FALSE
