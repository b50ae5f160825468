SPECIFICATION SafeSpec
CONSTANTS
  Ids <- MCIds
  Setpoints <- MCSetpoints
  Params <- MCParams
  Garbage = "garbage"
  Incomplete <- MCIncomplete
  Malformed = {}
  Rejected = {}
  Hanging = {}
  NumEndpoints <- MCEndpoints
  BufLen <- MCBufLen
  QueueCap = 2
  Arm = FALSE
  Custom = FALSE
  Debug = FALSE
  KeepRoot = TRUE
  Datagrams <- MCCut
  MaxArrivals <- Arrivals22
INVARIANT AdvsFresh
CHECK_DEADLOCK FALSE
