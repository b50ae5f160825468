SPECIFICATION Spec
CONSTANTS
  Ids <- MCIds
  Setpoints <- MCSetpoints
  Params <- MCParams
  Garbage = "garbage"
  Incomplete <- MCIncomplete
  Malformed = {}
  Rejected = {"odd"}
  Hanging = {"p2"}
  NumEndpoints <- MCEndpoints
  BufLen <- MCBufLen
  QueueCap = 2
  Arm = FALSE
  Custom = TRUE
  Debug = TRUE
  KeepRoot = FALSE
  Datagrams <- MCCustom
  MaxArrivals <- Arrivals22
INVARIANT FanOut
PROPERTY RequestsRelayed
PROPERTY AdvsRelayed
CHECK_DEADLOCK FALSE
