SPECIFICATION Spec
CONSTANTS
  Ids <- MCIds
  Setpoints <- MCSetpoints
  Params <- MCParams
  Garbage = "garbage"
  Incomplete <- MCIncomplete
  Malformed = {"mistyped"}
  Rejected = {"odd"}
  Hanging = {}
  NumEndpoints <- MCEndpoints
  BufLen <- MCBufLen
  QueueCap = 2
  Arm = TRUE
  Custom = FALSE
  Debug = TRUE
  KeepRoot = FALSE
  Datagrams <- MCWhole
  MaxArrivals <- Arrivals22
INVARIANT TypeOK
INVARIANT FanOut
INVARIANT RequestsFresh
PROPERTY RequestsRelayed
PROPERTY AdvsRelayed
PROPERTY FailSeparately
PROPERTY Served
CHECK_DEADLOCK FALSE
