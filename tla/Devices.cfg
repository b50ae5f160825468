SPECIFICATION DevicesSpec
CONSTANTS
  Orders <- MCOrders
  Grid <- MCGrid
  PointLists <- MCPointLists
  Profiles <- MCProfiles
  Steps <- MCSteps
  Errors <- MCErrors
  Powers <- MCPowers
  Inf = 99
INVARIANTS
  DevicesTypeOK
  NearestPoint
  NearestStep
  Handled
  ProfileMeant
  ResponsesBelieved
  HullHolds
  
\* An order is refused, or boxed once.
CHECK_DEADLOCK FALSE
