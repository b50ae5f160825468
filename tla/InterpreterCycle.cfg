SPECIFICATION Spec
CONSTANTS
  Node <- MCNode
  Kind <- MCKind
  Kids <- MCKids
  Name <- MCName
  To <- MCTo
  NoName = ""
  Empty <- MCEmpty
  Ragged <- MCRagged
  Advs <- MCCyclic
  Variables = {"P"}
  MAX_NESTING_DEPTH = 12
  MaxIterations = 2
PROPERTY Ends
CHECK_DEADLOCK FALSE
