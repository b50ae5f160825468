SPECIFICATION ValidatorSpec
CONSTANTS
  Node <- MCNode
  Kind <- MCKind
  Kids <- MCKids
  Name <- MCName
  To <- MCTo
  NoName = ""
  Empty <- MCEmpty
  Ragged <- MCRagged
  Advs <- MCAllAdvs
  Variables = {"P", "Q"}
  MAX_NESTING_DEPTH = 16
  MaxIterations = 2
  Offers <- MCOffers
  Points <- MCPoints
  NoBox <- MCNoBox
  Evaluations = 2
INVARIANT ValidatorTypeOK
INVARIANT NamesFound
INVARIANT LimitPerCall
INVARIANT SampledInside
INVARIANT AcceptedIsUsable
INVARIANT RejectedForCause
PROPERTY Ends
PROPERTY ValidationEnds
\* A validator ends with its verdict.
CHECK_DEADLOCK FALSE
