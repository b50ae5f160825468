SPECIFICATION Spec
CONSTANTS
  Costs <- MCCosts
  NaN = 9
  NearMinusOne <- MCNearMinusOne
  Hulls <- MCHulls
  Sizes = {1, 2}
INVARIANTS
  TypeOK
  PictureFaithful
PROPERTY
  Drawn
\* The picture is drawn, or the client or the server gives up.
CHECK_DEADLOCK FALSE
