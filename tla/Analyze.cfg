CONSTANTS
  Matrices <- MCMatrices
  Formats <- MCFormats
  Renderings <- MCRenderings
  Rounds = 2
SPECIFICATION Spec
INVARIANTS WholeMatrix PublishesWhole
PROPERTIES NamesItsCause CancelEnds
CHECK_DEADLOCK FALSE
