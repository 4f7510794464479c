CONSTANTS
  Symbol <- MCSymbol
  Outside = Outside
  None = None
  RowOf <- MCRowOf
  Trees <- MCTrees
  Slips <- MCSlips
  MaxEdits = 1
  MaxRounds = 5
SPECIFICATION Spec
CHECK_DEADLOCK FALSE
INVARIANTS ReportsWhole SettlesUnlessHelped Adjudicated
