CONSTANTS
  Symbol <- MCSymbol
  Outside = Outside
  None = None
  RowOf <- MCRowOf
  Trees <- Helpers
  Slips <- NoSlips
  MaxEdits = 1
  MaxRounds = 5
SPECIFICATION Spec
CHECK_DEADLOCK FALSE
INVARIANTS BaselineSettles
