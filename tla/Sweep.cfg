CONSTANTS
  m = m
  d = d
  t = t
  u = u
  Outside = Outside
  Symbol <- MCSymbol
  Sweeps <- MCSweeps
SPECIFICATION Spec
INVARIANTS TiersAnswer JudgedWithdrawn DeletesSafely
CHECK_DEADLOCK FALSE
