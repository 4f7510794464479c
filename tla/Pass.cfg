CONSTANTS
  r = r
  h = h
  k = k
  t = t
  None = None
  Symbol <- MCSymbol
  Inputs <- MCAllInputs
SPECIFICATION FairSpec
INVARIANTS PathsEnd
PROPERTIES ImplementsReachability Terminates
CHECK_DEADLOCK FALSE
