CONSTANTS
  Outside = Outside
  Symbol <- MCSymbol
  Sweeps <- MCSweeps
  Dependents <- MCDependents
SPECIFICATION Spec
INVARIANTS CyclesOrdered ComponentsDeletable
CHECK_DEADLOCK FALSE
