CONSTANTS
  m = m
  mt = mt
  e = e
  et = et
  d = d
  dt = dt
  fm = fm
  ft = ft
  fd = fd
  fe = fe
  None = None
  Package <- MCPackage
  File <- MCFile
  Imports <- MCImports
  Files <- MCFiles
  Content <- MCContent
  Main = {m, mt}
  Faults <- MCFaults
  Slots = 2
  Loads = 2
SPECIFICATION FairSpec
INVARIANTS LoadsComplete CheckedOnce
PROPERTIES EveryLoadEnds OneMoreUnderPressure
CHECK_DEADLOCK FALSE
