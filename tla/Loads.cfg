CONSTANTS
  N = 3
  Tree = {t1, t2}
  NoTree = NoTree
SPECIFICATION LoadsFairSpec
INVARIANTS OneUnderPressure SameAsFirst
PROPERTIES ShedNeverWaits
CHECK_DEADLOCK FALSE
