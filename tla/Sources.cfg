CONSTANTS
  Reader = {r1, r2, r3}
  Package = {p1, p2}
  MaxReads = 4
  Nobody = Nobody
SPECIFICATION SourcesFairSpec
INVARIANTS NoneUnderPressure ReadOnce
PROPERTIES WaitersWake
CHECK_DEADLOCK FALSE
