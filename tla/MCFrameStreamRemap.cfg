SPECIFICATION StreamSpec
SYMMETRY Symmetry
CONSTANTS
  Layouts = {l1, l2}
  NoLayout = NoLayout
  NoCam = NoCam
  RING = 2
  Windows = FALSE
  PipeCap = 1
  MaxFrames = 3
  MaxSegments = 2
  MaxRestarts = 0
  Hwm = 1
  HasTimeout = FALSE
INVARIANTS
  RejectedOnlyIfReused
CHECK_DEADLOCK FALSE
