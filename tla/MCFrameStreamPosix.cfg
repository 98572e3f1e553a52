\* Two layouts, so that a slot can be decoded with the wrong one, and a restart,
\* so that a killed sidecar can leave a segment behind.
SPECIFICATION StreamSpec
SYMMETRY Symmetry
CONSTANTS
  Layouts = {l1, l2}
  NoLayout = NoLayout
  NoCam = NoCam
  RING = 1
  Windows = FALSE
  PipeCap = 1
  MaxFrames = 2
  MaxSegments = 2
  MaxRestarts = 1
  Hwm = 1
  HasTimeout = FALSE
INVARIANTS
  RunningHasRing
  RingMatchesLayout
  NotesTruthful
  ShutdownReleases
PROPERTY ImplementsDelivery
\* A reader without a timeout may wait for ever.
CHECK_DEADLOCK FALSE
