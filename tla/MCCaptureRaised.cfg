\* The shortest plan: one capture, one run.
SPECIFICATION CallerSpec
SYMMETRY Symmetry
CONSTANTS
  NW = 1
  NM = 1
  StoreBurst = TRUE
  Shapes = {s1}
  NoShape = NoShape
  Metas = {m1}
  NoMeta = NoMeta
  MaxCalls = 1
  MaxRuns = 1
  RING = 2
  K = 2
  Discard = 1
  LcdSettle = 3
INVARIANT FailedRunsRejected
\* A finished run stops.
CHECK_DEADLOCK FALSE
