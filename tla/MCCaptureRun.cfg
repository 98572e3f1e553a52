\* Two wavelengths and two masks, frames of two shapes and two metadata values,
\* a ring of two slots, one run and a second one with the same output.  Six
\* calls fill the four rows with two failures on the way.
SPECIFICATION CallerSpec
SYMMETRY Symmetry
CONSTANTS
  NW = 2
  NM = 2
  StoreBurst = TRUE
  Shapes = {s1, s2}
  NoShape = NoShape
  Metas = {m1, m2}
  NoMeta = NoMeta
  MaxCalls = 6
  MaxRuns = 2
  RING = 2
  K = 2
  Discard = 1
  LcdSettle = 3
INVARIANTS
  RunTypeOK
  CommittedRowsWhole
  FlagsTruthful
  FramesMatchPlan
  StatusNotAhead
  CompletedIsAccepted
  RaisedIsRejected
PROPERTY ImplementsLedger
\* A finished run stops.
CHECK_DEADLOCK FALSE
