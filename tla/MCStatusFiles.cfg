\* A mask and the next, so that a progress can count ahead of the one shown.
SPECIFICATION StatusSpec
CONSTANTS
  Windows = TRUE
  MaxShown = 2
INVARIANTS
  SettledPreview
  ImageNotOlderThanState
  FrameNotOlderThanStats
  MaskNotOlderThanProgress
