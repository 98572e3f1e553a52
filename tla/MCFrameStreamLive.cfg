\* One layout, rings of one slot: every further frame overwrites the copy, and
\* there is no last frame.  Two segments on POSIX: the mapping may go stale.
SPECIFICATION LiveSpec
CONSTANTS
  Layouts = {l1}
  NoLayout = NoLayout
  NoCam = NoCam
  RING = 1
  Windows = FALSE
  PipeCap = 1
  MaxFrames = 8
  MaxSegments = 2
  MaxRestarts = 0
  Hwm = 1
  HasTimeout = TRUE
PROPERTY RecvReturns
