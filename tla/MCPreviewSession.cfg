\* Two masks, and frames before, in, and after the gap of a poll.
SPECIFICATION SessionSpec
CONSTANTS
  Masks = {m1, m2}
  NoMask = NoMask
  MaxFrames = 4
INVARIANTS
  LcdAsTold
  NewestOnPanel
  QuietAfterShutdown
PROPERTIES
  StreamReleased
\* A program that has ended stops.
CHECK_DEADLOCK FALSE
