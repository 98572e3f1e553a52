\* One layout: a second ring comes from reopening the camera.
SPECIFICATION StreamSpec
CONSTANTS
  Layouts = {l1}
  NoLayout = NoLayout
  NoCam = NoCam
  RING = 2
  Windows = TRUE
  PipeCap = 1
  MaxFrames = 4
  MaxSegments = 2
  MaxRestarts = 0
  Hwm = 1
  HasTimeout = TRUE
INVARIANTS
  StreamTypeOK
  RecentFramesIntact
  DeliveredWhole
  BoundedStaleness
  RejectedOnlyIfReused
