\* One GUI, one script, both may launch; two Python commands.
SPECIFICATION LifeSpec
CONSTANTS
  Guis = {"gui"}
  Scripts = {"script"}
  AutoSidecar = {"gui", "script"}
  Candidates = 2
  Nobody = "nobody"
  MaxProcs = 2
  MaxInbox = 1
INVARIANTS
  OwnedIsAccounted
  CameraReleased
CHECK_DEADLOCK FALSE
