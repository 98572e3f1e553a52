\* Two ids of either kind, two pupils, two bands, four profiles: two of a pupil
\* and the two camera profiles a survey rests on.
SPECIFICATION MCSpec
SYMMETRY Symmetry
CONSTANTS
  GainPlans <- MCGainPlans
  Config <- MCConfig
  ApiBounds <- MCApiBounds
  Iterations = 2
  Grid <- MCGrid
  MaxSignal = 1
  CameraIds = {c1, c2}
  PupilIds = {p1, p2}
  None = None
  Apertures = {a1, a2}
  BandPlans <- MCBandPlans
  CapturePlans <- MCCapturePlans
  MaxFiles = 4
INVARIANTS
  SearchTypeOK
  NoCrossing
  PublishedIsTight
  ReturnedHasProfile
  RecommendedIsPublished
  PupilScannedAsCalibrated
  SurveyIsCalibrated
\* After the survey there is nothing left to do.
CHECK_DEADLOCK FALSE
