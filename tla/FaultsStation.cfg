\* A station whose sensors come and go, one crash, under fair scheduling.
SPECIFICATION FairSpec
CONSTANTS
  Stations = {s1}
  Webcams = {}
  Admins = {}
  ClearTasks = {c1}
  FaultId = {f1, f2}
  Threshold = 1
  MaxLag = 1
  MaxAge = 4
  MaxAhead = 1
  MeasuredAges <- AheadFreshAndOld
  MaxManual = 0
  MaxCrashes = 1
  Nil = Nil
INVARIANTS
  TypeOK
  AtMostOneActiveAuto
  BoundedBlindSpot
PROPERTIES
  ReportingDeviceClears
  SilentDeviceFaulted
