\* A webcam with auto and manual faults and a page of an admin, under fair scheduling.
SPECIFICATION FairSpec
CONSTANTS
  Stations = {}
  Webcams = {w1}
  Admins = {a1}
  ClearTasks = {c1}
  FaultId = {f1, f2, f3}
  Threshold = 1
  MaxLag = 0
  MaxAge = 2
  MaxAhead = 0
  MeasuredAges <- FreshOnly
  MaxManual = 1
  MaxCrashes = 0
  Nil = Nil
PROPERTIES
  ReportingDeviceClears
  SilentDeviceFaulted
  ManualResolvedByAdmin
