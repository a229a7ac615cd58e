SPECIFICATION Spec
CONSTANTS
  s1 = s1
  s2 = s2
  Source = {s1, s2}
  Sites <- MCSites
  Networks <- MCNetworks
  Types = {"temperature", "humidity"}
  Colors = 1
  Ranges = {1, 3}
  DefaultRange = 3
  Recent = 1
  LiveSlack = 2
  Gap = 1
  MaxPoints = 2
  FirstTime = 4
  LastTime = 5
  Earliest = 3
  MaxAhead = 1
  MaxReadings <- MCMaxReadings
  MaxMail = 1
  MaxNotes = 2
INVARIANTS DrawingIsRight ShowsChoice NothingMissing
