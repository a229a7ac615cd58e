\* A reading is sent again while its first request is under way.
SPECIFICATION Spec
CONSTANTS
  LastTime = 2
  MaxGauge = 2
  Requests = {r1, r2}
  Nil = Nil
SYMMETRY Symmetry
PROPERTIES
  ReplayKeepsInterval
