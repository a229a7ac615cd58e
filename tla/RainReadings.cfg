\* Two requests, every gauge of three instants, any order.
SPECIFICATION Spec
CONSTANTS
  LastTime = 3
  MaxGauge = 3
  Requests = {r1, r2}
  Nil = Nil
SYMMETRY Symmetry
INVARIANTS
  TypeOK
  EachRise
  RowIsDifference
  StateMatchesRows
