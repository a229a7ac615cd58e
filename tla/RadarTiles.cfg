SPECIFICATION Spec
CONSTANTS
  Product = {p1, p2}
  Time = {1, 2}
  Request = {r1, r2}
  CacheMax = 2
  None = None
INVARIANTS LayerShowsFrame TilesKept
PROPERTIES Answered
CHECK_DEADLOCK FALSE
