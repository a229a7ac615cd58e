CONSTANTS
  Product = {p1, p2}
  DefaultProduct = p1
  Period <- MCPeriod
  Window = 2
  PlayWindow = 1
  PlayMinFrames = 2
  Hour = 2
  None = None
  FirstFeed = 5
  LastFeed = 6
SPECIFICATION Spec
INVARIANTS TypeOK TimersFollowPage ShowsProduct
PROPERTIES StaysLive MapRefined Reconnects
CHECK_DEADLOCK FALSE
