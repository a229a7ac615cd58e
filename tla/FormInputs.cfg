SPECIFICATION FormSpec
CONSTANTS
  x1 = x1
  x2 = x2
  x3 = x3
  raw = raw
  none = none
  clean = clean
  Instant = {1, 2, 3, 4}
  DateText = {x1, x2, x3}
  Shown <- MCShown
  Parsed <- MCParsed
  UtcText <- MCUtcText
  Empty = Empty
  NotADate = NotADate
  None = None
  MaxPushes = 2
  Content = {raw, clean, none}
  NoContent = none
  Clean <- MCClean
INVARIANTS FormSendsShown
PROPERTIES EditsSurvivePatch
CHECK_DEADLOCK FALSE
