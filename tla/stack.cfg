SPECIFICATION StackSpec
CONSTANTS
  p1 = p1
  p2 = p2
  p3 = p3
  Layouts <- TwoLayouts
  Heads = {a, b}
  Pushed = {p1}
  Unmarked = {p1}
  MemberRetries = 1
  TokenCap = TRUE
  MaxHandlers = 1
  MaxMoves = 1
  MaxUpsets = 1
  Jobs = {1, 2, 3}
  Concurrency = 2
CHECK_DEADLOCK FALSE
  
PROPERTIES SummaryIsSettled
